-------------------------- MODULE ConntrackProofs --------------------------
(***************************************************************************)
(* Proofs about Conntrack, for any callers, addresses and sockets and any  *)
(* size of the pool.                                                       *)
(***************************************************************************)
EXTENDS Conntrack, SequenceTheorems, FiniteSetTheorems, TLAPS

-----------------------------------------------------------------------------
(* The inductive invariant.                                                *)

\* Requests that were sent on a socket and whose ack has not been read.
Sent(s) == wire[s] \cup {ack.req : ack \in acks[s]}

(* A call has a socket while it waits for replies, and a closed socket has *)
(* no replies.                                                             *)
SocketUse ==
  /\ \A c \in Caller : call[c].sock # None <=> At(c, "recv")
  /\ \A s \in Sock : s \notin live => acks[s] = {}

(* A request without an answer is one its call waits for, on its socket,   *)
(* or was left behind by a call that failed; it is answered at most once.  *)
RequestsKnown ==
  /\ \A s \in Sock : \A req \in Sent(s) :
       \/ At(req.caller, "idle")
       \/ /\ At(req.caller, "recv") /\ call[req.caller].sock = s
          /\ req.dst \in call[req.caller].index
  /\ \A s \in Sock : \A ack \in acks[s] :
       ack.req \notin wire[s] /\ \A other \in acks[s] : other.req = ack.req => other = ack

\* What an errno says of the entry of an address.
Says(c, a, errno) ==
  /\ errno = "ok" => a \in reached[c]
  /\ errno = "ENOENT" => a \notin reached[c] /\ a \notin due[c]

(* Answers, read or not, tell what the requests have done.                 *)
AnswersTrue ==
  \A c \in Caller :
    /\ ~At(c, "recv") => reached[c] = {}
    /\ At(c, "recv") =>
         /\ call[c].index \subseteq call[c].dsts /\ reached[c] \subseteq call[c].dsts
         /\ \A a \in call[c].dsts \ call[c].index : Says(c, a, call[c].results[a])
         /\ \A req \in wire[call[c].sock] : req.dst \notin reached[c]
         /\ \A ack \in acks[call[c].sock] : Says(c, ack.req.dst, ack.errno)

(* What a call must find is there, and it looks for it.                    *)
DueIsTried ==
  \A c \in Caller :
    /\ due[c] \subseteq entry
    /\ At(c, "addrs") =>
         /\ call[c].dst = AnyAddr
         /\ due[c] \subseteq call[c].family /\ due[c] \subseteq assigned
         /\ addrs # None /\ ~stale => due[c] \subseteq addrs
    /\ At(c, "socket") \/ At(c, "recv") => due[c] \subseteq call[c].dsts

CtInv ==
  /\ CtTypeOK
  /\ SocketUse /\ SocketsAccounted /\ NoLateReplies
  /\ RequestsKnown /\ AnswersTrue /\ DueIsTried

-----------------------------------------------------------------------------
(* Types, and the two parts of SocketsAccounted that are about one table.  *)

Calls ==
  [pc : {"idle", "addrs", "socket", "recv"},
   family : Family, dst : Addr \cup {AnyAddr}, dsts : SUBSET Addr,
   sock : Sock \cup {None}, index : SUBSET Addr,
   results : [Addr -> Errno], out : {"none", "ok", "missing", "error"}]

PoolDistinct == \A i, j \in 1..Len(sockets) : sockets[i] = sockets[j] => i = j

OneSocketEach ==
  \A c, d \in Caller : call[c].sock = call[d].sock /\ call[c].sock # None => c = d

LEMMA CallTypes ==
  ASSUME CtTypeOK, NEW c \in Caller
  PROVE  /\ call \in [Caller -> Calls] /\ call[c] \in Calls
         /\ call[c].pc \in {"idle", "addrs", "socket", "recv"}
         /\ call[c].family \subseteq Addr /\ call[c].family \in Family
         /\ call[c].dst \in Addr \cup {AnyAddr}
         /\ call[c].dsts \subseteq Addr /\ call[c].index \subseteq Addr
         /\ call[c].sock \in Sock \cup {None}
         /\ call[c].results \in [Addr -> Errno]
BY ConntrackAssumption DEF CtTypeOK, Calls, Family

LEMMA NoCallType ==
  ASSUME NEW out \in {"none", "ok", "missing", "error"}
  PROVE  NoCall(out) \in Calls /\ NoErrors \in [Addr -> Errno]
BY DEF NoCall, Calls, Family, NoErrors, Errno

LEMMA SockIsReal ==
  ASSUME CtInv, NEW c \in Caller, At(c, "recv")
  PROVE  /\ call[c].sock \in Sock /\ call[c].sock # None
         /\ call[c].sock \in Held /\ call[c].sock \in live /\ call[c].sock \notin Pooled
<1>1. call[c].sock \in Sock /\ call[c].sock # None
  BY CallTypes DEF CtInv, SocketUse
<1>2. call[c].sock \in Held
  BY <1>1 DEF Held
<1> QED
  BY <1>1, <1>2 DEF CtInv, SocketsAccounted

(* The pool as a channel: what a receive and a send do to it.              *)
LEMMA PoolTail ==
  ASSUME sockets \in Seq(Sock), sockets # <<>>, PoolDistinct, sockets' = Tail(sockets)
  PROVE  /\ sockets' \in Seq(Sock) /\ Len(sockets') <= Len(sockets)
         /\ Head(sockets) \in Pooled /\ Pooled' = Pooled \ {Head(sockets)}
         /\ PoolDistinct'
<1>1. /\ sockets' \in Seq(Sock) /\ Len(sockets) \in Nat /\ Len(sockets) >= 1
      /\ Len(sockets') = Len(sockets) - 1
      /\ Head(sockets) = sockets[1]
      /\ \A i \in 1..Len(sockets') : sockets'[i] = sockets[i + 1]
  BY HeadTailProperties
<1>2. PoolDistinct'
  BY <1>1 DEF PoolDistinct
<1>3. Head(sockets) \in Pooled
  BY <1>1 DEF Pooled
<1>4. ASSUME NEW i \in 1..Len(sockets')
      PROVE  sockets'[i] \in Pooled /\ sockets'[i] # Head(sockets)
  BY <1>1 DEF Pooled, PoolDistinct
<1>5. ASSUME NEW i \in 1..Len(sockets), sockets[i] # Head(sockets)
      PROVE  sockets[i] \in Pooled'
  <2>1. i - 1 \in 1..Len(sockets') /\ (i - 1) + 1 = i
    BY <1>1, <1>5
  <2>2. sockets'[i - 1] = sockets[i]
    BY <1>1, <2>1
  <2> QED
    BY <2>1, <2>2 DEF Pooled
<1>6. Pooled' = Pooled \ {Head(sockets)}
  BY <1>4, <1>5 DEF Pooled
<1> QED
  BY <1>1, <1>2, <1>3, <1>6

LEMMA PoolAppend ==
  ASSUME sockets \in Seq(Sock), PoolDistinct, NEW s \in Sock, s \notin Pooled,
         sockets' = Append(sockets, s)
  PROVE  /\ sockets' \in Seq(Sock) /\ Len(sockets') = Len(sockets) + 1
         /\ Pooled' = Pooled \cup {s} /\ PoolDistinct'
<1>1. /\ sockets' \in Seq(Sock) /\ Len(sockets) \in Nat
      /\ Len(sockets') = Len(sockets) + 1
      /\ \A i \in 1..Len(sockets) : sockets'[i] = sockets[i]
      /\ sockets'[Len(sockets) + 1] = s
  BY AppendProperties
<1>2. Pooled' = Pooled \cup {s}
  BY <1>1 DEF Pooled
<1>3. PoolDistinct'
  BY <1>1 DEF PoolDistinct, Pooled
<1> QED
  BY <1>1, <1>2, <1>3

(* The sockets in use when a call returns, and when it takes one.          *)
LEMMA HeldAfterReturn ==
  ASSUME CtInv, NEW c \in Caller, NEW out, Return(c, out)
  PROVE  /\ Held' = Held \ {call[c].sock} /\ OneSocketEach'
         /\ \A d \in Caller : d # c => call'[d] = call[d]
         /\ call'[c] = NoCall(out)
<1>1. /\ \A d \in Caller : d # c => call'[d] = call[d]
      /\ call'[c] = NoCall(out) /\ call'[c].sock = None
  BY CallTypes DEF Return, CtInv, NoCall
<1>2. OneSocketEach'
  BY <1>1 DEF CtInv, SocketsAccounted, OneSocketEach
<1>3. Held' = Held \ {call[c].sock}
  <2>1. ASSUME NEW d \in Caller, call'[d].sock # None
        PROVE  call'[d].sock \in Held \ {call[c].sock}
    BY <1>1, <2>1 DEF Held, CtInv, SocketsAccounted
  <2>2. ASSUME NEW d \in Caller, call[d].sock # None, call[d].sock # call[c].sock
        PROVE  call[d].sock \in Held'
    BY <1>1, <2>2 DEF Held
  <2> QED
    BY <2>1, <2>2 DEF Held
<1> QED
  BY <1>1, <1>2, <1>3

LEMMA SameSockets ==
  ASSUME SocketsAccounted, \A d \in Caller : call'[d].sock = call[d].sock,
         live' = live, sockets' = sockets
  PROVE  SocketsAccounted'
<1>1. Held' = Held
  BY DEF Held
<1>2. Pooled' = Pooled
  BY DEF Pooled
<1> QED
  BY <1>1, <1>2 DEF SocketsAccounted

(* A call returns: the invariant holds if the sockets are in order.  What  *)
(* the call has sent and not read is left behind by an idle caller.        *)
LEMMA ReturnInv ==
  ASSUME CtInv, NEW c \in Caller, NEW out \in {"ok", "missing", "error"}, Return(c, out),
         UNCHANGED <<kernelVars, wire, addrs, stale>>,
         acks' \in [Sock -> SUBSET Ack], \A s \in Sock : acks'[s] \subseteq acks[s],
         live' \subseteq Sock, \A s \in Sock : s \notin live' => acks'[s] = {},
         sockets' \in Seq(Sock), Len(sockets') <= PoolSize, PoolDistinct',
         live' = Held' \cup Pooled', Held' \cap Pooled' = {},
         \A s \in Pooled' : wire[s] = {} /\ acks'[s] = {}
  PROVE  CtInv'
<1> USE DEF kernelVars
<1>0. /\ \A d \in Caller : d # c => call'[d] = call[d]
      /\ call'[c] = NoCall(out) /\ OneSocketEach'
  BY HeldAfterReturn
<1>1. /\ call'[c].pc = "idle" /\ call'[c].sock = None
      /\ reached'[c] = {} /\ due'[c] = {}
      /\ \A d \in Caller : d # c => reached'[d] = reached[d] /\ due'[d] = due[d]
  BY <1>0 DEF Return, NoCall, CtInv, CtTypeOK
<1>2. CtTypeOK'
  <2>1. call' \in [Caller -> Calls]
    BY CallTypes, NoCallType DEF CtInv, Return
  <2>2. reached' \in [Caller -> SUBSET Addr] /\ due' \in [Caller -> SUBSET Addr]
    BY DEF CtInv, CtTypeOK, Return
  <2> QED
    BY <2>1, <2>2 DEF CtInv, CtTypeOK, Calls
<1>3. SocketUse'
  <2>1. ASSUME NEW d \in Caller
        PROVE  call'[d].sock # None <=> call'[d].pc = "recv"
    <3>1. CASE d = c
      BY <3>1, <1>1
    <3>2. CASE d # c
      BY <3>2, <1>0 DEF CtInv, SocketUse, At
    <3> QED
      BY <3>1, <3>2
  <2> QED
    BY <2>1 DEF SocketUse, At
<1>4. SocketsAccounted'
  BY <1>0 DEF SocketsAccounted, OneSocketEach, PoolDistinct
<1>5. NoLateReplies'
  <2> SUFFICES ASSUME NEW d \in Caller, call'[d].pc = "recv",
                      NEW req \in wire[call'[d].sock] \cup {ack.req : ack \in acks'[call'[d].sock]}
               PROVE  req.caller = d
    BY DEF NoLateReplies, At
  <2>1. d # c /\ call'[d] = call[d]
    BY <1>0, <1>1
  <2>2. call[d].sock \in Sock
    BY <2>1, SockIsReal DEF At
  <2>3. req \in wire[call[d].sock] \cup {ack.req : ack \in acks[call[d].sock]}
    BY <2>1, <2>2
  <2> QED
    BY <2>1, <2>3 DEF CtInv, NoLateReplies, At
<1>6. RequestsKnown'
  <2>1. ASSUME NEW s \in Sock, NEW req \in Sent(s)'
        PROVE  \/ call'[req.caller].pc = "idle"
               \/ /\ call'[req.caller].pc = "recv" /\ call'[req.caller].sock = s
                  /\ req.dst \in call'[req.caller].index
    <3>1. req \in Sent(s) /\ req.caller \in Caller
      BY DEF Sent, CtInv, CtTypeOK, Ack, Request
    <3> QED
      BY <3>1, <1>0, <1>1 DEF CtInv, RequestsKnown, At
  <2>2. ASSUME NEW s \in Sock, NEW ack \in acks'[s]
        PROVE  ack.req \notin wire[s] /\ \A other \in acks'[s] : other.req = ack.req => other = ack
    BY DEF CtInv, RequestsKnown
  <2> QED
    BY <2>1, <2>2 DEF RequestsKnown, At
<1>7. AnswersTrue'
  <2> SUFFICES ASSUME NEW d \in Caller, d # c
               PROVE  /\ ~At(d, "recv")' => reached'[d] = {}
                      /\ At(d, "recv")' =>
                           /\ call'[d].index \subseteq call'[d].dsts
                           /\ reached'[d] \subseteq call'[d].dsts
                           /\ \A a \in call'[d].dsts \ call'[d].index :
                                 Says(d, a, call[d].results[a])'
                           /\ \A req \in wire[call'[d].sock] : req.dst \notin reached'[d]
                           /\ \A ack \in acks'[call'[d].sock] : Says(d, ack.req.dst, ack.errno)'
    BY <1>1 DEF AnswersTrue, At
  <2>1. call'[d] = call[d] /\ reached'[d] = reached[d] /\ due'[d] = due[d]
    BY <1>0, <1>1
  <2>2. At(d, "recv") => call[d].sock \in Sock
    BY SockIsReal
  <2> QED
    BY <2>1, <2>2 DEF CtInv, AnswersTrue, Says, At
<1>8. DueIsTried'
  BY <1>0, <1>1 DEF CtInv, DueIsTried, At
<1> QED
  BY <1>2, <1>3, <1>4, <1>5, <1>6, <1>7, <1>8 DEF CtInv

(* localAddrs fails, or there is no candidate: no socket was in use.       *)
LEMMA EarlyReturnInv ==
  ASSUME CtInv, NEW c \in Caller, localAddrsFails(c) \/ NoCandidate(c)
  PROVE  CtInv'
<1>1. PICK out \in {"missing", "error"} : Return(c, out)
  BY DEF localAddrsFails, NoCandidate
<1>2. UNCHANGED <<kernelVars, socketVars, addrs, stale>> /\ ~At(c, "recv")
  BY DEF localAddrsFails, NoCandidate, At
<1>3. Held' = Held
  BY <1>1, <1>2, HeldAfterReturn DEF CtInv, SocketUse, Held
<1>4. UNCHANGED <<wire, acks, live, sockets>> /\ Pooled' = Pooled
  BY <1>2 DEF socketVars, Pooled
<1>5. /\ acks' \in [Sock -> SUBSET Ack] /\ \A x \in Sock : acks'[x] \subseteq acks[x]
      /\ live' \subseteq Sock /\ \A x \in Sock : x \notin live' => acks'[x] = {}
  BY <1>4 DEF CtInv, CtTypeOK, SocketUse
<1>6. /\ live' = Held' \cup Pooled' /\ Held' \cap Pooled' = {}
      /\ \A x \in Pooled' : wire[x] = {} /\ acks'[x] = {}
  BY <1>3, <1>4 DEF CtInv, SocketsAccounted, NoLateReplies
<1>7. sockets' \in Seq(Sock) /\ Len(sockets') <= PoolSize /\ PoolDistinct'
  BY <1>4 DEF CtInv, CtTypeOK, SocketsAccounted, PoolDistinct
<1> QED
  BY <1>1, <1>2, <1>4, <1>5, <1>6, <1>7, ReturnInv

(* The send fails: an idle socket that was taken is closed.                *)
LEMMA SendFailsInv ==
  ASSUME CtInv, NEW c \in Caller, SendFails(c)
  PROVE  CtInv'
<1> USE DEF CtInv
<1>1. /\ Return(c, "error") /\ UNCHANGED <<kernelVars, wire, addrs, stale>> /\ ~At(c, "recv")
  BY DEF SendFails, At
<1>2. Held' = Held
  BY <1>1, HeldAfterReturn DEF SocketUse, Held
<1>3. PoolDistinct /\ sockets \in Seq(Sock) /\ Len(sockets) \in Nat /\ PoolSize \in Nat
  BY ConntrackAssumption DEF SocketsAccounted, PoolDistinct, CtTypeOK
<1>4. CASE sockets = <<>>
  BY <1>1, <1>2, <1>4, ReturnInv
     DEF SendFails, Pooled, PoolDistinct, CtTypeOK, SocketUse, SocketsAccounted, NoLateReplies
<1>5. CASE sockets # <<>>
  <2> DEFINE s == Head(sockets)
  <2>1. /\ sockets' = Tail(sockets) /\ live' = live \ {s} /\ acks' = [acks EXCEPT ![s] = {}]
    BY <1>5 DEF SendFails, close
  <2>2. /\ sockets' \in Seq(Sock) /\ Len(sockets') <= Len(sockets) /\ s \in Pooled
        /\ Pooled' = Pooled \ {s} /\ PoolDistinct' /\ Len(sockets') \in Nat
    BY <1>3, <1>5, <2>1, PoolTail
  <2>3. Len(sockets') <= PoolSize
    BY <1>3, <2>2 DEF CtTypeOK
  <2>4. s \in Sock
    BY <1>3, <2>2 DEF Pooled
  <2>5. /\ acks' \in [Sock -> SUBSET Ack] /\ \A x \in Sock : acks'[x] \subseteq acks[x]
        /\ live' \subseteq Sock /\ \A x \in Sock : x \notin live' => acks'[x] = {}
    BY <2>1, <2>4 DEF CtTypeOK, SocketUse
  <2>6. live' = Held' \cup Pooled' /\ Held' \cap Pooled' = {}
    BY <1>2, <2>1, <2>2 DEF SocketsAccounted
  <2>7. \A x \in Pooled' : wire[x] = {} /\ acks'[x] = {}
    BY <2>1, <2>2 DEF NoLateReplies, CtTypeOK
  <2> QED
    BY <1>1, <2>2, <2>3, <2>5, <2>6, <2>7, ReturnInv
<1> QED
  BY <1>4, <1>5

(* The wait for a reply fails: the socket is closed.                       *)
LEMMA RecvFailsInv ==
  ASSUME CtInv, NEW c \in Caller, RecvFails(c)
  PROVE  CtInv'
<1> DEFINE s == call[c].sock
<1>1. /\ Return(c, "error") /\ UNCHANGED <<kernelVars, wire, sockets, addrs, stale>>
      /\ At(c, "recv") /\ live' = live \ {s} /\ acks' = [acks EXCEPT ![s] = {}]
  BY DEF RecvFails, close
<1>2. Held' = Held \ {s}
  BY <1>1, HeldAfterReturn
<1>3. s \in Sock /\ s \notin Pooled /\ s \in Held
  BY <1>1, SockIsReal
<1>4. Pooled' = Pooled /\ PoolDistinct'
  BY <1>1 DEF Pooled, PoolDistinct, CtInv, SocketsAccounted
<1> HIDE DEF s
<1>5. /\ acks' \in [Sock -> SUBSET Ack] /\ \A x \in Sock : acks'[x] \subseteq acks[x]
      /\ live' \subseteq Sock /\ \A x \in Sock : x \notin live' => acks'[x] = {}
  BY <1>1, <1>3 DEF CtInv, CtTypeOK, SocketUse
<1>6. live' = Held' \cup Pooled' /\ Held' \cap Pooled' = {}
  BY <1>1, <1>2, <1>3, <1>4 DEF CtInv, SocketsAccounted
<1>7. \A x \in Pooled' : wire[x] = {} /\ acks'[x] = {}
  BY <1>1, <1>3, <1>4 DEF CtInv, NoLateReplies, CtTypeOK
<1>8. sockets' \in Seq(Sock) /\ Len(sockets') <= PoolSize
  BY <1>1 DEF CtInv, CtTypeOK
<1> QED
  BY <1>1, <1>4, <1>5, <1>6, <1>7, <1>8, ReturnInv

-----------------------------------------------------------------------------
(* A call that has no socket before the step and none after it: nothing it *)
(* sent is under way.                                                      *)
LEMMA NothingSent ==
  ASSUME CtInv, NEW c \in Caller, ~At(c, "recv"), SeqsUnused(c),
         call'[c].pc \in {"addrs", "socket"}, call'[c].sock = None,
         \A d \in Caller : d # c => call'[d] = call[d] /\ due'[d] = due[d],
         UNCHANGED <<socketVars, reached>>
  PROVE  SocketUse' /\ SocketsAccounted' /\ NoLateReplies' /\ RequestsKnown' /\ AnswersTrue'
<1>0. UNCHANGED <<wire, acks, live, sockets, reached>>
  BY DEF socketVars
<1>1. call[c].sock = None /\ call'[c].pc # "recv"
  BY DEF CtInv, SocketUse
<1>2. SocketUse'
  <2>1. ASSUME NEW d \in Caller
        PROVE  call'[d].sock # None <=> call'[d].pc = "recv"
    <3>1. CASE d = c
      BY <3>1, <1>1
    <3>2. CASE d # c
      BY <3>2 DEF CtInv, SocketUse, At
    <3> QED
      BY <3>1, <3>2
  <2> QED
    BY <2>1, <1>0 DEF CtInv, SocketUse, At
<1>3. SocketsAccounted'
  <2>1. \A d \in Caller : call'[d].sock = call[d].sock
    BY <1>1
  <2>2. Held' = Held /\ Pooled' = Pooled
    BY <2>1, <1>0 DEF Held, Pooled
  <2> QED
    BY <2>1, <2>2, <1>0 DEF CtInv, SocketsAccounted
<1>4. NoLateReplies'
  <2>1. Pooled' = Pooled
    BY <1>0 DEF Pooled
  <2>2. ASSUME NEW d \in Caller, call'[d].pc = "recv"
        PROVE  call'[d] = call[d]
    BY <1>1, <2>2
  <2> QED
    BY <2>1, <2>2, <1>0 DEF CtInv, NoLateReplies, At
<1>5. RequestsKnown'
  <2>1. ASSUME NEW s \in Sock, NEW req \in Sent(s)
        PROVE  \/ call'[req.caller].pc = "idle"
               \/ /\ call'[req.caller].pc = "recv" /\ call'[req.caller].sock = s
                  /\ req.dst \in call'[req.caller].index
    <3>1. req.caller \in Caller
      BY DEF Sent, CtInv, CtTypeOK, Ack, Request
    <3>2. req.caller # c
      BY DEF Sent, SeqsUnused
    <3> QED
      BY <3>1, <3>2 DEF CtInv, RequestsKnown, At
  <2>2. \A s \in Sock : Sent(s)' = Sent(s)
    BY <1>0 DEF Sent
  <2> QED
    BY <2>1, <2>2, <1>0 DEF CtInv, RequestsKnown, At
<1>6. AnswersTrue'
  <2> SUFFICES ASSUME NEW d \in Caller
               PROVE  /\ ~At(d, "recv")' => reached[d] = {}
                      /\ At(d, "recv")' =>
                           /\ call'[d].index \subseteq call'[d].dsts
                           /\ reached[d] \subseteq call'[d].dsts
                           /\ \A a \in call'[d].dsts \ call'[d].index :
                                 Says(d, a, call[d].results[a])'
                           /\ \A req \in wire[call'[d].sock] : req.dst \notin reached[d]
                           /\ \A ack \in acks[call'[d].sock] : Says(d, ack.req.dst, ack.errno)'
    BY <1>0 DEF AnswersTrue
  <2>1. CASE d = c
    BY <2>1, <1>1 DEF CtInv, AnswersTrue, At
  <2>2. CASE d # c
    BY <2>2, <1>0 DEF CtInv, AnswersTrue, Says, At
  <2> QED
    BY <2>1, <2>2
<1> QED
  BY <1>2, <1>3, <1>4, <1>5, <1>6

LEMMA SetMarkInv ==
  ASSUME CtInv, NEW c \in Caller, NEW f \in Family, NEW d \in Dst, SetMark(c, f, d)
  PROVE  CtInv'
<1> DEFINE r == [pc |-> IF d = AnyAddr THEN "addrs" ELSE "socket",
                 family |-> f, dst |-> d, dsts |-> candidateDsts(d, f, {}), sock |-> None,
                 index |-> {}, results |-> NoErrors, out |-> "none"]
<1>0. f \subseteq Addr /\ d \in Addr \cup {AnyAddr} /\ candidateDsts(d, f, {}) \subseteq Addr
  BY ConntrackAssumption DEF Family, candidateDsts
<1>1. call' = [call EXCEPT ![c] = r]
  <2> DEFINE where == IF d = AnyAddr THEN "addrs" ELSE "socket"
             cand == candidateDsts(d, f, {})
             nc == NoCall("none")
             r1 == [nc EXCEPT !.family = f]
             r2 == [r1 EXCEPT !.dst = d]
             r3 == [r2 EXCEPT !.pc = where]
             r4 == [r3 EXCEPT !.dsts = cand]
  <2>1. call' = [call EXCEPT ![c] = r4]
    BY DEF SetMark
  <2>2. r = [pc |-> where, family |-> f, dst |-> d, dsts |-> cand, sock |-> None,
             index |-> {}, results |-> NoErrors, out |-> "none"]
    OBVIOUS
  <2> HIDE DEF where, cand
  <2>3. nc = [pc |-> "idle", family |-> V4, dst |-> AnyAddr, dsts |-> {}, sock |-> None,
              index |-> {}, results |-> NoErrors, out |-> "none"]
    BY DEF NoCall
  <2> HIDE DEF nc
  <2>4. r1 = [pc |-> "idle", family |-> f, dst |-> AnyAddr, dsts |-> {}, sock |-> None,
              index |-> {}, results |-> NoErrors, out |-> "none"]
    BY <2>3
  <2> HIDE DEF r1
  <2>5. r2 = [pc |-> "idle", family |-> f, dst |-> d, dsts |-> {}, sock |-> None,
              index |-> {}, results |-> NoErrors, out |-> "none"]
    BY <2>4
  <2> HIDE DEF r2
  <2>6. r3 = [pc |-> where, family |-> f, dst |-> d, dsts |-> {}, sock |-> None,
              index |-> {}, results |-> NoErrors, out |-> "none"]
    BY <2>5
  <2> HIDE DEF r3
  <2>7. r4 = [pc |-> where, family |-> f, dst |-> d, dsts |-> cand, sock |-> None,
              index |-> {}, results |-> NoErrors, out |-> "none"]
    BY <2>6
  <2> HIDE DEF r4
  <2> QED
    BY <2>1, <2>2, <2>7
<1>2. r \in Calls
  BY <1>0, NoCallType DEF Calls
<1>3. call' \in [Caller -> Calls] /\ call'[c] = r /\ \A x \in Caller : x # c => call'[x] = call[x]
  BY <1>1, <1>2, CallTypes DEF CtInv
<1>4. /\ call'[c].pc = (IF d = AnyAddr THEN "addrs" ELSE "socket")
      /\ call'[c].family = f /\ call'[c].dst = d /\ call'[c].dsts = candidateDsts(d, f, {})
      /\ call'[c].sock = None
  BY <1>3
<1> HIDE DEF r
<1>5. /\ due' \in [Caller -> SUBSET Addr] /\ due'[c] = Due(d, f)
      /\ \A x \in Caller : x # c => due'[x] = due[x]
  BY DEF SetMark, CtInv, CtTypeOK, Due
<1>6. UNCHANGED <<kernelVars, socketVars, addrs, stale, reached>> /\ At(c, "idle") /\ SeqsUnused(c)
  BY DEF SetMark
<1>7. CtTypeOK'
  BY <1>3, <1>5, <1>6 DEF CtInv, CtTypeOK, Calls, kernelVars, socketVars
<1>8. SocketUse' /\ SocketsAccounted' /\ NoLateReplies' /\ RequestsKnown' /\ AnswersTrue'
  <2>1. ~At(c, "recv") /\ call'[c].pc \in {"addrs", "socket"}
    BY <1>4, <1>6 DEF At
  <2> QED
    BY <2>1, <1>3, <1>4, <1>5, <1>6, NothingSent
<1>9. DueIsTried'
  <2>1. ASSUME NEW x \in Caller, x # c
        PROVE  /\ due'[x] \subseteq entry
               /\ call'[x].pc = "addrs" =>
                    /\ call'[x].dst = AnyAddr
                    /\ due'[x] \subseteq call'[x].family /\ due'[x] \subseteq assigned
                    /\ addrs # None /\ ~stale => due'[x] \subseteq addrs
               /\ call'[x].pc = "socket" \/ call'[x].pc = "recv" => due'[x] \subseteq call'[x].dsts
    BY <2>1, <1>3, <1>5 DEF CtInv, DueIsTried, At
  <2>2. /\ due'[c] \subseteq entry
        /\ d = AnyAddr =>
             /\ due'[c] \subseteq f /\ due'[c] \subseteq assigned
             /\ addrs # None /\ ~stale => due'[c] \subseteq addrs
        /\ d # AnyAddr => due'[c] \subseteq candidateDsts(d, f, {})
    BY <1>5 DEF Due, candidateDsts
  <2> QED
    BY <2>1, <2>2, <1>4, <1>6 DEF DueIsTried, At, kernelVars
<1> QED
  BY <1>7, <1>8, <1>9 DEF CtInv

LEMMA localAddrsInv ==
  ASSUME CtInv, NEW c \in Caller, localAddrs(c)
  PROVE  CtInv'
<1> DEFINE fetch == addrs = None \/ stale
           dsts == addrs' \cap call[c].family
<1>0. call \in [Caller -> Calls] /\ call[c] \in Calls /\ call[c].family \subseteq Addr
  BY CallTypes DEF CtInv
<1>1. /\ At(c, "addrs") /\ UNCHANGED <<kernelVars, socketVars, reached, due>>
      /\ addrs' = (IF fetch THEN assigned ELSE addrs)
      /\ stale' = (IF fetch THEN FALSE ELSE stale)
      /\ call' = [call EXCEPT ![c] = [@ EXCEPT !.pc = "socket", !.dsts = dsts]]
  BY <1>0 DEF localAddrs, candidateDsts, Calls
<1>2. addrs' \subseteq Addr
  BY <1>1 DEF CtInv, CtTypeOK
<1>3. /\ call' \in [Caller -> Calls] /\ call'[c].pc = "socket" /\ call'[c].dsts = dsts
      /\ call'[c].sock = call[c].sock /\ \A x \in Caller : x # c => call'[x] = call[x]
  BY <1>0, <1>1, <1>2 DEF Calls
<1>4. CtTypeOK'
  <2>1. stale' \in BOOLEAN
    BY <1>1 DEF CtInv, CtTypeOK
  <2> QED
    BY <2>1, <1>1, <1>2, <1>3 DEF CtInv, CtTypeOK, Calls, kernelVars, socketVars
<1>5. SeqsUnused(c)
  BY <1>1 DEF CtInv, RequestsKnown, SeqsUnused, Sent, At
<1>6. SocketUse' /\ SocketsAccounted' /\ NoLateReplies' /\ RequestsKnown' /\ AnswersTrue'
  <2>1. ~At(c, "recv") /\ call'[c].sock = None
    BY <1>1, <1>3 DEF At, CtInv, SocketUse
  <2> QED
    BY <2>1, <1>1, <1>3, <1>5, NothingSent
<1>7. DueIsTried'
  <2>1. due[c] \subseteq addrs'
    BY <1>1 DEF CtInv, DueIsTried
  <2>2. due[c] \subseteq call'[c].dsts
    BY <2>1, <1>1, <1>3 DEF CtInv, DueIsTried
  <2>3. ASSUME NEW x \in Caller, At(x, "addrs")
        PROVE  due[x] \subseteq addrs'
    BY <2>3, <1>1 DEF CtInv, DueIsTried
  <2>4. ASSUME NEW x \in Caller, x # c
        PROVE  /\ due[x] \subseteq entry
               /\ call'[x].pc = "addrs" =>
                    /\ call'[x].dst = AnyAddr
                    /\ due[x] \subseteq call'[x].family /\ due[x] \subseteq assigned
                    /\ due[x] \subseteq addrs'
               /\ call'[x].pc = "socket" \/ call'[x].pc = "recv" => due[x] \subseteq call'[x].dsts
    BY <2>3, <2>4, <1>3 DEF CtInv, DueIsTried, At
  <2>5. due[c] \subseteq entry
    BY DEF CtInv, DueIsTried
  <2> QED
    BY <2>2, <2>4, <2>5, <1>1, <1>3 DEF DueIsTried, At, kernelVars
<1> QED
  BY <1>4, <1>6, <1>7 DEF CtInv

-----------------------------------------------------------------------------
(* exchange sends the batch: the socket it takes, idle or new, is free of  *)
(* requests and replies.                                                   *)
LEMMA TakesCleanSocket ==
  ASSUME CtInv, NEW s \in Sock, getSocket(s)
  PROVE  /\ wire[s] = {} /\ acks[s] = {} /\ s \notin Held
         /\ live' = live \cup {s} /\ Pooled' = Pooled \ {s}
         /\ sockets' \in Seq(Sock) /\ Len(sockets') <= PoolSize /\ PoolDistinct'
<1>1. PoolDistinct /\ sockets \in Seq(Sock) /\ Len(sockets) \in Nat /\ PoolSize \in Nat
      /\ Len(sockets) <= PoolSize
  BY ConntrackAssumption DEF CtInv, SocketsAccounted, PoolDistinct, CtTypeOK
<1>2. CASE sockets # <<>>
  <2>1. s = Head(sockets) /\ sockets' = Tail(sockets) /\ live' = live
    BY <1>2 DEF getSocket
  <2>2. /\ sockets' \in Seq(Sock) /\ Len(sockets') <= Len(sockets) /\ Len(sockets') \in Nat
        /\ s \in Pooled /\ Pooled' = Pooled \ {s} /\ PoolDistinct'
    BY <1>1, <1>2, <2>1, PoolTail
  <2>3. wire[s] = {} /\ acks[s] = {}
    BY <2>2 DEF CtInv, NoLateReplies
  <2>4. s \notin Held /\ live' = live \cup {s}
    BY <2>1, <2>2 DEF CtInv, SocketsAccounted
  <2>5. Len(sockets') <= PoolSize
    BY <1>1, <2>2
  <2> QED
    BY <2>2, <2>3, <2>4, <2>5
<1>3. CASE sockets = <<>>
  <2>1. s \notin live /\ wire[s] = {} /\ live' = live \cup {s} /\ sockets' = sockets
    BY <1>3 DEF getSocket
  <2>2. s \notin Held /\ s \notin Pooled /\ acks[s] = {}
    BY <2>1 DEF CtInv, SocketsAccounted, SocketUse
  <2>3. Pooled' = Pooled /\ PoolDistinct'
    BY <1>1, <2>1 DEF Pooled, PoolDistinct
  <2> QED
    BY <1>1, <2>1, <2>2, <2>3
<1> QED
  BY <1>2, <1>3

LEMMA SendInv ==
  ASSUME CtInv, NEW c \in Caller, Send(c)
  PROVE  CtInv'
<1>0. call \in [Caller -> Calls] /\ call[c] \in Calls /\ call[c].dsts \subseteq Addr
  BY CallTypes DEF CtInv
<1> DEFINE dsts == call[c].dsts
           batch == {[caller |-> c, dst |-> a] : a \in dsts}
<1>1. PICK s \in Sock :
        /\ getSocket(s) /\ wire' = [wire EXCEPT ![s] = @ \cup batch]
        /\ call' = [call EXCEPT ![c].pc = "recv", ![c].sock = s, ![c].index = dsts]
  BY DEF Send
<1>2. At(c, "socket") /\ UNCHANGED <<kernelVars, acks, addrs, stale, reached, due>>
  BY DEF Send
<1>3. /\ wire[s] = {} /\ acks[s] = {} /\ s \notin Held
      /\ live' = live \cup {s} /\ Pooled' = Pooled \ {s}
      /\ sockets' \in Seq(Sock) /\ Len(sockets') <= PoolSize /\ PoolDistinct'
  BY <1>1, TakesCleanSocket
<1>4. /\ call' \in [Caller -> Calls] /\ \A x \in Caller : x # c => call'[x] = call[x]
      /\ call'[c].pc = "recv" /\ call'[c].sock = s /\ call'[c].index = dsts
      /\ call'[c].dsts = dsts
  BY <1>0, <1>1 DEF Calls
<1>5. batch \subseteq Request /\ \A req \in batch : req.caller = c /\ req.dst \in dsts
  BY <1>0 DEF Request
<1>6. /\ wire' \in [Sock -> SUBSET Request] /\ wire'[s] = batch
      /\ \A x \in Sock : x # s => wire'[x] = wire[x]
  BY <1>1, <1>3, <1>5 DEF CtInv, CtTypeOK
<1>7. s # None /\ call[c].sock = None
  BY <1>2, ConntrackAssumption DEF CtInv, SocketUse, At
<1>8. \A x \in Caller : x # c => call[x].sock # s
  BY <1>3, <1>7 DEF Held
<1> HIDE DEF batch, dsts
<1>9. CtTypeOK'
  BY <1>2, <1>3, <1>4, <1>6 DEF CtInv, CtTypeOK, Calls, kernelVars
<1>10. SocketUse'
  <2>1. ASSUME NEW d \in Caller
        PROVE  call'[d].sock # None <=> call'[d].pc = "recv"
    <3>1. CASE d = c
      BY <3>1, <1>4, <1>7
    <3>2. CASE d # c
      BY <3>2, <1>4 DEF CtInv, SocketUse, At
    <3> QED
      BY <3>1, <3>2
  <2>2. \A x \in Sock : x \notin live' => acks'[x] = {}
    BY <1>2, <1>3 DEF CtInv, SocketUse
  <2> QED
    BY <2>1, <2>2 DEF SocketUse, At
<1>11. SocketsAccounted'
  <2>1. Held' = Held \cup {s}
    <3>1. \A d \in Caller : call'[d].sock # None => call'[d].sock \in Held \cup {s}
      BY <1>4 DEF Held
    <3>2. \A d \in Caller : call[d].sock # None => call'[d].sock = call[d].sock
      BY <1>4, <1>7
    <3>3. s \in Held'
      BY <1>4, <1>7 DEF Held
    <3> QED
      BY <3>1, <3>2, <3>3 DEF Held
  <2>2. live' = Held' \cup Pooled' /\ Held' \cap Pooled' = {}
    BY <2>1, <1>3 DEF CtInv, SocketsAccounted
  <2>3. OneSocketEach'
    BY <1>4, <1>8 DEF CtInv, SocketsAccounted, OneSocketEach
  <2> QED
    BY <2>2, <2>3, <1>3 DEF SocketsAccounted, OneSocketEach, PoolDistinct
<1>12. NoLateReplies'
  <2>1. \A x \in Pooled' : wire'[x] = {} /\ acks'[x] = {}
    <3> SUFFICES ASSUME NEW x \in Pooled' PROVE wire'[x] = {} /\ acks'[x] = {}
      OBVIOUS
    <3>1. x \in Pooled /\ x # s
      BY <1>3
    <3>2. x \in Sock
      BY <3>1 DEF Pooled, CtInv, CtTypeOK
    <3> QED
      BY <3>1, <3>2, <1>2, <1>6 DEF CtInv, NoLateReplies
  <2>2. ASSUME NEW d \in Caller, call'[d].pc = "recv",
               NEW req \in wire'[call'[d].sock] \cup {ack.req : ack \in acks'[call'[d].sock]}
        PROVE  req.caller = d
    <3>1. CASE d = c
      BY <3>1, <2>2, <1>2, <1>3, <1>4, <1>5, <1>6
    <3>2. CASE d # c
      <4>1. call'[d] = call[d] /\ At(d, "recv")
        BY <3>2, <2>2, <1>4 DEF At
      <4>2. call[d].sock \in Sock /\ call[d].sock # s
        BY <4>1, <3>2, <1>8, SockIsReal
      <4>3. req \in wire[call[d].sock] \cup {ack.req : ack \in acks[call[d].sock]}
        BY <4>1, <4>2, <1>2, <1>6
      <4> QED
        BY <4>1, <4>3 DEF CtInv, NoLateReplies
    <3> QED
      BY <3>1, <3>2
  <2> QED
    BY <2>1, <2>2 DEF NoLateReplies, At
<1>13. RequestsKnown'
  <2>1. ASSUME NEW x \in Sock, NEW req \in Sent(x)'
        PROVE  \/ call'[req.caller].pc = "idle"
               \/ /\ call'[req.caller].pc = "recv" /\ call'[req.caller].sock = x
                  /\ req.dst \in call'[req.caller].index
    <3>1. CASE x = s
      <4>1. req \in batch
        BY <3>1, <1>2, <1>3, <1>6 DEF Sent
      <4> QED
        BY <4>1, <3>1, <1>4, <1>5
    <3>2. CASE x # s
      <4>1. req \in Sent(x) /\ req.caller \in Caller
        BY <3>2, <1>2, <1>6 DEF Sent, CtInv, CtTypeOK, Ack, Request
      <4>2. req.caller # c
        BY <4>1, <1>2 DEF CtInv, RequestsKnown, At
      <4> QED
        BY <4>1, <4>2, <1>4 DEF CtInv, RequestsKnown, At
    <3> QED
      BY <3>1, <3>2
  <2>2. ASSUME NEW x \in Sock, NEW ack \in acks'[x]
        PROVE  ack.req \notin wire'[x] /\ \A other \in acks'[x] : other.req = ack.req => other = ack
    BY <1>2, <1>3, <1>6 DEF CtInv, RequestsKnown
  <2> QED
    BY <2>1, <2>2 DEF RequestsKnown, At
<1>14. AnswersTrue'
  <2> SUFFICES ASSUME NEW d \in Caller
               PROVE  /\ ~At(d, "recv")' => reached[d] = {}
                      /\ At(d, "recv")' =>
                           /\ call'[d].index \subseteq call'[d].dsts
                           /\ reached[d] \subseteq call'[d].dsts
                           /\ \A a \in call'[d].dsts \ call'[d].index :
                                 Says(d, a, call[d].results[a])'
                           /\ \A req \in wire'[call'[d].sock] : req.dst \notin reached[d]
                           /\ \A ack \in acks'[call'[d].sock] : Says(d, ack.req.dst, ack.errno)'
    BY <1>2 DEF AnswersTrue
  <2>1. CASE d = c
    <3>1. reached[c] = {}
      BY <1>2 DEF CtInv, AnswersTrue, At
    <3> QED
      BY <2>1, <3>1, <1>2, <1>3, <1>4 DEF At
  <2>2. CASE d # c
    <3>1. call'[d] = call[d] /\ call[d].sock # s
      BY <2>2, <1>4, <1>8
    <3>2. At(d, "recv") => wire'[call[d].sock] = wire[call[d].sock]
      BY <3>1, <1>6, SockIsReal
    <3> QED
      BY <3>1, <3>2, <1>2 DEF CtInv, AnswersTrue, Says, At
  <2> QED
    BY <2>1, <2>2
<1>15. DueIsTried'
  <2>1. due[c] \subseteq entry /\ due[c] \subseteq dsts
    BY <1>2 DEF CtInv, DueIsTried, dsts
  <2>2. ASSUME NEW x \in Caller, x # c
        PROVE  /\ due[x] \subseteq entry
               /\ call'[x].pc = "addrs" =>
                    /\ call'[x].dst = AnyAddr
                    /\ due[x] \subseteq call'[x].family /\ due[x] \subseteq assigned
                    /\ addrs # None /\ ~stale => due[x] \subseteq addrs
               /\ call'[x].pc = "socket" \/ call'[x].pc = "recv" => due[x] \subseteq call'[x].dsts
    BY <2>2, <1>4 DEF CtInv, DueIsTried, At
  <2> QED
    BY <2>1, <2>2, <1>2, <1>4 DEF DueIsTried, At, kernelVars
<1> QED
  BY <1>9, <1>10, <1>11, <1>12, <1>13, <1>14, <1>15 DEF CtInv

-----------------------------------------------------------------------------
(* A reply that a call reads answers a request of its own batch that has   *)
(* no answer yet, and nothing else on the socket is about that request.    *)
Mine(c, ack) ==
  /\ ack \in Ack /\ ack.req = [caller |-> c, dst |-> ack.req.dst]
  /\ ack.req.caller = c /\ ack.req.dst \in call[c].index
  /\ ack.errno \in Errno /\ Says(c, ack.req.dst, ack.errno)
  /\ \A req \in wire[call[c].sock] :
       req.caller = c /\ req.dst \in call[c].index /\ req.dst # ack.req.dst
  /\ \A a \in acks[call[c].sock] \ {ack} :
       a.req.caller = c /\ a.req.dst \in call[c].index /\ a.req.dst # ack.req.dst

LEMMA ReplyIsMine ==
  ASSUME CtInv, NEW c \in Caller, At(c, "recv"), NEW ack \in acks[call[c].sock]
  PROVE  Mine(c, ack)
<1> DEFINE s == call[c].sock
<1>1. s \in Sock
  BY SockIsReal
<1>2. /\ wire[s] \subseteq Request /\ acks[s] \subseteq Ack
      /\ \A a \in acks[s] : a.req \in Request /\ a.errno \in Errno
  BY <1>1 DEF CtInv, CtTypeOK, Ack
<1>3. \A req \in Sent(s) : req \in Request /\ req.caller = c /\ req.dst \in call[c].index
  <2> SUFFICES ASSUME NEW req \in Sent(s)
               PROVE  req \in Request /\ req.caller = c /\ req.dst \in call[c].index
    OBVIOUS
  <2>1. req \in Request
    BY <1>2 DEF Sent
  <2>2. req.caller = c
    BY DEF Sent, CtInv, NoLateReplies
  <2> QED
    BY <1>1, <2>1, <2>2 DEF CtInv, RequestsKnown, At
<1>4. \A p, q \in Request : p.caller = q.caller /\ p.dst = q.dst => p = q
  BY DEF Request
<1>5. ack.req \in Sent(s) /\ ack.req \in Request
  BY <1>2 DEF Sent
<1>6. /\ \A req \in wire[s] : req \in Sent(s) /\ req # ack.req
      /\ \A a \in acks[s] \ {ack} : a.req \in Sent(s) /\ a.req # ack.req
  BY <1>1 DEF Sent, CtInv, RequestsKnown
<1>7. Says(c, ack.req.dst, ack.errno)
  BY DEF CtInv, AnswersTrue
<1>8. ack.req = [caller |-> c, dst |-> ack.req.dst]
  BY <1>3, <1>5 DEF Request
<1> QED
  BY <1>2, <1>3, <1>4, <1>5, <1>6, <1>7, <1>8 DEF Mine

(* A reply that is not the last one.                                       *)
LEMMA RecvMoreInv ==
  ASSUME CtInv, NEW c \in Caller, At(c, "recv"), NEW ack \in acks[call[c].sock],
         acks' = [acks EXCEPT ![call[c].sock] = @ \ {ack}],
         call' = [call EXCEPT ![c].index = call[c].index \ {ack.req.dst},
                              ![c].results = [call[c].results EXCEPT ![ack.req.dst] = ack.errno]],
         UNCHANGED <<kernelVars, wire, addrs, stale, live, sockets, reached, due>>
  PROVE  CtInv'
<1> DEFINE s == call[c].sock
           dst == ack.req.dst
           res == [call[c].results EXCEPT ![dst] = ack.errno]
           idx == call[c].index \ {dst}
<1>0. call \in [Caller -> Calls] /\ call[c] \in Calls /\ s \in Sock /\ s \in live
  BY CallTypes, SockIsReal DEF CtInv
<1>1. /\ ack \in Ack /\ dst \in call[c].index /\ ack.errno \in Errno /\ Says(c, dst, ack.errno)
      /\ \A req \in wire[s] : req.dst \in call[c].index /\ req.dst # dst
      /\ \A a \in acks[s] \ {ack} : a.req.dst \in call[c].index /\ a.req.dst # dst
  <2>1. Mine(c, ack)
    BY ReplyIsMine
  <2> QED
    BY <2>1 DEF Mine
<1>2. /\ res \in [Addr -> Errno] /\ idx \subseteq Addr /\ dst \in Addr
      /\ res[dst] = ack.errno /\ \A a \in Addr : a # dst => res[a] = call[c].results[a]
  BY <1>0, <1>1 DEF Calls
<1>3. /\ acks' \in [Sock -> SUBSET Ack] /\ acks'[s] = acks[s] \ {ack}
      /\ \A x \in Sock : x # s => acks'[x] = acks[x]
  BY <1>0 DEF CtInv, CtTypeOK
<1> HIDE DEF res, idx
<1>4. /\ call' \in [Caller -> Calls] /\ \A x \in Caller : x # c => call'[x] = call[x]
      /\ call'[c] = [call[c] EXCEPT !.index = idx, !.results = res]
      /\ call'[c].pc = call[c].pc /\ call'[c].sock = s /\ call'[c].index = idx
      /\ call'[c].results = res /\ call'[c].dsts = call[c].dsts
  BY <1>0, <1>2 DEF Calls, res, idx
<1>5. \A x \in Caller : call'[x].pc = call[x].pc /\ call'[x].sock = call[x].sock
  BY <1>4
<1>6. CtTypeOK'
  BY <1>3, <1>4 DEF CtInv, CtTypeOK, Calls, kernelVars
<1>7. SocketUse'
  BY <1>0, <1>3, <1>5 DEF CtInv, SocketUse, At
<1>8. SocketsAccounted'
  BY <1>5, SameSockets DEF CtInv
<1>9. NoLateReplies'
  <2>1. \A x \in Sock : acks'[x] \subseteq acks[x]
    BY <1>3
  <2>2. Pooled' = Pooled /\ Pooled \subseteq Sock
    BY DEF Pooled, CtInv, CtTypeOK
  <2>3. \A x \in Pooled' : wire'[x] = {} /\ acks'[x] = {}
    BY <2>1, <2>2 DEF CtInv, NoLateReplies
  <2>4. ASSUME NEW d \in Caller, call'[d].pc = "recv",
               NEW req \in wire'[call'[d].sock] \cup {a.req : a \in acks'[call'[d].sock]}
        PROVE  req.caller = d
    <3>1. At(d, "recv") /\ call[d].sock \in Sock /\ call'[d].sock = call[d].sock
      BY <2>4, <1>5, SockIsReal DEF At
    <3>2. req \in wire[call[d].sock] \cup {a.req : a \in acks[call[d].sock]}
      BY <3>1, <2>1
    <3> QED
      BY <3>1, <3>2 DEF CtInv, NoLateReplies
  <2> QED
    BY <2>3, <2>4 DEF NoLateReplies, At
<1>10. RequestsKnown'
  <2>1. ASSUME NEW x \in Sock, NEW req \in Sent(x)'
        PROVE  \/ call'[req.caller].pc = "idle"
               \/ /\ call'[req.caller].pc = "recv" /\ call'[req.caller].sock = x
                  /\ req.dst \in call'[req.caller].index
    <3>1. req \in Sent(x) /\ req.caller \in Caller
      BY <1>3 DEF Sent, CtInv, CtTypeOK, Ack, Request
    <3>2. CASE req.caller # c
      BY <3>1, <3>2, <1>4 DEF CtInv, RequestsKnown, At
    <3>3. CASE req.caller = c
      <4>1. x = s
        BY <3>1, <3>3 DEF CtInv, RequestsKnown, At
      <4>2. req \in wire[s] \cup {a.req : a \in acks[s] \ {ack}}
        BY <4>1, <1>3 DEF Sent
      <4>3. req.dst \in idx
        BY <4>2, <1>1 DEF idx
      <4> QED
        BY <4>1, <4>3, <3>3, <1>4 DEF At
    <3> QED
      BY <3>2, <3>3
  <2>2. ASSUME NEW x \in Sock, NEW a \in acks'[x]
        PROVE  a.req \notin wire'[x] /\ \A other \in acks'[x] : other.req = a.req => other = a
    BY <1>3 DEF CtInv, RequestsKnown
  <2> QED
    BY <2>1, <2>2 DEF RequestsKnown, At
<1>11. AnswersTrue'
  <2> SUFFICES ASSUME NEW d \in Caller
               PROVE  /\ ~At(d, "recv")' => reached[d] = {}
                      /\ At(d, "recv")' =>
                           /\ call'[d].index \subseteq call'[d].dsts
                           /\ reached[d] \subseteq call'[d].dsts
                           /\ \A a \in call'[d].dsts \ call'[d].index :
                                 Says(d, a, call'[d].results[a])
                           /\ \A req \in wire[call'[d].sock] : req.dst \notin reached[d]
                           /\ \A a \in acks'[call'[d].sock] : Says(d, a.req.dst, a.errno)
    BY DEF AnswersTrue, Says
  <2>1. CASE d = c
    <3>1. \A a \in call[c].dsts \ idx : Says(c, a, res[a])
      <4> SUFFICES ASSUME NEW a \in call[c].dsts \ idx PROVE Says(c, a, res[a])
        OBVIOUS
      <4>1. CASE a = dst
        BY <4>1, <1>1, <1>2
      <4>2. CASE a # dst
        <5>1. a \in call[c].dsts \ call[c].index /\ a \in Addr
          BY <4>2, <1>0 DEF idx, Calls
        <5>2. res[a] = call[c].results[a]
          BY <4>2, <5>1, <1>2
        <5>3. Says(c, a, call[c].results[a])
          BY <5>1 DEF CtInv, AnswersTrue
        <5> QED
          BY <5>2, <5>3
      <4> QED
        BY <4>1, <4>2
    <3>2. idx \subseteq call[c].dsts /\ reached[c] \subseteq call[c].dsts
      BY DEF CtInv, AnswersTrue, idx
    <3>3. /\ \A req \in wire[s] : req.dst \notin reached[c]
          /\ \A a \in acks'[s] : Says(c, a.req.dst, a.errno)
      BY <1>3 DEF CtInv, AnswersTrue
    <3> QED
      BY <2>1, <3>1, <3>2, <3>3, <1>4 DEF At
  <2>2. CASE d # c
    <3>1. call'[d] = call[d] /\ (At(d, "recv") => acks'[call[d].sock] \subseteq acks[call[d].sock])
      BY <2>2, <1>3, <1>4, SockIsReal
    <3> QED
      BY <3>1 DEF CtInv, AnswersTrue, At
  <2> QED
    BY <2>1, <2>2
<1>12. DueIsTried'
  <2>1. call'[c].dsts = call[c].dsts /\ call'[c].pc = "recv"
    BY <1>4 DEF At
  <2> QED
    BY <2>1, <1>4 DEF CtInv, DueIsTried, At, kernelVars
<1> QED
  BY <1>6, <1>7, <1>8, <1>9, <1>10, <1>11, <1>12 DEF CtInv

(* The last reply: nothing is left on the socket, which goes back to the   *)
(* pool or is closed.                                                      *)
LEMMA RecvLastInv ==
  ASSUME CtInv, NEW c \in Caller, At(c, "recv"), NEW ack \in acks[call[c].sock],
         call[c].index \ {ack.req.dst} = {},
         putSocket(call[c].sock, acks[call[c].sock] \ {ack}),
         NEW out \in {"ok", "missing", "error"}, Return(c, out),
         UNCHANGED <<kernelVars, wire, addrs, stale>>
  PROVE  CtInv'
<1> DEFINE s == call[c].sock
<1>1. s \in Sock /\ s \in live /\ s \notin Pooled /\ s \in Held
  BY SockIsReal
<1>2. wire[s] = {} /\ acks[s] \ {ack} = {}
  <2>1. Mine(c, ack)
    BY ReplyIsMine
  <2> QED
    BY <2>1 DEF Mine
<1>3. Held' = Held \ {s}
  BY HeldAfterReturn
<1>4. PoolDistinct /\ sockets \in Seq(Sock) /\ Len(sockets) \in Nat /\ PoolSize \in Nat
      /\ Len(sockets) <= PoolSize
  BY ConntrackAssumption DEF CtInv, SocketsAccounted, PoolDistinct, CtTypeOK
<1>5. acks' = [acks EXCEPT ![s] = {}]
  BY <1>2 DEF putSocket, close
<1>6. acks' \in [Sock -> SUBSET Ack] /\ acks'[s] = {} /\ \A x \in Sock : acks'[x] \subseteq acks[x]
  BY <1>1, <1>5 DEF CtInv, CtTypeOK
<1>7. CASE Len(sockets) < PoolSize
  <2>1. sockets' = Append(sockets, s) /\ live' = live
    BY <1>7 DEF putSocket
  <2>2. /\ sockets' \in Seq(Sock) /\ Len(sockets') = Len(sockets) + 1
        /\ Pooled' = Pooled \cup {s} /\ PoolDistinct'
    BY <1>1, <1>4, <2>1, PoolAppend
  <2>3. Len(sockets') <= PoolSize
    BY <1>4, <1>7, <2>2
  <2>4. live' = Held' \cup Pooled' /\ Held' \cap Pooled' = {}
    BY <1>1, <1>3, <2>1, <2>2 DEF CtInv, SocketsAccounted
  <2>5. live' \subseteq Sock /\ \A x \in Sock : x \notin live' => acks'[x] = {}
    BY <1>6, <2>1 DEF CtInv, CtTypeOK, SocketUse
  <2>6. \A x \in Pooled' : wire[x] = {} /\ acks'[x] = {}
    BY <1>2, <1>5, <1>6, <2>2 DEF CtInv, NoLateReplies, CtTypeOK
  <2> QED
    BY <1>6, <2>2, <2>3, <2>4, <2>5, <2>6, ReturnInv
<1>8. CASE ~(Len(sockets) < PoolSize)
  <2>1. sockets' = sockets /\ live' = live \ {s}
    BY <1>8 DEF putSocket, close
  <2>2. Pooled' = Pooled /\ PoolDistinct' /\ sockets' \in Seq(Sock) /\ Len(sockets') <= PoolSize
    BY <1>4, <2>1 DEF Pooled, PoolDistinct
  <2>3. live' = Held' \cup Pooled' /\ Held' \cap Pooled' = {}
    BY <1>1, <1>3, <2>1, <2>2 DEF CtInv, SocketsAccounted
  <2>4. live' \subseteq Sock /\ \A x \in Sock : x \notin live' => acks'[x] = {}
    BY <1>6, <2>1 DEF CtInv, CtTypeOK, SocketUse
  <2>5. \A x \in Pooled' : wire[x] = {} /\ acks'[x] = {}
    BY <1>1, <1>5, <2>2 DEF CtInv, NoLateReplies, CtTypeOK
  <2> QED
    BY <1>6, <2>2, <2>3, <2>4, <2>5, ReturnInv
<1> QED
  BY <1>7, <1>8

\* What the results say once the reply is in.
Results(c, ack) == [call[c].results EXCEPT ![ack.req.dst] = ack.errno]

LEMMA RecvCases ==
  ASSUME CtInv, NEW c \in Caller, Recv(c)
  PROVE  \E ack \in acks[call[c].sock] :
           \/ /\ call[c].index \ {ack.req.dst} = {}
              /\ putSocket(call[c].sock, acks[call[c].sock] \ {ack})
              /\ Return(c, Outcome({Results(c, ack)[a] : a \in call[c].dsts}))
           \/ /\ acks' = [acks EXCEPT ![call[c].sock] = @ \ {ack}]
              /\ call' = [call EXCEPT ![c].index = call[c].index \ {ack.req.dst},
                                      ![c].results = Results(c, ack)]
              /\ call[c].index \ {ack.req.dst} # {}
              /\ UNCHANGED <<live, sockets, reached, due>>
<1>1. PICK ack \in acks[call[c].sock] :
        LET s == call[c].sock
            dst == ack.req.dst
            mine == ack.req.caller = c /\ dst \in call[c].index
            index == IF mine THEN call[c].index \ {dst} ELSE call[c].index
            results == IF mine THEN [call[c].results EXCEPT ![dst] = ack.errno]
                       ELSE call[c].results
        IN IF index = {}
             THEN /\ putSocket(s, acks[s] \ {ack})
                  /\ Return(c, Outcome({results[a] : a \in call[c].dsts}))
             ELSE /\ acks' = [acks EXCEPT ![s] = @ \ {ack}]
                  /\ call' = [call EXCEPT ![c].index = index, ![c].results = results]
                  /\ UNCHANGED <<live, sockets, reached, due>>
  BY Zenon DEF Recv
<1>2. Mine(c, ack)
  BY ReplyIsMine DEF Recv
<1>3. ack.req.caller = c /\ ack.req.dst \in call[c].index
  BY <1>2 DEF Mine
<1>4. CASE call[c].index \ {ack.req.dst} = {}
  BY <1>1, <1>3, <1>4 DEF Results
<1>5. CASE call[c].index \ {ack.req.dst} # {}
  BY <1>1, <1>3, <1>5 DEF Results
<1> QED
  BY <1>4, <1>5

LEMMA RecvInv ==
  ASSUME CtInv, NEW c \in Caller, Recv(c)
  PROVE  CtInv'
<1>1. At(c, "recv") /\ UNCHANGED <<kernelVars, wire, addrs, stale>>
  BY DEF Recv
<1>2. PICK ack \in acks[call[c].sock] :
        \/ /\ call[c].index \ {ack.req.dst} = {}
           /\ putSocket(call[c].sock, acks[call[c].sock] \ {ack})
           /\ Return(c, Outcome({Results(c, ack)[a] : a \in call[c].dsts}))
        \/ /\ acks' = [acks EXCEPT ![call[c].sock] = @ \ {ack}]
           /\ call' = [call EXCEPT ![c].index = call[c].index \ {ack.req.dst},
                                   ![c].results = Results(c, ack)]
           /\ UNCHANGED <<live, sockets, reached, due>>
  BY RecvCases
<1>3. CASE /\ call[c].index \ {ack.req.dst} = {}
           /\ putSocket(call[c].sock, acks[call[c].sock] \ {ack})
           /\ Return(c, Outcome({Results(c, ack)[a] : a \in call[c].dsts}))
  <2> DEFINE out == Outcome({Results(c, ack)[a] : a \in call[c].dsts})
  <2>1. out \in {"ok", "missing", "error"}
    BY DEF Outcome
  <2> HIDE DEF out
  <2>2. Return(c, out)
    BY <1>3 DEF out
  <2> QED
    BY <2>1, <2>2, <1>1, <1>3, RecvLastInv
<1>4. CASE /\ acks' = [acks EXCEPT ![call[c].sock] = @ \ {ack}]
           /\ call' = [call EXCEPT ![c].index = call[c].index \ {ack.req.dst},
                                   ![c].results = Results(c, ack)]
           /\ UNCHANGED <<live, sockets, reached, due>>
  BY <1>1, <1>4, RecvMoreInv DEF Results
<1> QED
  BY <1>2, <1>3, <1>4

(* The kernel handles a request: it moves to the replies of its socket,    *)
(* and the entry it reaches, if any, is one its call waits to hear of.     *)
LEMMA HandleInv ==
  ASSUME CtInv, NEW s \in Sock, Handle(s)
  PROVE  CtInv'
<1>1. PICK req \in wire[s], errno \in Errno :
        /\ errno = "ok" => req.dst \in entry
        /\ errno = "ENOENT" => req.dst \notin entry
        /\ wire' = [wire EXCEPT ![s] = @ \ {req}]
        /\ acks' = IF s \notin live THEN acks
                   ELSE [acks EXCEPT ![s] = @ \cup {[req |-> req, errno |-> errno]}]
        /\ reached' = IF errno = "ok" /\ ~At(req.caller, "idle")
                        THEN [reached EXCEPT ![req.caller] = @ \cup {req.dst}] ELSE reached
        /\ UNCHANGED <<kernelVars, live, sockets, addrs, stale, call, due>>
  BY DEF Handle
<1> DEFINE b == req.caller
           new == [req |-> req, errno |-> errno]
<1>2. req \in Request /\ b \in Caller /\ req.dst \in Addr
  BY DEF CtInv, CtTypeOK, Request
<1>3. new \in Ack /\ new.req = req /\ new.errno = errno
  BY <1>2 DEF Ack
<1>4. /\ wire' \in [Sock -> SUBSET Request] /\ wire'[s] = wire[s] \ {req}
      /\ \A x \in Sock : x # s => wire'[x] = wire[x]
  BY <1>1 DEF CtInv, CtTypeOK
<1> HIDE DEF new
<1>5. /\ acks' \in [Sock -> SUBSET Ack] /\ \A x \in Sock : x # s => acks'[x] = acks[x]
      /\ acks'[s] \subseteq acks[s] \cup {new} /\ acks[s] \subseteq acks'[s]
      /\ s \notin live => acks'[s] = acks[s]
  BY <1>1, <1>3 DEF CtInv, CtTypeOK, new
<1>6. /\ reached' \in [Caller -> SUBSET Addr] /\ \A x \in Caller : x # b => reached'[x] = reached[x]
      /\ reached'[b] = IF errno = "ok" /\ ~At(b, "idle") THEN reached[b] \cup {req.dst} ELSE reached[b]
  BY <1>1, <1>2 DEF CtInv, CtTypeOK
<1>7. \A x \in Sock : \A r \in Sent(x)' : r \in Sent(x)
  <2> SUFFICES ASSUME NEW x \in Sock, NEW r \in Sent(x)' PROVE r \in Sent(x)
    OBVIOUS
  <2>1. CASE r \in wire'[x]
    BY <2>1, <1>4 DEF Sent
  <2>2. CASE r \notin wire'[x]
    <3>1. PICK a \in acks'[x] : r = a.req
      BY <2>2 DEF Sent
    <3>2. a \in acks[x] \/ (x = s /\ a = new)
      BY <1>5
    <3> QED
      BY <3>1, <3>2, <1>3 DEF Sent
  <2> QED
    BY <2>1, <2>2
<1>8. s \notin Pooled /\ Pooled \subseteq Sock
  BY DEF CtInv, NoLateReplies, Pooled, CtTypeOK
<1>9. req \in Sent(s) /\ (At(b, "idle") \/ (At(b, "recv") /\ call[b].sock = s /\ req.dst \in call[b].index))
  BY DEF Sent, CtInv, RequestsKnown
<1>10. CtTypeOK'
  BY <1>1, <1>4, <1>5, <1>6 DEF CtInv, CtTypeOK, kernelVars
<1>11. SocketUse'
  BY <1>1, <1>5 DEF CtInv, SocketUse, At
<1>12. SocketsAccounted'
  BY <1>1, SameSockets DEF CtInv
<1>13. NoLateReplies'
  <2>1. \A x \in Pooled' : wire'[x] = {} /\ acks'[x] = {}
    <3>1. Pooled' = Pooled
      BY <1>1 DEF Pooled
    <3> QED
      BY <3>1, <1>4, <1>5, <1>8 DEF CtInv, NoLateReplies
  <2>2. ASSUME NEW d \in Caller, At(d, "recv"), NEW r \in Sent(call[d].sock)'
        PROVE  r.caller = d
    <3>1. call[d].sock \in Sock
      BY <2>2, SockIsReal
    <3>2. call'[d].sock = call[d].sock
      BY <1>1
    <3>3. r \in Sent(call[d].sock)
      BY <3>1, <3>2, <1>7
    <3> QED
      BY <3>3, <2>2 DEF CtInv, NoLateReplies, Sent
  <2> QED
    BY <2>1, <2>2, <1>1 DEF NoLateReplies, At, Sent
<1>14. RequestsKnown'
  <2>1. ASSUME NEW x \in Sock, NEW a \in acks'[x]
        PROVE  a.req \notin wire'[x] /\ \A other \in acks'[x] : other.req = a.req => other = a
    <3>1. CASE x # s
      BY <3>1, <1>4, <1>5 DEF CtInv, RequestsKnown
    <3>2. CASE x = s
      <4>1. \A o \in acks[s] : o.req # req
        BY DEF CtInv, RequestsKnown
      <4> QED
        BY <4>1, <3>2, <1>3, <1>4, <1>5 DEF CtInv, RequestsKnown
    <3> QED
      BY <3>1, <3>2
  <2>2. ASSUME NEW x \in Sock, NEW r \in Sent(x)'
        PROVE  \/ call'[r.caller].pc = "idle"
               \/ call'[r.caller].pc = "recv" /\ call'[r.caller].sock = x /\ r.dst \in call'[r.caller].index
    BY <1>1, <1>7 DEF CtInv, RequestsKnown, At
  <2> QED
    BY <2>1, <2>2 DEF RequestsKnown, At
<1>15. AnswersTrue'
  <2> SUFFICES ASSUME NEW d \in Caller
               PROVE  /\ ~At(d, "recv") => reached'[d] = {}
                      /\ At(d, "recv") =>
                           /\ call[d].index \subseteq call[d].dsts
                           /\ reached'[d] \subseteq call[d].dsts
                           /\ \A a \in call[d].dsts \ call[d].index :
                                 Says(d, a, call[d].results[a])'
                           /\ \A r \in wire'[call[d].sock] : r.dst \notin reached'[d]
                           /\ \A a \in acks'[call[d].sock] : Says(d, a.req.dst, a.errno)'
    BY <1>1 DEF AnswersTrue, At
  <2>1. due' = due /\ call' = call /\ UNCHANGED entry
    BY <1>1 DEF kernelVars
  <2>2. CASE ~At(d, "recv")
    BY <2>2, <1>6, <1>9 DEF CtInv, AnswersTrue
  <2>3. CASE At(d, "recv") /\ call[d].sock # s
    <3>1. d # b \/ At(b, "idle")
      BY <2>3, <1>9
    <3>2. reached'[d] = reached[d]
      BY <3>1, <1>6
    <3>3. wire'[call[d].sock] = wire[call[d].sock] /\ acks'[call[d].sock] = acks[call[d].sock]
      BY <2>3, <1>4, <1>5, SockIsReal
    <3> QED
      BY <2>1, <2>3, <3>2, <3>3 DEF CtInv, AnswersTrue, Says
  <2>4. CASE At(d, "recv") /\ call[d].sock = s
    <3>1. b = d
      BY <2>4, <1>9 DEF CtInv, NoLateReplies, Sent
    <3>2. /\ call[d].index \subseteq call[d].dsts /\ reached[d] \subseteq call[d].dsts
          /\ \A a \in call[d].dsts \ call[d].index : Says(d, a, call[d].results[a])
          /\ \A r \in wire[s] : r.dst \notin reached[d]
          /\ \A a \in acks[s] : Says(d, a.req.dst, a.errno)
      BY <2>4 DEF CtInv, AnswersTrue
    <3>3. req.dst \in call[d].index /\ req.dst \notin reached[d]
      BY <3>1, <3>2, <2>4, <1>9 DEF At
    <3>4. reached'[d] = IF errno = "ok" THEN reached[d] \cup {req.dst} ELSE reached[d]
      BY <3>1, <2>4, <1>6 DEF At
    <3>5. ASSUME NEW r \in Sent(s), r # req PROVE r.dst # req.dst
      <4>1. r \in Request
        BY DEF Sent, CtInv, CtTypeOK, Ack
      <4>2. r.caller = d
        BY <2>4 DEF Sent, CtInv, NoLateReplies
      <4> QED
        BY <4>1, <4>2, <3>1, <3>5, <1>2 DEF Request
    <3>6. \A r \in wire'[s] : r.dst \notin reached'[d]
      BY <3>2, <3>4, <3>5, <1>4 DEF Sent
    <3>7. \A a \in acks[s] : a.req \in Sent(s) /\ a.req # req
      BY DEF Sent, CtInv, RequestsKnown
    <3>8. ASSUME NEW a \in acks[s] PROVE Says(d, a.req.dst, a.errno)'
      BY <3>2, <3>4, <3>5, <3>7, <2>1 DEF Says
    <3>9. Says(d, req.dst, errno)'
      <4>1. errno = "ENOENT" => req.dst \notin due[d]
        BY <1>1 DEF CtInv, DueIsTried
      <4> QED
        BY <4>1, <3>3, <3>4, <2>1 DEF Says
    <3>10. \A a \in acks'[s] : Says(d, a.req.dst, a.errno)'
      BY <3>8, <3>9, <1>3, <1>5
    <3>11. \A a \in call[d].dsts \ call[d].index : Says(d, a, call[d].results[a])'
      BY <3>2, <3>3, <3>4, <2>1 DEF Says
    <3>12. reached'[d] \subseteq call[d].dsts
      BY <3>2, <3>3, <3>4
    <3> QED
      BY <2>4, <3>2, <3>6, <3>10, <3>11, <3>12
  <2> QED
    BY <2>2, <2>3, <2>4
<1>16. DueIsTried'
  BY <1>1 DEF CtInv, DueIsTried, At, kernelVars
<1> QED
  BY <1>10, <1>11, <1>12, <1>13, <1>14, <1>15, <1>16 DEF CtInv

-----------------------------------------------------------------------------
(* Connections and addresses come and go, and the list of addresses ages:  *)
(* a call has less to find, never more.                                    *)
LEMMA EnvironmentKeeps ==
  ASSUME CtInv, UNCHANGED <<socketVars, call, reached>>,
         \A c \in Caller : due'[c] \subseteq due[c]
  PROVE  SocketUse' /\ SocketsAccounted' /\ NoLateReplies' /\ RequestsKnown' /\ AnswersTrue'
<1>0. UNCHANGED <<wire, acks, live, sockets, call, reached>>
  BY DEF socketVars
<1>1. SocketUse'
  BY <1>0 DEF CtInv, SocketUse, At
<1>2. SocketsAccounted'
  BY <1>0, SameSockets DEF CtInv
<1>3. NoLateReplies'
  BY <1>0 DEF CtInv, NoLateReplies, At, Pooled
<1>4. RequestsKnown'
  BY <1>0 DEF CtInv, RequestsKnown, Sent, At
<1>5. AnswersTrue'
  <2>1. ASSUME NEW c \in Caller, NEW a, NEW e, Says(c, a, e)
        PROVE  Says(c, a, e)'
    BY <2>1, <1>0 DEF Says
  <2> QED
    BY <2>1, <1>0 DEF CtInv, AnswersTrue, At
<1> QED
  BY <1>1, <1>2, <1>3, <1>4, <1>5

LEMMA EnvironmentInv ==
  ASSUME CtInv, Environment
  PROVE  CtInv'
<1> USE DEF CtInv
<1>1. ASSUME NEW a \in Addr, Open(a) PROVE CtInv'
  <2>1. CtTypeOK'
    BY <1>1 DEF Open, CtTypeOK, socketVars
  <2>2. DueIsTried'
    BY <1>1 DEF Open, DueIsTried, At
  <2> QED
    BY <2>1, <2>2, <1>1, EnvironmentKeeps DEF Open
<1>2. ASSUME NEW a \in Addr, Close(a) PROVE CtInv'
  <2>1. \A c \in Caller : due'[c] = due[c] \ {a}
    BY <1>2 DEF Close
  <2>2. CtTypeOK'
    BY <1>2 DEF Close, CtTypeOK, socketVars
  <2>3. DueIsTried'
    BY <1>2, <2>1 DEF Close, DueIsTried, At
  <2> QED
    BY <2>1, <2>2, <2>3, <1>2, EnvironmentKeeps DEF Close
<1>3. ASSUME NEW a \in Moving, Assign(a) PROVE CtInv'
  <2>1. CtTypeOK'
    BY <1>3, ConntrackAssumption DEF Assign, CtTypeOK, socketVars
  <2>2. DueIsTried'
    BY <1>3 DEF Assign, DueIsTried, At
  <2> QED
    BY <2>1, <2>2, <1>3, EnvironmentKeeps DEF Assign
<1>4. ASSUME NEW a \in Moving, Unassign(a) PROVE CtInv'
  <2>1. \A c \in Caller : due'[c] = IF call[c].dst = AnyAddr THEN due[c] \ {a} ELSE due[c]
    BY <1>4 DEF Unassign
  <2>2. CtTypeOK'
    <3>1. due' \in [Caller -> SUBSET Addr]
      BY <1>4 DEF Unassign, CtTypeOK
    <3> QED
      BY <3>1, <1>4 DEF Unassign, CtTypeOK, socketVars
  <2>3. DueIsTried'
    <3>1. /\ assigned' = assigned \ {a} /\ UNCHANGED <<entry, addrs, stale, call>>
      BY <1>4 DEF Unassign
    <3> QED
      BY <2>1, <3>1 DEF DueIsTried, At
  <2> QED
    BY <2>1, <2>2, <2>3, <1>4, EnvironmentKeeps DEF Unassign
<1>5. ASSUME Expire PROVE CtInv'
  <2>1. CtTypeOK'
    BY <1>5 DEF Expire, CtTypeOK, socketVars, kernelVars
  <2>2. DueIsTried'
    BY <1>5 DEF Expire, DueIsTried, At, kernelVars
  <2> QED
    BY <2>1, <2>2, <1>5, EnvironmentKeeps DEF Expire
<1> QED
  BY <1>1, <1>2, <1>3, <1>4, <1>5 DEF Environment

-----------------------------------------------------------------------------
LEMMA CtInitInv == CtInit => CtInv
<1> SUFFICES ASSUME CtInit PROVE CtInv
  OBVIOUS
<1>1. \A c \in Caller : /\ call[c] = NoCall("none") /\ call[c].sock = None /\ call[c].pc = "idle"
                        /\ reached[c] = {} /\ due[c] = {}
  BY DEF CtInit, NoCall
<1>2. \A s \in Sock : wire[s] = {} /\ acks[s] = {} /\ Sent(s) = {}
  BY DEF CtInit, Sent
<1>3. sockets = <<>> /\ sockets \in Seq(Sock) /\ Len(sockets) = 0 /\ live = {}
  BY DEF CtInit
<1>4. CtTypeOK
  <2>1. NoCall("none") \in Calls
    BY NoCallType
  <2>2. call \in [Caller -> Calls]
    BY <2>1 DEF CtInit
  <2>3. reached \in [Caller -> SUBSET Addr] /\ due \in [Caller -> SUBSET Addr]
    BY DEF CtInit
  <2>4. wire \in [Sock -> SUBSET Request] /\ acks \in [Sock -> SUBSET Ack]
    BY DEF CtInit
  <2>5. entry \subseteq Addr /\ assigned \subseteq Addr /\ addrs = None /\ stale \in BOOLEAN
    BY DEF CtInit
  <2>6. Len(sockets) <= PoolSize
    BY <1>3, ConntrackAssumption
  <2> QED
    BY <2>2, <2>3, <2>4, <2>5, <2>6, <1>3 DEF CtTypeOK, Calls
<1>5. Held = {} /\ Pooled = {}
  BY <1>1, <1>3 DEF Held, Pooled
<1>6. SocketUse
  BY <1>1, <1>2 DEF SocketUse, At
<1>7. SocketsAccounted
  BY <1>1, <1>3, <1>5 DEF SocketsAccounted
<1>8. NoLateReplies
  BY <1>1, <1>5 DEF NoLateReplies, At
<1>9. RequestsKnown
  BY <1>2 DEF RequestsKnown
<1>10. AnswersTrue
  BY <1>1 DEF AnswersTrue, At
<1>11. DueIsTried
  BY <1>1 DEF DueIsTried, At
<1> QED
  BY <1>4, <1>6, <1>7, <1>8, <1>9, <1>10, <1>11 DEF CtInv

LEMMA CtStutterInv ==
  ASSUME CtInv, UNCHANGED vars
  PROVE  CtInv'
<1>1. /\ UNCHANGED <<socketVars, call, reached>> /\ UNCHANGED <<entry, assigned, addrs, stale, due>>
  BY DEF vars, kernelVars
<1>2. CtTypeOK'
  BY <1>1 DEF CtInv, CtTypeOK, socketVars
<1>3. DueIsTried'
  BY <1>1 DEF CtInv, DueIsTried, At
<1> QED
  BY <1>1, <1>2, <1>3, EnvironmentKeeps DEF CtInv

LEMMA CtStepInv == CtInv /\ [CtNext]_vars => CtInv'
<1> SUFFICES ASSUME CtInv, [CtNext]_vars PROVE CtInv'
  OBVIOUS
<1>1. ASSUME NEW c \in Caller, CallStep(c) PROVE CtInv'
  BY <1>1, localAddrsInv, EarlyReturnInv, SendInv, SendFailsInv, RecvInv, RecvFailsInv
     DEF CallStep
<1> QED
  BY <1>1, SetMarkInv, HandleInv, EnvironmentInv, CtStutterInv DEF CtNext

LEMMA CtInvariance == CtSpec => []CtInv
BY CtInitInv, CtStepInv, PTL DEF CtSpec

(* The tables of Marker and the locals of its callers have their types;    *)
(* the channel of idle sockets never holds more than socketPoolSize.       *)
THEOREM CtTypeCorrect == CtSpec => []CtTypeOK
BY CtInvariance, PTL DEF CtInv

(* getSocket, putSocket and the closes of SetMark keep account of every    *)
(* open socket: in the pool once, or in the hands of one call.             *)
THEOREM SocketsAlwaysAccounted == CtSpec => []SocketsAccounted
BY CtInvariance, PTL DEF CtInv

(* exchange never reads the reply to another call's request: a socket that *)
(* may still get one is never pooled.                                      *)
THEOREM NeverLateReplies == CtSpec => []NoLateReplies
BY CtInvariance, PTL DEF CtInv

-----------------------------------------------------------------------------
(* "More SetMark calls than this can run at once; the extras open a socket *)
(* and close it afterwards" (netlink.go, socketPoolSize): however calls    *)
(* fail and overlap, no more sockets are open than the pool holds and      *)
(* there are calls that wait for replies.                                  *)
Waits == {c \in Caller : At(c, "recv")}

OpenSocketsBounded ==
  IsFiniteSet(live) /\ Cardinality(live) <= PoolSize + Cardinality(Waits)

LEMMA SocketsBounded ==
  ASSUME CtInv, IsFiniteSet(Caller)
  PROVE  OpenSocketsBounded
<1>1. IsFiniteSet(Waits) /\ Cardinality(Waits) \in Nat
  BY FS_Subset, FS_CardinalityType DEF Waits
<1>2. IsFiniteSet(Held) /\ Cardinality(Held) <= Cardinality(Waits)
  <2> DEFINE f == [c \in Waits |-> call[c].sock]
  <2>1. \A c \in Caller : call[c].sock # None <=> c \in Waits
    BY DEF CtInv, SocketUse, Waits
  <2>2. Held = {call[c].sock : c \in Waits}
    BY <2>1 DEF Held, Waits
  <2>3. f \in Surjection(Waits, Held)
    BY <2>2 DEF Surjection
  <2> QED
    BY <2>3, <1>1, FS_Surjection
<1>3. Len(sockets) \in Nat /\ Len(sockets) <= PoolSize /\ PoolSize \in Nat
  BY ConntrackAssumption DEF CtInv, CtTypeOK
<1>4. IsFiniteSet(Pooled) /\ Cardinality(Pooled) <= Len(sockets)
  <2> DEFINE n == Len(sockets)
             f == [i \in 1 .. n |-> sockets[i]]
  <2>1. n \in Nat /\ f \in Surjection(1 .. n, Pooled)
    BY <1>3 DEF Pooled, Surjection
  <2> HIDE DEF n, f
  <2>2. IsFiniteSet(1 .. n) /\ Cardinality(1 .. n) = IF 1 > n THEN 0 ELSE n - 1 + 1
    BY <2>1, FS_Interval
  <2>3. Cardinality(1 .. n) = n
    BY <2>1, <2>2
  <2> QED
    BY <2>1, <2>2, <2>3, FS_Surjection DEF n
<1>5. live = Held \cup Pooled /\ Cardinality(Held \cap Pooled) = 0
  BY FS_EmptySet DEF CtInv, SocketsAccounted
<1>6. /\ IsFiniteSet(live) /\ Cardinality(Held) \in Nat /\ Cardinality(Pooled) \in Nat
      /\ Cardinality(live) = Cardinality(Held) + Cardinality(Pooled)
  <2>1. Cardinality(Held) \in Nat /\ Cardinality(Pooled) \in Nat
    BY <1>2, <1>4, FS_CardinalityType
  <2>2. /\ IsFiniteSet(Held \cup Pooled)
        /\ Cardinality(Held \cup Pooled) =
             Cardinality(Held) + Cardinality(Pooled) - Cardinality(Held \cap Pooled)
    BY <1>2, <1>4, FS_Union
  <2> QED
    BY <2>1, <2>2, <1>5
<1> QED
  BY <1>1, <1>2, <1>3, <1>4, <1>6 DEF OpenSocketsBounded

(* With finitely many callers the number of open sockets is bounded by the *)
(* pool and the calls in an exchange: none leaks.                          *)
THEOREM SocketsNeverLeak ==
  ASSUME IsFiniteSet(Caller)
  PROVE  CtSpec => []OpenSocketsBounded
<1>1. CtInv => OpenSocketsBounded
  BY SocketsBounded
<1> QED
  BY <1>1, CtInvariance, PTL

-----------------------------------------------------------------------------
(* What SetMark's answer means.                                            *)
Answer(c) ==
  ~At(c, "idle") /\ call'[c].pc = "idle" =>
    /\ call'[c].out = "ok" => reached[c] # {} /\ due[c] \subseteq reached[c]
    /\ call'[c].out = "missing" => reached[c] = {} /\ due[c] = {}

\* A step that leaves c's call where it is, or moves it on, answers nothing.
LEMMA NoAnswer ==
  ASSUME NEW c \in Caller, call'[c].pc = call[c].pc \/ call'[c].pc # "idle"
  PROVE  Answer(c)
BY DEF Answer, At

LEMMA ErrorAnswer ==
  ASSUME CtInv, NEW c \in Caller, NEW d \in Caller, Return(c, "error")
  PROVE  Answer(d)
<1>1. CASE d = c
  <2>1. call'[c] = NoCall("error")
    BY HeldAfterReturn
  <2> QED
    BY <1>1, <2>1 DEF Answer, NoCall
<1>2. CASE d # c
  BY <1>2, HeldAfterReturn, NoAnswer
<1> QED
  BY <1>1, <1>2

LEMMA MissingAnswer ==
  ASSUME CtInv, NEW c \in Caller, NEW d \in Caller, NoCandidate(c)
  PROVE  Answer(d)
<1>1. Return(c, "missing") /\ At(c, "socket") /\ call[c].dsts = {}
  BY DEF NoCandidate
<1>2. CASE d = c
  <2>1. due[c] = {} /\ reached[c] = {}
    BY <1>1 DEF CtInv, DueIsTried, AnswersTrue, At
  <2>2. call'[c] = NoCall("missing")
    BY <1>1, HeldAfterReturn
  <2> QED
    BY <1>2, <2>1, <2>2 DEF Answer, NoCall
<1>3. CASE d # c
  BY <1>1, <1>3, HeldAfterReturn, NoAnswer
<1> QED
  BY <1>2, <1>3

\* The last reply of an exchange: every candidate has a true answer.
LEMMA ResultsAnswer ==
  ASSUME CtInv, NEW c \in Caller, At(c, "recv"), NEW ack \in acks[call[c].sock],
         call[c].index \ {ack.req.dst} = {},
         Return(c, Outcome({Results(c, ack)[a] : a \in call[c].dsts}))
  PROVE  Answer(c)
<1> DEFINE res == Results(c, ack)
           out == Outcome({res[a] : a \in call[c].dsts})
<1>1. Mine(c, ack)
  BY ReplyIsMine
<1>2. call[c].dsts \subseteq Addr /\ call[c].results \in [Addr -> Errno]
  BY CallTypes DEF CtInv
<1>3. ASSUME NEW a \in call[c].dsts
      PROVE  Says(c, a, res[a]) /\ res[a] \in Errno
  <2>1. CASE a = ack.req.dst
    BY <2>1, <1>1, <1>2 DEF Mine, Results
  <2>2. CASE a # ack.req.dst
    <3>1. a \in call[c].dsts \ call[c].index /\ res[a] = call[c].results[a]
      BY <2>2, <1>2 DEF Results
    <3> QED
      BY <3>1, <1>2 DEF CtInv, AnswersTrue
  <2> QED
    BY <2>1, <2>2
<1>4. reached[c] \subseteq call[c].dsts /\ due[c] \subseteq call[c].dsts
  BY DEF CtInv, AnswersTrue, DueIsTried
<1>5. call'[c].out = out
  <2>1. Return(c, out)
    OBVIOUS
  <2> HIDE DEF out
  <2>2. call'[c] = NoCall(out)
    BY <2>1, HeldAfterReturn
  <2> QED
    BY <2>2 DEF NoCall
<1> HIDE DEF res
<1>6. out = "ok" => reached[c] # {} /\ due[c] \subseteq reached[c]
  BY <1>3, <1>4 DEF Outcome, Says, Errno
<1>7. out = "missing" => reached[c] = {} /\ due[c] = {}
  BY <1>3, <1>4 DEF Outcome, Says, Errno
<1> HIDE DEF out
<1> QED
  BY <1>5, <1>6, <1>7 DEF Answer

LEMMA RecvAnswer ==
  ASSUME CtInv, NEW c \in Caller, NEW d \in Caller, Recv(c)
  PROVE  Answer(d)
<1>1. At(c, "recv")
  BY DEF Recv
<1>2. PICK ack \in acks[call[c].sock] :
        \/ /\ call[c].index \ {ack.req.dst} = {}
           /\ Return(c, Outcome({Results(c, ack)[a] : a \in call[c].dsts}))
        \/ call' = [call EXCEPT ![c].index = call[c].index \ {ack.req.dst},
                                ![c].results = Results(c, ack)]
  BY RecvCases
<1>3. CASE /\ call[c].index \ {ack.req.dst} = {}
           /\ Return(c, Outcome({Results(c, ack)[a] : a \in call[c].dsts}))
  <2>1. CASE d = c
    BY <1>1, <1>3, <2>1, ResultsAnswer
  <2>2. CASE d # c
    BY <1>3, <2>2, HeldAfterReturn, NoAnswer
  <2> QED
    BY <2>1, <2>2
<1>4. CASE call' = [call EXCEPT ![c].index = call[c].index \ {ack.req.dst},
                               ![c].results = Results(c, ack)]
  <2>1. call \in [Caller -> Calls] /\ call[d] \in Calls
    BY CallTypes DEF CtInv
  <2>2. call'[d].pc = call[d].pc
    BY <1>4, <2>1 DEF Calls
  <2> QED
    BY <2>2, NoAnswer
<1> QED
  BY <1>2, <1>3, <1>4

LEMMA StepAnswer ==
  ASSUME CtInv, CtNext, NEW d \in Caller
  PROVE  Answer(d)
<1>0. call \in [Caller -> Calls] /\ call[d] \in Calls
  BY CallTypes DEF CtInv
<1>1. ASSUME NEW c \in Caller, NEW f \in Family, NEW x \in Dst, SetMark(c, f, x)
      PROVE  Answer(d)
  <2>1. CASE d = c
    <3>1. call[c].pc = "idle"
      BY <1>1 DEF SetMark, At
    <3> QED
      BY <2>1, <3>1 DEF Answer, At
  <2>2. CASE d # c
    <3>1. call'[d] = call[d]
      BY <1>0, <1>1, <2>2 DEF SetMark
    <3> QED
      BY <3>1, NoAnswer
  <2> QED
    BY <2>1, <2>2
<1>2. ASSUME NEW c \in Caller, localAddrs(c) PROVE Answer(d)
  <2>1. call'[d].pc = call[d].pc \/ call'[d].pc = "socket"
    BY <1>0, <1>2 DEF localAddrs, Calls
  <2> QED
    BY <2>1, NoAnswer
<1>3. ASSUME NEW c \in Caller, Send(c) PROVE Answer(d)
  <2>1. call'[d].pc = call[d].pc \/ call'[d].pc = "recv"
    BY <1>0, <1>3 DEF Send, Calls
  <2> QED
    BY <2>1, NoAnswer
<1>4. ASSUME NEW c \in Caller, localAddrsFails(c) \/ SendFails(c) \/ RecvFails(c)
      PROVE  Answer(d)
  BY <1>4, ErrorAnswer DEF localAddrsFails, SendFails, RecvFails
<1>5. ASSUME call' = call PROVE Answer(d)
  BY <1>5, NoAnswer
<1>6. ASSUME NEW s \in Sock, Handle(s) PROVE call' = call
  BY <1>6 DEF Handle
<1>7. ASSUME Environment PROVE call' = call
  BY <1>7 DEF Environment, Open, Close, Assign, Unassign, Expire
<1>8. ASSUME NEW c \in Caller, CallStep(c) PROVE Answer(d)
  BY <1>2, <1>3, <1>4, <1>8, MissingAnswer, RecvAnswer DEF CallStep
<1> QED
  BY <1>1, <1>5, <1>6, <1>7, <1>8 DEF CtNext

(* What SetMark answers is true of the kernel, whatever acks were lost or  *)
(* late and whatever other calls did: success means that an entry was      *)
(* marked and that none that was there all along was missed, "no conntrack *)
(* entry" that there was none to mark.                                     *)
THEOREM SetMarkIsSound == CtSpec => SetMarkSound
<1>1. CtInv /\ [CtNext]_vars =>
        [\A c \in Caller : ~At(c, "idle") /\ call'[c].pc = "idle" =>
           /\ call'[c].out = "ok" => reached[c] # {} /\ due[c] \subseteq reached[c]
           /\ call'[c].out = "missing" => reached[c] = {} /\ due[c] = {}]_vars
  BY StepAnswer DEF Answer
<1> QED
  BY <1>1, CtInvariance, PTL DEF CtSpec, SetMarkSound
=============================================================================
