----------------------------- MODULE Conntrack -----------------------------
(***************************************************************************)
(* conntrack.Marker: SetMark, localAddrs and candidateDsts (conntrack.go), *)
(* the pool of netlink sockets and exchange (netlink.go).                  *)
(*                                                                         *)
(* Webhook handlers call SetMark concurrently.  A call sends one request   *)
(* per candidate address, in one batch, on a socket of its own, and waits  *)
(* for an ack of each.  The kernel handles the requests one by one, in     *)
(* any order, and the wait can end in an error (time out, interrupted,     *)
(* unreadable) at any moment, with acks lost or still to come.             *)
(* Meanwhile connections open and close and addresses come and go.         *)
(*                                                                         *)
(* The calls are about one client address and port: an entry is known by   *)
(* the local address it connects to.  The mark a call sets is left out:    *)
(* what matters is which entries its requests have reached.                *)
(***************************************************************************)
EXTENDS Naturals, Sequences, FiniteSets

CONSTANTS
  Caller,     \* goroutines that call SetMark
  Addr,       \* local addresses
  V4,         \* the IPv4 ones among them
  Moving,     \* those that are assigned and taken away while the service runs
  AnyAddr,    \* dstIP.IsUnspecified()
  Dst,        \* the destinations webhooks report: addresses, or AnyAddr
  Sock,       \* netlink sockets
  PoolSize,   \* socketPoolSize
  None        \* no socket; no address list

ASSUME ConntrackAssumption ==
  /\ V4 \subseteq Addr /\ Moving \subseteq Addr /\ AnyAddr \notin Addr
  /\ Dst \subseteq Addr \cup {AnyAddr}
  /\ PoolSize \in Nat
  /\ None \notin Sock

VARIABLES
  entry,      \* kernel: addresses with a conntrack entry for the client
  assigned,   \* kernel: addresses assigned to an interface
  wire,       \* kernel: requests sent on each socket and not handled yet
  acks,       \* kernel: replies each socket has not read yet
  live,       \* sockets that are open
  sockets,    \* Marker.sockets, a channel
  addrs,      \* Marker.addrs
  stale,      \* localAddrsTTL has passed since addrsFetched
  call,       \* the locals of each caller's SetMark
  reached,    \* history: entries the call's requests have marked
  due         \* history: entries the call ought to find, see Due

kernelVars == <<entry, assigned>>
socketVars == <<wire, acks, live, sockets>>
vars == <<kernelVars, socketVars, addrs, stale, call, reached, due>>

Family == {V4, Addr \ V4}
Errno == {"ok", "ENOENT", "other"}
\* A request is known by its Seq: the call that sent it and the address.
Request == [caller : Caller, dst : Addr]
Ack == [req : Request, errno : Errno]

CtTypeOK ==
  /\ entry \subseteq Addr /\ assigned \subseteq Addr
  /\ wire \in [Sock -> SUBSET Request] /\ acks \in [Sock -> SUBSET Ack]
  /\ live \subseteq Sock
  /\ sockets \in Seq(Sock) /\ Len(sockets) <= PoolSize
  /\ addrs \in {None} \cup SUBSET Addr /\ stale \in BOOLEAN
  /\ call \in [Caller -> [pc : {"idle", "addrs", "socket", "recv"},
                          family : Family, dst : Addr \cup {AnyAddr}, dsts : SUBSET Addr,
                          sock : Sock \cup {None}, index : SUBSET Addr,
                          results : [Addr -> Errno], out : {"none", "ok", "missing", "error"}]]
  /\ reached \in [Caller -> SUBSET Addr] /\ due \in [Caller -> SUBSET Addr]

-----------------------------------------------------------------------------
\* "results = make([]error, len(reqs))": nil until an ack says otherwise.
NoErrors == [a \in Addr |-> "ok"]

NoCall(out) ==
  [pc |-> "idle", family |-> V4, dst |-> AnyAddr, dsts |-> {}, sock |-> None,
   index |-> {}, results |-> NoErrors, out |-> out]

CtInit ==
  /\ entry \in SUBSET Addr /\ assigned \in {A \in SUBSET Addr : Addr \ Moving \subseteq A}
  /\ wire = [s \in Sock |-> {}] /\ acks = [s \in Sock |-> {}]
  /\ live = {} /\ sockets = <<>>
  /\ addrs = None /\ stale = FALSE
  /\ call = [c \in Caller |-> NoCall("none")]
  /\ reached = [c \in Caller |-> {}] /\ due = [c \in Caller |-> {}]

candidateDsts(dst, family, local) ==
  (IF dst = AnyAddr THEN local ELSE {dst}) \cap family

(* What a call must find if it is there all along: the entry under the     *)
(* address given, or those under every address of the family that the      *)
(* list has or, when the list is too old to be used, that is assigned.     *)
Due(dst, family) ==
  entry \cap candidateDsts(dst, family,
    IF addrs = None \/ stale THEN assigned ELSE addrs \cap assigned)

At(c, where) == call[c].pc = where

\* SetMark returns.
Return(c, out) ==
  /\ call' = [call EXCEPT ![c] = NoCall(out)]
  /\ reached' = [reached EXCEPT ![c] = {}]
  /\ due' = [due EXCEPT ![c] = {}]

(* Bound: a goroutine calls again when nothing of its last call is under   *)
(* way, so that <<caller, dst>> stands for a Seq no other request has.     *)
(* What a failed call leaves behind meets the calls of the others.         *)
SeqsUnused(c) ==
  \A s \in Sock : \A req \in wire[s] \cup {ack.req : ack \in acks[s]} : req.caller # c

SetMark(c, family, dst) ==
  /\ At(c, "idle") /\ SeqsUnused(c)
  /\ call' = [call EXCEPT ![c] =
       [NoCall("none") EXCEPT !.family = family, !.dst = dst,
          !.pc = IF dst = AnyAddr THEN "addrs" ELSE "socket",
          !.dsts = candidateDsts(dst, family, {})]]
  /\ due' = [due EXCEPT ![c] = Due(dst, family)]
  /\ UNCHANGED <<kernelVars, socketVars, addrs, stale, reached>>

\* Mutant of localAddrs: a list once read is never read again.
localAddrsOnce(c) ==
  /\ At(c, "addrs")
  /\ addrs' = IF addrs = None THEN assigned ELSE addrs
  /\ call' = [call EXCEPT ![c].pc = "socket",
                ![c].dsts = candidateDsts(AnyAddr, call[c].family, addrs')]
  /\ UNCHANGED <<kernelVars, socketVars, stale, reached, due>>

\* Under addrsMu: the list, read again when it is too old.
localAddrs(c) ==
  /\ At(c, "addrs")
  /\ LET fetch == addrs = None \/ stale IN
       /\ addrs' = IF fetch THEN assigned ELSE addrs
       /\ stale' = IF fetch THEN FALSE ELSE stale
  /\ call' = [call EXCEPT ![c].pc = "socket",
                ![c].dsts = candidateDsts(AnyAddr, call[c].family, addrs')]
  /\ UNCHANGED <<kernelVars, socketVars, reached, due>>

localAddrsFails(c) ==
  /\ At(c, "addrs") /\ (addrs = None \/ stale)
  /\ Return(c, "error")
  /\ UNCHANGED <<kernelVars, socketVars, addrs, stale>>

\* len(reqs) = 0: there is nothing to ask the kernel.
NoCandidate(c) ==
  /\ At(c, "socket") /\ call[c].dsts = {}
  /\ Return(c, "missing")
  /\ UNCHANGED <<kernelVars, socketVars, addrs, stale>>

\* An idle socket from the pool, or a new one.
getSocket(s) ==
  IF sockets # <<>>
    THEN s = Head(sockets) /\ sockets' = Tail(sockets) /\ UNCHANGED live
    ELSE /\ s \notin live /\ wire[s] = {}
         /\ s = CHOOSE new \in Sock : new \notin live /\ wire[new] = {}
         /\ live' = live \cup {s} /\ UNCHANGED sockets

\* exchange: the batch leaves in one sendmsg.
Send(c) ==
  /\ At(c, "socket") /\ call[c].dsts # {}
  /\ \E s \in Sock :
       /\ getSocket(s)
       /\ wire' = [wire EXCEPT ![s] = @ \cup
            {[caller |-> c, dst |-> a] : a \in call[c].dsts}]
       /\ call' = [call EXCEPT ![c].pc = "recv", ![c].sock = s, ![c].index = call[c].dsts]
  /\ UNCHANGED <<kernelVars, acks, addrs, stale, reached, due>>

\* close: unread replies are lost, what was sent may still be handled.
close(s) == live' = live \ {s} /\ acks' = [acks EXCEPT ![s] = {}]

\* There is no socket, or the send failed and SetMark closes it.
SendFails(c) ==
  /\ At(c, "socket") /\ call[c].dsts # {}
  /\ IF sockets = <<>>
       THEN UNCHANGED <<acks, live, sockets>>
       ELSE close(Head(sockets)) /\ sockets' = Tail(sockets)
  /\ Return(c, "error")
  /\ UNCHANGED <<kernelVars, wire, addrs, stale>>

\* Mutant of RecvFails: the socket goes back to the pool although acks are
\* still to come.
RecvFailsPooled(c) ==
  /\ At(c, "recv") /\ Len(sockets) < PoolSize
  /\ sockets' = Append(sockets, call[c].sock)
  /\ Return(c, "error")
  /\ UNCHANGED <<kernelVars, wire, acks, live, addrs, stale>>

\* The wait for a reply fails, by SO_RCVTIMEO or otherwise: exchange returns
\* the error and SetMark closes the socket.
RecvFails(c) ==
  /\ At(c, "recv")
  /\ close(call[c].sock) /\ Return(c, "error")
  /\ UNCHANGED <<kernelVars, wire, sockets, addrs, stale>>

\* What the results say: an errno other than ENOENT is an error, whatever
\* else was marked; no entry at all is one too.
Outcome(answers) ==
  IF "other" \in answers THEN "error"
  ELSE IF "ok" \in answers THEN "ok" ELSE "missing"

\* Mutant of putSocket: a socket that does not fit is dropped, still open.
putSocketLeaks(s, unread) ==
  /\ sockets' = IF Len(sockets) < PoolSize THEN Append(sockets, s) ELSE sockets
  /\ acks' = [acks EXCEPT ![s] = unread]
  /\ UNCHANGED live

\* Mutant of putSocket: the pool takes one socket too many.
putSocketOneMore(s, unread) ==
  IF Len(sockets) <= PoolSize
    THEN sockets' = Append(sockets, s) /\ acks' = [acks EXCEPT ![s] = unread] /\ UNCHANGED live
    ELSE close(s) /\ UNCHANGED sockets

putSocket(s, unread) ==
  IF Len(sockets) < PoolSize
    THEN sockets' = Append(sockets, s) /\ acks' = [acks EXCEPT ![s] = unread] /\ UNCHANGED live
    ELSE close(s) /\ UNCHANGED sockets

(* exchange reads one reply.  Only the Seq of a request of this batch that *)
(* has no answer yet counts.  When none is pending the socket is put back  *)
(* and SetMark returns what the results say.                               *)
Recv(c) ==
  /\ At(c, "recv")
  /\ \E ack \in acks[call[c].sock] :
       LET s == call[c].sock
           dst == ack.req.dst
           mine == ack.req.caller = c /\ dst \in call[c].index
           index == IF mine THEN call[c].index \ {dst} ELSE call[c].index
           results == IF mine THEN [call[c].results EXCEPT ![dst] = ack.errno]
                      ELSE call[c].results
       IN IF index = {}
            THEN /\ putSocket(s, acks[s] \ {ack})
                 /\ Return(c, Outcome({results[a] : a \in call[c].dsts}))
            ELSE /\ acks' = [acks EXCEPT ![s] = @ \ {ack}]
                 /\ call' = [call EXCEPT ![c].index = index, ![c].results = results]
                 /\ UNCHANGED <<live, sockets, reached, due>>
  /\ UNCHANGED <<kernelVars, wire, addrs, stale>>

-----------------------------------------------------------------------------
(* The kernel handles a request: it sets the mark of the entry with that   *)
(* tuple, or answers ENOENT, or another errno without a change.  Nobody    *)
(* reads the ack once the socket is closed.                                *)
Handle(s) ==
  \E req \in wire[s], errno \in Errno :
    /\ errno = "ok" => req.dst \in entry
    /\ errno = "ENOENT" => req.dst \notin entry
    /\ wire' = [wire EXCEPT ![s] = @ \ {req}]
    /\ acks' = IF s \notin live THEN acks
               ELSE [acks EXCEPT ![s] = @ \cup {[req |-> req, errno |-> errno]}]
    /\ reached' = IF errno = "ok" /\ ~At(req.caller, "idle")
                    THEN [reached EXCEPT ![req.caller] = @ \cup {req.dst}] ELSE reached
    /\ UNCHANGED <<kernelVars, live, sockets, addrs, stale, call, due>>

Open(a) ==
  /\ entry' = entry \cup {a} /\ a \notin entry
  /\ UNCHANGED <<assigned, socketVars, addrs, stale, call, reached, due>>

Close(a) ==
  /\ entry' = entry \ {a} /\ a \in entry
  /\ due' = [c \in Caller |-> due[c] \ {a}]
  /\ UNCHANGED <<assigned, socketVars, addrs, stale, call, reached>>

Assign(a) ==
  /\ assigned' = assigned \cup {a} /\ a \notin assigned
  /\ UNCHANGED <<entry, socketVars, addrs, stale, call, reached, due>>

Unassign(a) ==
  /\ assigned' = assigned \ {a} /\ a \in assigned
  /\ due' = [c \in Caller |-> IF call[c].dst = AnyAddr THEN due[c] \ {a} ELSE due[c]]
  /\ UNCHANGED <<entry, socketVars, addrs, stale, call, reached>>

\* localAddrsTTL passes.
Expire ==
  /\ addrs # None /\ ~stale /\ stale' = TRUE
  /\ UNCHANGED <<kernelVars, socketVars, addrs, call, reached, due>>

CallStep(c) ==
  \/ localAddrs(c) \/ localAddrsFails(c) \/ NoCandidate(c)
  \/ Send(c) \/ SendFails(c) \/ Recv(c) \/ RecvFails(c)

Environment ==
  \/ \E a \in Addr : Open(a) \/ Close(a)
  \/ \E a \in Moving : Assign(a) \/ Unassign(a)
  \/ Expire

CtNext ==
  \/ \E c \in Caller, f \in Family, d \in Dst : SetMark(c, f, d)
  \/ \E c \in Caller : CallStep(c)
  \/ \E s \in Sock : Handle(s)
  \/ Environment

CtSpec == CtInit /\ [][CtNext]_vars

-----------------------------------------------------------------------------
Held == {call[c].sock : c \in Caller} \ {None}
Pooled == {sockets[i] : i \in 1..Len(sockets)}

(* "More SetMark calls than this can run at once; the extras open a socket *)
(* and close it afterwards" (netlink.go, socketPoolSize): every open       *)
(* socket is in the pool once or in the hands of one call, none is lost    *)
(* and none is shared, so that no more than the pool and one per call in   *)
(* progress are ever open.                                                 *)
SocketsAccounted ==
  /\ live = Held \cup Pooled /\ Held \cap Pooled = {}
  /\ \A i, j \in 1..Len(sockets) : sockets[i] = sockets[j] => i = j
  /\ \A c, d \in Caller : call[c].sock = call[d].sock /\ call[c].sock # None => c = d

(* "A socket that failed mid-exchange may still get late replies, so the   *)
(* caller must close it rather than reuse it" (exchange): a socket in the  *)
(* pool has nothing left to be handled or read, and one in use carries no  *)
(* request but those of the call that uses it.                             *)
NoLateReplies ==
  /\ \A s \in Pooled : wire[s] = {} /\ acks[s] = {}
  /\ \A c \in Caller : At(c, "recv") =>
       \A req \in wire[call[c].sock] \cup {ack.req : ack \in acks[call[c].sock]} :
         req.caller = c

(* What an answer of SetMark means, whatever acks were lost, late or in    *)
(* whatever order, and whatever other calls did: on success at least one   *)
(* entry carries the mark, and on success or "no conntrack entry" every    *)
(* entry that was there all along, under the address given or under any    *)
(* local address the wildcard stands for, was marked by this call ("marks  *)
(* every flow found rather than picking one or skipping", conntrack.go).   *)
SetMarkSound ==
  [][\A c \in Caller : ~At(c, "idle") /\ call'[c].pc = "idle" =>
       /\ call'[c].out = "ok" => reached[c] # {} /\ due[c] \subseteq reached[c]
       /\ call'[c].out = "missing" => reached[c] = {} /\ due[c] = {}]_vars
=============================================================================
