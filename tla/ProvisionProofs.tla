-------------------------- MODULE ProvisionProofs --------------------------
(***************************************************************************)
(* Proofs about Provision, for any number of webhooks, marks and callers   *)
(* of the store and any channel capacity.                                  *)
(***************************************************************************)
EXTENDS Provision, ShapedStoreProofs

-----------------------------------------------------------------------------
(* The channel as a sequence without repetitions.                          *)

RangeOf(s) == {s[i] : i \in 1..Len(s)}
Distinct(s) == \A i, j \in 1..Len(s) : i # j => s[i] # s[j]

LEMMA AppendChannel ==
  ASSUME NEW S, NEW s \in Seq(S), NEW e \in S
  PROVE  /\ Append(s, e) \in Seq(S)
         /\ RangeOf(Append(s, e)) = RangeOf(s) \cup {e}
         /\ Distinct(s) /\ e \notin RangeOf(s) => Distinct(Append(s, e))
<1>1. /\ Append(s, e) \in Seq(S)
      /\ Len(Append(s, e)) = Len(s) + 1 /\ Len(s) \in Nat
      /\ \A i \in 1..Len(s) : Append(s, e)[i] = s[i]
      /\ Append(s, e)[Len(s) + 1] = e
  OBVIOUS
<1>2. RangeOf(Append(s, e)) = RangeOf(s) \cup {e}
  BY <1>1 DEF RangeOf
<1>3. Distinct(s) /\ e \notin RangeOf(s) => Distinct(Append(s, e))
  BY <1>1 DEF RangeOf, Distinct
<1> QED
  BY <1>1, <1>2, <1>3

LEMMA TailChannel ==
  ASSUME NEW S, NEW s \in Seq(S), s # <<>>, Distinct(s)
  PROVE  /\ Head(s) \in S /\ Tail(s) \in Seq(S)
         /\ RangeOf(s) = RangeOf(Tail(s)) \cup {Head(s)}
         /\ Head(s) \notin RangeOf(Tail(s))
         /\ Distinct(Tail(s))
<1>1. /\ Head(s) \in S /\ Tail(s) \in Seq(S)
      /\ Len(s) \in Nat /\ Len(s) > 0 /\ Len(Tail(s)) = Len(s) - 1
      /\ Head(s) = s[1]
      /\ \A i \in 1..Len(Tail(s)) : Tail(s)[i] = s[i + 1]
  OBVIOUS
<1>2. RangeOf(s) = RangeOf(Tail(s)) \cup {Head(s)}
  <2>1. ASSUME NEW i \in 1..Len(s) PROVE s[i] \in RangeOf(Tail(s)) \cup {Head(s)}
    <3>1. CASE i = 1
      BY <1>1, <3>1
    <3>2. CASE i # 1
      <4>1. i - 1 \in 1..Len(Tail(s)) /\ Tail(s)[i - 1] = s[i]
        BY <1>1, <3>2
      <4> QED
        BY <4>1 DEF RangeOf
    <3> QED
      BY <3>1, <3>2
  <2>2. ASSUME NEW i \in 1..Len(Tail(s)) PROVE Tail(s)[i] \in RangeOf(s)
    BY <1>1 DEF RangeOf
  <2>3. Head(s) \in RangeOf(s)
    BY <1>1 DEF RangeOf
  <2> QED
    BY <2>1, <2>2, <2>3 DEF RangeOf
<1>3. Head(s) \notin RangeOf(Tail(s)) /\ Distinct(Tail(s))
  BY <1>1 DEF RangeOf, Distinct
<1> QED
  BY <1>1, <1>2, <1>3

-----------------------------------------------------------------------------
(* Handler.queued against its holders.  Waiting speaks of hook, queue,     *)
(* queued and hand only, so that the store's own steps cannot disturb it.  *)

Waiting == ProvisionTypes /\ QueuedIsWaiting /\ WaitsOnce

LEMMA WaitingInit == Init => Waiting
BY NoOpType
   DEF Init, Waiting, ProvisionTypes, HookState, QueuedIsWaiting, WaitsOnce, InChannel, Sending, Op

(* A webhook that starts, finds a rate, or finds its mark already queued   *)
(* holds nothing before or after.                                          *)
LEMMA NotSending ==
  ASSUME Waiting, NEW h \in Hook, NEW s \in HookState,
         hook[h].pc \notin {"send", "undo"}, s.pc \notin {"send", "undo"},
         s.pc # "idle" => s.mark \in UserMark,
         hook' = [hook EXCEPT ![h] = s],
         UNCHANGED <<queue, queued, hand>>
  PROVE  Waiting'
<1> USE DEF Waiting
<1>1. ProvisionTypes'
  BY DEF ProvisionTypes
<1>2. Sending' = Sending /\ \A g \in Sending : hook'[g] = hook[g]
  BY DEF ProvisionTypes, Sending
<1>3. QueuedIsWaiting'
  BY <1>2 DEF QueuedIsWaiting, InChannel
<1>4. WaitsOnce'
  BY <1>2 DEF WaitsOnce, InChannel
<1> QED
  BY <1>1, <1>3, <1>4

LEMMA IdleState == [pc |-> "idle", mark |-> NoOp.mark] \in HookState
BY NoOpType DEF HookState, Op

LEMMA WebhookWaiting ==
  ASSUME Waiting, NEW h \in Hook, NEW m \in UserMark, Webhook(h, m)
  PROVE  Waiting'
<1>1. [pc |-> "get", mark |-> m] \in HookState
  BY StoreAssumption DEF HookState
<1> QED
  BY <1>1, NotSending DEF Webhook

LEMMA GetWaiting ==
  ASSUME Waiting, NEW h \in Hook, Get(h)
  PROVE  Waiting'
<1>1. CASE Done(h)
  BY <1>1, IdleState, NotSending DEF Get, Done
<1>2. CASE Goto(h, "load")
  <2> DEFINE s == [hook[h] EXCEPT !.pc = "load"]
  <2>1. s \in HookState /\ s.pc = "load" /\ s.mark \in UserMark
    BY DEF Get, Waiting, ProvisionTypes, HookState
  <2>2. hook' = [hook EXCEPT ![h] = s]
    BY <1>2 DEF Goto, Waiting, ProvisionTypes
  <2> HIDE DEF s
  <2> QED
    BY <2>1, <2>2, NotSending DEF Get
<1> QED
  BY <1>1, <1>2 DEF Get

(* LoadOrStore: a mark that no one holds is queued by one webhook.         *)
LEMMA LoadWaiting ==
  ASSUME Waiting, NEW h \in Hook, LoadOrStore(h)
  PROVE  Waiting'
<1> USE DEF Waiting
<1> DEFINE m == hook[h].mark
<1>1. CASE m \in queued
  <2>1. queued' = queued
    BY <1>1 DEF LoadOrStore
  <2> QED
    BY <1>1, <2>1, IdleState, NotSending DEF LoadOrStore, Done
<1>2. CASE m \notin queued
  <2>1. /\ hook' = [hook EXCEPT ![h].pc = "send"]
        /\ queued' = queued \cup {m}
        /\ UNCHANGED <<queue, hand>>
        /\ hook[h].pc = "load"
    BY <1>2 DEF LoadOrStore, Goto
  <2>2. m \in UserMark
    BY <2>1 DEF ProvisionTypes
  <2>3. ProvisionTypes'
    BY <2>1, <2>2 DEF ProvisionTypes, HookState
  <2>4. /\ Sending' = Sending \cup {h} /\ h \notin Sending
        /\ \A g \in Hook : hook'[g].mark = hook[g].mark
    BY <2>1 DEF ProvisionTypes, HookState, Sending
  <2>5. QueuedIsWaiting'
    <3>1. {hook'[g].mark : g \in Sending'} = {hook[g].mark : g \in Sending} \cup {m}
      BY <2>4 DEF Sending
    <3> QED
      BY <2>1, <3>1 DEF QueuedIsWaiting, InChannel
  <2>6. /\ \A g \in Sending : hook[g].mark # m
        /\ m \notin InChannel
        /\ m # hand
    <3>1. m # NoMark
      BY <2>2, StoreAssumption, ProvisionAssumption
    <3> QED
      BY <1>2, <3>1 DEF QueuedIsWaiting
  <2>7. WaitsOnce'
    BY <2>1, <2>4, <2>6 DEF WaitsOnce, InChannel, Sending
  <2> QED
    BY <2>3, <2>5, <2>7
<1> QED
  BY <1>1, <1>2

(* A webhook stops holding its mark: it has sent it or given it up.        *)
LEMMA StopsSending ==
  ASSUME Waiting, NEW h \in Hook, h \in Sending, Done(h)
  PROVE  /\ Sending' = Sending \ {h}
         /\ \A g \in Sending' : hook'[g] = hook[g]
         /\ hook' \in [Hook -> HookState]
         /\ \A g \in Hook : hook'[g].pc # "idle" => hook'[g].mark \in UserMark
         /\ {hook'[g].mark : g \in Sending'} = {hook[g].mark : g \in Sending} \ {hook[h].mark}
<1> USE DEF Waiting
<1>1. hook' = [hook EXCEPT ![h] = [pc |-> "idle", mark |-> NoOp.mark]]
  BY DEF Done
<1>2. hook' \in [Hook -> HookState]
  BY <1>1, IdleState DEF ProvisionTypes
<1>3. /\ Sending' = Sending \ {h}
      /\ \A g \in Sending' : hook'[g] = hook[g]
      /\ \A g \in Hook : hook'[g].pc # "idle" => hook'[g].mark \in UserMark
  BY <1>1 DEF ProvisionTypes, Sending
<1>4. \A g \in Sending' : hook[g].mark # hook[h].mark
  BY <1>3 DEF WaitsOnce
<1> QED
  BY <1>2, <1>3, <1>4

LEMMA SendWaiting ==
  ASSUME Waiting, NEW h \in Hook, Send(h)
  PROVE  Waiting'
<1> USE DEF Waiting
<1> DEFINE m == hook[h].mark
<1>0. h \in Sending /\ m \in UserMark /\ UNCHANGED <<queued, hand>>
  BY DEF Send, Sending, ProvisionTypes
<1>1. CASE queue' = Append(queue, m) /\ Done(h)
  <2>1. /\ Sending' = Sending \ {h}
        /\ \A g \in Sending' : hook'[g] = hook[g]
        /\ hook' \in [Hook -> HookState]
        /\ \A g \in Hook : hook'[g].pc # "idle" => hook'[g].mark \in UserMark
        /\ {hook'[g].mark : g \in Sending'} = {hook[g].mark : g \in Sending} \ {m}
    BY <1>0, <1>1, StopsSending
  <2>2. queue \in Seq(UserMark) /\ m \notin InChannel \cup {hand} /\ InChannel = RangeOf(queue)
    BY <1>0 DEF ProvisionTypes, WaitsOnce, InChannel, RangeOf
  <2>3. Distinct(queue)
    BY DEF WaitsOnce, Distinct
  <2>4. queue' \in Seq(UserMark) /\ InChannel' = InChannel \cup {m} /\ Distinct(queue')
    BY <1>0, <1>1, <2>2, <2>3, AppendChannel DEF InChannel, RangeOf
  <2>5. ProvisionTypes'
    BY <1>0, <2>1, <2>4 DEF ProvisionTypes
  <2>6. QueuedIsWaiting'
    <3>1. m \in {hook[g].mark : g \in Sending}
      BY <1>0
    <3> QED
      BY <1>0, <2>1, <2>4, <3>1 DEF QueuedIsWaiting
  <2>7. WaitsOnce'
    <3>1. \A g \in Sending' : hook'[g].mark \notin InChannel' \cup {hand'}
      BY <1>0, <2>1, <2>4 DEF WaitsOnce
    <3>2. \A f, g \in Sending' : f # g => hook'[f].mark # hook'[g].mark
      BY <2>1 DEF WaitsOnce
    <3>3. hand' \notin InChannel'
      BY <1>0, <2>2, <2>4 DEF WaitsOnce
    <3> QED
      BY <2>4, <3>1, <3>2, <3>3 DEF WaitsOnce, Distinct
  <2> QED
    BY <2>5, <2>6, <2>7
<1>2. CASE UNCHANGED queue /\ Goto(h, "undo")
  <2>1. /\ hook' \in [Hook -> HookState] /\ Sending' = Sending
        /\ \A g \in Hook : hook'[g].mark = hook[g].mark
    BY <1>0, <1>2 DEF Goto, ProvisionTypes, HookState, Sending
  <2>2. ProvisionTypes'
    BY <1>0, <1>2, <2>1 DEF Goto, ProvisionTypes
  <2>3. QueuedIsWaiting'
    <3>1. {hook'[g].mark : g \in Sending'} = {hook[g].mark : g \in Sending}
      BY <2>1 DEF Sending
    <3> QED
      BY <1>0, <1>2, <3>1 DEF QueuedIsWaiting, InChannel
  <2>4. WaitsOnce'
    BY <1>0, <1>2, <2>1 DEF WaitsOnce, InChannel, Sending
  <2> QED
    BY <2>2, <2>3, <2>4
<1> QED
  BY <1>1, <1>2 DEF Send

LEMMA UndoWaiting ==
  ASSUME Waiting, NEW h \in Hook, Undo(h)
  PROVE  Waiting'
<1> USE DEF Waiting
<1> DEFINE m == hook[h].mark
<1>0. h \in Sending /\ m \in UserMark /\ UNCHANGED <<queue, hand>> /\ queued' = queued \ {m}
  BY DEF Undo, Sending, ProvisionTypes
<1>1. /\ Sending' = Sending \ {h}
      /\ \A g \in Sending' : hook'[g] = hook[g]
      /\ hook' \in [Hook -> HookState]
      /\ \A g \in Hook : hook'[g].pc # "idle" => hook'[g].mark \in UserMark
      /\ {hook'[g].mark : g \in Sending'} = {hook[g].mark : g \in Sending} \ {m}
  BY <1>0, StopsSending DEF Undo
<1>2. ProvisionTypes'
  BY <1>0, <1>1 DEF ProvisionTypes
<1>3. InChannel' = InChannel
  BY <1>0 DEF InChannel
<1>4. QueuedIsWaiting'
  <2>1. m \notin InChannel /\ m # hand
    BY <1>0 DEF WaitsOnce
  <2> QED
    BY <1>0, <1>1, <1>3, <2>1 DEF QueuedIsWaiting
<1>5. WaitsOnce'
  BY <1>0, <1>1, <1>3 DEF WaitsOnce
<1> QED
  BY <1>2, <1>4, <1>5

(* The worker takes a mark from the channel into its hands.                *)
LEMMA ReceiveWaiting ==
  ASSUME Waiting, Receive
  PROVE  Waiting'
<1> USE DEF Waiting
<1>0. /\ hand = NoMark /\ queue # <<>> /\ hand' = Head(queue) /\ queue' = Tail(queue)
      /\ UNCHANGED <<hook, queued>>
  BY DEF Receive
<1>1. queue \in Seq(UserMark) /\ Distinct(queue) /\ InChannel = RangeOf(queue)
  BY DEF ProvisionTypes, WaitsOnce, Distinct, InChannel, RangeOf
<1>2. /\ hand' \in UserMark /\ queue' \in Seq(UserMark)
      /\ InChannel = InChannel' \cup {hand'}
      /\ hand' \notin InChannel'
      /\ Distinct(queue')
  <2>1. /\ Head(queue) \in UserMark /\ Tail(queue) \in Seq(UserMark)
        /\ RangeOf(queue) = RangeOf(Tail(queue)) \cup {Head(queue)}
        /\ Head(queue) \notin RangeOf(Tail(queue))
        /\ Distinct(Tail(queue))
    BY <1>0, <1>1, TailChannel
  <2>2. InChannel' = RangeOf(Tail(queue))
    BY <1>0 DEF InChannel, RangeOf
  <2>3. Distinct(queue')
    BY <1>0, <2>1
  <2> QED
    BY <1>0, <1>1, <2>1, <2>2, <2>3
<1>3. Sending' = Sending /\ hand' # NoMark
  BY <1>0, <1>2, StoreAssumption, ProvisionAssumption DEF Sending
<1>4. ProvisionTypes'
  BY <1>0, <1>2 DEF ProvisionTypes
<1>5. QueuedIsWaiting'
  BY <1>0, <1>2, <1>3 DEF QueuedIsWaiting
<1>6. WaitsOnce'
  BY <1>0, <1>2, <1>3 DEF WaitsOnce, Distinct
<1> QED
  BY <1>4, <1>5, <1>6

LEMMA UnqueueWaiting ==
  ASSUME Waiting, Unqueue
  PROVE  Waiting'
<1> USE DEF Waiting
<1>0. /\ hand # NoMark /\ hand' = NoMark /\ queued' = queued \ {hand}
      /\ UNCHANGED <<hook, queue>>
  BY DEF Unqueue
<1>1. Sending' = Sending /\ InChannel' = InChannel
  BY <1>0 DEF Sending, InChannel
<1>2. ProvisionTypes'
  BY <1>0 DEF ProvisionTypes
<1>3. QueuedIsWaiting'
  BY <1>0, <1>1 DEF QueuedIsWaiting, WaitsOnce
<1>4. WaitsOnce'
  <2>1. NoMark \notin UserMark
    BY StoreAssumption, ProvisionAssumption
  <2>2. \A h \in Sending : hook[h].mark \in UserMark
    BY DEF ProvisionTypes, Sending
  <2>3. InChannel \subseteq UserMark
    BY DEF ProvisionTypes, InChannel
  <2> QED
    BY <1>0, <1>1, <2>1, <2>2, <2>3 DEF WaitsOnce
<1> QED
  BY <1>2, <1>3, <1>4

LEMMA RestartWaiting ==
  ASSUME Waiting, Restart
  PROVE  Waiting'
BY IdleState
   DEF Restart, Waiting, ProvisionTypes, QueuedIsWaiting, WaitsOnce, InChannel, Sending

(* Every step of the service keeps Waiting.                                *)
LEMMA WaitingNext == Waiting /\ [Next]_vars => Waiting'
<1> SUFFICES ASSUME Waiting, [Next]_vars PROVE Waiting'
  OBVIOUS
<1>1. CASE UNCHANGED provisionVars
  BY <1>1 DEF provisionVars, Waiting, ProvisionTypes, QueuedIsWaiting, WaitsOnce, InChannel, Sending
<1>2. ASSUME NEW h \in Hook, NEW m \in UserMark, Webhook(h, m)
      PROVE  Waiting'
  BY <1>2, WebhookWaiting
<1>3. ASSUME NEW h \in Hook, HookStep(h)
      PROVE  Waiting'
  BY <1>3, GetWaiting, LoadWaiting, SendWaiting, UndoWaiting DEF HookStep
<1>4. CASE Receive
  BY <1>4, ReceiveWaiting
<1>5. CASE Unqueue
  BY <1>5, UnqueueWaiting
<1>6. CASE Restart
  BY <1>6, RestartWaiting
<1>7. CASE \/ \E p \in Client, m \in Mark : (\E r \in Rate : Put(p, m, r)) \/ DeleteMark(p, m)
           \/ \E p \in Proc : InStore(p)
  BY <1>1, <1>7 DEF Put, DeleteMark, InStore
<1>8. CASE UNCHANGED vars
  BY <1>1, <1>8 DEF vars
<1> QED
  BY <1>2, <1>3, <1>4, <1>5, <1>6, <1>7, <1>8 DEF Next, ServiceNext

LEMMA WaitingInvariance == Spec => []Waiting
BY WaitingInit, WaitingNext, PTL DEF Spec

-----------------------------------------------------------------------------
(* What the service does to the store is what ShapedStore describes: the   *)
(* provisioning worker is one more caller of Set.                          *)
LEMMA StepIsStoreStep == Waiting /\ [Next]_vars => [StoreNext]_storeVars
<1> SUFFICES ASSUME Waiting, [Next]_vars PROVE [StoreNext]_storeVars
  OBVIOUS
<1>1. CASE UNCHANGED vars
  BY <1>1 DEF vars
<1>2. CASE \E h \in Hook : (\E m \in UserMark : Webhook(h, m)) \/ HookStep(h)
  BY <1>2 DEF Webhook, HookStep, Get, LoadOrStore, Send, Undo
<1>3. CASE Receive
  <2>1. Head(queue) \in Mark
    BY <1>3, StoreAssumption DEF Receive, Waiting, ProvisionTypes
  <2>2. Worker \in Proc /\ perUser \in Rate /\ CallSet(Worker, Head(queue), perUser)
    BY <1>3, ProvisionAssumption DEF Receive, CallSet
  <2> QED
    BY <2>1, <2>2 DEF StoreNext
<1>4. CASE Unqueue
  BY <1>4 DEF Unqueue
<1>5. CASE \E p \in Client, m \in Mark : (\E r \in Rate : Put(p, m, r)) \/ DeleteMark(p, m)
  BY <1>5 DEF Client, Put, DeleteMark, StoreNext
<1>6. CASE \E p \in Proc : InStore(p)
  BY <1>6 DEF InStore, StoreNext
<1>7. CASE Restart
  BY <1>7 DEF Restart, StoreNext
<1> QED
  BY <1>1, <1>2, <1>3, <1>4, <1>5, <1>6, <1>7 DEF Next, ServiceNext

(* The composition uses the store as ShapedStore allows, so whatever is    *)
(* proved of every behaviour of the store holds with provisioning.         *)
THEOREM UsesStore == Spec => StoreSpec
<1>1. Init => StoreInit
  BY DEF Init
<1> QED
  BY <1>1, StepIsStoreStep, WaitingInvariance, PTL DEF Spec, StoreSpec

(* Types, for the composition.                                             *)
THEOREM ProvisionTypeCorrect == Spec => []ProvisionTypeOK
BY UsesStore, TypeCorrect, WaitingInvariance, PTL DEF ProvisionTypeOK, Waiting

(* Handler.queued holds exactly the marks on their way, however webhooks,  *)
(* worker, callers of the store and restarts interleave.                   *)
THEOREM QueuedWaiting == Spec => []QueuedIsWaiting
BY WaitingInvariance, PTL DEF Waiting

(* No mark waits twice.                                                    *)
THEOREM WaitsOnceAlways == Spec => []WaitsOnce
BY WaitingInvariance, PTL DEF Waiting

(* With provisioning too, no limit is listed that is not enforced.         *)
THEOREM ProvisionListedEnforced == Spec => []ListedIsEnforced
BY UsesStore, ListedEnforced, PTL
=============================================================================
