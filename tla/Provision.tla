----------------------------- MODULE Provision -----------------------------
(***************************************************************************)
(* Automatic provisioning: webhook.Handler.queueProvision and              *)
(* provisionLoop (internal/webhook/webhook.go) on top of ShapedStore.      *)
(*                                                                         *)
(* Every webhook is a goroutine.  When -per-user-rate-mbit is set it looks *)
(* its mark up in the store and, if the mark has no rate, notes it in      *)
(* Handler.queued and sends it to provisionQueue without ever blocking.    *)
(* One worker receives marks, calls Set with the per-user rate and takes   *)
(* the mark out of Handler.queued again.  The other callers of the store,  *)
(* API requests and the idle collector, run beside them.                   *)
(***************************************************************************)
EXTENDS ShapedStore, Integers, Sequences

CONSTANTS
  Hook,       \* goroutines serving webhooks
  Worker,     \* the goroutine running provisionLoop, one of Proc
  QueueSize,  \* provisionQueueSize
  NoMark      \* the worker holds no mark

ASSUME ProvisionAssumption ==
  /\ Worker \in Proc
  /\ QueueSize \in Nat \ {0}
  /\ NoMark \notin Mark

VARIABLES
  hook,    \* where each webhook is in queueProvision, and its mark
  queue,   \* Handler.provisionQueue
  queued,  \* Handler.queued
  hand     \* the mark provisionLoop is working on

provisionVars == <<hook, queue, queued, hand>>
vars == <<storeVars, provisionVars>>

HookState == [pc : {"idle", "get", "load", "send", "undo"}, mark : Mark]

ProvisionTypes ==
  /\ hook \in [Hook -> HookState]
  /\ \A h \in Hook : hook[h].pc # "idle" => hook[h].mark \in UserMark
  /\ queue \in Seq(UserMark)
  /\ queued \subseteq UserMark
  /\ hand \in UserMark \cup {NoMark}

ProvisionTypeOK == TypeOK /\ ProvisionTypes

Init ==
  /\ StoreInit
  /\ hook = [h \in Hook |-> [pc |-> "idle", mark |-> NoOp.mark]]
  /\ queue = <<>>
  /\ queued = {}
  /\ hand = NoMark

-----------------------------------------------------------------------------
(* queueProvision, one step per access to state others share.              *)

Goto(h, where) == hook' = [hook EXCEPT ![h].pc = where]
Done(h) == hook' = [hook EXCEPT ![h] = [pc |-> "idle", mark |-> NoOp.mark]]

(* ServeHTTP reaches queueProvision with a user's mark; a nil RateSetter   *)
(* skips it.                                                               *)
Webhook(h, m) ==
  /\ hook[h].pc = "idle"
  /\ perUser # NoRate
  /\ hook' = [hook EXCEPT ![h] = [pc |-> "get", mark |-> m]]
  /\ UNCHANGED <<storeVars, queue, queued, hand>>

(* rate.Get reads the base store without shapedStore.mu.                   *)
Get(h) ==
  /\ hook[h].pc = "get"
  /\ IF entries[hook[h].mark] # NoRate THEN Done(h) ELSE Goto(h, "load")
  /\ UNCHANGED <<storeVars, queue, queued, hand>>

\* Mutant of LoadOrStore: a plain Store.
StoreAlways(h) ==
  /\ hook[h].pc = "load"
  /\ Goto(h, "send")
  /\ queued' = queued \cup {hook[h].mark}
  /\ UNCHANGED <<storeVars, queue, hand>>

LoadOrStore(h) ==
  /\ hook[h].pc = "load"
  /\ IF hook[h].mark \in queued THEN Done(h) ELSE Goto(h, "send")
  /\ queued' = queued \cup {hook[h].mark}
  /\ UNCHANGED <<storeVars, queue, hand>>

\* Mutant of Send: a send that waits for room.
SendBlocking(h) ==
  /\ hook[h].pc = "send"
  /\ Len(queue) < QueueSize
  /\ queue' = Append(queue, hook[h].mark)
  /\ Done(h)
  /\ UNCHANGED <<storeVars, queued, hand>>

\* Mutant of Send: a mark that does not fit stays recorded as queued.
SendForgetful(h) ==
  /\ hook[h].pc = "send"
  /\ Done(h)
  /\ queue' = IF Len(queue) < QueueSize THEN Append(queue, hook[h].mark) ELSE queue
  /\ UNCHANGED <<storeVars, queued, hand>>

(* The select: the send, or its default branch when the queue is full.     *)
Send(h) ==
  /\ hook[h].pc = "send"
  /\ \/ /\ Len(queue) < QueueSize
        /\ queue' = Append(queue, hook[h].mark)
        /\ Done(h)
     \/ /\ Len(queue) >= QueueSize
        /\ UNCHANGED queue
        /\ Goto(h, "undo")
  /\ UNCHANGED <<storeVars, queued, hand>>

Undo(h) ==
  /\ hook[h].pc = "undo"
  /\ queued' = queued \ {hook[h].mark}
  /\ Done(h)
  /\ UNCHANGED <<storeVars, queue, hand>>

HookStep(h) == Get(h) \/ LoadOrStore(h) \/ Send(h) \/ Undo(h)

-----------------------------------------------------------------------------
(* provisionLoop: receive and call Set; when the call has returned, with   *)
(* or without an error, take the mark out of queued.                       *)

Receive ==
  /\ hand = NoMark
  /\ queue # <<>>
  /\ hand' = Head(queue)
  /\ queue' = Tail(queue)
  /\ CallSet(Worker, Head(queue), perUser)
  /\ UNCHANGED <<hook, queued>>

\* Mutant of Unqueue: only a successful Set takes the mark out of queued.
UnqueueOnSuccess ==
  /\ hand # NoMark
  /\ pc[Worker] = "idle"
  /\ queued' = IF entries[hand] # NoRate THEN queued \ {hand} ELSE queued
  /\ hand' = NoMark
  /\ UNCHANGED <<storeVars, hook, queue>>

Unqueue ==
  /\ hand # NoMark
  /\ pc[Worker] = "idle"
  /\ queued' = queued \ {hand}
  /\ hand' = NoMark
  /\ UNCHANGED <<storeVars, hook, queue>>

-----------------------------------------------------------------------------
(* PUT and DELETE requests; the idle collector's Delete is one of the      *)
(* latter.                                                                 *)
Put(p, m, r) == CallSet(p, m, r) /\ UNCHANGED provisionVars
DeleteMark(p, m) == CallDelete(p, m) /\ UNCHANGED provisionVars

InStore(p) == StoreStep(p) /\ UNCHANGED provisionVars

(* A crash loses the queue with everything else the process keeps.         *)
Restart ==
  /\ StoreRestart
  /\ hook' = [h \in Hook |-> [pc |-> "idle", mark |-> NoOp.mark]]
  /\ queue' = <<>>
  /\ queued' = {}
  /\ hand' = NoMark

Client == Proc \ {Worker}

ServiceNext ==
  \/ \E h \in Hook : (\E m \in UserMark : Webhook(h, m)) \/ HookStep(h)
  \/ Receive
  \/ Unqueue
  \/ \E p \in Client, m \in Mark : (\E r \in Rate : Put(p, m, r)) \/ DeleteMark(p, m)
  \/ \E p \in Proc : InStore(p)

Next == ServiceNext \/ Restart

Spec == Init /\ [][Next]_vars

-----------------------------------------------------------------------------
(* Fairness.  A webhook's goroutine always gets to run, and so does the    *)
(* worker: tc commands end.  A mutex with a starvation mode (Go's) does    *)
(* not pass the same waiter over for ever, hence strong fairness of Lock.  *)

HookFairness == \A h \in Hook : WF_vars(HookStep(h))

TcStep(p) ==
  /\ SetRate(p) \/ Remove(p) \/ TcFail(p) \/ Record(p)
  /\ UNCHANGED provisionVars

WorkerFairness ==
  /\ WF_vars(Receive)
  /\ WF_vars(Unqueue)
  /\ \A p \in Proc : WF_vars(TcStep(p)) /\ SF_vars(Lock(p) /\ UNCHANGED provisionVars)

HookSpec == Spec /\ HookFairness

-----------------------------------------------------------------------------
InChannel == {queue[i] : i \in 1..Len(queue)}
Sending == {h \in Hook : hook[h].pc \in {"send", "undo"}}

(* Handler.queued holds exactly the marks on their way: about to be sent,  *)
(* waiting in the channel, or in the worker's hands.  A mark left in it    *)
(* would never be provisioned again, one missing would be queued twice.    *)
QueuedIsWaiting ==
  queued = {hook[h].mark : h \in Sending} \cup InChannel \cup ({hand} \ {NoMark})

(* "a mark is queued at most once at a time" (webhook.go, on queued): its  *)
(* holders, webhooks about to send it, channel slots and the worker, are   *)
(* never two.                                                              *)
WaitsOnce ==
  /\ \A i, j \in 1..Len(queue) : i # j => queue[i] # queue[j]
  /\ \A g, h \in Sending : g # h => hook[g].mark # hook[h].mark
  /\ \A h \in Sending : hook[h].mark \notin InChannel \cup {hand}
  /\ hand \notin InChannel

(* "the send never blocks, because tc is slow and marking must not wait    *)
(* for it" (queueProvision): a webhook gets through provisioning even if   *)
(* the worker, tc and every other caller of the store hang for ever.       *)
WebhookCompletes ==
  \A h \in Hook : hook[h].pc # "idle" ~> hook[h].pc = "idle"

TcError == \E p \in Proc : TcFail(p)
Deletion == \E p \in Client, m \in Mark : DeleteMark(p, m)

(* "A mark whose Set failed, or that didn't fit in the queue, is queued    *)
(* again by its next webhook" (queueProvision): if the worker gets to run, *)
(* then once errors, deletions and restarts cease, a user whose            *)
(* connections keep coming ends up with a rate and keeps it, whatever      *)
(* failed or overflowed before.  (Deletions of other marks must cease too: *)
(* marks deleted and provisioned again for ever could fill the channel     *)
(* each time this one is sent.)                                            *)
EventuallyProvisioned ==
  WorkerFairness => \A m \in UserMark :
    /\ <>[][ServiceNext /\ ~TcError /\ ~Deletion]_vars
    /\ []<><<\E h \in Hook : Webhook(h, m)>>_vars
    => <>[](entries[m] # NoRate)

-----------------------------------------------------------------------------
(* What the repository's words promise and the code does not keep.         *)

(* "with the record gone, the webhook handler provisions the mark again on *)
(* its next webhook" (gc.go, on ClassDeleter): a webhook that starts       *)
(* queueProvision on a mark without a rate gets it one.                    *)
NextWebhookProvisions ==
  \A m \in UserMark :
    (\E h \in Hook : hook[h] = [pc |-> "get", mark |-> m]) /\ entries[m] = NoRate
      ~> entries[m] # NoRate

(* "Handler calls [...] Set only for marks with no rate" (webhook.go, on   *)
(* RateSetter).                                                            *)
SetOnlyWithoutRate == [][Receive => entries[Head(queue)] = NoRate]_vars
=============================================================================
