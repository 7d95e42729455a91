--------------------------- MODULE IdleCollector ---------------------------
(***************************************************************************)
(* tcshape.IdleCollector (internal/tcshape/gc.go), run by the goroutine    *)
(* main starts when -class-idle-timeout is set, on the shaped store that   *)
(* API handlers and the provisioning worker use at the same time.          *)
(*                                                                         *)
(* A Collect lists the classes, takes the time, looks at one listed class  *)
(* after another, deletes the idle ones through the store, and prunes its  *)
(* map.  Between any two of these traffic may flow, time may pass and      *)
(* other goroutines may delete and create classes.                         *)
(*                                                                         *)
(* Time is a tick.  A classSeen keeps its age, the ticks since its         *)
(* "since", in place of a time.Time; ages stop at Idle, beyond which       *)
(* nothing tells them apart.                                               *)
(***************************************************************************)
EXTENDS Naturals, ShapedStore

CONSTANTS
  Collector,  \* the goroutine that calls Collect
  Idle,       \* -class-idle-timeout, in ticks
  MaxBytes    \* bound on the byte counter of a class

ASSUME CollectorAssumption ==
  /\ Collector \in Proc
  /\ Idle \in Nat \ {0}
  /\ MaxBytes \in Nat

VARIABLES
  bytes,  \* kernel: bytes each class has sent, 0 without a class
  seen,   \* IdleCollector.seen
  look,   \* the locals of the Collect under way
  last,   \* history: ticks since the class was created or last sent
  moved   \* history: classes that have sent since the listing

gcVars == <<bytes, seen, look, last, moved>>
vars == <<storeVars, gcVars>>

Clients == Proc \ {Collector}

\* What became of the class since its counter was read: it is still that
\* class, it was deleted, or it was deleted and a listing has shown it gone.
Life == {"same", "hidden", "noticed"}

NotSeen == [age |-> 0, life |-> "none"]
Listed == [bytes : 0 .. MaxBytes, life : Life]
Seen == [bytes : 0 .. MaxBytes, age : 0 .. Idle, life : Life]

GcTypeOK ==
  /\ TypeOK
  /\ bytes \in [Mark -> 0 .. MaxBytes]
  /\ seen \in [Mark -> Seen \cup {NotSeen}]
  /\ look \in [at : {"wait", "now", "loop"}, todo : [Mark -> Listed \cup {NotSeen}],
               present : SUBSET Mark, old : SUBSET Mark, lag : 0 .. Idle]
  /\ last \in [Mark -> 0 .. Idle]
  /\ moved \in SUBSET Mark

-----------------------------------------------------------------------------
Older(age) == IF age < Idle THEN age + 1 ELSE age

NothingSeen == [m \in Mark |-> NotSeen]
Waiting == [at |-> "wait", todo |-> NothingSeen, present |-> {}, old |-> {}, lag |-> 0]

\* NewIdleCollector, on whatever classes the kernel has.
GcInit ==
  /\ StoreInit
  /\ bytes \in [Mark -> 0 .. MaxBytes]
  /\ \A m \in Mark : classes[m] = NoRate => bytes[m] = 0
  /\ seen = NothingSeen
  /\ look = Waiting
  /\ last = [m \in Mark |-> 0]
  /\ moved = {}

Tick ==
  /\ last' = [m \in Mark |-> IF classes[m] = NoRate THEN 0 ELSE Older(last[m])]
  /\ seen' = [m \in Mark |-> IF seen[m] = NotSeen THEN NotSeen
                               ELSE [seen[m] EXCEPT !.age = Older(@)]]
  /\ look' = IF look.at = "loop" THEN [look EXCEPT !.lag = Older(@)] ELSE look
  /\ UNCHANGED <<storeVars, bytes, moved>>

\* A packet of a user leaves through the user's class.
Traffic(m) ==
  /\ classes[m] # NoRate /\ bytes[m] < MaxBytes
  /\ bytes' = [bytes EXCEPT ![m] = @ + 1]
  /\ last' = [last EXCEPT ![m] = 0]
  /\ moved' = IF look.at = "wait" THEN moved ELSE moved \cup {m}
  /\ UNCHANGED <<storeVars, seen, look>>

(* What a store step does to the counters: a class that tc deletes takes   *)
(* its counter along, one it creates starts at zero, and one whose rate it *)
(* replaces keeps counting.                                                *)
Gone(m) == classes[m] # NoRate /\ classes'[m] = NoRate

Hide(obs) == [m \in Mark |-> IF Gone(m) /\ obs[m].life = "same"
                               THEN [obs[m] EXCEPT !.life = "hidden"] ELSE obs[m]]

Counters ==
  /\ bytes' = [m \in Mark |-> IF classes'[m] = NoRate THEN 0 ELSE bytes[m]]
  /\ last' = [m \in Mark |-> IF classes'[m] = NoRate THEN 0 ELSE last[m]]
  /\ look' = [look EXCEPT !.todo = Hide(@)]
  /\ UNCHANGED moved

ClientStep(p) ==
  /\ StoreStep(p)
  /\ Counters
  /\ seen' = Hide(seen)

-----------------------------------------------------------------------------
(* The ticker fires and Shaper.Classes lists the classes with their byte   *)
(* counters; when it fails Collect returns and nothing has changed.        *)
List ==
  /\ look.at = "wait"
  /\ look' = [look EXCEPT !.at = "now",
                !.todo = [m \in Mark |-> IF Classes(classes)[m] = NoRate THEN NotSeen
                                           ELSE [bytes |-> bytes[m], life |-> "same"]],
                !.present = {m \in Mark : Classes(classes)[m] # NoRate}]
  /\ seen' = [m \in Mark |-> IF classes[m] = NoRate /\ seen[m].life = "hidden"
                               THEN [seen[m] EXCEPT !.life = "noticed"] ELSE seen[m]]
  /\ moved' = {}
  /\ UNCHANGED <<storeVars, bytes, last>>

\* now := c.now(): which ages now.Sub(prev.since) finds at c.idle or more.
Now ==
  /\ look.at = "now"
  /\ look' = [look EXCEPT !.at = "loop", !.old = {m \in look.present : seen[m].age >= Idle}]
  /\ UNCHANGED <<storeVars, bytes, seen, last, moved>>

LookAt(m) ==
  /\ look.at = "loop" /\ pc[Collector] = "idle"
  /\ look.todo[m] # NotSeen
  /\ look' = [look EXCEPT !.todo[m] = NotSeen]
  /\ UNCHANGED <<bytes, last, moved>>

\* Mutant of Quiet: the counter is not compared.
QuietUnlessNew(m) == seen[m] # NotSeen

Quiet(m) == seen[m] # NotSeen /\ seen[m].bytes = look.todo[m].bytes

\* A class not seen before, or one whose counter moved: its time starts now.
StartPeriod(m) ==
  /\ LookAt(m) /\ ~Quiet(m)
  /\ seen' = [seen EXCEPT ![m] = [bytes |-> look.todo[m].bytes, age |-> look.lag,
                                  life |-> look.todo[m].life]]
  /\ UNCHANGED storeVars

\* Mutant of TooYoung: every look at a class restarts its idle period.
TooYoungRestarts(m) ==
  /\ LookAt(m) /\ Quiet(m) /\ m \notin look.old
  /\ seen' = [seen EXCEPT ![m].age = look.lag]
  /\ UNCHANGED storeVars

TooYoung(m) ==
  /\ LookAt(m) /\ Quiet(m) /\ m \notin look.old
  /\ UNCHANGED <<storeVars, seen>>

DeleteIdle(m) ==
  /\ LookAt(m) /\ Quiet(m) /\ m \in look.old
  /\ CallDelete(Collector, m)
  /\ UNCHANGED seen

\* Mutant of DeleteReturns: the entry is overwritten with a zero classSeen.
DeleteReturnsZero ==
  /\ Record(Collector)
  /\ seen' = [seen EXCEPT ![op[Collector].mark] = [bytes |-> 0, age |-> Idle, life |-> "none"]]
  /\ UNCHANGED <<bytes, look, last, moved>>

\* Delete has succeeded: delete(c.seen, cl.Mark).
DeleteReturns ==
  /\ Record(Collector)
  /\ seen' = [seen EXCEPT ![op[Collector].mark] = NotSeen]
  /\ UNCHANGED <<bytes, look, last, moved>>

\* Mutant of DeleteStep: the class is forgotten also when tc has failed.
DeleteStepForgets ==
  \/ Lock(Collector) /\ UNCHANGED gcVars
  \/ Remove(Collector) /\ Counters /\ seen' = Hide(seen)
  \/ /\ TcFail(Collector)
     /\ seen' = [seen EXCEPT ![op[Collector].mark] = NotSeen]
     /\ UNCHANGED <<bytes, look, last, moved>>
  \/ DeleteReturns

\* The collector's Delete: its lock, its tc command, and its return, where
\* an error leaves seen alone so that the next Collect tries again.
DeleteStep ==
  \/ Lock(Collector) /\ UNCHANGED gcVars
  \/ Remove(Collector) /\ Counters /\ seen' = Hide(seen)
  \/ TcFail(Collector) /\ UNCHANGED gcVars
  \/ DeleteReturns

\* The classes Collect has not found are dropped from the map; Collect
\* returns.
Prune ==
  /\ look.at = "loop" /\ pc[Collector] = "idle"
  /\ look.todo = NothingSeen
  /\ seen' = [m \in Mark |-> IF m \in look.present THEN seen[m] ELSE NotSeen]
  /\ look' = Waiting
  /\ moved' = {}
  /\ UNCHANGED <<storeVars, bytes, last>>

Collect ==
  \/ List \/ Now \/ Prune \/ DeleteStep
  \/ \E m \in Mark : StartPeriod(m) \/ TooYoung(m) \/ DeleteIdle(m)

-----------------------------------------------------------------------------
\* A crash and a start: classes and counters stay, the map is empty.
GcRestart ==
  /\ StoreRestart
  /\ seen' = NothingSeen
  /\ look' = Waiting
  /\ moved' = {}
  /\ UNCHANGED <<bytes, last>>

ClientCall ==
  /\ \E p \in Clients, m \in Mark :
       (\E r \in Rate : CallSet(p, m, r)) \/ CallDelete(p, m)
  /\ UNCHANGED gcVars

Service ==
  \/ Tick
  \/ \E m \in Mark : Traffic(m)
  \/ ClientCall
  \/ \E p \in Clients : ClientStep(p)
  \/ Collect

GcSpec == GcInit /\ [][Service \/ GcRestart]_vars

(* The service after its last start.  Time passes and the ticker fires;    *)
(* goroutines run; Go's mutex hands itself to a waiter that has starved    *)
(* for a millisecond (strong fairness of Lock); and tc and the listing do  *)
(* not fail for ever (strong fairness of each class's deletion).           *)
GcFairness ==
  /\ WF_vars(Tick)
  /\ WF_vars(List \/ Now \/ Prune)
  /\ \A m \in Mark : WF_vars(StartPeriod(m) \/ TooYoung(m) \/ DeleteIdle(m))
  /\ SF_vars(DeleteStep /\ Lock(Collector))
  /\ \A m \in Mark : SF_vars(DeleteStep /\ Remove(Collector) /\ op[Collector].mark = m)
  /\ WF_vars(DeleteStep)
  /\ \A p \in Clients : WF_vars(ClientStep(p)) /\ SF_vars(ClientStep(p) /\ Lock(p))

GcLiveSpec == GcInit /\ [][Service]_vars /\ GcFairness

-----------------------------------------------------------------------------
\* The collector's tc command deletes the class of m.
Deletes(m) ==
  /\ pc[Collector] = "tc" /\ pc'[Collector] = "base"
  /\ op[Collector].mark = m /\ classes[m] # NoRate

(* "IdleCollector deletes per-user classes that have sent nothing for a    *)
(* while" (gc.go): a class it deletes has existed and sent nothing for the *)
(* whole idle period.  Two cases Collect cannot see are excepted, and      *)
(* happen: traffic after the listing, and a class deleted and created      *)
(* again with no listing between that shows it gone.                       *)
OnlyIdleDeleted ==
  [][\A m \in Mark : Deletes(m) =>
       last[m] = Idle \/ m \in moved \/ seen[m].life = "hidden"]_vars

(* An idle period that has begun goes on: a class that has sent nothing    *)
(* since the count the map has of it is neither dropped from the map nor   *)
(* given a fresh period, by a Collect in which tc fails on it or on        *)
(* others, by one that works from an old listing, or by other goroutines.  *)
(* Only a restart forgets it ("a restart gives every class a fresh idle    *)
(* period", gc.go).                                                        *)
IdleTimeKept ==
  [][~GcRestart => \A m \in Mark :
       seen[m].life = "same" /\ seen[m].bytes = bytes[m] =>
         seen'[m].life # "none" /\ seen'[m].age >= seen[m].age]_vars

(* An idle class does not stay: again and again it is gone or in use,      *)
(* whatever other goroutines do, if single tc commands fail, and if time   *)
(* passes and other classes are deleted while Collect runs.                *)
IdleCollected ==
  \A m \in UserMark : []<>(classes[m] = NoRate \/ last[m] < Idle)
=============================================================================
