------------------------ MODULE IdleCollectorProofs ------------------------
(***************************************************************************)
(* Proofs about IdleCollector, for any marks, rates and goroutines, any    *)
(* idle time and any bound on the counters.                                *)
(***************************************************************************)
EXTENDS IdleCollector, ShapedStoreProofs

-----------------------------------------------------------------------------
(* The inductive invariant.                                                *)

\* Collect has still to look at m.
Pending(m) == look.todo[m].life # "none"

(* The period of a class seen and not deleted since: unless the counter    *)
(* has moved, the class has sent nothing for as long as its age says.      *)
SeenIsTrue ==
  \A m \in Mark : seen[m].life = "same" =>
    /\ classes[m] # NoRate /\ seen[m].bytes <= bytes[m]
    /\ seen[m].bytes = bytes[m] => seen[m].age <= last[m]

(* The same of the counters listed, whose period would start at now.       *)
ListedIsTrue ==
  \A m \in Mark : look.todo[m].life = "same" =>
    /\ classes[m] # NoRate /\ look.todo[m].bytes <= bytes[m]
    /\ look.todo[m].bytes = bytes[m] /\ look.at = "loop" => look.lag <= last[m]
    /\ m \notin moved => bytes[m] = look.todo[m].bytes

(* What is pending was listed; it is the class that was seen before unless *)
(* that one was deleted, its count is no older, and it is old if its       *)
(* period says so.                                                         *)
PendingIsListed ==
  \A m \in Mark : Pending(m) =>
    /\ look.at # "wait" /\ m \in look.present /\ m \in UserMark
    /\ look.todo[m].life \in {"same", "hidden"}
    /\ seen[m].life = "same" =>
         look.todo[m].life = "same" /\ seen[m].bytes <= look.todo[m].bytes
    /\ m \in look.old => seen[m].life # "none" /\ seen[m].age = Idle

(* A class known to be gone is dropped from the map by the end of Collect, *)
(* one that is there is a user's and listed, and the loop's locals are set *)
(* when it begins.                                                         *)
CollectLocals ==
  /\ \A m \in Mark : seen[m].life = "same" =>
       m \in UserMark /\ (look.at # "wait" => m \in look.present)
  /\ \A m \in Mark : seen[m].life = "noticed" => look.at # "wait" /\ m \notin look.present
  /\ look.at # "loop" => look.lag = 0 /\ look.old = {}

(* A Delete of the collector is under way: the class's period has lasted,  *)
(* and after the tc command it is gone.                                    *)
DeletesOld ==
  LET m == op[Collector].mark IN
  /\ pc[Collector] # "idle" => look.at = "loop" /\ ~Pending(m)
  /\ pc[Collector] \in {"lock", "tc"} =>
       /\ seen[m].life \in {"same", "hidden"} /\ seen[m].age = Idle
       /\ seen[m].life = "same" /\ m \notin moved => bytes[m] = seen[m].bytes
  /\ pc[Collector] = "base" => seen[m].life # "same"

GcInv ==
  /\ GcTypeOK
  /\ SeenIsTrue /\ ListedIsTrue /\ PendingIsListed /\ CollectLocals /\ DeletesOld

-----------------------------------------------------------------------------
(* The collector uses the store as ShapedStore allows.                     *)
LEMMA StepUsesStore ==
  ASSUME [Service \/ GcRestart]_vars
  PROVE  [StoreNext]_storeVars
<1>1. CASE Tick
  BY <1>1 DEF Tick
<1>2. ASSUME NEW m \in Mark, Traffic(m) PROVE [StoreNext]_storeVars
  BY <1>2 DEF Traffic
<1>3. CASE ClientCall
  BY <1>3 DEF ClientCall, Clients, StoreNext
<1>4. ASSUME NEW p \in Clients, ClientStep(p) PROVE [StoreNext]_storeVars
  BY <1>4 DEF ClientStep, Clients, StoreNext
<1>5. CASE List \/ Now \/ Prune
  BY <1>5 DEF List, Now, Prune
<1>6. CASE DeleteStep
  BY <1>6, CollectorAssumption DEF DeleteStep, DeleteReturns, StoreStep, StoreNext
<1>7. ASSUME NEW m \in Mark, StartPeriod(m) \/ TooYoung(m) PROVE [StoreNext]_storeVars
  BY <1>7 DEF StartPeriod, TooYoung
<1>8. ASSUME NEW m \in Mark, DeleteIdle(m) PROVE [StoreNext]_storeVars
  BY <1>8, CollectorAssumption DEF DeleteIdle, StoreNext
<1>9. CASE GcRestart
  BY <1>9 DEF GcRestart, StoreNext
<1>10. CASE UNCHANGED vars
  BY <1>10 DEF vars
<1> QED
  BY <1>1, <1>2, <1>3, <1>4, <1>5, <1>6, <1>7, <1>8, <1>9, <1>10 DEF Service, Collect

(* Beside the collector too, every behaviour of the store is one that      *)
(* ShapedStore describes: what is proved of the store holds here.          *)
THEOREM CollectorUsesStore == GcSpec => StoreSpec
<1>1. GcInit => StoreInit
  BY DEF GcInit
<1> QED
  BY <1>1, StepUsesStore, PTL DEF GcSpec, StoreSpec

-----------------------------------------------------------------------------
(* The records of the map and of the listing.                              *)

SeenFields(m) ==
  /\ seen[m] \in Seen \cup {NotSeen}
  /\ seen[m] = NotSeen <=> seen[m].life = "none"
  /\ seen[m].life \in {"none", "same", "hidden", "noticed"} /\ seen[m].age \in 0 .. Idle
  /\ seen[m].life # "none" => seen[m] \in Seen /\ seen[m].bytes \in 0 .. MaxBytes

TodoFields(m) ==
  /\ look.todo[m] \in Listed \cup {NotSeen}
  /\ look.todo[m] = NotSeen <=> look.todo[m].life = "none"
  /\ look.todo[m].life \in {"none", "same", "hidden", "noticed"}
  /\ look.todo[m].life # "none" =>
       look.todo[m] \in Listed /\ look.todo[m].bytes \in 0 .. MaxBytes

LEMMA Fields ==
  ASSUME GcTypeOK, NEW m \in Mark
  PROVE  /\ SeenFields(m) /\ TodoFields(m)
         /\ bytes[m] \in Nat /\ last[m] \in 0 .. Idle
<1>0. Idle \in Nat /\ Idle > 0 /\ MaxBytes \in Nat
  BY CollectorAssumption
<1>1. NotSeen.life = "none" /\ NotSeen.age = 0
  BY DEF NotSeen
<1>2. ASSUME NEW x \in Seen
      PROVE  x.life \in Life /\ x.age \in 0 .. Idle /\ x.bytes \in 0 .. MaxBytes
  BY <1>2 DEF Seen
<1>3. ASSUME NEW x \in Listed
      PROVE  x.life \in Life /\ x.bytes \in 0 .. MaxBytes
  BY <1>3 DEF Listed
<1>4. seen[m] \in Seen \cup {NotSeen} /\ look.todo[m] \in Listed \cup {NotSeen}
  BY DEF GcTypeOK
<1>5. SeenFields(m)
  BY <1>0, <1>1, <1>2, <1>4 DEF SeenFields, Life
<1>6. TodoFields(m)
  BY <1>0, <1>1, <1>3, <1>4 DEF TodoFields, Life
<1> QED
  BY <1>0, <1>5, <1>6 DEF GcTypeOK

LEMMA SeenUpdate ==
  ASSUME NEW x \in Seen, NEW a \in 0 .. Idle, NEW l \in Life
  PROVE  /\ [x EXCEPT !.age = a] \in Seen /\ [x EXCEPT !.life = l] \in Seen
         /\ [x EXCEPT !.age = a].age = a /\ [x EXCEPT !.age = a].life = x.life
         /\ [x EXCEPT !.age = a].bytes = x.bytes
         /\ [x EXCEPT !.life = l].life = l /\ [x EXCEPT !.life = l].age = x.age
         /\ [x EXCEPT !.life = l].bytes = x.bytes
BY DEF Seen

LEMMA ListedUpdate ==
  ASSUME NEW x \in Listed, NEW l \in Life
  PROVE  /\ [x EXCEPT !.life = l] \in Listed /\ [x EXCEPT !.life = l].life = l
         /\ [x EXCEPT !.life = l].bytes = x.bytes
BY DEF Listed

Looks == [at : {"wait", "now", "loop"}, todo : [Mark -> Listed \cup {NotSeen}],
          present : SUBSET Mark, old : SUBSET Mark, lag : 0 .. Idle]

LEMMA LookFields ==
  ASSUME GcTypeOK
  PROVE  /\ look \in Looks /\ look.at \in {"wait", "now", "loop"}
         /\ look.todo \in [Mark -> Listed \cup {NotSeen}]
         /\ look.present \subseteq Mark /\ look.old \subseteq Mark /\ look.lag \in 0 .. Idle
BY DEF GcTypeOK, Looks

LEMMA OlderIsOlder ==
  ASSUME NEW a \in 0 .. Idle, NEW b \in 0 .. Idle
  PROVE  /\ Older(a) \in 0 .. Idle /\ (a <= b => Older(a) <= Older(b))
         /\ Older(Idle) = Idle
BY CollectorAssumption DEF Older

(* A crash, the start, and the end of a Collect: nothing is pending.       *)
LEMMA WaitingFields ==
  /\ Waiting \in Looks /\ Waiting.at = "wait" /\ Waiting.lag = 0 /\ Waiting.old = {}
  /\ \A m \in Mark : Waiting.todo[m].life = "none" /\ NothingSeen[m].life = "none"
  /\ NothingSeen \in [Mark -> Seen \cup {NotSeen}]
BY CollectorAssumption DEF Waiting, NothingSeen, NotSeen, Looks

-----------------------------------------------------------------------------
(* Steps of the store.  The collector's Delete goes on or has returned.    *)
CollectorFollows ==
  \/ pc'[Collector] = "idle"
  \/ /\ op'[Collector] = op[Collector] /\ pc[Collector] # "idle"
     /\ pc'[Collector] \in {"lock", "tc"} => pc[Collector] \in {"lock", "tc"}
     /\ pc'[Collector] = "base" =>
          \/ pc[Collector] = "base"
          \/ classes'[op[Collector].mark] = NoRate
          \/ op[Collector].mark \notin UserMark

\* A step that touches neither classes nor the collector's state.
LEMMA QuietStepInv ==
  ASSUME GcInv, TypeOK', UNCHANGED <<gcVars, classes>>, CollectorFollows
  PROVE  GcInv'
<1>1. UNCHANGED <<bytes, seen, look, last, moved, classes>>
  BY DEF gcVars
<1>2. GcTypeOK'
  BY <1>1 DEF GcInv, GcTypeOK
<1>3. SeenIsTrue'
  BY <1>1 DEF GcInv, SeenIsTrue
<1>4. ListedIsTrue'
  BY <1>1 DEF GcInv, ListedIsTrue
<1>5. PendingIsListed'
  BY <1>1 DEF GcInv, PendingIsListed, Pending
<1>6. CollectLocals'
  BY <1>1 DEF GcInv, CollectLocals
<1>7. DeletesOld'
  <2>1. op[Collector].mark \in Mark
    BY CollectorAssumption DEF GcInv, GcTypeOK, TypeOK, Op
  <2>2. pc'[Collector] = "base" => seen'[op'[Collector].mark].life # "same"
        \/ pc'[Collector] = "idle"
    BY <2>1, <1>1, <1>3, <1>6 DEF GcInv, DeletesOld, CollectorFollows, SeenIsTrue, CollectLocals
  <2> QED
    BY <2>2, <1>1 DEF GcInv, DeletesOld, Pending, CollectorFollows
<1> QED
  BY <1>2, <1>3, <1>4, <1>5, <1>6, <1>7 DEF GcInv

LEMMA HiddenSeen ==
  ASSUME GcTypeOK, seen' = Hide(seen)
  PROVE  /\ seen' \in [Mark -> Seen \cup {NotSeen}]
         /\ \A m \in Mark :
              /\ seen'[m].life = IF Gone(m) /\ seen[m].life = "same" THEN "hidden" ELSE seen[m].life
              /\ seen'[m].age = seen[m].age
              /\ seen[m].life # "none" => seen'[m].bytes = seen[m].bytes
<1>1. ASSUME NEW m \in Mark
      PROVE  /\ Hide(seen)[m] \in Seen \cup {NotSeen}
             /\ Hide(seen)[m].life =
                  IF Gone(m) /\ seen[m].life = "same" THEN "hidden" ELSE seen[m].life
             /\ Hide(seen)[m].age = seen[m].age
             /\ seen[m].life # "none" => Hide(seen)[m].bytes = seen[m].bytes
  <2>1. SeenFields(m)
    BY Fields
  <2>2. CASE Gone(m) /\ seen[m].life = "same"
    <3>1. Hide(seen)[m] = [seen[m] EXCEPT !.life = "hidden"]
      BY <2>2 DEF Hide
    <3>2. seen[m] \in Seen /\ seen[m].age \in 0 .. Idle /\ "hidden" \in Life
      BY <2>1, <2>2 DEF SeenFields, Life
    <3>3. /\ [seen[m] EXCEPT !.life = "hidden"] \in Seen
          /\ [seen[m] EXCEPT !.life = "hidden"].life = "hidden"
          /\ [seen[m] EXCEPT !.life = "hidden"].age = seen[m].age
          /\ [seen[m] EXCEPT !.life = "hidden"].bytes = seen[m].bytes
      BY <3>2, SeenUpdate
    <3> QED
      BY <2>2, <3>1, <3>3
  <2>3. CASE ~(Gone(m) /\ seen[m].life = "same")
    <3>1. Hide(seen)[m] = seen[m]
      BY <2>3 DEF Hide
    <3> QED
      BY <2>1, <2>3, <3>1 DEF SeenFields
  <2> QED
    BY <2>2, <2>3
<1>2. Hide(seen) \in [Mark -> Seen \cup {NotSeen}]
  BY <1>1 DEF Hide
<1> QED
  BY <1>1, <1>2

LEMMA HiddenTodo ==
  ASSUME GcTypeOK, look' = [look EXCEPT !.todo = Hide(@)]
  PROVE  /\ look' \in Looks /\ look'.at = look.at /\ look'.present = look.present
         /\ look'.old = look.old /\ look'.lag = look.lag
         /\ \A m \in Mark :
              /\ look'.todo[m].life = IF Gone(m) /\ look.todo[m].life = "same"
                                        THEN "hidden" ELSE look.todo[m].life
              /\ look.todo[m].life # "none" => look'.todo[m].bytes = look.todo[m].bytes
<1> DEFINE td == Hide(look.todo)
<1>1. ASSUME NEW m \in Mark
      PROVE  /\ td[m] \in Listed \cup {NotSeen}
             /\ td[m].life = IF Gone(m) /\ look.todo[m].life = "same"
                               THEN "hidden" ELSE look.todo[m].life
             /\ look.todo[m].life # "none" => td[m].bytes = look.todo[m].bytes
  <2>1. TodoFields(m)
    BY Fields
  <2>2. CASE Gone(m) /\ look.todo[m].life = "same"
    <3>1. td[m] = [look.todo[m] EXCEPT !.life = "hidden"]
      BY <2>2 DEF Hide
    <3>2. look.todo[m] \in Listed /\ "hidden" \in Life
      BY <2>1, <2>2 DEF TodoFields, Life
    <3> HIDE DEF td
    <3> QED
      BY <2>2, <3>1, <3>2, ListedUpdate
  <2>3. CASE ~(Gone(m) /\ look.todo[m].life = "same")
    <3>1. td[m] = look.todo[m]
      BY <2>3 DEF Hide
    <3> HIDE DEF td
    <3> QED
      BY <2>1, <2>3, <3>1 DEF TodoFields
  <2> QED
    BY <2>2, <2>3
<1>2. td \in [Mark -> Listed \cup {NotSeen}]
  BY <1>1 DEF Hide
<1>3. look' = [look EXCEPT !.todo = td] /\ look \in Looks
  BY LookFields
<1> HIDE DEF td
<1>4. /\ look' \in Looks /\ look'.at = look.at /\ look'.present = look.present
      /\ look'.old = look.old /\ look'.lag = look.lag /\ look'.todo = td
  BY <1>2, <1>3 DEF Looks
<1> QED
  BY <1>1, <1>4

\* A step that may create or delete a class.
LEMMA CountersInv ==
  ASSUME GcInv, TypeOK', Counters, seen' = Hide(seen), CollectorFollows
  PROVE  GcInv'
<1>0. GcTypeOK /\ Idle \in Nat /\ MaxBytes \in Nat
  BY CollectorAssumption DEF GcInv
<1>1. /\ seen' \in [Mark -> Seen \cup {NotSeen}]
      /\ \A m \in Mark :
           /\ seen'[m].life = IF Gone(m) /\ seen[m].life = "same" THEN "hidden" ELSE seen[m].life
           /\ seen'[m].age = seen[m].age
           /\ seen[m].life # "none" => seen'[m].bytes = seen[m].bytes
  BY <1>0, HiddenSeen
<1>2. /\ look' \in Looks /\ look'.at = look.at /\ look'.present = look.present
      /\ look'.old = look.old /\ look'.lag = look.lag
      /\ \A m \in Mark :
           /\ look'.todo[m].life = IF Gone(m) /\ look.todo[m].life = "same"
                                     THEN "hidden" ELSE look.todo[m].life
           /\ look.todo[m].life # "none" => look'.todo[m].bytes = look.todo[m].bytes
  BY <1>0, HiddenTodo DEF Counters
<1>3. /\ bytes' \in [Mark -> 0 .. MaxBytes] /\ last' \in [Mark -> 0 .. Idle] /\ moved' = moved
      /\ \A m \in Mark : classes'[m] # NoRate => bytes'[m] = bytes[m] /\ last'[m] = last[m]
  BY <1>0 DEF Counters, GcTypeOK
<1>4. \A m \in Mark : classes[m] # NoRate /\ ~Gone(m) => classes'[m] # NoRate
  BY DEF Gone
<1>5. GcTypeOK'
  BY <1>0, <1>1, <1>2, <1>3 DEF GcTypeOK, Looks
<1>6. SeenIsTrue'
  <2> SUFFICES ASSUME NEW m \in Mark, seen'[m].life = "same"
               PROVE  /\ classes'[m] # NoRate /\ seen'[m].bytes <= bytes'[m]
                      /\ seen'[m].bytes = bytes'[m] => seen'[m].age <= last'[m]
    BY DEF SeenIsTrue
  <2>1. seen[m].life = "same" /\ ~Gone(m)
    BY <1>1
  <2> QED
    BY <2>1, <1>1, <1>3, <1>4 DEF GcInv, SeenIsTrue
<1>7. ListedIsTrue'
  <2> SUFFICES ASSUME NEW m \in Mark, look'.todo[m].life = "same"
               PROVE  /\ classes'[m] # NoRate /\ look'.todo[m].bytes <= bytes'[m]
                      /\ look'.todo[m].bytes = bytes'[m] /\ look'.at = "loop" => look'.lag <= last'[m]
                      /\ m \notin moved' => bytes'[m] = look'.todo[m].bytes
    BY DEF ListedIsTrue
  <2>1. look.todo[m].life = "same" /\ ~Gone(m)
    BY <1>2
  <2> QED
    BY <2>1, <1>2, <1>3, <1>4 DEF GcInv, ListedIsTrue
<1>8. PendingIsListed'
  <2> SUFFICES ASSUME NEW m \in Mark, look'.todo[m].life # "none"
               PROVE  /\ look'.at # "wait" /\ m \in look'.present /\ m \in UserMark
                      /\ look'.todo[m].life \in {"same", "hidden"}
                      /\ seen'[m].life = "same" =>
                           look'.todo[m].life = "same" /\ seen'[m].bytes <= look'.todo[m].bytes
                      /\ m \in look'.old => seen'[m].life # "none" /\ seen'[m].age = Idle
    BY DEF PendingIsListed, Pending
  <2>1. look.todo[m].life # "none"
    BY <1>2
  <2> QED
    BY <2>1, <1>1, <1>2 DEF GcInv, PendingIsListed, Pending
<1>9. CollectLocals'
  BY <1>1, <1>2 DEF GcInv, CollectLocals
<1>10. DeletesOld'
  <2> SUFFICES ASSUME op'[Collector] = op[Collector], pc[Collector] # "idle",
                      pc'[Collector] \in {"lock", "tc"} => pc[Collector] \in {"lock", "tc"},
                      pc'[Collector] = "base" =>
                        \/ pc[Collector] = "base"
                        \/ classes'[op[Collector].mark] = NoRate
                        \/ op[Collector].mark \notin UserMark
               PROVE  DeletesOld'
    BY DEF CollectorFollows, DeletesOld
  <2> DEFINE m == op[Collector].mark
  <2>1. m \in Mark
    BY <1>0, CollectorAssumption DEF GcTypeOK, TypeOK, Op
  <2>2. look.at = "loop" /\ look.todo[m].life = "none"
    BY DEF GcInv, DeletesOld, Pending
  <2>3. pc[Collector] \in {"lock", "tc"} =>
          /\ seen[m].life \in {"same", "hidden"} /\ seen[m].age = Idle
          /\ seen[m].life = "same" /\ m \notin moved => bytes[m] = seen[m].bytes
    BY DEF GcInv, DeletesOld
  <2>4. look'.at = "loop" /\ look'.todo[m].life = "none"
    BY <2>1, <2>2, <1>2
  <2>5. pc[Collector] \in {"lock", "tc"} =>
          /\ seen'[m].life \in {"same", "hidden"} /\ seen'[m].age = Idle
          /\ seen'[m].life = "same" /\ m \notin moved => bytes'[m] = seen'[m].bytes
    <3>1. seen'[m].life = "same" => classes'[m] # NoRate
      BY <2>1, <1>6 DEF SeenIsTrue
    <3> QED
      BY <2>1, <2>3, <3>1, <1>1, <1>3
  <2>6. pc'[Collector] = "base" => seen'[m].life # "same"
    <3>1. pc[Collector] = "base" => seen[m].life # "same"
      BY DEF GcInv, DeletesOld
    <3>2. seen'[m].life = "same" => classes'[m] # NoRate /\ m \in UserMark /\ seen[m].life = "same"
      BY <2>1, <1>1, <1>6, <1>9 DEF SeenIsTrue, CollectLocals
    <3> QED
      BY <3>1, <3>2
  <2> QED
    BY <2>4, <2>5, <2>6, <1>3 DEF DeletesOld, Pending
<1> QED
  BY <1>5, <1>6, <1>7, <1>8, <1>9, <1>10 DEF GcInv

-----------------------------------------------------------------------------
(* Time and traffic.                                                       *)
LEMMA TickInv ==
  ASSUME GcInv, TypeOK', Tick
  PROVE  GcInv'
<1>0. GcTypeOK /\ Idle \in Nat /\ MaxBytes \in Nat /\ look \in Looks
  BY CollectorAssumption, LookFields DEF GcInv
<1>1. UNCHANGED <<classes, pc, op, bytes, moved>>
  BY DEF Tick, storeVars
<1>2. /\ seen' \in [Mark -> Seen \cup {NotSeen}]
      /\ \A m \in Mark :
           /\ seen'[m].life = seen[m].life
           /\ seen[m].life # "none" =>
                seen'[m].bytes = seen[m].bytes /\ seen'[m].age = Older(seen[m].age)
  <2>1. ASSUME NEW m \in Mark
        PROVE  /\ seen'[m] \in Seen \cup {NotSeen} /\ seen'[m].life = seen[m].life
               /\ seen[m].life # "none" =>
                    seen'[m].bytes = seen[m].bytes /\ seen'[m].age = Older(seen[m].age)
    <3>1. SeenFields(m)
      BY <1>0, Fields
    <3>2. CASE seen[m] = NotSeen
      BY <3>1, <3>2 DEF Tick, SeenFields
    <3>3. CASE seen[m] # NotSeen
      <4>1. seen'[m] = [seen[m] EXCEPT !.age = Older(seen[m].age)]
        BY <3>3 DEF Tick
      <4>2. seen[m] \in Seen /\ Older(seen[m].age) \in 0 .. Idle
        BY <3>1, <3>3, OlderIsOlder DEF SeenFields
      <4> DEFINE a == Older(seen[m].age)
      <4> HIDE DEF a
      <4>3. seen'[m] = [seen[m] EXCEPT !.age = a] /\ a \in 0 .. Idle
        BY <4>1, <4>2 DEF a
      <4>4. seen'[m] \in Seen /\ seen'[m].age = a /\ seen'[m].life = seen[m].life
            /\ seen'[m].bytes = seen[m].bytes
        BY <4>2, <4>3 DEF Seen
      <4> QED
        BY <4>4 DEF a
    <3> QED
      BY <3>2, <3>3
  <2> QED
    BY <2>1 DEF Tick
<1>3. /\ look' \in Looks /\ look'.at = look.at /\ look'.todo = look.todo
      /\ look'.present = look.present /\ look'.old = look.old
      /\ look.at = "loop" => look'.lag = Older(look.lag)
      /\ look.at # "loop" => look'.lag = look.lag
  <2> DEFINE g == Older(look.lag)
  <2>1. g \in 0 .. Idle
    BY <1>0, LookFields, OlderIsOlder
  <2>2. look' = IF look.at = "loop" THEN [look EXCEPT !.lag = g] ELSE look
    BY DEF Tick
  <2> HIDE DEF g
  <2>3. /\ look' \in Looks /\ look'.at = look.at /\ look'.todo = look.todo
        /\ look'.present = look.present /\ look'.old = look.old
        /\ look.at = "loop" => look'.lag = g
        /\ look.at # "loop" => look'.lag = look.lag
    BY <1>0, <2>1, <2>2 DEF Looks
  <2> QED
    BY <2>3 DEF g
<1>4. /\ last' \in [Mark -> 0 .. Idle]
      /\ \A m \in Mark : classes[m] # NoRate => last'[m] = Older(last[m])
  <2>1. \A m \in Mark : last[m] \in 0 .. Idle /\ Older(last[m]) \in 0 .. Idle
    BY <1>0, OlderIsOlder DEF GcTypeOK
  <2> QED
    BY <2>1, <1>0 DEF Tick
<1>5. GcTypeOK'
  BY <1>0, <1>1, <1>2, <1>3, <1>4 DEF GcTypeOK, Looks
<1>6. SeenIsTrue'
  <2> SUFFICES ASSUME NEW m \in Mark, seen'[m].life = "same"
               PROVE  /\ classes[m] # NoRate /\ seen'[m].bytes <= bytes[m]
                      /\ seen'[m].bytes = bytes[m] => seen'[m].age <= last'[m]
    BY <1>1 DEF SeenIsTrue
  <2>1. /\ classes[m] # NoRate /\ seen[m].bytes <= bytes[m]
        /\ seen[m].bytes = bytes[m] => seen[m].age <= last[m]
        /\ seen'[m].bytes = seen[m].bytes /\ seen'[m].age = Older(seen[m].age)
        /\ last'[m] = Older(last[m])
    BY <1>2, <1>4 DEF GcInv, SeenIsTrue
  <2>2. seen[m].age \in 0 .. Idle /\ last[m] \in 0 .. Idle
    BY <1>0, Fields DEF SeenFields
  <2> QED
    BY <2>1, <2>2, OlderIsOlder
<1>7. ListedIsTrue'
  <2> SUFFICES ASSUME NEW m \in Mark, look.todo[m].life = "same"
               PROVE  /\ classes[m] # NoRate /\ look.todo[m].bytes <= bytes[m]
                      /\ look.todo[m].bytes = bytes[m] /\ look.at = "loop" => look'.lag <= last'[m]
                      /\ m \notin moved => bytes[m] = look.todo[m].bytes
    BY <1>1, <1>3 DEF ListedIsTrue
  <2>1. /\ classes[m] # NoRate /\ look.todo[m].bytes <= bytes[m]
        /\ look.todo[m].bytes = bytes[m] /\ look.at = "loop" => look.lag <= last[m]
        /\ m \notin moved => bytes[m] = look.todo[m].bytes
        /\ last'[m] = Older(last[m])
    BY <1>4 DEF GcInv, ListedIsTrue
  <2>2. look.lag \in 0 .. Idle /\ last[m] \in 0 .. Idle
    BY <1>0, Fields, LookFields
  <2> QED
    BY <2>1, <2>2, <1>3, OlderIsOlder
<1>8. PendingIsListed'
  <2> SUFFICES ASSUME NEW m \in Mark, look.todo[m].life # "none"
               PROVE  /\ look.at # "wait" /\ m \in look.present /\ m \in UserMark
                      /\ look.todo[m].life \in {"same", "hidden"}
                      /\ seen'[m].life = "same" =>
                           look.todo[m].life = "same" /\ seen'[m].bytes <= look.todo[m].bytes
                      /\ m \in look.old => seen'[m].life # "none" /\ seen'[m].age = Idle
    BY <1>3 DEF PendingIsListed, Pending
  <2>1. /\ look.at # "wait" /\ m \in look.present /\ m \in UserMark
        /\ look.todo[m].life \in {"same", "hidden"}
        /\ seen[m].life = "same" =>
             look.todo[m].life = "same" /\ seen[m].bytes <= look.todo[m].bytes
        /\ m \in look.old => seen[m].life # "none" /\ seen[m].age = Idle
    BY DEF GcInv, PendingIsListed, Pending
  <2>2. Older(Idle) = Idle
    BY <1>0 DEF Older
  <2> QED
    BY <2>1, <2>2, <1>2
<1>9. CollectLocals'
  BY <1>2, <1>3 DEF GcInv, CollectLocals
<1>10. DeletesOld'
  <2> DEFINE m == op[Collector].mark
  <2>1. m \in Mark
    BY <1>0, CollectorAssumption DEF GcTypeOK, TypeOK, Op
  <2>2. /\ pc[Collector] # "idle" => look.at = "loop" /\ look.todo[m].life = "none"
        /\ pc[Collector] \in {"lock", "tc"} =>
             /\ seen[m].life \in {"same", "hidden"} /\ seen[m].age = Idle
             /\ seen[m].life = "same" /\ m \notin moved => bytes[m] = seen[m].bytes
    BY DEF GcInv, DeletesOld, Pending
  <2>3. Older(Idle) = Idle
    BY <1>0 DEF Older
  <2>4. /\ pc[Collector] # "idle" => look'.at = "loop" /\ look'.todo[m].life = "none"
        /\ pc[Collector] \in {"lock", "tc"} =>
             /\ seen'[m].life \in {"same", "hidden"} /\ seen'[m].age = Idle
             /\ seen'[m].life = "same" /\ m \notin moved => bytes[m] = seen'[m].bytes
    BY <2>1, <2>2, <2>3, <1>2, <1>3
  <2>5. pc[Collector] = "base" => seen'[m].life # "same"
    BY <2>1, <1>2 DEF GcInv, DeletesOld
  <2> QED
    BY <2>4, <2>5, <1>1 DEF DeletesOld, Pending
<1> QED
  BY <1>5, <1>6, <1>7, <1>8, <1>9, <1>10 DEF GcInv

LEMMA TrafficInv ==
  ASSUME GcInv, TypeOK', NEW t \in Mark, Traffic(t)
  PROVE  GcInv'
<1>0. GcTypeOK /\ Idle \in Nat /\ MaxBytes \in Nat
  BY CollectorAssumption DEF GcInv
<1>1. UNCHANGED <<classes, pc, op, seen, look>>
  BY DEF Traffic, storeVars
<1>2. /\ bytes' \in [Mark -> 0 .. MaxBytes] /\ bytes'[t] = bytes[t] + 1 /\ bytes[t] \in Nat
      /\ last' \in [Mark -> 0 .. Idle]
      /\ \A m \in Mark : m # t => bytes'[m] = bytes[m] /\ last'[m] = last[m]
      /\ moved' \in SUBSET Mark /\ moved \subseteq moved' /\ (look.at # "wait" => t \in moved')
  BY <1>0 DEF Traffic, GcTypeOK
<1>3. GcTypeOK'
  BY <1>0, <1>1, <1>2 DEF GcTypeOK
<1>4. SeenIsTrue'
  <2> SUFFICES ASSUME NEW m \in Mark, seen[m].life = "same"
               PROVE  /\ classes[m] # NoRate /\ seen[m].bytes <= bytes'[m]
                      /\ seen[m].bytes = bytes'[m] => seen[m].age <= last'[m]
    BY <1>1 DEF SeenIsTrue
  <2>1. /\ classes[m] # NoRate /\ seen[m].bytes <= bytes[m]
        /\ seen[m].bytes = bytes[m] => seen[m].age <= last[m]
    BY DEF GcInv, SeenIsTrue
  <2>2. seen[m].bytes \in 0 .. MaxBytes
    BY <1>0, Fields DEF SeenFields
  <2>3. CASE m = t
    BY <2>1, <2>2, <2>3, <1>0, <1>2
  <2>4. CASE m # t
    BY <2>1, <2>4, <1>2
  <2> QED
    BY <2>3, <2>4
<1>5. ListedIsTrue'
  <2> SUFFICES ASSUME NEW m \in Mark, look.todo[m].life = "same"
               PROVE  /\ classes[m] # NoRate /\ look.todo[m].bytes <= bytes'[m]
                      /\ look.todo[m].bytes = bytes'[m] /\ look.at = "loop" => look.lag <= last'[m]
                      /\ m \notin moved' => bytes'[m] = look.todo[m].bytes
    BY <1>1 DEF ListedIsTrue
  <2>1. /\ classes[m] # NoRate /\ look.todo[m].bytes <= bytes[m]
        /\ look.todo[m].bytes = bytes[m] /\ look.at = "loop" => look.lag <= last[m]
        /\ m \notin moved => bytes[m] = look.todo[m].bytes
    BY DEF GcInv, ListedIsTrue
  <2>2. look.todo[m].bytes \in 0 .. MaxBytes
    BY <1>0, Fields DEF TodoFields
  <2>3. CASE m = t
    <3>1. look.at # "wait"
      BY DEF GcInv, PendingIsListed, Pending
    <3> QED
      BY <2>1, <2>2, <2>3, <3>1, <1>0, <1>2
  <2>4. CASE m # t
    BY <2>1, <2>4, <1>2
  <2> QED
    BY <2>3, <2>4
<1>6. PendingIsListed' /\ CollectLocals'
  BY <1>1 DEF GcInv, PendingIsListed, Pending, CollectLocals
<1>7. DeletesOld'
  <2> DEFINE m == op[Collector].mark
  <2>1. m \in Mark
    BY <1>0, CollectorAssumption DEF GcTypeOK, TypeOK, Op
  <2>2. /\ pc[Collector] # "idle" => look.at = "loop" /\ look.todo[m].life = "none"
        /\ pc[Collector] \in {"lock", "tc"} =>
             /\ seen[m].life \in {"same", "hidden"} /\ seen[m].age = Idle
             /\ seen[m].life = "same" /\ m \notin moved => bytes[m] = seen[m].bytes
    BY DEF GcInv, DeletesOld, Pending
  <2>3. pc[Collector] # "idle" /\ m \notin moved' => m \notin moved /\ bytes'[m] = bytes[m]
    BY <2>1, <2>2, <1>2
  <2>4. pc[Collector] \in {"lock", "tc"} /\ seen[m].life = "same" /\ m \notin moved' =>
          bytes'[m] = seen[m].bytes
    BY <2>2, <2>3
  <2>5. pc[Collector] = "base" => seen[m].life # "same"
    BY DEF GcInv, DeletesOld
  <2> QED
    BY <2>2, <2>4, <2>5, <1>1 DEF DeletesOld, Pending
<1> QED
  BY <1>3, <1>4, <1>5, <1>6, <1>7 DEF GcInv

-----------------------------------------------------------------------------
(* Collect.                                                                *)
LEMMA ListInv ==
  ASSUME GcInv, TypeOK', List
  PROVE  GcInv'
<1>0. GcTypeOK /\ Idle \in Nat /\ MaxBytes \in Nat /\ look \in Looks /\ look.at = "wait"
  BY CollectorAssumption, LookFields DEF GcInv, List
<1>1. /\ UNCHANGED <<classes, pc, op, bytes, last>> /\ moved' = {}
      /\ pc[Collector] = "idle" /\ look.lag = 0 /\ look.old = {}
  BY <1>0 DEF List, storeVars, GcInv, DeletesOld, CollectLocals
<1> DEFINE td == [m \in Mark |-> IF Classes(classes)[m] = NoRate THEN NotSeen
                                   ELSE [bytes |-> bytes[m], life |-> "same"]]
           there == {m \in Mark : Classes(classes)[m] # NoRate}
<1>2. \A m \in Mark : m \in there <=> classes[m] # NoRate /\ m \in UserMark
  BY DEF Classes
<1>3. td \in [Mark -> Listed \cup {NotSeen}]
  <2>1. ASSUME NEW m \in Mark PROVE [bytes |-> bytes[m], life |-> "same"] \in Listed
    BY <1>0 DEF Listed, Life, GcTypeOK
  <2> QED
    BY <2>1
<1>4. \A m \in Mark :
        /\ m \in there => td[m].bytes = bytes[m] /\ td[m].life = "same"
        /\ m \notin there => td[m].life = "none"
  BY DEF NotSeen
<1>5. look' = [look EXCEPT !.at = "now", !.todo = td, !.present = there]
  BY DEF List
<1> HIDE DEF td
<1>6. there \subseteq Mark
  OBVIOUS
<1> HIDE DEF there
<1>7. /\ look' \in Looks /\ look'.at = "now" /\ look'.todo = td /\ look'.present = there
      /\ look'.old = {} /\ look'.lag = 0
  BY <1>0, <1>1, <1>3, <1>5, <1>6 DEF Looks
<1>8. /\ seen' \in [Mark -> Seen \cup {NotSeen}]
      /\ \A m \in Mark :
           /\ seen'[m].life = IF classes[m] = NoRate /\ seen[m].life = "hidden"
                                THEN "noticed" ELSE seen[m].life
           /\ seen[m].life = "same" =>
                seen'[m].bytes = seen[m].bytes /\ seen'[m].age = seen[m].age
  <2>1. ASSUME NEW m \in Mark
        PROVE  /\ seen'[m] \in Seen \cup {NotSeen}
               /\ seen'[m].life = IF classes[m] = NoRate /\ seen[m].life = "hidden"
                                    THEN "noticed" ELSE seen[m].life
               /\ seen[m].life = "same" =>
                    seen'[m].bytes = seen[m].bytes /\ seen'[m].age = seen[m].age
    <3>1. SeenFields(m)
      BY <1>0, Fields
    <3>2. CASE classes[m] = NoRate /\ seen[m].life = "hidden"
      <4>1. seen'[m] = [seen[m] EXCEPT !.life = "noticed"]
        BY <3>2 DEF List
      <4>2. seen[m] \in Seen
        BY <3>1, <3>2 DEF SeenFields
      <4>3. seen'[m] \in Seen /\ seen'[m].life = "noticed"
        BY <4>1, <4>2 DEF Seen, Life
      <4> QED
        BY <4>3, <3>2
    <3>3. CASE ~(classes[m] = NoRate /\ seen[m].life = "hidden")
      <4>1. seen'[m] = seen[m]
        BY <3>3 DEF List
      <4> QED
        BY <4>1, <3>1, <3>3 DEF SeenFields
    <3> QED
      BY <3>2, <3>3
  <2> QED
    BY <2>1 DEF List
<1>9. GcTypeOK'
  BY <1>0, <1>1, <1>7, <1>8 DEF GcTypeOK, Looks
<1>10. SeenIsTrue'
  <2> SUFFICES ASSUME NEW m \in Mark, seen'[m].life = "same"
               PROVE  /\ classes[m] # NoRate /\ seen'[m].bytes <= bytes[m]
                      /\ seen'[m].bytes = bytes[m] => seen'[m].age <= last[m]
    BY <1>1 DEF SeenIsTrue
  <2>1. seen[m].life = "same" /\ seen'[m].bytes = seen[m].bytes /\ seen'[m].age = seen[m].age
    BY <1>8
  <2> QED
    BY <2>1 DEF GcInv, SeenIsTrue
<1>11. ListedIsTrue'
  <2> SUFFICES ASSUME NEW m \in Mark, td[m].life = "same"
               PROVE  classes[m] # NoRate /\ td[m].bytes <= bytes[m] /\ bytes[m] = td[m].bytes
    BY <1>1, <1>7 DEF ListedIsTrue
  <2>1. bytes[m] \in Nat
    BY <1>0, Fields
  <2> QED
    BY <2>1, <1>2, <1>4
<1>12. PendingIsListed'
  <2> SUFFICES ASSUME NEW m \in Mark, td[m].life # "none"
               PROVE  /\ m \in there /\ m \in UserMark /\ td[m].life = "same"
                      /\ seen'[m].life = "same" => seen'[m].bytes <= td[m].bytes
    BY <1>7 DEF PendingIsListed, Pending
  <2>1. m \in there /\ m \in UserMark /\ td[m].life = "same" /\ td[m].bytes = bytes[m]
    BY <1>2, <1>4
  <2>2. seen'[m].life = "same" => seen'[m].bytes <= bytes[m]
    BY <1>1, <1>10 DEF SeenIsTrue
  <2> QED
    BY <2>1, <2>2
<1>13. CollectLocals'
  <2>1. ASSUME NEW m \in Mark, seen'[m].life = "noticed" PROVE m \notin there
    BY <2>1, <1>0, <1>2, <1>8 DEF GcInv, CollectLocals
  <2>2. ASSUME NEW m \in Mark, seen'[m].life = "same" PROVE m \in UserMark /\ m \in there
    <3>1. seen[m].life = "same" /\ classes[m] # NoRate
      BY <2>2, <1>1, <1>8, <1>10 DEF SeenIsTrue
    <3> QED
      BY <3>1, <1>2 DEF GcInv, CollectLocals
  <2> QED
    BY <2>1, <2>2, <1>7 DEF CollectLocals
<1>14. DeletesOld'
  BY <1>1 DEF DeletesOld
<1> QED
  BY <1>9, <1>10, <1>11, <1>12, <1>13, <1>14 DEF GcInv

LEMMA NowInv ==
  ASSUME GcInv, TypeOK', Now
  PROVE  GcInv'
<1>0. GcTypeOK /\ Idle \in Nat /\ Idle > 0 /\ look \in Looks /\ look.at = "now"
  BY CollectorAssumption, LookFields DEF GcInv, Now
<1>1. /\ UNCHANGED <<classes, pc, op, bytes, last, seen, moved>>
      /\ pc[Collector] = "idle" /\ look.lag = 0
  BY <1>0 DEF Now, storeVars, GcInv, DeletesOld, CollectLocals
<1> DEFINE od == {m \in look.present : seen[m].age >= Idle}
<1>2. look' = [look EXCEPT !.at = "loop", !.old = od] /\ od \subseteq Mark
  BY <1>0, LookFields DEF Now
<1>3. \A m \in od : m \in Mark /\ seen[m].age >= Idle
  BY <1>2
<1> HIDE DEF od
<1>4. /\ look' \in Looks /\ look'.at = "loop" /\ look'.todo = look.todo
      /\ look'.present = look.present /\ look'.old = od /\ look'.lag = 0
  BY <1>0, <1>1, <1>2 DEF Looks
<1>5. ASSUME NEW m \in od PROVE seen[m].life # "none" /\ seen[m].age = Idle
  <2>1. m \in Mark /\ seen[m].age >= Idle
    BY <1>3
  <2>2. SeenFields(m)
    BY <2>1, <1>0, Fields
  <2>3. NotSeen.age = 0
    BY DEF NotSeen
  <2> QED
    BY <2>1, <2>2, <2>3, <1>0 DEF SeenFields
<1>6. GcTypeOK'
  BY <1>0, <1>1, <1>4 DEF GcTypeOK, Looks
<1>7. SeenIsTrue'
  BY <1>1 DEF GcInv, SeenIsTrue
<1>8. ListedIsTrue'
  <2>1. \A m \in Mark : last[m] >= 0
    BY <1>0, Fields
  <2> QED
    BY <2>1, <1>1, <1>4 DEF GcInv, ListedIsTrue
<1>9. PendingIsListed'
  BY <1>1, <1>4, <1>5 DEF GcInv, PendingIsListed, Pending
<1>10. CollectLocals'
  BY <1>0, <1>1, <1>4 DEF GcInv, CollectLocals
<1>11. DeletesOld'
  BY <1>1 DEF DeletesOld
<1> QED
  BY <1>6, <1>7, <1>8, <1>9, <1>10, <1>11 DEF GcInv

\* One class of the listing is looked at.
LEMMA LookAtFields ==
  ASSUME GcTypeOK, NEW t \in Mark, LookAt(t)
  PROVE  /\ look' \in Looks /\ look'.at = "loop" /\ look.at = "loop" /\ look'.present = look.present
         /\ look'.old = look.old /\ look'.lag = look.lag
         /\ look'.todo[t].life = "none" /\ look.todo[t].life # "none"
         /\ \A m \in Mark : m # t => look'.todo[m] = look.todo[m]
         /\ UNCHANGED <<bytes, last, moved>> /\ pc[Collector] = "idle"
<1>1. look \in Looks /\ look.todo \in [Mark -> Listed \cup {NotSeen}]
  BY LookFields
<1> DEFINE td == [look.todo EXCEPT ![t] = NotSeen]
<1>2. /\ td \in [Mark -> Listed \cup {NotSeen}] /\ td[t].life = "none"
      /\ \A m \in Mark : m # t => td[m] = look.todo[m]
  BY <1>1 DEF NotSeen
<1>3. look' = [look EXCEPT !.todo = td]
  BY <1>1 DEF LookAt
<1> HIDE DEF td
<1>4. /\ look' \in Looks /\ look'.at = look.at /\ look'.present = look.present
      /\ look'.old = look.old /\ look'.lag = look.lag /\ look'.todo = td
  BY <1>1, <1>2, <1>3 DEF Looks
<1>5. look.todo[t].life # "none"
  BY Fields DEF LookAt, TodoFields
<1> QED
  BY <1>2, <1>4, <1>5 DEF LookAt

LEMMA StartPeriodInv ==
  ASSUME GcInv, TypeOK', NEW t \in Mark, StartPeriod(t)
  PROVE  GcInv'
<1>0. GcTypeOK /\ Idle \in Nat /\ LookAt(t)
  BY CollectorAssumption DEF GcInv, StartPeriod
<1>1. /\ look' \in Looks /\ look'.at = "loop" /\ look.at = "loop" /\ look'.present = look.present
      /\ look'.old = look.old /\ look'.lag = look.lag
      /\ look'.todo[t].life = "none" /\ look.todo[t].life # "none"
      /\ \A m \in Mark : m # t => look'.todo[m] = look.todo[m]
      /\ UNCHANGED <<bytes, last, moved>> /\ pc[Collector] = "idle"
  BY <1>0, LookAtFields
<1>2. UNCHANGED <<classes, pc, op>>
  BY DEF StartPeriod, storeVars
<1> DEFINE b == look.todo[t].bytes
           l == look.todo[t].life
           g == look.lag
<1>3. /\ b \in 0 .. MaxBytes /\ g \in 0 .. Idle /\ l \in {"same", "hidden"}
      /\ t \in look.present /\ t \in UserMark
  BY <1>0, <1>1, Fields, LookFields DEF TodoFields, GcInv, PendingIsListed, Pending
<1>4. seen' = [seen EXCEPT ![t] = [bytes |-> b, age |-> g, life |-> l]]
  BY DEF StartPeriod
<1>5. l = "same" =>
        /\ classes[t] # NoRate /\ b <= bytes[t]
        /\ b = bytes[t] => g <= last[t]
  BY <1>1 DEF GcInv, ListedIsTrue
<1> HIDE DEF b, l, g
<1>6. /\ seen' \in [Mark -> Seen \cup {NotSeen}]
      /\ seen'[t].bytes = b /\ seen'[t].age = g /\ seen'[t].life = l
      /\ \A m \in Mark : m # t => seen'[m] = seen[m]
  <2>1. [bytes |-> b, age |-> g, life |-> l] \in Seen
    BY <1>3 DEF Seen, Life
  <2> QED
    BY <2>1, <1>0, <1>4 DEF GcTypeOK
<1>7. GcTypeOK'
  BY <1>0, <1>1, <1>6 DEF GcTypeOK, Looks
<1>8. SeenIsTrue'
  BY <1>1, <1>2, <1>5, <1>6 DEF GcInv, SeenIsTrue
<1>9. ListedIsTrue'
  BY <1>1, <1>2 DEF GcInv, ListedIsTrue
<1>10. PendingIsListed'
  BY <1>1, <1>6 DEF GcInv, PendingIsListed, Pending
<1>11. CollectLocals'
  BY <1>1, <1>3, <1>6 DEF GcInv, CollectLocals
<1>12. DeletesOld'
  BY <1>1, <1>2 DEF DeletesOld
<1> QED
  BY <1>7, <1>8, <1>9, <1>10, <1>11, <1>12 DEF GcInv

\* TooYoung and DeleteIdle: what was seen stays.
LEMMA LookedAtInv ==
  ASSUME GcInv, TypeOK', NEW t \in Mark, LookAt(t), UNCHANGED <<seen, classes>>
  PROVE  GcTypeOK' /\ SeenIsTrue' /\ ListedIsTrue' /\ PendingIsListed' /\ CollectLocals'
<1>1. /\ look' \in Looks /\ look'.at = "loop" /\ look.at = "loop" /\ look'.present = look.present
      /\ look'.old = look.old /\ look'.lag = look.lag
      /\ look'.todo[t].life = "none" /\ look.todo[t].life # "none"
      /\ \A m \in Mark : m # t => look'.todo[m] = look.todo[m]
      /\ UNCHANGED <<bytes, last, moved>> /\ pc[Collector] = "idle"
  BY LookAtFields DEF GcInv
<1>2. GcTypeOK'
  BY <1>1 DEF GcInv, GcTypeOK, Looks
<1>3. SeenIsTrue'
  BY <1>1 DEF GcInv, SeenIsTrue
<1>4. ListedIsTrue'
  BY <1>1 DEF GcInv, ListedIsTrue
<1>5. PendingIsListed'
  BY <1>1 DEF GcInv, PendingIsListed, Pending
<1>6. CollectLocals'
  BY <1>1 DEF GcInv, CollectLocals
<1> QED
  BY <1>2, <1>3, <1>4, <1>5, <1>6

LEMMA TooYoungInv ==
  ASSUME GcInv, TypeOK', NEW t \in Mark, TooYoung(t)
  PROVE  GcInv'
<1>1. LookAt(t) /\ UNCHANGED <<seen, classes, pc>>
  BY DEF TooYoung, storeVars
<1>2. DeletesOld'
  BY <1>1 DEF LookAt, DeletesOld
<1> QED
  BY <1>1, <1>2, LookedAtInv DEF GcInv

LEMMA DeleteIdleInv ==
  ASSUME GcInv, TypeOK', NEW t \in Mark, DeleteIdle(t)
  PROVE  GcInv'
<1>0. GcTypeOK /\ LookAt(t) /\ Quiet(t) /\ t \in look.old /\ UNCHANGED <<seen, classes>>
  BY DEF GcInv, DeleteIdle, CallDelete, Call
<1>1. pc'[Collector] = "lock" /\ op'[Collector].mark = t
  BY <1>0, CollectorAssumption DEF DeleteIdle, CallDelete, Call, GcTypeOK, TypeOK
<1>2. look'.at = "loop" /\ look'.todo[t].life = "none" /\ UNCHANGED <<bytes, moved>> /\ Pending(t)
  BY <1>0, LookAtFields DEF Pending
<1>3. seen[t].life \in {"same", "hidden"} /\ seen[t].age = Idle
  <2>1. /\ seen[t].life # "none" /\ seen[t].age = Idle /\ t \in look.present
    BY <1>0, <1>2 DEF GcInv, PendingIsListed
  <2>2. seen[t].life # "noticed"
    BY <2>1 DEF GcInv, CollectLocals
  <2> QED
    BY <2>1, <2>2, <1>0, Fields DEF SeenFields
<1>4. seen[t].life = "same" /\ t \notin moved => bytes[t] = seen[t].bytes
  <2>1. seen[t].life = "same" => look.todo[t].life = "same"
    BY <1>2 DEF GcInv, PendingIsListed
  <2> QED
    BY <2>1, <1>0 DEF GcInv, ListedIsTrue, Quiet
<1>5. DeletesOld'
  BY <1>0, <1>1, <1>2, <1>3, <1>4 DEF DeletesOld, Pending
<1> QED
  BY <1>0, <1>5, LookedAtInv DEF GcInv

LEMMA DeleteReturnsInv ==
  ASSUME GcInv, TypeOK', DeleteReturns
  PROVE  GcInv'
<1> DEFINE t == op[Collector].mark
<1>0. GcTypeOK /\ t \in Mark
  BY CollectorAssumption DEF GcInv, GcTypeOK, TypeOK, Op
<1>1. UNCHANGED <<classes, bytes, look, last, moved>> /\ pc'[Collector] = "idle"
  BY <1>0, CollectorAssumption DEF DeleteReturns, Record, Return, GcTypeOK, TypeOK
<1>2. /\ seen' \in [Mark -> Seen \cup {NotSeen}] /\ seen'[t].life = "none"
      /\ \A m \in Mark : m # t => seen'[m] = seen[m]
  BY <1>0 DEF DeleteReturns, GcTypeOK, NotSeen
<1>3. look.todo[t].life = "none"
  BY DEF DeleteReturns, Record, GcInv, DeletesOld, Pending
<1> HIDE DEF t
<1>4. GcTypeOK'
  BY <1>0, <1>1, <1>2 DEF GcTypeOK
<1>5. SeenIsTrue'
  BY <1>1, <1>2 DEF GcInv, SeenIsTrue
<1>6. ListedIsTrue'
  BY <1>1 DEF GcInv, ListedIsTrue
<1>7. PendingIsListed'
  BY <1>1, <1>2, <1>3 DEF GcInv, PendingIsListed, Pending
<1>8. CollectLocals'
  BY <1>1, <1>2 DEF GcInv, CollectLocals
<1>9. DeletesOld'
  BY <1>1 DEF DeletesOld
<1> QED
  BY <1>4, <1>5, <1>6, <1>7, <1>8, <1>9 DEF GcInv

\* Nothing is pending: before the first Collect, and after each.
LEMMA WaitingInv ==
  ASSUME TypeOK', bytes' \in [Mark -> 0 .. MaxBytes], last' \in [Mark -> 0 .. Idle],
         seen' \in [Mark -> Seen \cup {NotSeen}], moved' = {}, look' = Waiting,
         pc'[Collector] = "idle", SeenIsTrue', \A m \in Mark : seen'[m].life # "noticed",
         \A m \in Mark : seen'[m].life = "same" => m \in UserMark
  PROVE  GcInv'
<1>1. /\ look' \in Looks /\ look'.at = "wait" /\ look'.lag = 0 /\ look'.old = {}
      /\ \A m \in Mark : look'.todo[m].life = "none"
  BY WaitingFields
<1>2. GcTypeOK'
  BY <1>1 DEF GcTypeOK, Looks
<1>3. ListedIsTrue' /\ PendingIsListed'
  BY <1>1 DEF ListedIsTrue, PendingIsListed, Pending
<1>4. CollectLocals' /\ DeletesOld'
  BY <1>1 DEF CollectLocals, DeletesOld
<1> QED
  BY <1>2, <1>3, <1>4 DEF GcInv

LEMMA PruneInv ==
  ASSUME GcInv, TypeOK', Prune
  PROVE  GcInv'
<1>0. GcTypeOK
  BY DEF GcInv
<1>1. /\ UNCHANGED <<classes, pc, bytes, last>> /\ moved' = {} /\ look' = Waiting
      /\ pc[Collector] = "idle"
  BY DEF Prune, storeVars
<1>2. /\ seen' \in [Mark -> Seen \cup {NotSeen}]
      /\ \A m \in Mark : IF m \in look.present THEN seen'[m] = seen[m] ELSE seen'[m].life = "none"
  BY <1>0 DEF Prune, GcTypeOK, NotSeen
<1>3. SeenIsTrue'
  BY <1>1, <1>2 DEF GcInv, SeenIsTrue
<1>4. \A m \in Mark : seen'[m].life # "noticed"
  BY <1>2 DEF GcInv, CollectLocals
<1>5. \A m \in Mark : seen'[m].life = "same" => m \in UserMark
  BY <1>2 DEF GcInv, CollectLocals
<1>6. bytes' \in [Mark -> 0 .. MaxBytes] /\ last' \in [Mark -> 0 .. Idle]
  BY <1>0, <1>1 DEF GcTypeOK
<1>7. pc'[Collector] = "idle" /\ moved' = {} /\ look' = Waiting
  BY <1>1
<1>8. seen' \in [Mark -> Seen \cup {NotSeen}]
  BY <1>2
<1> QED
  BY <1>3, <1>4, <1>5, <1>6, <1>7, <1>8, WaitingInv

LEMMA GcRestartInv ==
  ASSUME GcInv, TypeOK', GcRestart
  PROVE  GcInv'
<1>1. UNCHANGED <<classes, bytes, last>> /\ moved' = {} /\ look' = Waiting /\ seen' = NothingSeen
  BY DEF GcRestart, StoreRestart
<1>2. pc'[Collector] = "idle"
  BY CollectorAssumption DEF GcRestart, StoreRestart
<1>3. seen' \in [Mark -> Seen \cup {NotSeen}] /\ \A m \in Mark : seen'[m].life = "none"
  BY <1>1, WaitingFields
<1>4. SeenIsTrue'
  BY <1>3 DEF SeenIsTrue
<1> QED
  BY <1>1, <1>2, <1>3, <1>4, WaitingInv DEF GcInv, GcTypeOK

-----------------------------------------------------------------------------
LEMMA GcInitInv == GcInit => GcInv
<1> SUFFICES ASSUME GcInit PROVE GcInv
  OBVIOUS
<1>1. /\ TypeOK /\ bytes \in [Mark -> 0 .. MaxBytes] /\ last \in [Mark -> 0 .. Idle]
      /\ look = Waiting /\ seen = NothingSeen /\ moved = {}
  BY StoreInitInv, CollectorAssumption DEF GcInit, StoreInv
<1>2. pc[Collector] = "idle"
  BY CollectorAssumption DEF GcInit, StoreInit
<1>3. /\ look \in Looks /\ look.at = "wait" /\ look.lag = 0 /\ look.old = {}
      /\ \A m \in Mark : look.todo[m].life = "none" /\ seen[m].life = "none"
      /\ seen \in [Mark -> Seen \cup {NotSeen}]
  BY <1>1, WaitingFields
<1>4. GcTypeOK
  BY <1>1, <1>3 DEF GcTypeOK, Looks
<1>5. SeenIsTrue /\ ListedIsTrue /\ PendingIsListed
  BY <1>3 DEF SeenIsTrue, ListedIsTrue, PendingIsListed, Pending
<1>6. CollectLocals /\ DeletesOld
  BY <1>2, <1>3 DEF CollectLocals, DeletesOld
<1> QED
  BY <1>4, <1>5, <1>6 DEF GcInv

\* A call or a step of another goroutine leaves the collector where it is.
LEMMA OthersFollow ==
  ASSUME TypeOK, NEW p \in Clients,
         \/ \E m \in Mark, r \in Limit : Call(p, m, r)
         \/ StoreStep(p)
  PROVE  CollectorFollows
<1>1. p \in Proc /\ p # Collector /\ Collector \in Proc
  BY CollectorAssumption DEF Clients
<1>2. ASSUME NEW m \in Mark, NEW r \in Limit, Call(p, m, r)
      PROVE  pc'[Collector] = pc[Collector] /\ op'[Collector] = op[Collector]
  BY <1>1, <1>2 DEF Call, TypeOK
<1>3. ASSUME StoreStep(p)
      PROVE  pc'[Collector] = pc[Collector] /\ op'[Collector] = op[Collector]
  BY <1>1, <1>3 DEF StoreStep, Lock, SetRate, Remove, TcFail, Record, Return, TypeOK
<1>4. pc'[Collector] = pc[Collector] /\ op'[Collector] = op[Collector]
  BY <1>2, <1>3
<1> QED
  BY <1>4 DEF CollectorFollows

LEMMA DeleteStepInv ==
  ASSUME GcInv, TypeOK', DeleteStep
  PROVE  GcInv'
<1>0. TypeOK /\ Collector \in Proc
  BY CollectorAssumption DEF GcInv, GcTypeOK
<1>1. CASE Lock(Collector) /\ UNCHANGED gcVars
  <2>1. CollectorFollows /\ classes' = classes
    BY <1>0, <1>1 DEF Lock, TypeOK, CollectorFollows
  <2> QED
    BY <1>1, <2>1, QuietStepInv
<1>2. CASE Remove(Collector) /\ Counters /\ seen' = Hide(seen)
  <2>1. CollectorFollows
    BY <1>0, <1>2 DEF Remove, TypeOK, CollectorFollows
  <2> QED
    BY <1>2, <2>1, CountersInv
<1>3. CASE TcFail(Collector) /\ UNCHANGED gcVars
  <2>1. CollectorFollows /\ classes' = classes
    BY <1>0, <1>3 DEF TcFail, Return, TypeOK, CollectorFollows
  <2> QED
    BY <1>3, <2>1, QuietStepInv
<1> QED
  BY <1>1, <1>2, <1>3, DeleteReturnsInv DEF DeleteStep

LEMMA GcStepInv == GcInv /\ TypeOK' /\ [Service \/ GcRestart]_vars => GcInv'
<1> SUFFICES ASSUME GcInv, TypeOK', [Service \/ GcRestart]_vars PROVE GcInv'
  OBVIOUS
<1>0. TypeOK
  BY DEF GcInv, GcTypeOK
<1>1. CASE ClientCall
  <2>1. PICK p \in Clients, m \in Mark :
          (\E r \in Rate : CallSet(p, m, r)) \/ CallDelete(p, m)
    BY <1>1 DEF ClientCall
  <2>2. \E r \in Limit : Call(p, m, r)
    BY <2>1 DEF CallSet, CallDelete, Limit
  <2>3. CollectorFollows /\ classes' = classes
    BY <1>0, <2>2, OthersFollow DEF Call
  <2> QED
    BY <1>1, <2>3, QuietStepInv DEF ClientCall
<1>2. ASSUME NEW p \in Clients, ClientStep(p) PROVE GcInv'
  BY <1>0, <1>2, OthersFollow, CountersInv DEF ClientStep
<1>3. CASE UNCHANGED vars
  <2>1. UNCHANGED <<gcVars, classes, pc, op>>
    BY <1>3 DEF vars, storeVars
  <2>2. CollectorFollows
    BY <2>1 DEF CollectorFollows
  <2> QED
    BY <2>1, <2>2, QuietStepInv
<1>4. CASE Collect
  BY <1>4, ListInv, NowInv, PruneInv, DeleteStepInv, StartPeriodInv, TooYoungInv, DeleteIdleInv
     DEF Collect
<1> QED
  BY <1>1, <1>2, <1>3, <1>4, TickInv, TrafficInv, GcRestartInv DEF Service

LEMMA GcInvariance == GcSpec => []GcInv
BY GcInitInv, GcStepInv, CollectorUsesStore, TypeCorrect, PTL DEF GcSpec

(* The collector's map, the locals of Collect and the counters have their  *)
(* types, whatever goroutines and restarts come between its steps.         *)
THEOREM GcTypeCorrect == GcSpec => []GcTypeOK
BY GcInvariance, PTL DEF GcInv

(* Collect deletes a class only after a whole idle period without traffic, *)
(* but for traffic after the listing and a class created anew unnoticed.   *)
THEOREM OnlyIdleClassesDeleted == GcSpec => OnlyIdleDeleted
<1>1. GcInv /\ [Service \/ GcRestart]_vars =>
        [\A m \in Mark : Deletes(m) =>
           last[m] = Idle \/ m \in moved \/ seen[m].life = "hidden"]_vars
  <2> SUFFICES ASSUME GcInv, NEW m \in Mark, Deletes(m), m \notin moved, seen[m].life # "hidden"
               PROVE  last[m] = Idle
    OBVIOUS
  <2>1. pc[Collector] = "tc" /\ op[Collector].mark = m
    BY DEF Deletes
  <2>2. seen[m].life = "same" /\ seen[m].age = Idle /\ bytes[m] = seen[m].bytes
    BY <2>1 DEF GcInv, DeletesOld
  <2>3. Idle <= last[m]
    BY <2>2 DEF GcInv, SeenIsTrue
  <2>4. last[m] \in 0 .. Idle /\ Idle \in Nat
    BY Fields, CollectorAssumption DEF GcInv
  <2> QED
    BY <2>3, <2>4
<1> QED
  BY <1>1, GcInvariance, PTL DEF GcSpec, OnlyIdleDeleted

(* With the collector too, no limit is listed that is not enforced.        *)
THEOREM CollectorListedEnforced == GcSpec => []ListedIsEnforced
BY CollectorUsesStore, ListedEnforced, PTL

(* A class that stays silent keeps the idle period it has, whatever fails  *)
(* and whoever interferes, until the service is restarted.                 *)
THEOREM IdlePeriodGoesOn == GcSpec => IdleTimeKept
<1>1. GcInv /\ [Service \/ GcRestart]_vars =>
        [~GcRestart => \A m \in Mark :
           seen[m].life = "same" /\ seen[m].bytes = bytes[m] =>
             seen'[m].life # "none" /\ seen'[m].age >= seen[m].age]_vars
  <2> SUFFICES ASSUME GcInv, Service, NEW m \in Mark,
                      seen[m].life = "same", seen[m].bytes = bytes[m]
               PROVE  seen'[m].life # "none" /\ seen'[m].age >= seen[m].age
    OBVIOUS
  <2>0. GcTypeOK /\ SeenFields(m) /\ seen[m].age \in 0 .. Idle /\ Idle \in Nat
    BY Fields, CollectorAssumption DEF GcInv, SeenFields
  <2>1. CASE UNCHANGED seen
    BY <2>0, <2>1
  <2>2. CASE seen' = Hide(seen)
    BY <2>0, <2>2, HiddenSeen
  <2>3. CASE Tick
    <3>1. seen'[m] = [seen[m] EXCEPT !.age = Older(seen[m].age)] /\ seen[m] \in Seen
      BY <2>0, <2>3 DEF Tick, SeenFields
    <3>2. Older(seen[m].age) \in 0 .. Idle /\ Older(seen[m].age) >= seen[m].age
      BY <2>0 DEF Older
    <3> DEFINE a == Older(seen[m].age)
    <3>3. seen'[m] = [seen[m] EXCEPT !.age = a] /\ a \in 0 .. Idle /\ a >= seen[m].age
      BY <3>1, <3>2
    <3> HIDE DEF a
    <3>4. seen'[m].age = a /\ seen'[m].life = seen[m].life
      BY <3>1, <3>3 DEF Seen
    <3> QED
      BY <3>3, <3>4
  <2>4. CASE List
    <3>1. seen'[m] = seen[m]
      BY <2>4, <2>0 DEF List, GcTypeOK
    <3> QED
      BY <2>0, <3>1
  <2>5. CASE Prune
    <3>1. m \in look.present
      BY <2>5 DEF Prune, GcInv, CollectLocals
    <3> QED
      BY <2>0, <2>5, <3>1 DEF Prune
  <2>6. ASSUME NEW t \in Mark, StartPeriod(t)
        PROVE  seen'[m].life # "none" /\ seen'[m].age >= seen[m].age
    <3>1. t # m
      <4> SUFFICES ASSUME t = m PROVE FALSE
        OBVIOUS
      <4>1. LookAt(m) /\ ~Quiet(m)
        BY <2>6 DEF StartPeriod
      <4>2. Pending(m) /\ look.todo[m].bytes \in 0 .. MaxBytes
        BY <2>0, <4>1, Fields DEF LookAt, Pending, TodoFields
      <4>3. look.todo[m].life = "same" /\ seen[m].bytes <= look.todo[m].bytes
        BY <4>2 DEF GcInv, PendingIsListed
      <4>4. look.todo[m].bytes <= bytes[m]
        BY <4>3 DEF GcInv, ListedIsTrue
      <4>5. bytes[m] \in Nat /\ seen[m] # NotSeen
        BY <2>0, Fields DEF SeenFields
      <4> QED
        BY <4>1, <4>2, <4>3, <4>4, <4>5, CollectorAssumption DEF Quiet
    <3>2. seen'[m] = seen[m]
      BY <2>0, <2>6, <3>1 DEF StartPeriod, GcTypeOK
    <3> QED
      BY <2>0, <3>2
  <2>7. CASE DeleteReturns
    <3>1. pc[Collector] = "base"
      BY <2>7 DEF DeleteReturns, Record
    <3>2. op[Collector].mark # m
      BY <3>1 DEF GcInv, DeletesOld
    <3>3. seen'[m] = seen[m]
      BY <2>0, <2>7, <3>2 DEF DeleteReturns, GcTypeOK
    <3> QED
      BY <2>0, <3>3
  <2> QED
    BY <2>1, <2>2, <2>3, <2>4, <2>5, <2>6, <2>7
       DEF Service, Traffic, ClientCall, ClientStep, Collect, Now, DeleteStep,
           TooYoung, DeleteIdle, gcVars
<1> QED
  BY <1>1, GcInvariance, PTL DEF GcSpec, IdleTimeKept
=============================================================================
