------------------------- MODULE ShapedStoreProofs -------------------------
(***************************************************************************)
(* Proofs about ShapedStore, for any marks, rates and goroutines.          *)
(***************************************************************************)
EXTENDS ShapedStore, TLAPS

LEMMA NoOpType == NoOp \in Op
BY StoreAssumption DEF NoOp, Op, Limit

(* Every store the service can be in after its start satisfies StoreInv:   *)
(* run fills the base store from the classes it lists.                     *)
LEMMA StoreInitInv == StoreInit => StoreInv
<1> SUFFICES ASSUME StoreInit PROVE StoreInv
  OBVIOUS
<1>1. TypeOK
  BY NoOpType, StoreAssumption DEF StoreInit, TypeOK, Adopt, Classes, Limit
<1>2. Mutex /\ RecordsWhatItSet
  BY DEF StoreInit, Mutex, RecordsWhatItSet
<1>3. OnlyUserMarks /\ ListedIsEnforced
  BY DEF StoreInit, OnlyUserMarks, ListedIsEnforced, Adopt, Classes
<1> QED
  BY <1>1, <1>2, <1>3 DEF StoreInv

(* A new call disturbs nothing that is in the kernel or the base store.    *)
LEMMA CallInv ==
  ASSUME StoreInv, NEW p \in Proc, NEW m \in Mark, NEW r \in Limit, Call(p, m, r)
  PROVE  StoreInv'
<1> USE DEF StoreInv
<1>1. TypeOK'
  BY DEF TypeOK, Call, Op
<1>2. Mutex' /\ RecordsWhatItSet' /\ OnlyUserMarks'
  BY DEF TypeOK, Call, Mutex, RecordsWhatItSet, OnlyUserMarks
<1>3. ListedIsEnforced'
  <2>1. \A x \in Mark : InFlight(x)' <=> InFlight(x)
    BY DEF TypeOK, Call, InFlight
  <2> QED
    BY <2>1 DEF ListedIsEnforced, Call
<1> QED
  BY <1>1, <1>2, <1>3

(* Taking the mutex.                                                       *)
LEMMA LockInv ==
  ASSUME StoreInv, NEW p \in Proc, Lock(p)
  PROVE  StoreInv'
<1> USE DEF StoreInv
<1>1. TypeOK'
  BY DEF TypeOK, Lock
<1>2. Mutex' /\ RecordsWhatItSet' /\ OnlyUserMarks'
  BY StoreAssumption DEF TypeOK, Lock, Mutex, RecordsWhatItSet, OnlyUserMarks
<1>3. ListedIsEnforced'
  <2>1. \A x \in Mark : InFlight(x)' <=> InFlight(x)
    BY DEF TypeOK, Lock, InFlight
  <2> QED
    BY <2>1 DEF ListedIsEnforced, Lock
<1> QED
  BY <1>1, <1>2, <1>3

(* While one goroutine is at its tc command, no other has a record to make *)
(* (shapedStore.mu).                                                       *)
LEMMA NoneInFlight ==
  ASSUME StoreInv, NEW p \in Proc, pc[p] = "tc"
  PROVE  \A x \in Proc : pc[x] # "base"
BY DEF StoreInv, Mutex

(* The tc command of a Set or a Delete succeeds.                           *)
LEMMA TcInv ==
  ASSUME StoreInv, NEW p \in Proc, SetRate(p) \/ Remove(p)
  PROVE  StoreInv'
<1> USE DEF StoreInv
<1> DEFINE mk == op[p].mark
<1>0. pc[p] = "tc" /\ pc' = [pc EXCEPT ![p] = "base"] /\ UNCHANGED <<entries, mu, op, perUser>>
  BY DEF SetRate, Remove
<1>a. op[p] \in Op /\ mk \in Mark /\ op[p].rate \in Limit
  BY DEF TypeOK, Op
<1>1. TypeOK'
  BY <1>0, <1>a DEF TypeOK, SetRate, Remove, Limit
<1>2. Mutex' /\ OnlyUserMarks'
  BY <1>0 DEF TypeOK, Mutex, OnlyUserMarks
<1>3. RecordsWhatItSet'
  BY <1>0, <1>a, NoneInFlight DEF TypeOK, SetRate, Remove, RecordsWhatItSet
<1>4. ListedIsEnforced'
  <2> SUFFICES ASSUME NEW x \in Mark, entries[x] # NoRate, ~InFlight(x)'
               PROVE  classes'[x] = entries[x]
    BY <1>0 DEF ListedIsEnforced
  <2>1. x # mk
    BY <1>0 DEF TypeOK, InFlight
  <2>2. ~InFlight(x)
    BY NoneInFlight, <1>0 DEF InFlight
  <2>3. classes'[x] = classes[x]
    BY <2>1, <1>a DEF TypeOK, SetRate, Remove
  <2> QED
    BY <2>2, <2>3 DEF ListedIsEnforced
<1> QED
  BY <1>1, <1>2, <1>3, <1>4

(* The tc command reports an error: Set or Delete returns it.              *)
LEMMA TcFailInv ==
  ASSUME StoreInv, NEW p \in Proc, TcFail(p)
  PROVE  StoreInv'
<1> USE DEF StoreInv
<1>1. TypeOK'
  BY NoOpType DEF TypeOK, TcFail, Return
<1>2. Mutex' /\ RecordsWhatItSet' /\ OnlyUserMarks'
  BY DEF TypeOK, TcFail, Return, Mutex, RecordsWhatItSet, OnlyUserMarks
<1>3. ListedIsEnforced'
  BY NoneInFlight DEF TypeOK, TcFail, Return, InFlight, ListedIsEnforced
<1> QED
  BY <1>1, <1>2, <1>3

(* The base store's update, which makes listed what tc has just enforced.  *)
LEMMA RecordInv ==
  ASSUME StoreInv, NEW p \in Proc, Record(p)
  PROVE  StoreInv'
<1> USE DEF StoreInv
<1>a. op[p] \in Op /\ op[p].mark \in Mark /\ op[p].rate \in Limit
  BY DEF TypeOK, Op
<1>b. \A x \in Proc : x # p => pc[x] \notin {"tc", "base"}
  BY DEF Record, Mutex
<1>1. TypeOK'
  BY <1>a, NoOpType DEF TypeOK, Record, Return
<1>2. Mutex' /\ RecordsWhatItSet'
  BY <1>b DEF TypeOK, Record, Return, Mutex, RecordsWhatItSet
<1>3. OnlyUserMarks'
  BY <1>a DEF TypeOK, Record, Return, OnlyUserMarks, RecordsWhatItSet
<1>4. ListedIsEnforced'
  <2> SUFFICES ASSUME NEW x \in Mark, entries'[x] # NoRate
               PROVE  classes[x] = entries'[x]
    BY DEF ListedIsEnforced, Record
  <2>1. CASE x = op[p].mark
    BY <2>1, <1>a DEF TypeOK, Record, RecordsWhatItSet
  <2>2. CASE x # op[p].mark
    BY <2>2, <1>a, <1>b DEF TypeOK, Record, ListedIsEnforced, InFlight
  <2> QED
    BY <2>1, <2>2
<1> QED
  BY <1>1, <1>2, <1>3, <1>4

(* A crash anywhere, and the next start's adoption of the classes.         *)
LEMMA RestartInv ==
  ASSUME StoreInv, StoreRestart
  PROVE  StoreInv'
<1> USE DEF StoreInv
<1>1. TypeOK'
  BY NoOpType, StoreAssumption DEF TypeOK, StoreRestart, Adopt, Classes, Limit
<1>2. Mutex' /\ RecordsWhatItSet'
  BY DEF StoreRestart, Mutex, RecordsWhatItSet
<1>3. OnlyUserMarks' /\ ListedIsEnforced'
  BY DEF StoreRestart, OnlyUserMarks, ListedIsEnforced, Adopt, Classes
<1> QED
  BY <1>1, <1>2, <1>3

(* Every step of the store and its callers keeps StoreInv.                 *)
LEMMA StoreNextInv == StoreInv /\ [StoreNext]_storeVars => StoreInv'
<1> SUFFICES ASSUME StoreInv, [StoreNext]_storeVars PROVE StoreInv'
  OBVIOUS
<1>1. ASSUME NEW p \in Proc, NEW m \in Mark, NEW r \in Rate, CallSet(p, m, r)
      PROVE  StoreInv'
  BY <1>1, CallInv DEF CallSet, Limit
<1>2. ASSUME NEW p \in Proc, NEW m \in Mark, CallDelete(p, m)
      PROVE  StoreInv'
  BY <1>2, CallInv DEF CallDelete, Limit
<1>3. ASSUME NEW p \in Proc, StoreStep(p)
      PROVE  StoreInv'
  BY <1>3, LockInv, TcInv, TcFailInv, RecordInv DEF StoreStep
<1>4. CASE StoreRestart
  BY <1>4, RestartInv
<1>5. CASE UNCHANGED storeVars
  BY <1>5 DEF storeVars, StoreInv, TypeOK, Mutex, RecordsWhatItSet, OnlyUserMarks,
              ListedIsEnforced, InFlight
<1> QED
  BY <1>1, <1>2, <1>3, <1>4, <1>5 DEF StoreNext

(* StoreInv holds in every state of the store.                             *)
THEOREM StoreInvariance == StoreSpec => []StoreInv
BY StoreInitInv, StoreNextInv, PTL DEF StoreSpec

(* The store's values keep their types.                                    *)
THEOREM TypeCorrect == StoreSpec => []TypeOK
BY StoreInvariance, PTL DEF StoreInv

(* GET /marks never lists a limit that tc does not enforce, whatever calls *)
(* of however many goroutines interleave, fail, or are cut off by a crash. *)
THEOREM ListedEnforced == StoreSpec => []ListedIsEnforced
BY StoreInvariance, PTL DEF StoreInv

(* No step of the store changes a class that is not a user's.              *)
THEOREM OthersUntouched == StoreSpec => OtherClassesUntouched
<1>1. TypeOK /\ [StoreNext]_storeVars
        => [\A m \in Mark \ UserMark : classes'[m] = classes[m]]_storeVars
  <2> SUFFICES ASSUME TypeOK, StoreNext, NEW m \in Mark \ UserMark
               PROVE  classes'[m] = classes[m]
    OBVIOUS
  <2>1. ASSUME NEW p \in Proc, StoreStep(p)
        PROVE  classes'[m] = classes[m]
    BY <2>1 DEF TypeOK, StoreStep, Lock, SetRate, Remove, TcFail, Record
  <2>2. CASE \E p \in Proc, x \in Mark : (\E r \in Rate : CallSet(p, x, r)) \/ CallDelete(p, x)
    BY <2>2 DEF CallSet, CallDelete, Call
  <2>3. CASE StoreRestart
    BY <2>3 DEF StoreRestart
  <2> QED
    BY <2>1, <2>2, <2>3 DEF StoreNext
<1> QED
  BY <1>1, TypeCorrect, PTL DEF StoreSpec, OtherClassesUntouched

-----------------------------------------------------------------------------
(* The refinement: what LimitTable sees of each step.                      *)

(* Outside a record in progress the listed rates are the base store's.     *)
LEMMA ListedIsEntries ==
  ASSUME TypeOK, \A x \in Proc : pc[x] # "base"
  PROVE  ListedNow = entries
BY DEF TypeOK, ListedNow

LEMMA ListedIsEntriesNext ==
  ASSUME TypeOK', \A x \in Proc : pc'[x] # "base"
  PROVE  ListedNow' = entries'
BY DEF TypeOK, ListedNow

(* With a record in progress they are the base store's with that record.   *)
LEMMA ListedIsRecorded ==
  ASSUME TypeOK, Mutex, NEW p \in Proc, pc[p] = "base"
  PROVE  ListedNow = [entries EXCEPT ![op[p].mark] = op[p].rate]
BY StoreAssumption DEF TypeOK, Mutex, ListedNow

LEMMA ListedIsRecordedNext ==
  ASSUME TypeOK', Mutex', NEW p \in Proc, pc'[p] = "base"
  PROVE  ListedNow' = [entries' EXCEPT ![op'[p].mark] = op'[p].rate]
BY StoreAssumption DEF TypeOK, Mutex, ListedNow

(* A start of the service is a start of the table.                         *)
LEMMA RefinesInit == StoreInit => Table!Init
<1> SUFFICES ASSUME StoreInit PROVE Table!Init
  OBVIOUS
<1>1. TypeOK
  BY StoreInitInv DEF StoreInv
<1>2. ListedNow = entries
  BY <1>1, ListedIsEntries DEF StoreInit
<1> QED
  BY <1>2 DEF StoreInit, Table!Init, Table!AdoptedFrom, Table!Limit, Limit, Adopt, Classes

(* A tc command that succeeds is the table's Set or Delete; on a mark that *)
(* is no user's it changes nothing.                                        *)
LEMMA RefinesTc ==
  ASSUME StoreInv, StoreInv', NEW p \in Proc, SetRate(p) \/ Remove(p)
  PROVE  [Table!Next]_Table!vars
<1> DEFINE mk == op[p].mark
           rt == op[p].rate
<1>0. pc[p] = "tc" /\ pc' = [pc EXCEPT ![p] = "base"] /\ UNCHANGED <<entries, mu, op, perUser>>
  BY DEF SetRate, Remove
<1>a. mk \in Mark /\ rt \in Limit
  BY DEF StoreInv, TypeOK, Op
<1>1. ListedNow = entries
  BY <1>0, NoneInFlight, ListedIsEntries DEF StoreInv
<1>2. ListedNow' = [entries EXCEPT ![mk] = rt]
  <2>1. pc'[p] = "base"
    BY <1>0 DEF StoreInv, TypeOK
  <2> QED
    BY <1>0, <2>1, ListedIsRecordedNext DEF StoreInv
<1>3. CASE SetRate(p)
  <2>1. mk \in UserMark /\ rt \in Rate
    BY <1>3, <1>a DEF SetRate, Limit
  <2>2. Table!Set(mk, rt)
    BY <1>0, <1>1, <1>2, <1>3 DEF SetRate, Table!Set
  <2> QED
    BY <2>1, <2>2 DEF Table!Next
<1>4. CASE Remove(p) /\ mk \in UserMark
  <2>1. Table!Delete(mk)
    BY <1>0, <1>1, <1>2, <1>4 DEF Remove, Table!Delete
  <2> QED
    BY <1>4, <2>1 DEF Table!Next
<1>5. CASE Remove(p) /\ mk \notin UserMark
  <2>1. ListedNow' = ListedNow
    BY <1>a, <1>1, <1>2, <1>5 DEF StoreInv, TypeOK, OnlyUserMarks, Remove
  <2> QED
    BY <1>0, <1>5, <2>1 DEF Remove, Table!vars
<1> QED
  BY <1>3, <1>4, <1>5

(* Every other step of a call is invisible.                                *)
LEMMA RefinesQuiet ==
  ASSUME StoreInv, StoreInv', NEW p \in Proc,
         \/ Lock(p) \/ TcFail(p) \/ Record(p)
         \/ \E m \in Mark, r \in Limit : Call(p, m, r)
  PROVE  UNCHANGED <<classes, ListedNow, perUser>>
<1> USE DEF StoreInv
<1>1. CASE Record(p)
  <2>1. ListedNow = [entries EXCEPT ![op[p].mark] = op[p].rate]
    BY <1>1, ListedIsRecorded DEF Record
  <2>2. \A x \in Proc : pc'[x] # "base"
    BY <1>1 DEF TypeOK, Record, Return, Mutex
  <2>3. ListedNow' = entries'
    BY <2>2, ListedIsEntriesNext
  <2> QED
    BY <1>1, <2>1, <2>3 DEF Record
<1>2. CASE TcFail(p)
  <2>1. ListedNow = entries
    BY <1>2, NoneInFlight, ListedIsEntries DEF TcFail
  <2>2. \A x \in Proc : pc'[x] # "base"
    BY <1>2, NoneInFlight DEF TypeOK, TcFail, Return
  <2>3. ListedNow' = entries'
    BY <2>2, ListedIsEntriesNext
  <2> QED
    BY <1>2, <2>1, <2>3 DEF TcFail
<1>3. CASE Lock(p)
  <2>1. \A x \in Proc : pc[x] # "base" /\ pc'[x] # "base"
    BY <1>3, StoreAssumption DEF TypeOK, Lock, Mutex
  <2> QED
    BY <1>3, <2>1, ListedIsEntries, ListedIsEntriesNext DEF Lock
<1>4. ASSUME NEW m \in Mark, NEW r \in Limit, Call(p, m, r)
      PROVE  UNCHANGED <<classes, ListedNow, perUser>>
  <2>1. ListedNow' = ListedNow
    BY <1>4 DEF TypeOK, Call, ListedNow
  <2> QED
    BY <1>4, <2>1 DEF Call
<1> QED
  BY <1>1, <1>2, <1>3, <1>4

(* A crash and the adoption that follows are the table's Restart.          *)
LEMMA RefinesRestart ==
  ASSUME StoreInv, StoreInv', StoreRestart
  PROVE  Table!Restart
<1>1. ListedNow' = entries'
  BY ListedIsEntriesNext DEF StoreInv, StoreRestart
<1> QED
  BY <1>1 DEF StoreRestart, Table!Restart, Table!AdoptedFrom, Table!Limit, Limit, Adopt, Classes

(* Every step of the store is a step of the table or invisible to it.      *)
LEMMA RefinesNext ==
  StoreInv /\ StoreInv' /\ [StoreNext]_storeVars => [Table!Next]_Table!vars
<1> SUFFICES ASSUME StoreInv, StoreInv', [StoreNext]_storeVars
             PROVE  [Table!Next]_Table!vars
  OBVIOUS
<1>1. ASSUME NEW p \in Proc, StoreStep(p)
      PROVE  [Table!Next]_Table!vars
  <2>1. CASE SetRate(p) \/ Remove(p)
    BY <2>1, RefinesTc
  <2>2. CASE Lock(p) \/ TcFail(p) \/ Record(p)
    BY <2>2, RefinesQuiet DEF Table!vars
  <2> QED
    BY <1>1, <2>1, <2>2 DEF StoreStep
<1>2. ASSUME NEW p \in Proc, NEW m \in Mark,
             (\E r \in Rate : CallSet(p, m, r)) \/ CallDelete(p, m)
      PROVE  [Table!Next]_Table!vars
  <2>1. \E r \in Limit : Call(p, m, r)
    BY <1>2 DEF CallSet, CallDelete, Limit
  <2> QED
    BY <2>1, RefinesQuiet DEF Table!vars
<1>3. CASE StoreRestart
  BY <1>3, RefinesRestart DEF Table!Next
<1>4. CASE UNCHANGED storeVars
  BY <1>4 DEF storeVars, ListedNow, Table!vars
<1> QED
  BY <1>1, <1>2, <1>3, <1>4 DEF StoreNext

(* The store implements LimitTable: each Set and Delete is one step of it, *)
(* whatever else runs, fails or crashes meanwhile.                         *)
THEOREM Refinement == StoreSpec => ImplementsLimitTable
BY StoreInvariance, RefinesInit, RefinesNext, PTL
   DEF StoreSpec, ImplementsLimitTable, Table!Spec
=============================================================================
