---------------------------- MODULE ShapedStore ----------------------------
(***************************************************************************)
(* The mark -> rate store with kernel enforcement: tcshape.shapedStore     *)
(* (internal/tcshape/store.go) wrapped around limiter.memoryStore          *)
(* (internal/limiter/memory.go), calling Shaper.SetRate and Shaper.Remove  *)
(* (internal/tcshape/tcshape.go), which run tc.                            *)
(*                                                                         *)
(* Goroutines (API handlers, the idle collector, the provisioning worker)  *)
(* call Set and Delete concurrently; each call is four steps, at the       *)
(* points where another goroutine or a crash can come between: the call,   *)
(* taking shapedStore.mu, the tc command, the update of the base store     *)
(* with the unlock.  memoryStore.mu covers one map access and needs no     *)
(* step of its own.  A crash may happen anywhere: classes stay in the      *)
(* kernel and the next start adopts them (run in cmd/xray-speedlimit).     *)
(*                                                                         *)
(* A Delete is the operation whose rate is NoRate.  tc is atomic: a        *)
(* command that reports an error has changed nothing.                      *)
(***************************************************************************)
CONSTANTS
  Mark,      \* uint32 values a request can name
  UserMark,  \* those mark.Split accepts for the running queue count
  Rate,      \* rates in bytes per second, never 0
  NoRate,    \* "no entry"; also -per-user-rate-mbit 0
  Proc,      \* goroutines that call Set and Delete
  Nobody     \* the mutex is free

ASSUME StoreAssumption ==
  /\ Mark # {} /\ UserMark \subseteq Mark
  /\ NoRate \notin Rate
  /\ Nobody \notin Proc

VARIABLES
  classes,   \* kernel: rate of the HTB class with each mark as classid
  entries,   \* memoryStore.entries
  mu,        \* holder of shapedStore.mu
  pc,        \* where each goroutine is in its call
  op,        \* the call's arguments
  perUser    \* -per-user-rate-mbit, in bytes per second

storeVars == <<classes, entries, mu, pc, op, perUser>>

Limit == Rate \cup {NoRate}
Op == [mark : Mark, rate : Limit]

TypeOK ==
  /\ classes \in [Mark -> Limit]
  /\ entries \in [Mark -> Limit]
  /\ mu \in Proc \cup {Nobody}
  /\ pc \in [Proc -> {"idle", "lock", "tc", "base"}]
  /\ op \in [Proc -> Op]
  /\ perUser \in Limit

-----------------------------------------------------------------------------
(* Shaper.Classes: parseClasses keeps the HTB classes whose classid is a   *)
(* user mark; default classes and other tools' are not listed.             *)
Classes(kernel) == [m \in Mark |-> IF m \in UserMark THEN kernel[m] ELSE NoRate]

(* The store run() fills from that list before serving: with               *)
(* -per-user-rate-mbit a class with another rate is left out, so that it   *)
(* is provisioned again.                                                   *)
Adopt(kernel, flag) ==
  [m \in Mark |-> IF flag = NoRate \/ Classes(kernel)[m] = flag
                    THEN Classes(kernel)[m] ELSE NoRate]

NoOp == [mark |-> CHOOSE m \in Mark : TRUE, rate |-> NoRate]

StoreInit ==
  /\ classes \in [Mark -> Limit]
  /\ perUser \in Limit
  /\ entries = Adopt(classes, perUser)
  /\ mu = Nobody
  /\ pc = [p \in Proc |-> "idle"]
  /\ op = [p \in Proc |-> NoOp]

Call(p, m, r) ==
  /\ pc[p] = "idle"
  /\ pc' = [pc EXCEPT ![p] = "lock"]
  /\ op' = [op EXCEPT ![p] = [mark |-> m, rate |-> r]]
  /\ UNCHANGED <<classes, entries, mu, perUser>>

CallSet(p, m, r) == r \in Rate /\ Call(p, m, r)
CallDelete(p, m) == Call(p, m, NoRate)

\* Mutant of Lock: shapedStore without its mutex.
LockNothing(p) ==
  /\ pc[p] = "lock"
  /\ pc' = [pc EXCEPT ![p] = "tc"]
  /\ mu' = p
  /\ UNCHANGED <<classes, entries, op, perUser>>

Lock(p) ==
  /\ pc[p] = "lock"
  /\ mu = Nobody
  /\ mu' = p
  /\ pc' = [pc EXCEPT ![p] = "tc"]
  /\ UNCHANGED <<classes, entries, op, perUser>>

(* Shaper.SetRate succeeds: "tc class replace".  A mark that classIDFor    *)
(* rejects never gets here, see TcFail.                                    *)
SetRate(p) ==
  /\ pc[p] = "tc" /\ op[p].rate # NoRate
  /\ op[p].mark \in UserMark
  /\ classes' = [classes EXCEPT ![op[p].mark] = op[p].rate]
  /\ pc' = [pc EXCEPT ![p] = "base"]
  /\ UNCHANGED <<entries, mu, op, perUser>>

\* Mutant of Remove: no classIDFor check, so minor 1 names a default class.
RemoveAnyMark(p) ==
  /\ pc[p] = "tc" /\ op[p].rate = NoRate
  /\ classes' = [classes EXCEPT ![op[p].mark] = NoRate]
  /\ pc' = [pc EXCEPT ![p] = "base"]
  /\ UNCHANGED <<entries, mu, op, perUser>>

(* Shaper.Remove succeeds: "tc class del", where a missing class is no     *)
(* error and a value that is no user mark is left alone.                   *)
Remove(p) ==
  /\ pc[p] = "tc" /\ op[p].rate = NoRate
  /\ classes' = IF op[p].mark \in UserMark
                  THEN [classes EXCEPT ![op[p].mark] = NoRate]
                  ELSE classes
  /\ pc' = [pc EXCEPT ![p] = "base"]
  /\ UNCHANGED <<entries, mu, op, perUser>>

\* Set or Delete returns: the deferred unlock, and its arguments are gone.
Return(p) ==
  /\ mu' = Nobody
  /\ pc' = [pc EXCEPT ![p] = "idle"]
  /\ op' = [op EXCEPT ![p] = NoOp]

\* Mutant of TcFail: the error is only logged and the base store updated.
TcFailRecorded(p) ==
  /\ pc[p] = "tc"
  /\ pc' = [pc EXCEPT ![p] = "base"]
  /\ UNCHANGED <<classes, entries, mu, op, perUser>>

(* SetRate or Remove returns an error, from tc or, for a Set, because the  *)
(* mark is no user mark: Set and Delete return it and touch nothing else.  *)
TcFail(p) ==
  /\ pc[p] = "tc"
  /\ op[p].mark \in UserMark \/ op[p].rate # NoRate
  /\ Return(p)
  /\ UNCHANGED <<classes, entries, perUser>>

\* Mutant of Record: Delete overwrites the entry with rate 0.
RecordZero(p) ==
  /\ pc[p] = "base"
  /\ entries' = [entries EXCEPT ![op[p].mark] = IF op[p].rate = NoRate THEN 0 ELSE op[p].rate]
  /\ Return(p)
  /\ UNCHANGED <<classes, perUser>>

(* memoryStore.Set or Delete, then the deferred unlock.                    *)
Record(p) ==
  /\ pc[p] = "base"
  /\ entries' = [entries EXCEPT ![op[p].mark] = op[p].rate]
  /\ Return(p)
  /\ UNCHANGED <<classes, perUser>>

(* The process dies at any point and is started again, perhaps with        *)
(* another -per-user-rate-mbit, on the layout it left (see Layout).        *)
StoreRestart ==
  /\ perUser' \in Limit
  /\ entries' = Adopt(classes, perUser')
  /\ mu' = Nobody
  /\ pc' = [p \in Proc |-> "idle"]
  /\ op' = [p \in Proc |-> NoOp]
  /\ UNCHANGED classes

StoreStep(p) ==
  Lock(p) \/ SetRate(p) \/ Remove(p) \/ TcFail(p) \/ Record(p)

StoreNext ==
  \/ \E p \in Proc, m \in Mark : (\E r \in Rate : CallSet(p, m, r)) \/ CallDelete(p, m)
  \/ \E p \in Proc : StoreStep(p)
  \/ StoreRestart

StoreSpec == StoreInit /\ [][StoreNext]_storeVars

-----------------------------------------------------------------------------
\* A goroutine that has run tc and not yet updated the base store for m.
InFlight(m) == \E p \in Proc : pc[p] = "base" /\ op[p].mark = m

(* GET /marks never shows a limit that is not enforced (store.go: "never   *)
(* shows up in List as a limit that isn't actually enforced"), except for  *)
(* the mark whose tc command has just run and whose record follows.        *)
ListedIsEnforced ==
  \A m \in Mark : entries[m] # NoRate /\ ~InFlight(m) => classes[m] = entries[m]

(* A class that is not a user's, a queue's default class above all, is     *)
(* never created, changed or deleted through the store, whatever mark a    *)
(* request names.                                                          *)
OtherClassesUntouched ==
  [][\A m \in Mark \ UserMark : classes'[m] = classes[m]]_storeVars

(* The facts that make ListedIsEnforced and the refinement inductive: who  *)
(* runs tc or updates the base store holds the mutex, what it is about to  *)
(* record is what it has just made the kernel enforce, and only user marks *)
(* have entries.                                                           *)
Mutex == \A p \in Proc : pc[p] \in {"tc", "base"} => mu = p

RecordsWhatItSet ==
  \A p \in Proc : pc[p] = "base" =>
    IF op[p].mark \in UserMark THEN classes[op[p].mark] = op[p].rate
                               ELSE op[p].rate = NoRate

OnlyUserMarks == \A m \in Mark \ UserMark : entries[m] = NoRate

StoreInv ==
  TypeOK /\ Mutex /\ RecordsWhatItSet /\ OnlyUserMarks /\ ListedIsEnforced

(* What a Set or Delete in its critical section has not recorded yet is    *)
(* already what the store means; seen so, rate listed and rate enforced    *)
(* change together.                                                        *)
ListedNow ==
  [m \in Mark |-> IF mu # Nobody /\ pc[mu] = "base" /\ op[mu].mark = m
                    THEN op[mu].rate ELSE entries[m]]

Table == INSTANCE LimitTable WITH enforced <- classes, listed <- ListedNow

(* The mutex makes the tc command and the record one step: the store       *)
(* implements LimitTable (store.go: "mu makes each Set/Delete's tc change  *)
(* and base update one step"), crashes between the two included.           *)
ImplementsLimitTable == Table!Spec
=============================================================================
