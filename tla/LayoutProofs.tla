---------------------------- MODULE LayoutProofs ----------------------------
(***************************************************************************)
(* Proofs about Layout, for any number of TX queues up to mark.MaxQueues   *)
(* and any sequence of starts, crashes and interference.                   *)
(***************************************************************************)
EXTENDS Layout, FiniteSetTheorems, TLAPS

-----------------------------------------------------------------------------
(* The inductive invariant.                                                *)

Building == {"htb", "class", "fw"}
Steering == {"qdiscs", "clsact", "show", "delfilters", "filter"}
Finishing == {"nft", "classes", "listen", "serving"}

(* A tree is made by this service, queue by queue, each completed before   *)
(* the next one is begun; nobody takes parts of it away.                   *)
TreeIsPrefix ==
  /\ root # "mq" => htb = {}
  /\ \E k \in 0..MaxTx :
       htb = 1..k /\ \A n \in 1..k : n < k => n \in def \cap fw

(* The loops' variable, and what it is outside of them.                    *)
LoopBounds ==
  /\ q <= queues
  /\ pc \notin {"down", "htb", "class", "fw", "filter"} => q = 1
  /\ pc \in {"check", "delroot", "addmq"} => ~built

(* How far buildLayout has come, if its root is still there.               *)
BuildProgress ==
  root = "mq" =>
    /\ pc = "htb" => htb = 1..(q - 1) /\ def = 1..(q - 1) /\ fw = 1..(q - 1)
    /\ pc = "class" => htb = 1..q /\ def = 1..(q - 1) /\ fw = 1..(q - 1)
    /\ pc = "fw" => htb = 1..q /\ def = 1..q /\ fw = 1..(q - 1)
    /\ pc \in Steering \cup Finishing =>
         htb = 1..queues /\ (built => def = 1..queues /\ fw = 1..queues)

\* The filters of the first k queues.
Filters(k) == {[field |-> n, to |-> n - 1] : n \in 1..k}

(* What only others' interference could have changed.                      *)
Undisturbed ==
  ~disturbed =>
    /\ pc = "addmq" => root = "default"
    /\ pc \in Building \cup Steering \cup Finishing => root = "mq"
    /\ pc = "clsact" => ~clsact
    /\ pc \in {"show", "delfilters", "filter"} => clsact
    /\ pc = "delfilters" => steer # {}
    /\ pc = "filter" => steer = Filters(q - 1)
    /\ pc \in Finishing => Steered
    /\ pc \in Finishing \ {"nft"} => nft

(* The queue count a start served on this tree is that of the tree, and a  *)
(* tree that is being built has not been served on.                        *)
ServedTree ==
  /\ root = "mq" /\ served # 0 => htb = 1..served
  /\ pc = "addmq" /\ root = "default" => served = 0
  /\ pc \in Building /\ root = "mq" => served = 0
  /\ pc = "delroot" /\ root = "mq" /\ ~disturbed => served # queues

LayoutInv ==
  /\ LayoutTypeOK
  /\ ~clsact => steer = {}
  /\ TreeIsPrefix /\ LoopBounds /\ BuildProgress /\ Undisturbed /\ ServedTree

-----------------------------------------------------------------------------
(* Lemmas on the listings.                                                 *)

(* As many numbers of 1..k as k are all of them.                           *)
LEMMA AllOfThem ==
  ASSUME NEW k \in Nat, NEW S, S \subseteq 1..k
  PROVE  Cardinality(S) = k <=> S = 1..k
<1>1. IsFiniteSet(1..k) /\ Cardinality(1..k) = k
  BY FS_Interval
<1>2. Cardinality(S) = Cardinality(1..k) => S = 1..k
  BY <1>1, FS_Subset
<1> QED
  BY <1>1, <1>2

(* layoutMatches counts HTBs, and so finds those of 1..n and no others.    *)
LEMMA MatchIsExact ==
  ASSUME LayoutTypeOK, NEW k \in Major
  PROVE  layoutMatches(k) <=> root = "mq" /\ htb = 1..k
<1>1. k \in Nat /\ \A x \in htb : x \in Int /\ x >= 1
  BY MaxTxAssumption DEF Major, LayoutTypeOK
<1>2. (\A x \in htb : x <= k) <=> htb \subseteq 1..k
  BY <1>1
<1> QED
  BY <1>1, <1>2, AllOfThem DEF layoutMatches

(* steeringMatches finds the right filter for each queue and no others.    *)
LEMMA SteeringIsExact ==
  ASSUME LayoutTypeOK, NEW k \in Major, steeringMatches(k)
  PROVE  steer = Filters(k)
<1> DEFINE fields == {f.field : f \in steer}
<1>1. k \in Nat /\ \A f \in steer : f \in Filter /\ f.field \in Int /\ f.field >= 1
  BY MaxTxAssumption DEF Major, LayoutTypeOK, Filter
<1>2. fields \subseteq 1..k
  BY <1>1 DEF steeringMatches
<1>3. fields = 1..k
  BY <1>1, <1>2, AllOfThem DEF steeringMatches
<1>4. \A f \in steer : f = [field |-> f.field, to |-> f.field - 1]
  BY <1>1 DEF steeringMatches, Filter
<1>5. ASSUME NEW n \in 1..k PROVE [field |-> n, to |-> n - 1] \in steer
  BY <1>3, <1>4
<1> QED
  BY <1>2, <1>4, <1>5 DEF Filters

LEMMA FiltersNext ==
  ASSUME NEW k \in Nat
  PROVE  Filters(k + 1) = Filters(k) \cup {[field |-> k + 1, to |-> k]}
<1>1. 1..(k + 1) = 1..k \cup {k + 1} /\ (k + 1) - 1 = k
  OBVIOUS
<1> QED
  BY <1>1 DEF Filters

LEMMA FieldsBelow ==
  ASSUME NEW k \in Nat, NEW f \in Filters(k)
  PROVE  f.field \in 1..k
BY DEF Filters

-----------------------------------------------------------------------------
(* Each part of the invariant, under every step.                           *)

LEMMA LayoutInitInv == Init => LayoutInv
<1> SUFFICES ASSUME Init PROVE LayoutInv
  OBVIOUS
<1> USE MaxTxAssumption DEF Init, Major
<1>1. LayoutTypeOK
  <2>1. clsact \in BOOLEAN /\ nft \in BOOLEAN /\ built \in BOOLEAN /\ disturbed \in BOOLEAN
    BY Zenon
  <2> QED
    BY <2>1 DEF LayoutTypeOK
<1>2. TreeIsPrefix
  <2>1. htb = 1..0 /\ 0 \in 0..MaxTx
    OBVIOUS
  <2> QED
    BY <2>1 DEF TreeIsPrefix
<1>3. LoopBounds /\ BuildProgress /\ Undisturbed /\ ServedTree
  BY DEF LoopBounds, BuildProgress, Undisturbed, ServedTree, Building, Steering, Finishing
<1> QED
  BY <1>1, <1>2, <1>3 DEF LayoutInv

(* The flags, apart from the rest of the types.                            *)
Flags ==
  /\ clsact \in BOOLEAN /\ nft \in BOOLEAN
  /\ built \in BOOLEAN /\ disturbed \in BOOLEAN

LEMMA FlagsNext == Flags /\ [Next]_vars => Flags'
<1> SUFFICES ASSUME Flags, [Next]_vars PROVE Flags'
  OBVIOUS
<1> USE DEF Flags, kernel, local, Disturb
<1>1. CASE Start \/ StartupStep
  BY <1>1, Zenon
     DEF Start, StartupStep, CheckLayout, DelRoot, DelRootFails, AddMq, AddHtb, AddDefault,
         AddFw, ListQdiscs, AddClsact, ShowFilters, DelFilters, AddFilter, LoadRuleset,
         ListClasses, Listen
<1>2. CASE UserClasses \/ Exit
  BY <1>2, Zenon DEF UserClasses, Exit
<1>3. CASE Outside
  BY <1>3, Zenon DEF Outside, ReplaceRoot, RemoveClsact, EditFilters, FlushRuleset
<1>4. CASE UNCHANGED vars
  BY <1>4, Zenon DEF vars
<1> QED
  BY <1>1, <1>2, <1>3, <1>4 DEF Next

LEMMA TypesNext == LayoutTypeOK /\ LoopBounds /\ [Next]_vars => LayoutTypeOK'
<1> SUFFICES ASSUME LayoutTypeOK, LoopBounds, [Next]_vars PROVE LayoutTypeOK'
  OBVIOUS
<1>0. Flags'
  BY FlagsNext DEF LayoutTypeOK, Flags
<1> USE MaxTxAssumption, <1>0 DEF Flags, LayoutTypeOK, Major, Goto, kernel, local, NoTree, Disturb
<1>1. CASE Start
  BY <1>1 DEF Start
<1>2. CASE CheckLayout
  BY <1>2 DEF CheckLayout
<1>3. CASE DelRoot
  BY <1>3 DEF DelRoot
<1>4. CASE DelRootFails
  BY <1>4 DEF DelRootFails
<1>5. CASE AddMq
  BY <1>5 DEF AddMq
<1>6. CASE AddHtb
  BY <1>6 DEF AddHtb
<1>7. CASE AddDefault
  BY <1>7 DEF AddDefault
<1>8. CASE AddFw
  BY <1>8 DEF AddFw, NextQueue, LoopBounds
<1>9. CASE ListQdiscs
  BY <1>9 DEF ListQdiscs
<1>10. CASE AddClsact
  BY <1>10 DEF AddClsact
<1>11. CASE ShowFilters
  BY <1>11 DEF ShowFilters
<1>12. CASE DelFilters
  BY <1>12 DEF DelFilters
<1>13. CASE AddFilter
  <2>1. [field |-> q, to |-> q - 1] \in Filter
    BY DEF Filter
  <2> QED
    BY <1>13, <2>1 DEF AddFilter, NextQueue, LoopBounds
<1>14. CASE LoadRuleset
  BY <1>14 DEF LoadRuleset
<1>15. CASE ListClasses
  BY <1>15 DEF ListClasses
<1>16. CASE Listen
  BY <1>16 DEF Listen
<1>17. CASE UserClasses
  BY <1>17 DEF UserClasses
<1>18. CASE Exit
  BY <1>18 DEF Exit
<1>19. CASE ReplaceRoot
  BY <1>19 DEF ReplaceRoot
<1>20. CASE RemoveClsact
  BY <1>20 DEF RemoveClsact
<1>21. CASE EditFilters
  BY <1>21 DEF EditFilters
<1>22. CASE FlushRuleset
  BY <1>22 DEF FlushRuleset
<1>23. CASE UNCHANGED vars
  BY <1>23 DEF vars
<1> QED
  BY <1>1, <1>2, <1>3, <1>4, <1>5, <1>6, <1>7, <1>8, <1>9, <1>10, <1>11, <1>12, <1>13,
     <1>14, <1>15, <1>16, <1>17, <1>18, <1>19, <1>20, <1>21, <1>22, <1>23
     DEF Next, StartupStep, Outside

(* Which steps change the tree, and which the filters.                     *)
LEMMA TreeSteps ==
  ASSUME [Next]_vars
  PROVE  \/ DelRoot \/ AddMq \/ AddHtb \/ AddDefault \/ AddFw \/ ReplaceRoot
         \/ UNCHANGED <<root, htb, def, fw>>
BY DEF Next, StartupStep, Outside, Start, CheckLayout, DelRootFails, ListQdiscs, AddClsact,
       ShowFilters, DelFilters, AddFilter, LoadRuleset, ListClasses, Listen, UserClasses,
       Exit, RemoveClsact, EditFilters, FlushRuleset, vars, kernel

LEMMA FilterSteps ==
  ASSUME [Next]_vars
  PROVE  \/ AddClsact \/ DelFilters \/ AddFilter \/ RemoveClsact \/ EditFilters
         \/ UNCHANGED <<clsact, steer>>
BY DEF Next, StartupStep, Outside, Start, CheckLayout, DelRoot, DelRootFails, AddMq, AddHtb,
       AddDefault, AddFw, ListQdiscs, ShowFilters, LoadRuleset, ListClasses, Listen,
       UserClasses, Exit, ReplaceRoot, FlushRuleset, vars, kernel

(* Filters hang off the clsact qdisc.                                      *)
LEMMA ClsactNext ==
  ASSUME LayoutTypeOK, ~clsact => steer = {}, [Next]_vars
  PROVE  ~clsact' => steer' = {}
<1>1. CASE AddClsact \/ DelFilters
  BY <1>1 DEF AddClsact, DelFilters
<1>2. CASE AddFilter
  BY <1>2 DEF AddFilter
<1>3. CASE RemoveClsact
  BY <1>3 DEF RemoveClsact
<1>4. CASE EditFilters
  BY <1>4 DEF EditFilters
<1>5. CASE UNCHANGED <<clsact, steer>>
  BY <1>5
<1> QED
  BY <1>1, <1>2, <1>3, <1>4, <1>5, FilterSteps

(* No tree without our root, and a tree is complete up to its last queue.  *)
LEMMA TreeNext == LayoutInv /\ [Next]_vars => TreeIsPrefix'
<1> SUFFICES ASSUME LayoutInv, [Next]_vars PROVE TreeIsPrefix'
  OBVIOUS
<1> USE MaxTxAssumption DEF LayoutInv, LayoutTypeOK, Major
<1>0. 1..0 = {} /\ 0 \in 0..MaxTx
  OBVIOUS
<1>1. CASE DelRoot
  BY <1>0, <1>1 DEF DelRoot, NoTree, TreeIsPrefix
<1>2. CASE ReplaceRoot
  BY <1>0, <1>2 DEF ReplaceRoot, NoTree, TreeIsPrefix
<1>3. CASE AddMq
  BY <1>3 DEF AddMq, TreeIsPrefix
<1>4. CASE AddHtb
  <2>1. htb = 1..(q - 1) /\ def = 1..(q - 1) /\ fw = 1..(q - 1)
    BY <1>4 DEF AddHtb, BuildProgress
  <2>2. htb' = 1..q /\ q \in 0..MaxTx
    BY <1>4, <2>1 DEF AddHtb
  <2>3. \A n \in 1..q : n < q => n \in def' \cap fw'
    BY <1>4, <2>1 DEF AddHtb
  <2>4. root' = "mq"
    BY <1>4 DEF AddHtb
  <2> QED
    BY <2>2, <2>3, <2>4 DEF TreeIsPrefix
<1>5. CASE AddDefault
  BY <1>5 DEF AddDefault, TreeIsPrefix
<1>6. CASE AddFw
  BY <1>6 DEF AddFw, TreeIsPrefix
<1>7. CASE UNCHANGED <<root, htb, def, fw>>
  BY <1>7 DEF TreeIsPrefix
<1> QED
  BY <1>1, <1>2, <1>3, <1>4, <1>5, <1>6, <1>7, TreeSteps

(* The loops stay within the queues of this start.                         *)
LEMMA LoopNext == LayoutInv /\ [Next]_vars => LoopBounds'
<1> SUFFICES ASSUME LayoutInv, [Next]_vars PROVE LoopBounds'
  OBVIOUS
<1> USE MaxTxAssumption DEF LayoutInv, LayoutTypeOK, Major, LoopBounds, Goto, local, Disturb
<1>1. CASE Start
  BY <1>1 DEF Start
<1>2. CASE CheckLayout
  BY <1>2 DEF CheckLayout
<1>3. CASE DelRoot
  BY <1>3 DEF DelRoot
<1>4. CASE DelRootFails
  BY <1>4 DEF DelRootFails
<1>5. CASE AddMq
  BY <1>5 DEF AddMq
<1>6. CASE AddHtb
  BY <1>6 DEF AddHtb
<1>7. CASE AddDefault
  BY <1>7 DEF AddDefault
<1>8. CASE AddFw
  BY <1>8 DEF AddFw, NextQueue
<1>9. CASE ListQdiscs
  BY <1>9 DEF ListQdiscs
<1>10. CASE AddClsact
  BY <1>10 DEF AddClsact
<1>11. CASE ShowFilters
  BY <1>11 DEF ShowFilters
<1>12. CASE DelFilters
  BY <1>12 DEF DelFilters
<1>13. CASE AddFilter
  BY <1>13 DEF AddFilter, NextQueue
<1>14. CASE LoadRuleset
  BY <1>14 DEF LoadRuleset
<1>15. CASE ListClasses
  BY <1>15 DEF ListClasses
<1>16. CASE Listen
  BY <1>16 DEF Listen
<1>17. CASE UserClasses
  BY <1>17 DEF UserClasses
<1>18. CASE Exit
  BY <1>18 DEF Exit
<1>19. CASE ReplaceRoot
  BY <1>19 DEF ReplaceRoot
<1>20. CASE RemoveClsact
  BY <1>20 DEF RemoveClsact
<1>21. CASE EditFilters
  BY <1>21 DEF EditFilters
<1>22. CASE FlushRuleset
  BY <1>22 DEF FlushRuleset
<1>23. CASE UNCHANGED vars
  BY <1>23 DEF vars
<1> QED
  BY <1>1, <1>2, <1>3, <1>4, <1>5, <1>6, <1>7, <1>8, <1>9, <1>10, <1>11, <1>12, <1>13,
     <1>14, <1>15, <1>16, <1>17, <1>18, <1>19, <1>20, <1>21, <1>22, <1>23
     DEF Next, StartupStep, Outside

(* buildLayout adds to each queue what is not there, in order; a tree that *)
(* is found has exactly this start's queues.                               *)
LEMMA BuildNext == LayoutInv /\ [Next]_vars => BuildProgress'
<1> SUFFICES ASSUME LayoutInv, [Next]_vars PROVE BuildProgress'
  OBVIOUS
<1> USE MaxTxAssumption
    DEF LayoutInv, LayoutTypeOK, Major, LoopBounds, BuildProgress, Steering, Finishing,
        Goto, kernel, local, Disturb
<1>1. CASE Start
  BY <1>1 DEF Start
<1>2. CASE CheckLayout
  <2>1. layoutMatches(queues) => htb = 1..queues
    BY MatchIsExact
  <2> QED
    BY <1>2, <2>1 DEF CheckLayout
<1>3. CASE DelRoot
  BY <1>3 DEF DelRoot
<1>4. CASE DelRootFails
  BY <1>4 DEF DelRootFails
<1>5. CASE AddMq
  <2>1. htb = {} /\ def = {} /\ fw = {} /\ 1..(q - 1) = {}
    BY <1>5 DEF AddMq, TreeIsPrefix
  <2> QED
    BY <1>5, <2>1 DEF AddMq
<1>6. CASE AddHtb
  <2>1. 1..q = 1..(q - 1) \cup {q}
    OBVIOUS
  <2> QED
    BY <1>6, <2>1 DEF AddHtb
<1>7. CASE AddDefault
  <2>1. 1..q = 1..(q - 1) \cup {q}
    OBVIOUS
  <2> QED
    BY <1>7, <2>1 DEF AddDefault
<1>8. CASE AddFw
  <2>1. 1..q = 1..(q - 1) \cup {q} /\ (q + 1) - 1 = q
    OBVIOUS
  <2> QED
    BY <1>8, <2>1 DEF AddFw, NextQueue
<1>9. CASE ListQdiscs
  BY <1>9 DEF ListQdiscs
<1>10. CASE AddClsact
  BY <1>10 DEF AddClsact
<1>11. CASE ShowFilters
  BY <1>11 DEF ShowFilters
<1>12. CASE DelFilters
  BY <1>12 DEF DelFilters
<1>13. CASE AddFilter
  BY <1>13 DEF AddFilter, NextQueue
<1>14. CASE LoadRuleset
  BY <1>14 DEF LoadRuleset
<1>15. CASE ListClasses
  BY <1>15 DEF ListClasses
<1>16. CASE Listen
  BY <1>16 DEF Listen
<1>17. CASE UserClasses
  BY <1>17 DEF UserClasses
<1>18. CASE Exit
  BY <1>18 DEF Exit
<1>19. CASE ReplaceRoot
  BY <1>19 DEF ReplaceRoot
<1>20. CASE RemoveClsact
  BY <1>20 DEF RemoveClsact
<1>21. CASE EditFilters
  BY <1>21 DEF EditFilters
<1>22. CASE FlushRuleset
  BY <1>22 DEF FlushRuleset
<1>23. CASE UNCHANGED vars
  BY <1>23 DEF vars
<1> QED
  BY <1>1, <1>2, <1>3, <1>4, <1>5, <1>6, <1>7, <1>8, <1>9, <1>10, <1>11, <1>12, <1>13,
     <1>14, <1>15, <1>16, <1>17, <1>18, <1>19, <1>20, <1>21, <1>22, <1>23
     DEF Next, StartupStep, Outside

(* What a start has found or made is there as long as nobody interferes.   *)
LEMMA UndisturbedNext == LayoutInv /\ [Next]_vars => Undisturbed'
<1> SUFFICES ASSUME LayoutInv, [Next]_vars PROVE Undisturbed'
  OBVIOUS
<1> USE MaxTxAssumption
    DEF LayoutInv, LayoutTypeOK, Major, LoopBounds, Undisturbed, Building, Steering, Finishing,
        Steered, Goto, kernel, local, Disturb
<1>1. CASE Start
  BY <1>1 DEF Start
<1>2. CASE CheckLayout
  <2>1. layoutMatches(queues) => root = "mq"
    BY MatchIsExact
  <2> QED
    BY <1>2, <2>1 DEF CheckLayout
<1>3. CASE DelRoot
  BY <1>3 DEF DelRoot
<1>4. CASE DelRootFails
  BY <1>4 DEF DelRootFails
<1>5. CASE AddMq
  BY <1>5 DEF AddMq
<1>6. CASE AddHtb
  BY <1>6 DEF AddHtb
<1>7. CASE AddDefault
  BY <1>7 DEF AddDefault
<1>8. CASE AddFw
  BY <1>8 DEF AddFw, NextQueue
<1>9. CASE ListQdiscs
  BY <1>9 DEF ListQdiscs
<1>10. CASE AddClsact
  <2>1. Filters(q - 1) = {}
    BY <1>10 DEF AddClsact, Filters
  <2> QED
    BY <1>10, <2>1 DEF AddClsact
<1>11. CASE ShowFilters
  <2>1. steeringMatches(queues) => steer = Filters(queues)
    BY SteeringIsExact
  <2>2. q = 1 /\ Filters(q - 1) = {}
    BY <1>11 DEF ShowFilters, Filters
  <2> QED
    BY <1>11, <2>1, <2>2 DEF ShowFilters, Filters
<1>12. CASE DelFilters
  <2>1. q = 1 /\ Filters(q - 1) = {}
    BY <1>12 DEF DelFilters, Filters
  <2> QED
    BY <1>12, <2>1 DEF DelFilters
<1>13. CASE AddFilter
  <2>1. q - 1 \in Nat /\ (q - 1) + 1 = q /\ (q + 1) - 1 = q
    OBVIOUS
  <2>2. Filters(q) = Filters(q - 1) \cup {[field |-> q, to |-> q - 1]}
    BY <2>1, FiltersNext
  <2> QED
    BY <1>13, <2>1, <2>2 DEF AddFilter, NextQueue, Filters
<1>14. CASE LoadRuleset
  BY <1>14 DEF LoadRuleset
<1>15. CASE ListClasses
  BY <1>15 DEF ListClasses
<1>16. CASE Listen
  BY <1>16 DEF Listen
<1>17. CASE UserClasses
  BY <1>17 DEF UserClasses
<1>18. CASE Exit
  BY <1>18 DEF Exit
<1>19. CASE ReplaceRoot
  BY <1>19 DEF ReplaceRoot
<1>20. CASE RemoveClsact
  BY <1>20 DEF RemoveClsact
<1>21. CASE EditFilters
  BY <1>21 DEF EditFilters
<1>22. CASE FlushRuleset
  BY <1>22 DEF FlushRuleset
<1>23. CASE UNCHANGED vars
  BY <1>23 DEF vars
<1> QED
  BY <1>1, <1>2, <1>3, <1>4, <1>5, <1>6, <1>7, <1>8, <1>9, <1>10, <1>11, <1>12, <1>13,
     <1>14, <1>15, <1>16, <1>17, <1>18, <1>19, <1>20, <1>21, <1>22, <1>23
     DEF Next, StartupStep, Outside

(* served stays the queue count of the tree it was set on.                 *)
LEMMA ServedNext == LayoutInv /\ [Next]_vars => ServedTree'
<1> SUFFICES ASSUME LayoutInv, [Next]_vars PROVE ServedTree'
  OBVIOUS
<1> USE MaxTxAssumption
    DEF LayoutInv, LayoutTypeOK, Major, ServedTree, Building, Goto, kernel, local, Disturb
<1>1. CASE Start
  BY <1>1 DEF Start
<1>2. CASE CheckLayout
  <2>1. root = "mq" /\ htb = 1..queues => layoutMatches(queues)
    BY MatchIsExact
  <2>2. queues # 0
    OBVIOUS
  <2> QED
    BY <1>2, <2>1, <2>2 DEF CheckLayout
<1>3. CASE DelRoot
  BY <1>3 DEF DelRoot
<1>4. CASE DelRootFails
  BY <1>4 DEF DelRootFails
<1>5. CASE AddMq
  BY <1>5 DEF AddMq
<1>6. CASE AddHtb
  BY <1>6 DEF AddHtb
<1>7. CASE AddDefault
  BY <1>7 DEF AddDefault
<1>8. CASE AddFw
  BY <1>8 DEF AddFw, NextQueue
<1>9. CASE ListQdiscs
  BY <1>9 DEF ListQdiscs
<1>10. CASE AddClsact
  BY <1>10 DEF AddClsact
<1>11. CASE ShowFilters
  BY <1>11 DEF ShowFilters
<1>12. CASE DelFilters
  BY <1>12 DEF DelFilters
<1>13. CASE AddFilter
  BY <1>13 DEF AddFilter, NextQueue
<1>14. CASE LoadRuleset
  BY <1>14 DEF LoadRuleset
<1>15. CASE ListClasses
  BY <1>15 DEF ListClasses
<1>16. CASE Listen
  BY <1>16 DEF Listen, BuildProgress, Finishing
<1>17. CASE UserClasses
  BY <1>17 DEF UserClasses
<1>18. CASE Exit
  BY <1>18 DEF Exit
<1>19. CASE ReplaceRoot
  BY <1>19 DEF ReplaceRoot
<1>20. CASE RemoveClsact
  BY <1>20 DEF RemoveClsact
<1>21. CASE EditFilters
  BY <1>21 DEF EditFilters
<1>22. CASE FlushRuleset
  BY <1>22 DEF FlushRuleset
<1>23. CASE UNCHANGED vars
  BY <1>23 DEF vars
<1> QED
  BY <1>1, <1>2, <1>3, <1>4, <1>5, <1>6, <1>7, <1>8, <1>9, <1>10, <1>11, <1>12, <1>13,
     <1>14, <1>15, <1>16, <1>17, <1>18, <1>19, <1>20, <1>21, <1>22, <1>23
     DEF Next, StartupStep, Outside

-----------------------------------------------------------------------------
LEMMA LayoutNextInv == LayoutInv /\ [Next]_vars => LayoutInv'
<1> SUFFICES ASSUME LayoutInv, [Next]_vars PROVE LayoutInv'
  OBVIOUS
<1>1. LayoutTypeOK'
  BY TypesNext DEF LayoutInv
<1>2. ~clsact' => steer' = {}
  BY ClsactNext DEF LayoutInv
<1> QED
  BY <1>1, <1>2, TreeNext, LoopNext, BuildNext, UndisturbedNext, ServedNext DEF LayoutInv

LEMMA LayoutInvariance == Spec => []LayoutInv
BY LayoutInitInv, LayoutNextInv, PTL DEF Spec

(* The types, with classes, filters and HTBs only where there is an HTB.   *)
THEOREM LayoutTypeCorrect == Spec => []LayoutTypeOK
BY LayoutInvariance, PTL DEF LayoutInv

(* A start that serves has the qdiscs, the steering and the restore rule   *)
(* for its queue count, whatever earlier starts left behind, for every     *)
(* number of queues.                                                       *)
THEOREM SetupIsSound == Spec => []SetupSound
<1>1. LayoutInv => SetupSound
  <2> SUFFICES ASSUME LayoutInv, pc = "serving", ~disturbed
               PROVE  /\ root = "mq" /\ htb = 1..queues
                      /\ Steered /\ nft
                      /\ \A n \in 1..queues : n < queues \/ built => n \in def \cap fw
    BY DEF SetupSound
  <2> USE DEF LayoutInv, Finishing
  <2>1. root = "mq" /\ Steered /\ nft
    BY DEF Undisturbed
  <2>2. htb = 1..queues /\ (built => def = 1..queues /\ fw = 1..queues)
    BY <2>1 DEF BuildProgress
  <2>3. PICK k \in 0..MaxTx : htb = 1..k /\ \A n \in 1..k : n < k => n \in def \cap fw
    BY DEF TreeIsPrefix
  <2>4. k = queues
    <3>1. k \in Nat /\ queues \in Nat /\ queues >= 1 /\ 1..k = 1..queues
      BY <2>2, <2>3, MaxTxAssumption DEF LayoutTypeOK, Major
    <3>2. queues \in 1..k /\ (k >= 1 => k \in 1..queues)
      BY <3>1
    <3> QED
      BY <3>1, <3>2
  <2> QED
    BY <2>1, <2>2, <2>3, <2>4
<1> QED
  BY <1>1, LayoutInvariance, PTL

(* No command of a start meets what an earlier one left in its way.        *)
THEOREM NoConflictAlways == Spec => []NoConflict
<1>1. LayoutInv => NoConflict
  <2> SUFFICES ASSUME LayoutInv, ~disturbed
               PROVE  /\ pc = "addmq" => root = "default"
                      /\ pc = "htb" => root = "mq" /\ q \notin htb
                      /\ pc = "class" => q \in htb \ def
                      /\ pc = "fw" => q \in htb \ fw
                      /\ pc = "clsact" => ~clsact
                      /\ pc \in {"show", "delfilters", "filter"} => clsact
                      /\ pc = "delfilters" => steer # {}
                      /\ pc = "filter" => \A f \in steer : f.field # q
    BY DEF NoConflict
  <2> USE MaxTxAssumption DEF LayoutInv, LayoutTypeOK, Major, Undisturbed, Building
  <2>1. pc = "htb" => q \notin htb
    BY DEF BuildProgress
  <2>2. (pc = "class" => q \in htb \ def) /\ (pc = "fw" => q \in htb \ fw)
    BY DEF BuildProgress
  <2>3. pc = "filter" => \A f \in steer : f.field # q
    <3>1. q - 1 \in Nat /\ q \notin 1..(q - 1)
      OBVIOUS
    <3> QED
      BY <3>1, FieldsBelow
  <2> QED
    BY <2>1, <2>2, <2>3
<1> QED
  BY <1>1, LayoutInvariance, PTL

(* A start with the queue count last served keeps every per-user class:    *)
(* the only command that removes any, the deletion of the root, comes only *)
(* when the tree is another one.                                           *)
THEOREM ClassesKept == Spec => ClassesSurvive
<1>1. LayoutInv /\ [Next]_vars =>
        [served = queues /\ pc \notin {"down", "serving"} /\ ~disturbed'
           => users \subseteq users']_vars
  <2> SUFFICES ASSUME LayoutInv, Next,
                      served = queues, pc \notin {"down", "serving"}, ~disturbed'
               PROVE  users \subseteq users'
    OBVIOUS
  <2>1. CASE DelRoot
    <3>1. ~disturbed /\ pc = "delroot"
      BY <2>1 DEF DelRoot
    <3>2. root # "mq"
      BY <3>1 DEF LayoutInv, ServedTree
    <3>3. users = {}
      BY <3>2 DEF LayoutInv, LayoutTypeOK, TreeIsPrefix
    <3> QED
      BY <3>3
  <2>2. CASE UserClasses \/ Start
    BY <2>2 DEF UserClasses, Start
  <2>3. CASE ReplaceRoot
    BY <2>3 DEF ReplaceRoot, Disturb
  <2>4. CASE UNCHANGED users
    BY <2>4
  <2>5. DelRoot \/ UserClasses \/ Start \/ ReplaceRoot \/ UNCHANGED users
    BY DEF Next, StartupStep, Outside, CheckLayout, DelRootFails, AddMq, AddHtb, AddDefault,
           AddFw, ListQdiscs, AddClsact, ShowFilters, DelFilters, AddFilter, LoadRuleset,
           ListClasses, Listen, Exit, RemoveClsact, EditFilters, FlushRuleset, kernel
  <2> QED
    BY <2>1, <2>2, <2>3, <2>4, <2>5
<1> QED
  BY <1>1, LayoutInvariance, PTL DEF Spec, ClassesSurvive
=============================================================================
