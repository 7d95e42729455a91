--------------------------- MODULE MarkingProofs ---------------------------
(***************************************************************************)
(* Proofs about Marking, for any users, handlers, windows and delays.      *)
(***************************************************************************)
EXTENDS Marking, TLAPS

-----------------------------------------------------------------------------
(* The inductive invariant.                                                *)

(* A handler under way is about a user, and works on recentMarks only if   *)
(* there is a window.                                                      *)
HandlersOK ==
  \A h \in Hook :
    /\ hook[h].pc # "idle" => hook[h].user \in User
    /\ hook[h].pc \in {"contains", "add"} => ttl # 0

(* Between SetMark and add: if the connection no longer has the mark, that *)
(* happened after SetMark.                                                 *)
MarkedOnTheWay ==
  \A h \in Hook : mark # hook[h].user =>
    /\ hook[h].pc = "marked" => since <= hook[h].lag
    /\ hook[h].pc = "add" => since <= MaxDelay + hook[h].lag

(* The same of what add has recorded.                                      *)
MarkedWhenRecorded ==
  \A u \in User : marked[u] # Never /\ mark # u => since <= marked[u] + MaxDelay

(* What the last sweep left, and what was added since.                     *)
SweptSince ==
  \A u \in User : marked[u] # Never =>
    marked[u] < ttl + lastSweep \/ marked[u] <= lastSweep + MaxDelay

MarkingInv ==
  MarkingTypeOK /\ HandlersOK /\ MarkedOnTheWay /\ MarkedWhenRecorded /\ SweptSince

-----------------------------------------------------------------------------
LEMMA NoHookType == NoHook \in Handler
BY MarkingAssumption DEF NoHook, Handler

LEMMA OlderAge ==
  ASSUME NEW age \in Age
  PROVE  /\ Older(age) \in Age
         /\ age <= Older(age) /\ Older(age) <= age + 1
         /\ age < MaxAge => Older(age) = age + 1
BY MarkingAssumption DEF Older, Age

(* What Goto and Return make of a handler's record.                        *)
LEMMA GotoHandler ==
  ASSUME MarkingTypeOK, NEW h \in Hook, NEW where, Goto(h, where)
  PROVE  hook' = [hook EXCEPT ![h] = [pc |-> where, user |-> hook[h].user, lag |-> 0]]
<1>1. hook \in [Hook -> Handler] /\ hook[h] \in Handler
  BY DEF MarkingTypeOK
<1> DEFINE y == [hook[h] EXCEPT !.pc = where]
<1>2. y = [pc |-> where, user |-> hook[h].user, lag |-> hook[h].lag]
  <2>1. hook[h] = [pc |-> hook[h].pc, user |-> hook[h].user, lag |-> hook[h].lag]
    BY <1>1 DEF Handler
  <2> QED
    BY <2>1
<1>3. hook' = [[hook EXCEPT ![h].pc = where] EXCEPT ![h].lag = 0]
  BY DEF Goto
<1>4. hook' = [hook EXCEPT ![h] = [y EXCEPT !.lag = 0]]
  BY <1>1, <1>3
<1> HIDE DEF y
<1>5. [y EXCEPT !.lag = 0] = [pc |-> where, user |-> hook[h].user, lag |-> 0]
  BY <1>2
<1> QED
  BY <1>4, <1>5

(* A step of one handler, from h's record to x, that may also change the   *)
(* connection's mark: the invariant holds if it holds of x.                *)
LEMMA HandlerStep ==
  ASSUME MarkingInv, NEW h \in Hook, NEW x \in Handler,
         hook' = [hook EXCEPT ![h] = x],
         owner' = owner, mark' \in User \cup {Nobody},
         since' = 0 \/ (since' = since /\ mark' = mark),
         UNCHANGED recentVars,
         x.pc # "idle" => x.user \in User,
         x.pc \in {"contains", "add"} => ttl # 0,
         mark' # x.user /\ x.pc = "marked" => since' <= x.lag,
         mark' # x.user /\ x.pc = "add" => since' <= MaxDelay + x.lag
  PROVE  MarkingInv'
<1> USE MarkingAssumption DEF MarkingInv, recentVars, Age
<1>0. since \in Nat /\ since' \in Age /\ MaxDelay \in Nat /\ \A g \in Hook : hook[g].lag \in Nat
  BY DEF MarkingTypeOK, Handler
<1>1. MarkingTypeOK'
  BY <1>0 DEF MarkingTypeOK
<1>2. HandlersOK'
  BY DEF MarkingTypeOK, HandlersOK
<1>3. MarkedOnTheWay'
  <2> SUFFICES ASSUME NEW g \in Hook, mark' # hook'[g].user
               PROVE  /\ hook'[g].pc = "marked" => since' <= hook'[g].lag
                      /\ hook'[g].pc = "add" => since' <= MaxDelay + hook'[g].lag
    BY DEF MarkedOnTheWay
  <2>1. CASE g = h
    BY <2>1 DEF MarkingTypeOK
  <2>2. CASE g # h
    BY <2>2, <1>0 DEF MarkingTypeOK, MarkedOnTheWay
  <2> QED
    BY <2>1, <2>2
<1>4. MarkedWhenRecorded'
  BY <1>0 DEF MarkingTypeOK, MarkedWhenRecorded
<1>5. SweptSince'
  BY DEF SweptSince
<1> QED
  BY <1>1, <1>2, <1>3, <1>4, <1>5

(* The steps that change neither the entry nor recentMarks.                *)
LEMMA WebhookInv ==
  ASSUME MarkingInv, NEW h \in Hook, NEW u \in User, Webhook(h, u)
  PROVE  MarkingInv'
<1> DEFINE x == [pc |-> "arrived", user |-> u, lag |-> 0]
<1>1. x \in Handler
  BY MarkingAssumption DEF Handler
<1>2. hook' = [hook EXCEPT ![h] = x] /\ UNCHANGED <<owner, mark, since>> /\ UNCHANGED recentVars
  BY DEF Webhook, entryVars
<1>3. mark \in User \cup {Nobody}
  BY DEF MarkingInv, MarkingTypeOK
<1> QED
  BY <1>1, <1>2, <1>3, HandlerStep

LEMMA QuietInv ==
  ASSUME MarkingInv, NEW h \in Hook, ReadClock(h) \/ Skip(h) \/ NotRecent(h) \/ StartAdd(h)
  PROVE  MarkingInv'
<1> DEFINE went(where) == [pc |-> where, user |-> hook[h].user, lag |-> 0]
<1> USE DEF MarkingInv
<1>0. /\ mark \in User \cup {Nobody} /\ hook[h] \in Handler /\ hook[h].lag \in 0 .. MaxDelay
      /\ hook[h].user \in User \cup {Nobody} /\ since \in Nat /\ MaxDelay \in Nat
  BY MarkingAssumption DEF MarkingTypeOK, Handler, Age
<1>1. UNCHANGED <<owner, mark, since>> /\ UNCHANGED recentVars /\ hook[h].pc # "idle"
  BY DEF ReadClock, Skip, NotRecent, StartAdd, entryVars, At
<1>2. hook[h].user \in User
  BY <1>1 DEF HandlersOK
<1>3. \A where \in {"contains", "SetMark", "add"} : went(where) \in Handler
  BY <1>0 DEF Handler
<1>4. CASE hook' = [hook EXCEPT ![h] = NoHook]
  BY <1>0, <1>1, <1>4, NoHookType, HandlerStep DEF NoHook
<1>5. CASE hook' = [hook EXCEPT ![h] = went("SetMark")]
  BY <1>0, <1>1, <1>2, <1>3, <1>5, HandlerStep
<1>6. CASE hook' = [hook EXCEPT ![h] = went("contains")] /\ ttl # 0
  BY <1>0, <1>1, <1>2, <1>3, <1>6, HandlerStep
<1>7. CASE hook' = [hook EXCEPT ![h] = went("add")] /\ ttl # 0 /\ At(h, "marked")
  <2>1. mark # hook[h].user => since <= hook[h].lag
    BY <1>7 DEF MarkedOnTheWay, At
  <2>2. mark # went("add").user => since <= MaxDelay + went("add").lag
    BY <2>1, <1>0
  <2> QED
    BY <1>0, <1>1, <1>2, <1>3, <1>7, <2>2, HandlerStep
<1>8. CASE ReadClock(h)
  BY <1>8, <1>5, <1>6, GotoHandler DEF ReadClock
<1>9. CASE Skip(h)
  BY <1>9, <1>4 DEF Skip, Return
<1>10. CASE NotRecent(h)
  BY <1>10, <1>5, GotoHandler DEF NotRecent
<1>11. CASE StartAdd(h)
  BY <1>11, <1>4, <1>7, GotoHandler DEF StartAdd, Return
<1> QED
  BY <1>8, <1>9, <1>10, <1>11

(* SetMark, with or without an answer: the mark changes now.               *)
LEMMA SetMarkInv ==
  ASSUME MarkingInv, NEW h \in Hook, SetMark(h) \/ SetMarkFails(h)
  PROVE  MarkingInv'
<1> DEFINE x == [pc |-> "marked", user |-> hook[h].user, lag |-> 0]
<1>0. /\ mark \in User \cup {Nobody} /\ hook[h].user \in User /\ hook[h].user \in User \cup {Nobody}
      /\ x \in Handler
  BY MarkingAssumption DEF MarkingInv, MarkingTypeOK, HandlersOK, Handler, SetMark, SetMarkFails, At
<1>1. /\ owner' = owner /\ mark' \in User \cup {Nobody} /\ UNCHANGED recentVars
      /\ since' = 0 \/ (since' = since /\ mark' = mark)
  BY <1>0 DEF SetMark, SetMarkFails, Apply, entryVars
<1>2. CASE SetMark(h)
  <2>1. mark' = x.user
    BY <1>2 DEF SetMark, Apply
  <2>2. hook' = [hook EXCEPT ![h] = x]
    BY <1>2, GotoHandler DEF SetMark, MarkingInv
  <2> QED
    BY <1>0, <1>1, <2>1, <2>2, HandlerStep
<1>3. CASE SetMarkFails(h)
  <2>1. hook' = [hook EXCEPT ![h] = NoHook]
    BY <1>3 DEF SetMarkFails, Return
  <2> QED
    BY <1>1, <2>1, NoHookType, HandlerStep DEF NoHook
<1> QED
  BY <1>2, <1>3

(* A connection comes or goes: nothing is wrong for long yet.              *)
LEMMA ConnectionInv ==
  ASSUME MarkingInv, Close \/ \E u \in User : Open(u)
  PROVE  MarkingInv'
<1> USE MarkingAssumption DEF MarkingInv, Close, Open, recentVars
<1>0. /\ owner' \in User \cup {Nobody} /\ mark' = Nobody /\ since' = 0
      /\ UNCHANGED hook /\ UNCHANGED recentVars
  OBVIOUS
<1>1. MarkingTypeOK'
  BY <1>0 DEF MarkingTypeOK, Age
<1>2. HandlersOK' /\ SweptSince'
  BY <1>0 DEF HandlersOK, SweptSince
<1>3. MarkedOnTheWay'
  BY <1>0 DEF MarkingTypeOK, Handler, MarkedOnTheWay
<1>4. MarkedWhenRecorded'
  BY <1>0 DEF MarkingTypeOK, Age, MarkedWhenRecorded
<1> QED
  BY <1>1, <1>2, <1>3, <1>4

(* Time passes: all ages grow by one, up to MaxAge.                        *)
LEMMA TickInv ==
  ASSUME MarkingInv, Tick
  PROVE  MarkingInv'
<1> USE MarkingAssumption DEF MarkingInv
<1>0. /\ since \in Age /\ since' \in Age /\ since' <= since + 1
      /\ lastSweep \in Age /\ lastSweep' = Older(lastSweep) /\ lastSweep' \in Age
      /\ UNCHANGED <<owner, mark, ttl>> /\ ttl \in Nat /\ MaxDelay \in Nat /\ MaxAge \in Nat
  BY OlderAge DEF MarkingTypeOK, Tick
<1>1. ASSUME NEW h \in Hook
      PROVE  /\ hook'[h] \in Handler /\ hook'[h].pc = hook[h].pc /\ hook'[h].user = hook[h].user
             /\ hook[h].pc \in Running => hook'[h].lag = hook[h].lag + 1
             /\ hook[h].lag \in Nat
  <2>1. hook[h] \in Handler
    BY DEF MarkingTypeOK
  <2>2. CASE hook[h].pc \in Running
    <3>1. hook'[h] = [hook[h] EXCEPT !.lag = @ + 1] /\ hook[h].lag < MaxDelay
      BY <2>2 DEF Tick
    <3> QED
      BY <2>1, <3>1 DEF Handler
  <2>3. CASE hook[h].pc \notin Running
    BY <2>1, <2>3 DEF Tick, Handler
  <2> QED
    BY <2>2, <2>3
<1>2. ASSUME NEW u \in User
      PROVE  /\ marked[u] = Never => marked'[u] = Never
             /\ marked[u] # Never =>
                  /\ marked[u] \in Age /\ marked'[u] \in Age /\ marked'[u] # Never
                  /\ marked'[u] = Older(marked[u])
  BY OlderAge DEF MarkingTypeOK, Tick, Age
<1>3. MarkingTypeOK'
  <2>1. hook' \in [Hook -> Handler]
    BY <1>1 DEF Tick
  <2>2. marked' \in [User -> Age \cup {Never}] /\ (ttl = 0 => \A u \in User : marked'[u] = Never)
    BY <1>2 DEF Tick, MarkingTypeOK
  <2> QED
    BY <1>0, <2>1, <2>2 DEF MarkingTypeOK
<1>4. HandlersOK'
  BY <1>0, <1>1 DEF HandlersOK
<1>5. MarkedOnTheWay'
  <2> SUFFICES ASSUME NEW h \in Hook, mark # hook[h].user
               PROVE  /\ hook[h].pc = "marked" => since' <= hook'[h].lag
                      /\ hook[h].pc = "add" => since' <= MaxDelay + hook'[h].lag
    BY <1>0, <1>1 DEF MarkedOnTheWay
  <2> QED
    BY <1>0, <1>1 DEF MarkedOnTheWay, Running, Age
<1>6. MarkedWhenRecorded'
  <2> SUFFICES ASSUME NEW u \in User, marked'[u] # Never, mark # u
               PROVE  since' <= marked'[u] + MaxDelay
    BY <1>0 DEF MarkedWhenRecorded
  <2>1. marked[u] # Never /\ marked[u] \in Age /\ marked'[u] = Older(marked[u])
    BY <1>2
  <2>2. since <= marked[u] + MaxDelay
    BY <2>1 DEF MarkedWhenRecorded
  <2> QED
    BY <1>0, <2>1, <2>2 DEF Older, Age
<1>7. SweptSince'
  <2> SUFFICES ASSUME NEW u \in User, marked'[u] # Never
               PROVE  marked'[u] < ttl + lastSweep' \/ marked'[u] <= lastSweep' + MaxDelay
    BY <1>0 DEF SweptSince
  <2>1. marked[u] # Never /\ marked[u] \in Age /\ marked'[u] = Older(marked[u])
    BY <1>2
  <2>2. marked[u] < ttl + lastSweep \/ marked[u] <= lastSweep + MaxDelay
    BY <2>1 DEF SweptSince
  <2> QED
    BY <1>0, <2>1, <2>2 DEF Older, Age
<1> QED
  BY <1>3, <1>4, <1>5, <1>6, <1>7

(* What add makes of the map: the connection's age is that of the clock    *)
(* read before, another's is kept or swept, and nothing is kept that is    *)
(* too old for a sweep, if there is one.                                   *)
LEMMA AddMap ==
  ASSUME MarkingInv, NEW h \in Hook, add(h)
  PROVE  /\ hook[h].user \in User /\ hook[h].lag \in 0 .. MaxDelay
         /\ ttl \in Nat /\ ttl > 0 /\ ttl' = ttl
         /\ marked' \in [User -> Age \cup {Never}] /\ lastSweep' \in Age
         /\ \A u \in User : marked'[u] # Never =>
              \/ u = hook[h].user /\ marked'[u] = hook[h].lag
              \/ u # hook[h].user /\ marked'[u] = marked[u]
         /\ \/ lastSweep < ttl + hook[h].lag /\ lastSweep' = lastSweep
            \/ /\ lastSweep' = hook[h].lag
               /\ \A u \in User : marked'[u] # Never => marked'[u] < ttl + hook[h].lag
<1> DEFINE lag == hook[h].lag
           added == [marked EXCEPT ![hook[h].user] = lag]
<1> USE MarkingAssumption DEF MarkingInv
<1>1. /\ hook[h].user \in User /\ lag \in 0 .. MaxDelay
      /\ ttl \in Nat /\ ttl > 0 /\ ttl' = ttl /\ ttl \in Ttl
  BY DEF MarkingTypeOK, HandlersOK, Handler, add, At
<1>2. lag \in Age
  BY <1>1 DEF Age
<1>3. added \in [User -> Age \cup {Never}]
  BY <1>1, <1>2 DEF MarkingTypeOK
<1>4. \A u \in User : added[u] = IF u = hook[h].user THEN lag ELSE marked[u]
  BY <1>1 DEF MarkingTypeOK
<1> HIDE DEF added
<1>5. CASE lastSweep < ttl + lag
  <2>1. marked' = added /\ lastSweep' = lastSweep
    BY <1>5 DEF add, added
  <2> QED
    BY <1>1, <1>3, <1>4, <1>5, <2>1 DEF MarkingTypeOK
<1>6. CASE ~(lastSweep < ttl + lag)
  <2>1. /\ marked' = [u \in User |-> IF added[u] # Never /\ added[u] >= ttl + lag
                                     THEN Never ELSE added[u]]
        /\ lastSweep' = lag
    BY <1>6 DEF add, added
  <2>2. \A u \in User : marked'[u] # Never => marked'[u] = added[u] /\ ~(added[u] >= ttl + lag)
    BY <2>1
  <2>3. \A u \in User : marked'[u] # Never => marked'[u] < ttl + lag
    BY <2>2, <1>1, <1>3 DEF Age
  <2>4. marked' \in [User -> Age \cup {Never}]
    BY <2>1, <1>3
  <2> QED
    BY <1>1, <1>2, <1>4, <2>1, <2>2, <2>3, <2>4
<1> QED
  BY <1>5, <1>6

LEMMA AddInv ==
  ASSUME MarkingInv, NEW h \in Hook, add(h)
  PROVE  MarkingInv'
<1> USE MarkingAssumption DEF MarkingInv
<1>0. hook' = [hook EXCEPT ![h] = NoHook] /\ UNCHANGED <<owner, mark, since>> /\ At(h, "add")
  BY DEF add, Return, entryVars
<1>1. MarkingTypeOK'
  BY <1>0, AddMap, NoHookType DEF MarkingTypeOK
<1>2. HandlersOK'
  BY <1>0, AddMap DEF MarkingTypeOK, HandlersOK, NoHook
<1>3. MarkedOnTheWay'
  <2> SUFFICES ASSUME NEW g \in Hook, mark # hook'[g].user
               PROVE  /\ hook'[g].pc = "marked" => since <= hook'[g].lag
                      /\ hook'[g].pc = "add" => since <= MaxDelay + hook'[g].lag
    BY <1>0 DEF MarkedOnTheWay
  <2>1. CASE g = h
    BY <2>1, <1>0 DEF MarkingTypeOK, NoHook
  <2>2. CASE g # h
    BY <2>2, <1>0 DEF MarkingTypeOK, MarkedOnTheWay
  <2> QED
    BY <2>1, <2>2
<1>4. MarkedWhenRecorded'
  <2> SUFFICES ASSUME NEW u \in User, marked'[u] # Never, mark # u
               PROVE  since <= marked'[u] + MaxDelay
    BY <1>0 DEF MarkedWhenRecorded
  <2>1. CASE u = hook[h].user /\ marked'[u] = hook[h].lag
    BY <2>1, <1>0, AddMap DEF MarkedOnTheWay, MarkingTypeOK, Age, At
  <2>2. CASE u # hook[h].user /\ marked'[u] = marked[u]
    BY <2>2 DEF MarkedWhenRecorded
  <2> QED
    BY <2>1, <2>2, AddMap
<1>5. SweptSince'
  <2> SUFFICES ASSUME NEW u \in User, marked'[u] # Never
               PROVE  marked'[u] < ttl + lastSweep' \/ marked'[u] <= lastSweep' + MaxDelay
    BY AddMap DEF SweptSince
  <2>1. CASE lastSweep' = hook[h].lag /\ marked'[u] < ttl + hook[h].lag
    BY <2>1
  <2>2. CASE lastSweep' = lastSweep /\ u = hook[h].user /\ marked'[u] = hook[h].lag
    BY <2>2, AddMap DEF MarkingTypeOK, Age
  <2>3. CASE lastSweep' = lastSweep /\ marked'[u] = marked[u]
    BY <2>3 DEF SweptSince
  <2> QED
    BY <2>1, <2>2, <2>3, AddMap
<1> QED
  BY <1>1, <1>2, <1>3, <1>4, <1>5

LEMMA MarkingRestartInv ==
  ASSUME MarkingInv, Restart
  PROVE  MarkingInv'
<1> USE MarkingAssumption DEF MarkingInv, Restart, entryVars, NothingMarked
<1>1. MarkingTypeOK'
  BY NoHookType DEF MarkingTypeOK, Age
<1>2. HandlersOK' /\ MarkedOnTheWay' /\ MarkedWhenRecorded' /\ SweptSince'
  BY DEF HandlersOK, MarkedOnTheWay, MarkedWhenRecorded, SweptSince, NoHook
<1> QED
  BY <1>1, <1>2

LEMMA MarkingInitInv == MarkingInit => MarkingInv
<1> SUFFICES ASSUME MarkingInit PROVE MarkingInv
  OBVIOUS
<1> USE MarkingAssumption DEF MarkingInit, NothingMarked
<1>1. MarkingTypeOK
  BY NoHookType DEF MarkingTypeOK, Age
<1>2. HandlersOK /\ MarkedOnTheWay /\ MarkedWhenRecorded /\ SweptSince
  BY DEF HandlersOK, MarkedOnTheWay, MarkedWhenRecorded, SweptSince, NoHook
<1> QED
  BY <1>1, <1>2 DEF MarkingInv

LEMMA MarkingNextInv == MarkingInv /\ [MarkingNext]_vars => MarkingInv'
<1> SUFFICES ASSUME MarkingInv, [MarkingNext]_vars PROVE MarkingInv'
  OBVIOUS
<1>1. CASE Tick
  BY <1>1, TickInv
<1>2. CASE Close \/ \E u \in User : Open(u)
  BY <1>2, ConnectionInv
<1>3. ASSUME NEW h \in Hook, NEW u \in User, Webhook(h, u) PROVE MarkingInv'
  BY <1>3, WebhookInv
<1>4. ASSUME NEW h \in Hook, HookStep(h) PROVE MarkingInv'
  BY <1>4, QuietInv, SetMarkInv, AddInv DEF HookStep
<1>5. ASSUME NEW h \in Hook, SetMarkFails(h) PROVE MarkingInv'
  BY <1>5, SetMarkInv
<1>6. CASE Restart
  BY <1>6, MarkingRestartInv
<1>7. CASE UNCHANGED vars
  BY <1>7 DEF vars, entryVars, recentVars, MarkingInv, MarkingTypeOK, HandlersOK,
              MarkedOnTheWay, MarkedWhenRecorded, SweptSince
<1> QED
  BY <1>1, <1>2, <1>3, <1>4, <1>5, <1>6, <1>7 DEF MarkingNext, Service

LEMMA MarkingInvariance == MarkingSpec => []MarkingInv
BY MarkingInitInv, MarkingNextInv, PTL DEF MarkingSpec

-----------------------------------------------------------------------------
(* The types, and that nothing is remembered without a window.             *)
THEOREM MarkingTypeCorrect == MarkingSpec => []MarkingTypeOK
BY MarkingInvariance, PTL DEF MarkingInv

(* A handler is done by its own last step or by a restart.                 *)
LEMMA WhoReturns ==
  ASSUME MarkingInv, MarkingNext, NEW h \in Hook,
         hook[h].pc # "idle", hook'[h].pc = "idle"
  PROVE  Skip(h) \/ StartAdd(h) \/ SetMarkFails(h) \/ add(h) \/ Restart
<1> USE DEF MarkingInv, MarkingTypeOK
<1>1. CASE Tick
  <2>1. hook'[h].pc = hook[h].pc
    BY <1>1 DEF Tick, Handler
  <2> QED
    BY <2>1
<1>2. CASE Close \/ \E u \in User : Open(u)
  BY <1>2 DEF Close, Open
<1>3. ASSUME NEW g \in Hook, NEW u \in User, Webhook(g, u) PROVE FALSE
  BY <1>3 DEF Webhook, At
<1>4. ASSUME NEW g \in Hook, ReadClock(g) \/ NotRecent(g) \/ SetMark(g) PROVE FALSE
  <2>1. PICK where \in {"contains", "SetMark", "marked"} : Goto(g, where)
    BY <1>4 DEF ReadClock, NotRecent, SetMark
  <2> QED
    BY <2>1, GotoHandler
<1>5. ASSUME NEW g \in Hook, Skip(g) \/ StartAdd(g) \/ SetMarkFails(g) \/ add(g)
      PROVE  g = h
  <2>1. hook' = [hook EXCEPT ![g] = NoHook]
        \/ hook' = [hook EXCEPT ![g] = [pc |-> "add", user |-> hook[g].user, lag |-> 0]]
    BY <1>5, GotoHandler DEF Skip, StartAdd, SetMarkFails, add, Return
  <2> QED
    BY <2>1
<1> QED
  BY <1>1, <1>2, <1>3, <1>4, <1>5 DEF MarkingNext, Service, HookStep

(* A webhook answered from the cache about a connection without its user's *)
(* mark meets one that is in that state for less than a window and two     *)
(* delays, for every window and delay.                                     *)
THEOREM SkipRecent == MarkingSpec => SkipIsRecent
<1>1. MarkingInv /\ [MarkingNext]_vars =>
        [\A h \in Hook :
           /\ At(h, "contains") /\ hook'[h].pc = "idle" /\ marked'[hook[h].user] # Never
           /\ mark # hook[h].user
           => since < ttl + 2 * MaxDelay]_vars
  <2> SUFFICES ASSUME MarkingInv, MarkingNext, NEW h \in Hook, At(h, "contains"),
                      hook'[h].pc = "idle", marked'[hook[h].user] # Never,
                      mark # hook[h].user
               PROVE  since < ttl + 2 * MaxDelay
    OBVIOUS
  <2>1. hook[h].user \in User
    BY DEF MarkingInv, HandlersOK, At
  <2>2. CASE Skip(h)
    <3>1. marked[hook[h].user] # Never /\ marked[hook[h].user] < ttl + hook[h].lag
      BY <2>2 DEF Skip, Remembered
    <3>2. since <= marked[hook[h].user] + MaxDelay
      BY <2>1, <3>1 DEF MarkingInv, MarkedWhenRecorded
    <3> QED
      BY <2>1, <3>1, <3>2, MarkingAssumption
         DEF MarkingInv, MarkingTypeOK, Handler, Age
  <2>3. CASE Restart
    BY <2>1, <2>3 DEF Restart, NothingMarked
  <2> QED
    BY <2>2, <2>3, WhoReturns DEF At, StartAdd, SetMarkFails, add
<1> QED
  BY <1>1, MarkingInvariance, PTL DEF MarkingSpec, SkipIsRecent

(* What add leaves in recentMarks is younger than two windows and a delay, *)
(* or a window and two delays, for every window and delay.                 *)
THEOREM SweptAlways == MarkingSpec => SweptInTime
<1>1. MarkingInv /\ [MarkingNext]_vars =>
        [\A h \in Hook : At(h, "add") /\ hook'[h].pc = "idle" =>
           \A u \in User : marked'[u] # Never =>
             marked'[u] < 2 * ttl + MaxDelay \/ marked'[u] < ttl + 2 * MaxDelay]_vars
  <2> SUFFICES ASSUME MarkingInv, MarkingNext, NEW h \in Hook, At(h, "add"),
                      hook'[h].pc = "idle", NEW u \in User, marked'[u] # Never
               PROVE  marked'[u] < 2 * ttl + MaxDelay \/ marked'[u] < ttl + 2 * MaxDelay
    OBVIOUS
  <2>1. CASE add(h)
    <3>0. MaxDelay \in Nat /\ lastSweep \in Nat /\ (marked[u] # Never => marked[u] \in Nat)
      BY MarkingAssumption DEF MarkingInv, MarkingTypeOK, Age
    <3>1. CASE marked'[u] = hook[h].lag
      BY <2>1, <3>0, <3>1, AddMap
    <3>2. CASE marked'[u] = marked[u] /\ lastSweep < ttl + hook[h].lag
      <4>1. marked[u] < ttl + lastSweep \/ marked[u] <= lastSweep + MaxDelay
        BY <3>2 DEF MarkingInv, SweptSince
      <4> QED
        BY <2>1, <3>0, <3>2, <4>1, AddMap
    <3>3. CASE marked'[u] = marked[u] /\ marked'[u] < ttl + hook[h].lag
      BY <2>1, <3>0, <3>3, AddMap
    <3> QED
      BY <2>1, <3>1, <3>2, <3>3, AddMap
  <2>2. CASE Restart
    BY <2>2 DEF Restart, NothingMarked
  <2> QED
    BY <2>1, <2>2, WhoReturns DEF At, StartAdd, SetMarkFails, Skip
<1> QED
  BY <1>1, MarkingInvariance, PTL DEF MarkingSpec, SweptInTime
=============================================================================
