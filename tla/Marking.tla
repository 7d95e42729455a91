------------------------------ MODULE Marking ------------------------------
(***************************************************************************)
(* The webhook handler's marking of connections (ServeHTTP, webhook.go)    *)
(* and its cache of recent marks (recent.go), beside connections that      *)
(* close and whose client address and port are taken again, by the same or *)
(* by another user.                                                        *)
(*                                                                         *)
(* All webhooks here are about one 4-tuple.  A user stands for the mark    *)
(* Users.Mark gives, so that a markedConn is known by its user.            *)
(*                                                                         *)
(* Time is a tick.  Both methods of recentMarks read the clock before they *)
(* take the mutex, so each uses a time that is up to MaxDelay old.  A      *)
(* time.Time is kept as its age; ages stop at MaxAge, beyond which nothing *)
(* tells them apart.                                                       *)
(***************************************************************************)
EXTENDS Naturals

CONSTANTS
  User,
  Nobody,     \* no connection has the tuple; no mark
  Hook,       \* goroutines that serve webhooks
  Ttl,        \* values of -remark-after
  MaxDelay,   \* bound on the ticks between two steps of a running handler
  MaxAge,
  Never       \* recentMarks does not have the connection

ASSUME MarkingAssumption ==
  /\ Nobody \notin User
  /\ Ttl \subseteq Nat /\ MaxDelay \in Nat /\ MaxAge \in Nat
  /\ \A t \in Ttl : MaxAge >= 2 * t + MaxDelay /\ MaxAge >= t + 2 * MaxDelay
  /\ Never \notin Nat

VARIABLES
  owner,      \* whose connection has the tuple
  mark,       \* kernel: the mark of its conntrack entry
  since,      \* history: ticks since the entry is there with that mark
  hook,       \* the handlers under way
  ttl,        \* recentMarks.ttl
  marked,     \* recentMarks.marked: the age of each user's time
  lastSweep   \* recentMarks.lastSweep: its age

entryVars == <<owner, mark, since>>
recentVars == <<ttl, marked, lastSweep>>
vars == <<entryVars, hook, recentVars>>

Age == 0 .. MaxAge

Handler == [pc : {"idle", "arrived", "contains", "SetMark", "marked", "add"},
            user : User \cup {Nobody}, lag : 0 .. MaxDelay]

\* The types, and "With a zero ttl it remembers nothing" (recent.go).
MarkingTypeOK ==
  /\ owner \in User \cup {Nobody} /\ mark \in User \cup {Nobody} /\ since \in Age
  /\ hook \in [Hook -> Handler]
  /\ ttl \in Ttl
  /\ marked \in [User -> Age \cup {Never}]
  /\ lastSweep \in Age
  /\ ttl = 0 => \A u \in User : marked[u] = Never

-----------------------------------------------------------------------------
NoHook == [pc |-> "idle", user |-> Nobody, lag |-> 0]
NothingMarked == [u \in User |-> Never]

MarkingInit ==
  /\ owner \in User \cup {Nobody} /\ mark = Nobody /\ since = 0
  /\ hook = [h \in Hook |-> NoHook]
  /\ ttl \in Ttl
  /\ marked = NothingMarked /\ lastSweep = MaxAge

Older(age) == IF age < MaxAge THEN age + 1 ELSE age

At(h, where) == hook[h].pc = where
Goto(h, where) == hook' = [hook EXCEPT ![h].pc = where, ![h].lag = 0]
Return(h) == hook' = [hook EXCEPT ![h] = NoHook]

\* The pcs between which the code does nothing that could wait.
Running == {"contains", "marked", "add"}

Tick ==
  /\ \A h \in Hook : hook[h].pc \in Running => hook[h].lag < MaxDelay
  /\ hook' = [h \in Hook |-> IF hook[h].pc \in Running THEN [hook[h] EXCEPT !.lag = @ + 1]
                               ELSE hook[h]]
  /\ since' = Older(since)
  /\ marked' = [u \in User |-> IF marked[u] = Never THEN Never ELSE Older(marked[u])]
  /\ lastSweep' = Older(lastSweep)
  /\ UNCHANGED <<owner, mark, ttl>>

\* A new connection's conntrack entry has no mark.
Open(u) ==
  /\ owner = Nobody
  /\ owner' = u /\ mark' = Nobody /\ since' = 0
  /\ UNCHANGED <<hook, recentVars>>

Close ==
  /\ owner # Nobody
  /\ owner' = Nobody /\ mark' = Nobody /\ since' = 0
  /\ UNCHANGED <<hook, recentVars>>

\* Xray routes a request of the connection: ServeHTTP has read the event
\* and Users.Mark has given the mark.
Webhook(h, u) ==
  /\ At(h, "idle") /\ owner = u
  /\ hook' = [hook EXCEPT ![h] = [pc |-> "arrived", user |-> u, lag |-> 0]]
  /\ UNCHANGED <<entryVars, recentVars>>

\* contains: without a window the answer is no, otherwise now is read.
ReadClock(h) ==
  /\ At(h, "arrived")
  /\ Goto(h, IF ttl = 0 THEN "SetMark" ELSE "contains")
  /\ UNCHANGED <<entryVars, recentVars>>

\* marked[c] is there and now.Sub(at) < ttl.
Remembered(h) ==
  marked[hook[h].user] # Never /\ marked[hook[h].user] < ttl + hook[h].lag

\* Mutant of Skip: every hit renews the entry.
SkipRenews(h) ==
  /\ At(h, "contains") /\ Remembered(h)
  /\ Return(h)
  /\ marked' = [marked EXCEPT ![hook[h].user] = hook[h].lag]
  /\ UNCHANGED <<entryVars, ttl, lastSweep>>

Skip(h) ==
  /\ At(h, "contains") /\ Remembered(h)
  /\ Return(h)
  /\ UNCHANGED <<entryVars, recentVars>>

NotRecent(h) ==
  /\ At(h, "contains") /\ ~Remembered(h)
  /\ Goto(h, "SetMark")
  /\ UNCHANGED <<entryVars, recentVars>>

\* The kernel sets the mark of the entry the tuple has now.
Apply(u) ==
  /\ mark' = u
  /\ since' = IF mark = u THEN since ELSE 0
  /\ UNCHANGED owner

SetMark(h) ==
  /\ At(h, "SetMark") /\ owner # Nobody
  /\ Apply(hook[h].user)
  /\ Goto(h, "marked")
  /\ UNCHANGED recentVars

\* Mutant of SetMarkFails: the connection is remembered all the same.
SetMarkFailsRemembered(h) ==
  /\ At(h, "SetMark")
  /\ Goto(h, "marked")
  /\ UNCHANGED <<entryVars, recentVars>>

\* SetMark returns an error: there is no entry, or the kernel refused, or
\* the mark was set and the answer did not come.
SetMarkFails(h) ==
  /\ At(h, "SetMark")
  /\ UNCHANGED entryVars \/ (owner # Nobody /\ Apply(hook[h].user))
  /\ Return(h)
  /\ UNCHANGED recentVars

\* Mutant of StartAdd: no special case for a zero ttl.
StartAddAlways(h) ==
  /\ At(h, "marked")
  /\ Goto(h, "add")
  /\ UNCHANGED <<entryVars, recentVars>>

\* add: without a window it returns, otherwise now is read.
StartAdd(h) ==
  /\ At(h, "marked")
  /\ IF ttl = 0 THEN Return(h) ELSE Goto(h, "add")
  /\ UNCHANGED <<entryVars, recentVars>>

\* Mutant of add: every call puts the next sweep off.
addPutsOff(h) ==
  /\ At(h, "add")
  /\ LET lag == hook[h].lag
         added == [marked EXCEPT ![hook[h].user] = lag]
     IN /\ marked' = IF lastSweep < ttl + lag THEN added
                     ELSE [u \in User |-> IF added[u] # Never /\ added[u] >= ttl + lag
                                            THEN Never ELSE added[u]]
        /\ lastSweep' = lag
  /\ Return(h)
  /\ UNCHANGED <<entryVars, ttl>>

\* Under the mutex: the entry, and a sweep if the last is ttl ago.
add(h) ==
  /\ At(h, "add")
  /\ LET lag == hook[h].lag
         added == [marked EXCEPT ![hook[h].user] = lag]
     IN IF lastSweep < ttl + lag
          THEN marked' = added /\ UNCHANGED lastSweep
          ELSE /\ marked' = [u \in User |-> IF added[u] # Never /\ added[u] >= ttl + lag
                                              THEN Never ELSE added[u]]
               /\ lastSweep' = lag
  /\ Return(h)
  /\ UNCHANGED <<entryVars, ttl>>

\* A crash or a shutdown, and a start, perhaps with another -remark-after.
Restart ==
  /\ hook' = [h \in Hook |-> NoHook]
  /\ ttl' \in Ttl
  /\ marked' = NothingMarked /\ lastSweep' = MaxAge
  /\ UNCHANGED entryVars

HookStep(h) ==
  \/ ReadClock(h) \/ Skip(h) \/ NotRecent(h) \/ SetMark(h) \/ StartAdd(h) \/ add(h)

Service ==
  \/ Tick \/ Close
  \/ \E u \in User : Open(u)
  \/ \E h \in Hook, u \in User : Webhook(h, u)
  \/ \E h \in Hook : HookStep(h)

MarkingNext ==
  \/ Service
  \/ \E h \in Hook : SetMarkFails(h)
  \/ Restart

(* Time passes, handlers run, and a connection that stays open keeps       *)
(* sending webhooks, as a multiplexing transport's does.                   *)
MarkingFairness ==
  /\ WF_vars(Tick)
  /\ \A h \in Hook : WF_vars(HookStep(h) \/ SetMarkFails(h))
  /\ \A u \in User : WF_vars(\E h \in Hook : Webhook(h, u))

MarkingSpec == MarkingInit /\ [][MarkingNext]_vars /\ MarkingFairness

-----------------------------------------------------------------------------
(* "at the latest one window later" (README): a webhook answered from the  *)
(* cache although the connection does not carry its user's mark meets a    *)
(* connection that was opened, or marked otherwise, less than a window     *)
(* ago, give or take the delays between a step and the clock it is         *)
(* recorded with.  So a failed mark is never remembered, and neither a     *)
(* port taken again, a late handler nor a stream of webhooks hides a wrong *)
(* mark for longer.                                                        *)
SkipIsRecent ==
  [][\A h \in Hook :
       /\ At(h, "contains") /\ hook'[h].pc = "idle" /\ marked'[hook[h].user] # Never
       /\ mark # hook[h].user
       => since < ttl + 2 * MaxDelay]_vars

(* recentMarks does not grow without bound: once add has recorded a        *)
(* connection, nothing in the map is older than two windows and the delay  *)
(* of a clock, or, should delays exceed the window, than a window and two  *)
(* delays, however adds with older clocks overtake each other.             *)
SweptInTime ==
  [][\A h \in Hook : At(h, "add") /\ hook'[h].pc = "idle" =>
       \A u \in User : marked'[u] # Never =>
         marked'[u] < 2 * ttl + MaxDelay \/ marked'[u] < ttl + 2 * MaxDelay]_vars

(* "that connection keeps sending webhooks, so it is marked at the latest  *)
(* one window later" (README): a connection that stays open ends up with   *)
(* its user's mark for good, whatever late handlers of earlier connections *)
(* did to it, once marking no longer fails.                                *)
EventuallyMarked ==
  <>[][Service]_vars => \A u \in User : <>[](owner = u) => <>[](mark = u)

(* README, Repeated webhooks: "Reuse of a port by a *different* user is    *)
(* harmless: the mark is part of the key."  A connection that carries its  *)
(* user's mark keeps it.                                                   *)
KeepsOwnMark ==
  [][owner # Nobody /\ owner' = owner /\ mark = owner => mark' = mark]_vars
=============================================================================
