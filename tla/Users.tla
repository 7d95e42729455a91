------------------------------- MODULE Users -------------------------------
(***************************************************************************)
(* webhook.Users: the emails seen recently, which webhooks add to, the     *)
(* collector's goroutine prunes and GET /users reads.  An email's mark is  *)
(* mark.For of the email, whenever it is computed (Marks), and so is no    *)
(* part of the state.                                                      *)
(*                                                                         *)
(* Mark and Prune read the clock before they take the mutex.  Times are    *)
(* ages in ticks, as in Marking.                                           *)
(***************************************************************************)
EXTENDS Naturals

CONSTANTS
  Email,
  Caller,        \* goroutines that serve webhooks
  NoEmail,       \* the goroutine serves none
  IdleTimeout,   \* -class-idle-timeout, in ticks
  LockDelay,     \* bound on the ticks between the clock and the mutex
  OldAge,        \* ages stop here
  Unseen         \* the table does not have the email

ASSUME UsersAssumption ==
  /\ NoEmail \notin Email
  /\ IdleTimeout \in Nat \ {0} /\ LockDelay \in Nat
  /\ OldAge \in Nat /\ OldAge > IdleTimeout + LockDelay
  /\ Unseen \notin Nat

VARIABLES
  users,     \* Users.users: the age of each lastSeen
  caller,    \* the Mark calls under way
  prune,     \* the Prune under way: the age of its clock, or Unseen
  heard      \* history: ticks since the email's last Mark returned

usersVars == <<users, caller, prune, heard>>

UsersTypeOK ==
  /\ users \in [Email -> 0 .. OldAge \cup {Unseen}]
  /\ caller \in [Caller -> [email : Email \cup {NoEmail}, lag : 0 .. LockDelay]]
  /\ prune \in 0 .. LockDelay \cup {Unseen}
  /\ heard \in [Email -> 0 .. OldAge]

-----------------------------------------------------------------------------
NoMarkCall == [email |-> NoEmail, lag |-> 0]

UsersInit ==
  /\ users = [e \in Email |-> Unseen]
  /\ caller = [c \in Caller |-> NoMarkCall]
  /\ prune = Unseen
  /\ heard = [e \in Email |-> OldAge]

Aged(age) == IF age = Unseen \/ age = OldAge THEN age ELSE age + 1

UsersTick ==
  /\ \A c \in Caller : caller[c].email # NoEmail => caller[c].lag < LockDelay
  /\ prune # Unseen => prune < LockDelay
  /\ users' = [e \in Email |-> Aged(users[e])]
  /\ caller' = [c \in Caller |-> IF caller[c].email = NoEmail THEN caller[c]
                                   ELSE [caller[c] EXCEPT !.lag = @ + 1]]
  /\ prune' = Aged(prune)
  /\ heard' = [e \in Email |-> Aged(heard[e])]

\* Mark: now := u.now(), for an email that is not empty.
MarkNow(c, e) ==
  /\ caller[c].email = NoEmail
  /\ caller' = [caller EXCEPT ![c] = [email |-> e, lag |-> 0]]
  /\ UNCHANGED <<users, prune, heard>>

\* Mutant of Mark: lastSeen is set only when the email is new.
MarkNew(c) ==
  /\ caller[c].email # NoEmail
  /\ users' = [users EXCEPT ![caller[c].email] = IF @ = Unseen THEN caller[c].lag ELSE @]
  /\ heard' = [heard EXCEPT ![caller[c].email] = 0]
  /\ caller' = [caller EXCEPT ![c] = NoMarkCall]
  /\ UNCHANGED prune

\* The rest of it, under the mutex.
Mark(c) ==
  /\ caller[c].email # NoEmail
  /\ users' = [users EXCEPT ![caller[c].email] = caller[c].lag]
  /\ heard' = [heard EXCEPT ![caller[c].email] = 0]
  /\ caller' = [caller EXCEPT ![c] = NoMarkCall]
  /\ UNCHANGED prune

\* Prune: the cutoff is taken, and under the mutex what is older goes.
PruneNow ==
  /\ prune = Unseen /\ prune' = 0
  /\ UNCHANGED <<users, caller, heard>>

\* Mutant of Prune: the entry is overwritten with a zero userEntry.
PruneZeroes ==
  /\ prune # Unseen /\ prune' = Unseen
  /\ users' = [e \in Email |-> IF users[e] # Unseen /\ users[e] > IdleTimeout + prune
                                 THEN OldAge + 1 ELSE users[e]]
  /\ UNCHANGED <<caller, heard>>

\* Mutant of Prune: only emails older than twice the timeout go.
PruneLate ==
  /\ prune # Unseen /\ prune' = Unseen
  /\ users' = [e \in Email |-> IF users[e] # Unseen /\ users[e] > 2 * IdleTimeout + prune
                                 THEN Unseen ELSE users[e]]
  /\ UNCHANGED <<caller, heard>>

Prune ==
  /\ prune # Unseen /\ prune' = Unseen
  /\ users' = [e \in Email |-> IF users[e] # Unseen /\ users[e] > IdleTimeout + prune
                                 THEN Unseen ELSE users[e]]
  /\ UNCHANGED <<caller, heard>>

UsersNext ==
  \/ UsersTick \/ PruneNow \/ Prune
  \/ \E c \in Caller : Mark(c) \/ \E e \in Email : MarkNow(c, e)

UsersSpec == UsersInit /\ [][UsersNext]_usersVars

-----------------------------------------------------------------------------
(* GET /users lists every email a webhook reported within the idle timeout *)
(* less the delay of a lock: a call whose clock is older may overwrite a   *)
(* newer lastSeen, but not by more.                                        *)
RecentUsersListed ==
  \A e \in Email : heard[e] + LockDelay <= IdleTimeout => users[e] # Unseen

(* "so the table only holds recent users" (users.go): what a Prune leaves  *)
(* was heard of within the timeout and the delays of the two calls.        *)
OnlyRecentUsersKept ==
  [][Prune => \A e \in Email : users'[e] # Unseen => heard[e] <= IdleTimeout + LockDelay]_usersVars
=============================================================================
