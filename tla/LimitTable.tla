----------------------------- MODULE LimitTable -----------------------------
(***************************************************************************)
(* What tcshape.WrapStore promises its writers: one table of limits in     *)
(* which the rate a mark is listed with and the rate the kernel enforces   *)
(* change together, in one step.  The only marks on which the two may      *)
(* differ are those the last start did not adopt.                          *)
(*                                                                         *)
(* "listed" is the base store as the next holder of the mutex finds it.    *)
(* Get and List read the base store without the mutex: between a tc        *)
(* command and its record they still see the rate before.                  *)
(***************************************************************************)
CONSTANTS Mark,       \* values a request can name
          UserMark,   \* those mark.Split accepts
          Rate,       \* rates in bytes per second, never 0
          NoRate      \* no limit, and -per-user-rate-mbit 0

VARIABLES enforced,   \* rate of each mark's class in the kernel
          listed,     \* rate the base store has, or is about to have
          perUser     \* -per-user-rate-mbit of the running process

vars == <<enforced, listed, perUser>>

Limit == Rate \cup {NoRate}

\* The start-up listing: every class, or with a per-user rate only those
\* that already have it.
AdoptedFrom(classes, flag) ==
  [m \in Mark |->
     IF m \in UserMark /\ (flag = NoRate \/ classes[m] = flag)
       THEN classes[m] ELSE NoRate]

Init == /\ enforced \in [Mark -> Limit]
        /\ perUser \in Limit
        /\ listed = AdoptedFrom(enforced, perUser)

Set(m, r) == /\ enforced' = [enforced EXCEPT ![m] = r]
             /\ listed' = [listed EXCEPT ![m] = r]
             /\ UNCHANGED perUser

Delete(m) == /\ enforced' = [enforced EXCEPT ![m] = NoRate]
             /\ listed' = [listed EXCEPT ![m] = NoRate]
             /\ UNCHANGED perUser

Restart == /\ perUser' \in Limit
           /\ listed' = AdoptedFrom(enforced, perUser')
           /\ UNCHANGED enforced

Next == \/ \E m \in UserMark, r \in Rate : Set(m, r)
        \/ \E m \in UserMark : Delete(m)
        \/ Restart

Spec == Init /\ [][Next]_vars
=============================================================================
