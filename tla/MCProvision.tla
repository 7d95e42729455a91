---------------------------- MODULE MCProvision ----------------------------
(***************************************************************************)
(* Two users' marks, a channel with room for one of them, webhooks in two  *)
(* goroutines and one other caller of the store.                           *)
(***************************************************************************)
EXTENDS Provision, Marks

MCMark == {Join(1, MinMinor), Join(1, MinMinor + 1)}
OneMark == {Join(1, MinMinor)}

(* No errors from tc and no restarts: what a webhook gets when nothing     *)
(* fails.                                                                  *)
CalmSpec ==
  Init /\ [][ServiceNext /\ ~TcError]_vars /\ HookFairness /\ WorkerFairness
=============================================================================
