------------------------------ MODULE MCParts ------------------------------
(***************************************************************************)
(* The parts without a module that composes them, each by itself: "part"   *)
(* says which one a behaviour is about.  The others stay as they start.    *)
(*                                                                         *)
(* numbers: the mark arithmetic and the conversions of rates near their    *)
(* boundaries (sums around multiples of the number of marks, mark values   *)
(* around the ends of a queue's range, rates around the largest that fit). *)
(* route: every file of up to MaxLines lines.  users: as the module says.  *)
(***************************************************************************)
EXTENDS Marks, Rates, Route, Users, FiniteSets

CONSTANTS
  Queues,     \* queue counts to check
  Margin,     \* how far around each boundary
  MaxLines    \* bound on the lines of /proc/net/route

ASSUME PartsAssumption ==
  Queues \subseteq QueueCount /\ Margin \in Nat /\ MaxLines \in Nat

VARIABLES part,
          n,         \* a hash sum, a value Split may be given, or a flag's value
          queues

numberVars == <<n, queues>>
vars == <<part, numberVars, routeVars, usersVars>>

Boundaries(k) ==
  {0, k * minorsPerQueue, 3 * k * minorsPerQueue,
   Join(1, 0), Join(2, 0), Join(k, 0), Join(k + 1, 0),
   MaxUint32 \div bytesPerSecPerMbit, U64 \div bytesPerSecPerMbit,
   U64 \div (8 * bytesPerSecPerMbit), U64 - 1}

Near(k) == {x \in UNION {(b - Margin)..(b + Margin) : b \in Boundaries(k)} : x >= 0}

Files == UNION {[1..k -> Line] : k \in 0..MaxLines}

MCInit ==
  /\ part \in {"numbers", "route", "users"}
  /\ IF part = "numbers" THEN queues \in Queues /\ n \in Near(queues) ELSE queues = 1 /\ n = 0
  /\ lines \in IF part = "route" THEN Files ELSE {<<>>}
  /\ next = 1 /\ best = NoIface /\ bestMetric = 0 /\ outcome = "none"
  /\ UsersInit

NextNumber ==
  /\ part = "numbers" /\ n + 1 \in Near(queues) /\ n' = n + 1
  /\ UNCHANGED <<part, queues, routeVars, usersVars>>

MCNext ==
  \/ NextNumber
  \/ part = "route" /\ RouteNext /\ UNCHANGED <<part, numberVars, usersVars>>
  \/ part = "users" /\ UsersNext /\ UNCHANGED <<part, numberVars, routeVars>>

MCSpec == MCInit /\ [][MCNext]_vars

-----------------------------------------------------------------------------
(* Every mark fits the layout: steering, HTB and class agree on its queue. *)
MarkFitsLayout == FitsLayout(n, queues)

(* Marks are spread over all of the Q*65534 values before one is reused.   *)
MarksRunThroughAll == RunsThroughAll(n, queues)

(* Split accepts exactly the values For yields for the queue count.        *)
SplitIsExact == SplitExact(n, queues)

(* -per-user-rate-mbit is refused or kept exactly, up to the adoption of   *)
(* its classes by the next start.                                          *)
PerUserRateIsKept == n < U64 => PerUserRateKept(n)
=============================================================================
