------------------------------- MODULE Route -------------------------------
(***************************************************************************)
(* netif.defaultRouteInterface: the scan of /proc/net/route for the        *)
(* interface of the default route, used when -iface is not given.          *)
(*                                                                         *)
(* A line stands for what the scan makes of its fields: whether it has     *)
(* enough of them and both destination and mask are 0.0.0.0, whether its   *)
(* flags are readable and say the route is up, and its metric, NoMetric    *)
(* if it is unreadable.                                                    *)
(***************************************************************************)
EXTENDS Naturals, Sequences

CONSTANTS
  Iface,
  NoIface,    \* best = ""
  Metric,
  NoMetric

ASSUME RouteAssumption ==
  NoIface \notin Iface /\ Metric \subseteq Nat /\ NoMetric \notin Nat /\ 0 \in Metric

VARIABLES
  lines,      \* the file after its header line
  next,       \* the line Scan reads next
  best, bestMetric,
  outcome     \* "none" until the function returns, then "ok" or "error"

routeVars == <<lines, next, best, bestMetric, outcome>>

Line == [iface : Iface, isDefault : BOOLEAN, up : BOOLEAN, metric : Metric \cup {NoMetric}]

RouteTypeOK ==
  /\ lines \in Seq(Line)
  /\ next \in 1 .. Len(lines) + 1
  /\ best \in Iface \cup {NoIface}
  /\ bestMetric \in Metric
  /\ outcome \in {"none", "ok", "error"}

RouteInit ==
  /\ lines \in Seq(Line) /\ next = 1
  /\ best = NoIface /\ bestMetric = 0
  /\ outcome = "none"

\* Mutant of Usable: the error of ParseUint on the metric is ignored.
UsableUnread(line) == line.isDefault /\ line.up

Usable(line) == line.isDefault /\ line.up /\ line.metric # NoMetric

Reading == outcome = "none" /\ next <= Len(lines)

\* A line the loop continues past, or that is no better.
Pass ==
  /\ Reading
  /\ Usable(lines[next]) => best # NoIface /\ lines[next].metric >= bestMetric
  /\ next' = next + 1
  /\ UNCHANGED <<lines, best, bestMetric, outcome>>

\* Mutant of Better: a metric of 0 in bestMetric stands for none yet.
BetterThanZero ==
  /\ Reading /\ Usable(lines[next])
  /\ bestMetric = 0 \/ lines[next].metric < bestMetric
  /\ best' = lines[next].iface /\ bestMetric' = lines[next].metric
  /\ next' = next + 1
  /\ UNCHANGED <<lines, outcome>>

Better ==
  /\ Reading /\ Usable(lines[next])
  /\ best = NoIface \/ lines[next].metric < bestMetric
  /\ best' = lines[next].iface /\ bestMetric' = lines[next].metric
  /\ next' = next + 1
  /\ UNCHANGED <<lines, outcome>>

\* Scan finds no more lines: it is at the end, or reading failed.
Finish ==
  /\ outcome = "none" /\ next = Len(lines) + 1
  /\ outcome' = IF best = NoIface THEN "error" ELSE "ok"
  /\ UNCHANGED <<lines, next, best, bestMetric>>

ScanFails ==
  /\ outcome = "none" /\ outcome' = "error"
  /\ UNCHANGED <<lines, next, best, bestMetric>>

RouteNext == Pass \/ Better \/ Finish \/ ScanFails

RouteSpec == RouteInit /\ [][RouteNext]_routeVars

-----------------------------------------------------------------------------
\* Line i is the one the kernel would use among the first n of a file.
Chosen(file, i, n) ==
  /\ i \in 1 .. n /\ Usable(file[i])
  /\ \A j \in 1 .. n : Usable(file[j]) =>
       /\ file[i].metric <= file[j].metric
       /\ j < i => file[i].metric < file[j].metric

(* What best holds after some lines: the interface of the best usable one  *)
(* among them, and none only if there is none.                             *)
BestSoFar ==
  IF best = NoIface
    THEN \A j \in 1 .. next - 1 : ~Usable(lines[j])
    ELSE \E i \in 1 .. next - 1 :
           Chosen(lines, i, next - 1) /\ best = lines[i].iface /\ bestMetric = lines[i].metric

(* "Among several usable default routes, the one with the lowest metric    *)
(* wins, as it does for the kernel" (route.go), the first of equals; an    *)
(* answer is given only when the whole file was read.                      *)
LowestMetricWins ==
  outcome = "ok" => \E i \in 1 .. Len(lines) : Chosen(lines, i, Len(lines)) /\ best = lines[i].iface
=============================================================================
