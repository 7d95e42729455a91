------------------------------- MODULE Layout -------------------------------
(***************************************************************************)
(* A start of the service on the interface's tc and nft state: run and     *)
(* setupShaper (cmd/xray-speedlimit/main.go), Shaper.LayoutExists,         *)
(* EnsureRoot, buildLayout, ensureSteering and ensureConnmarkRestore       *)
(* (internal/tcshape/tcshape.go).                                          *)
(*                                                                         *)
(* The kernel's state outlives the process.  One action is one tc or nft   *)
(* command; before each of them the process may be killed, or the command  *)
(* may fail and run return (Exit).  A start may come with another queue    *)
(* count than the one before.  Other tools may take the root qdisc, the    *)
(* clsact qdisc, its filters or the nft table away at any time.            *)
(***************************************************************************)
EXTENDS Integers, FiniteSets

CONSTANT MaxTx         \* TX queues the interface may have in use

ASSUME MaxTxAssumption == MaxTx \in 1..255   \* mark.MaxQueues

VARIABLES
  root,      \* root qdisc: the device's own, our "mq" 8000:, or another
  htb,       \* majors with an HTB qdisc under mq class 8000:<major>
  def,       \* majors whose HTB has its default class
  fw,        \* majors whose HTB has its fw filter
  users,     \* majors with per-user classes
  clsact,    \* there is a clsact qdisc
  steer,     \* its egress filters at steerPref
  nft,       \* the conntrack mark restore rule is loaded
  pc, q,     \* where run is; the loop variable of buildLayout, ensureSteering
  queues,    \* queue count of this start
  built,     \* this start ran buildLayout
  disturbed, \* since this start others changed the state, or the ignored
             \* "qdisc del" failed
  served     \* queue count of the last start that served on this root, or 0

kernel == <<root, htb, def, fw, users, clsact, steer, nft>>
local == <<q, queues, built>>
vars == <<kernel, local, pc, disturbed, served>>

Major == 1..MaxTx
\* A steering filter: queue field it matches, TX queue it maps to.
Filter == [field : Major, to : 0..(MaxTx - 1)]

LayoutTypeOK ==
  /\ root \in {"default", "mq", "foreign"}
  /\ htb \subseteq Major /\ def \subseteq htb /\ fw \subseteq htb /\ users \subseteq htb
  /\ clsact \in BOOLEAN /\ nft \in BOOLEAN
  /\ steer \subseteq Filter
  /\ pc \in {"down", "check", "delroot", "addmq", "htb", "class", "fw", "qdiscs",
             "clsact", "show", "delfilters", "filter", "nft", "classes", "listen",
             "serving"}
  /\ q \in Major /\ queues \in Major
  /\ built \in BOOLEAN /\ disturbed \in BOOLEAN
  /\ served \in 0..MaxTx

Init ==
  /\ root \in {"default", "foreign"}
  /\ htb = {} /\ def = {} /\ fw = {} /\ users = {}
  /\ clsact \in BOOLEAN
  /\ steer = {}
  /\ nft = FALSE
  /\ pc = "down" /\ q = 1 /\ queues = 1 /\ built = FALSE
  /\ disturbed = FALSE /\ served = 0

-----------------------------------------------------------------------------
(* The listing holds an mq root, no HTB out of place, as many HTBs as      *)
(* queues.                                                                 *)
layoutMatches(n) ==
  /\ root = "mq"
  /\ \A major \in htb : major <= n
  /\ Cardinality(htb) = n

(* Every filter steers a queue field to its own TX queue, each field once. *)
steeringMatches(n) ==
  /\ \A f \in steer : f.field <= n /\ f.to = f.field - 1
  /\ Cardinality({f.field : f \in steer}) = n

Goto(where) == pc' = where

-----------------------------------------------------------------------------
(* run: the queue count of this start, from the flag or the interface.     *)
Start ==
  /\ pc = "down"
  /\ queues' \in Major
  /\ q' = 1 /\ built' = FALSE /\ disturbed' = FALSE
  /\ Goto("check")
  /\ UNCHANGED <<kernel, served>>

\* Mutant of CheckLayout: the layout is built on every start.
CheckNothing ==
  /\ pc = "check" /\ Goto("delroot")
  /\ UNCHANGED <<kernel, local, disturbed, served>>

\* Mutant of CheckLayout: a layout for more queues counts as well.
CheckAtLeast ==
  /\ pc = "check"
  /\ Goto(IF root = "mq" /\ 1..queues \subseteq htb THEN "qdiscs" ELSE "delroot")
  /\ UNCHANGED <<kernel, local, disturbed, served>>

(* LayoutExists, and which way EnsureRoot goes.                            *)
CheckLayout ==
  /\ pc = "check"
  /\ Goto(IF layoutMatches(queues) THEN "qdiscs" ELSE "delroot")
  /\ UNCHANGED <<kernel, local, disturbed, served>>

-----------------------------------------------------------------------------
(* buildLayout.  The first command's error is ignored.                     *)

NoTree == htb' = {} /\ def' = {} /\ fw' = {} /\ users' = {}

DelRoot ==
  /\ pc = "delroot"
  /\ root' = "default" /\ NoTree
  /\ served' = 0
  /\ Goto("addmq")
  /\ UNCHANGED <<clsact, steer, nft, local, disturbed>>

DelRootFails ==
  /\ pc = "delroot" /\ root # "default"
  /\ disturbed' = TRUE
  /\ Goto("addmq")
  /\ UNCHANGED <<kernel, local, served>>

\* "qdisc add ... root" fails while there is a root of somebody's.
AddMq ==
  /\ pc = "addmq" /\ root = "default"
  /\ root' = "mq"
  /\ built' = TRUE
  /\ Goto("htb")
  /\ UNCHANGED <<htb, def, fw, users, clsact, steer, nft, q, queues, disturbed, served>>

AddHtb ==
  /\ pc = "htb" /\ root = "mq" /\ q \notin htb
  /\ htb' = htb \cup {q}
  /\ Goto("class")
  /\ UNCHANGED <<root, def, fw, users, clsact, steer, nft, local, disturbed, served>>

AddDefault ==
  /\ pc = "class" /\ q \in htb \ def
  /\ def' = def \cup {q}
  /\ Goto("fw")
  /\ UNCHANGED <<root, htb, fw, users, clsact, steer, nft, local, disturbed, served>>

\* The end of a loop over the queues: the next one, or on to what follows.
NextQueue(again, after) ==
  IF q < queues THEN q' = q + 1 /\ Goto(again) ELSE q' = 1 /\ Goto(after)

\* Mutant of AddFw: the loop runs once too often.
AddFwPastEnd ==
  /\ pc = "fw" /\ q \in htb \ fw
  /\ fw' = fw \cup {q}
  /\ IF q <= queues THEN q' = q + 1 /\ Goto("htb") ELSE q' = 1 /\ Goto("qdiscs")
  /\ UNCHANGED <<root, htb, def, users, clsact, steer, nft, queues, built, disturbed, served>>

AddFw ==
  /\ pc = "fw" /\ q \in htb \ fw
  /\ fw' = fw \cup {q}
  /\ NextQueue("htb", "qdiscs")
  /\ UNCHANGED <<root, htb, def, users, clsact, steer, nft, queues, built, disturbed, served>>

-----------------------------------------------------------------------------
(* ensureSteering.                                                         *)

ListQdiscs ==
  /\ pc = "qdiscs"
  /\ Goto(IF clsact THEN "show" ELSE "clsact")
  /\ UNCHANGED <<kernel, local, disturbed, served>>

AddClsact ==
  /\ pc = "clsact" /\ ~clsact
  /\ clsact' = TRUE
  /\ Goto("filter")
  /\ UNCHANGED <<root, htb, def, fw, users, steer, nft, local, disturbed, served>>

\* Mutant of ShowFilters: missing filters are added beside the old ones.
ShowAndKeep ==
  /\ pc = "show" /\ clsact
  /\ Goto(IF steeringMatches(queues) THEN "nft" ELSE "filter")
  /\ UNCHANGED <<kernel, local, disturbed, served>>

ShowFilters ==
  /\ pc = "show" /\ clsact
  /\ Goto(IF steeringMatches(queues) THEN "nft"
          ELSE IF steer # {} THEN "delfilters" ELSE "filter")
  /\ UNCHANGED <<kernel, local, disturbed, served>>

DelFilters ==
  /\ pc = "delfilters" /\ clsact /\ steer # {}
  /\ steer' = {}
  /\ Goto("filter")
  /\ UNCHANGED <<root, htb, def, fw, users, clsact, nft, local, disturbed, served>>

AddFilter ==
  /\ pc = "filter" /\ clsact
  /\ \A f \in steer : f.field # q
  /\ steer' = steer \cup {[field |-> q, to |-> q - 1]}
  /\ NextQueue("filter", "nft")
  /\ UNCHANGED <<root, htb, def, fw, users, clsact, nft, queues, built, disturbed, served>>

-----------------------------------------------------------------------------
(* ensureConnmarkRestore; then run lists the classes it adopts and starts  *)
(* its listeners, each of which may fail and changes none of this state.   *)

LoadRuleset ==
  /\ pc = "nft"
  /\ nft' = TRUE
  /\ Goto("classes")
  /\ UNCHANGED <<root, htb, def, fw, users, clsact, steer, local, disturbed, served>>

ListClasses ==
  /\ pc = "classes" /\ Goto("listen")
  /\ UNCHANGED <<kernel, local, disturbed, served>>

Listen ==
  /\ pc = "listen" /\ Goto("serving")
  /\ served' = queues
  /\ UNCHANGED <<kernel, local, disturbed>>

StartupStep ==
  \/ CheckLayout \/ DelRoot \/ DelRootFails \/ AddMq \/ AddHtb \/ AddDefault \/ AddFw
  \/ ListQdiscs \/ AddClsact \/ ShowFilters \/ DelFilters \/ AddFilter
  \/ LoadRuleset \/ ListClasses \/ Listen

(* Per-user classes come (SetRate) and go (Remove) while serving.          *)
UserClasses ==
  /\ pc = "serving"
  /\ \E major \in 1..queues : users' \in {users \cup ({major} \cap htb), users \ {major}}
  /\ UNCHANGED <<root, htb, def, fw, clsact, steer, nft, local, pc, disturbed, served>>

(* A command's error that run returns, a signal, or a crash.               *)
Exit ==
  /\ pc # "down" /\ Goto("down")
  /\ UNCHANGED <<kernel, local, disturbed, served>>

-----------------------------------------------------------------------------
(* Other tools on the host.                                                *)

Disturb == disturbed' = TRUE /\ UNCHANGED <<pc, local>>

ReplaceRoot ==
  /\ root' \in {"default", "foreign"} /\ NoTree
  /\ served' = 0
  /\ Disturb /\ UNCHANGED <<clsact, steer, nft>>

RemoveClsact ==
  /\ clsact' = FALSE /\ steer' = {}
  /\ Disturb /\ UNCHANGED <<root, htb, def, fw, users, nft, served>>

EditFilters ==
  /\ clsact
  /\ \E f \in Filter : steer' \in {steer \ {f}, {g \in steer : g.field # f.field} \cup {f}}
  /\ Disturb /\ UNCHANGED <<root, htb, def, fw, users, clsact, nft, served>>

FlushRuleset ==
  /\ nft' = FALSE
  /\ Disturb /\ UNCHANGED <<root, htb, def, fw, users, clsact, steer, served>>

Outside == ReplaceRoot \/ RemoveClsact \/ EditFilters \/ FlushRuleset

Next == Start \/ StartupStep \/ UserClasses \/ Exit \/ Outside

Spec == Init /\ [][Next]_vars

-----------------------------------------------------------------------------
Steered == clsact /\ steer = {[field |-> n, to |-> n - 1] : n \in 1..queues}

(* What a start leaves when it gets as far as serving, unless others meant *)
(* to change it meanwhile: the qdiscs, the steering and the restore rule   *)
(* for exactly its queue count, whatever an earlier start, a failed or     *)
(* killed one too, or another queue count left behind ("The steering       *)
(* filters and the nft rule are not tied to layoutExists").  Every queue   *)
(* is complete, except that a layout found and not built here may lack     *)
(* parts on its last queue: see SetupComplete.                             *)
SetupSound ==
  pc = "serving" /\ ~disturbed =>
    /\ root = "mq" /\ htb = 1..queues
    /\ Steered /\ nft
    /\ \A n \in 1..queues : n < queues \/ built => n \in def \cap fw

(* No start is doomed by what earlier ones left: each command that adds    *)
(* finds its place free and each one that deletes or hangs off something   *)
(* finds it there, so that only a fault can make it fail ("replacing an mq *)
(* 8000: root [...] keep[s] its old HTB children, and then adding them     *)
(* again fails", buildLayout; "Deleting by priority", ensureSteering).     *)
NoConflict ==
  ~disturbed =>
    /\ pc = "addmq" => root = "default"
    /\ pc = "htb" => root = "mq" /\ q \notin htb
    /\ pc = "class" => q \in htb \ def
    /\ pc = "fw" => q \in htb \ fw
    /\ pc = "clsact" => ~clsact
    /\ pc \in {"show", "delfilters", "filter"} => clsact
    /\ pc = "delfilters" => steer # {}
    /\ pc = "filter" => \A f \in steer : f.field # q

(* A start with the queue count of the last start that served keeps every  *)
(* per-user class ("they survive a restart of the service", README.md),    *)
(* also when starts in between failed or were killed.                      *)
ClassesSurvive ==
  [][served = queues /\ pc \notin {"down", "serving"} /\ ~disturbed'
       => users \subseteq users']_vars

(* "setupShaper makes sure iface has the per-queue HTB layout, the         *)
(* steering filters and the conntrack mark restore rule" (main.go): every  *)
(* queue's HTB has its default class and its fw filter.  Not what the code *)
(* does: LayoutExists looks at qdiscs only.                                *)
SetupComplete ==
  pc = "serving" /\ ~disturbed => def = 1..queues /\ fw = 1..queues
=============================================================================
