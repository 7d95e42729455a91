# A verification project for xray-speedlimit

xray-speedlimit gives every Xray user a bandwidth limit. Xray posts a webhook
for each connection it routes; the service derives a packet mark from the
user's email, writes it to the connection's conntrack entry, and keeps a tc/HTB
class with that mark as its classid, on an interface it has laid out as an `mq`
root with one HTB per TX queue. These modules describe the parts of it that
are concurrent, that fail, or that outlive the process; TLC checks them on
small instances and TLAPS proves the main results for every instance.

## The system: parts, state, interactions

| Part | State | Operations | Talks to |
|---|---|---|---|
| `internal/mark` | none | `For`, `Join`, `Split` | used by everything |
| `internal/limiter` (`memoryStore`) | `entries` under its own mutex | `Set`, `Delete`, `Get`, `List` | wrapped by the shaped store |
| `internal/tcshape` store (`shapedStore`) | `mu` | `Set`, `Delete` (tc first, then the base store), `Get`, `List` | shaper, base store |
| `internal/tcshape` shaper | the kernel's qdiscs, classes, filters, the nft table | `LayoutExists`, `EnsureRoot`, `SetRate`, `Remove`, `Classes` | tc and nft processes |
| `internal/tcshape` idle collector | `seen` | `Collect`, on a ticker | `Classes`, the store's `Delete` |
| `internal/webhook` provisioning | `queued`, `provisionQueue` | `queueProvision` (every webhook), `provisionLoop` (one goroutine) | the store's `Get` and `Set` |
| `internal/webhook` marking | `recentMarks`, `Users` | `ServeHTTP`, `Prune` | conntrack marker |
| `internal/conntrack` | socket pool, address cache | `SetMark`, `exchange` | netlink |
| `internal/api` | none | `PUT`/`DELETE /marks/{mark}`, `GET /marks`, `GET /users` | the store, `Users` |
| `cmd/xray-speedlimit` | flags | start (queue count, layout, adoption of classes, listeners), shutdown | all |
| `internal/netif` | none | default route, TX queue count, link speed | /proc, /sys, ethtool |

What is hard about it:

- API handlers, the idle collector and the provisioning worker call `Set` and
  `Delete` at once, and each call is a slow external command followed by an
  update in memory;
- classes, qdiscs, filters and the nft table outlive the process: a start may
  find them complete, half built by a start that died, built for another queue
  count, or partly removed by another tool;
- webhooks must never wait for tc, so provisioning goes through a bounded
  channel and a set of marks already in it, read and written without a common
  lock;
- cached knowledge (recent marks, the idle collector's byte counts, the rate
  looked up before queueing) can be out of date when it is used;
- netlink replies can be late or lost.

What makes each part right: marks always name a class the layout can carry;
the store never lists a limit that is not enforced, and a call takes effect at
once or not at all; a start that serves has everything in place and keeps the
classes it found; every user who keeps connecting gets a limit; no webhook
waits for tc; a marked connection carries its user's mark; only idle classes
are collected. `PROJECT.json` lists the hazards line by line.

## Modules

| Module | Models | Extends / uses |
|---|---|---|
| `Marks` | `internal/mark` as operators over the hash sum | |
| `LimitTable` | what `WrapStore` promises: one table in which listed and enforced rate change together | |
| `ShapedStore` | `shapedStore` over `memoryStore`, `SetRate`/`Remove`/`Classes`, adoption at start | refines `LimitTable` |
| `Provision` | `queueProvision` and `provisionLoop`, PUT and DELETE requests | `ShapedStore` |
| `IdleCollector` | `Collect` and the goroutine that calls it | `ShapedStore` |
| `Layout` | a start: `run`, `setupShaper`, `EnsureRoot` command by command | |
| `Marking` | `ServeHTTP`'s marking and `recentMarks` | |
| `Conntrack` | `Marker.SetMark`, `localAddrs`, the socket pool, `exchange` | |
| `Users` | `Users.Mark` and `Prune` | |
| `Rates` | the conversions of rates, as operators on words that wrap | |
| `Route` | `defaultRouteInterface`, line by line | |
| `MarksProofs`, `ShapedStoreProofs`, `ProvisionProofs`, `IdleCollectorProofs`, `LayoutProofs`, `MarkingProofs`, `ConntrackProofs`; `PartsProofs` (`Route`, `Rates`, `Users` and `MCParts`) | the theorems | the module each is named for |
| `MCParts`, `MCShapedStore`, `MCProvision`, `MCIdleCollector` | instances for TLC | |

`Marking`, `Conntrack` and `Layout` are checked as they are. They meet the
others at one step each: `Marking`'s `SetMark` and `SetMarkFails` are a whole call
of `Conntrack` (which may fail after it has set the mark: `SetMarkSound` says
what its answers mean); a `Webhook` of `Marking` has passed the `Webhook` to `Send`
of `Provision`, which waits for nothing, and `Users.Mark`.

### Marks

An email is its 64-bit FNV-1a sum; the hash itself is outside. `For`, `Join`
and `Split` are the code's formulas with `<<16`, `>>16` and `&0xffff` written as
arithmetic; no value exceeds 32 bits, since the major is at most 255 (65535
when `parseClasses` joins what tc printed). `QueueField` is what a steering
filter compares under `QueueMask`.

### ShapedStore

`classes` is the kernel's rate of every class, `entries` the base store's map,
`mu` the holder of `shapedStore.mu`. A call is four steps, each named for what
it does in the code: `CallSet`/`CallDelete` (the caller arrives), `Lock`,
`SetRate`/`Remove`/`TcFail` (the tc command, inside the mutex), `Record` (the
base store's update and the deferred unlock). `memoryStore.mu` guards single
map accesses and is not a step. `StoreRestart` may happen in any state: it
forgets everything but `classes` and fills `entries` with `Adopt`, the
start-up listing, under any `-per-user-rate-mbit`. Assumed of tc: a command
that reports an error has changed nothing, and the process's death does not
leave a tc command behind that takes effect after the next start's listing.

`LimitTable` has the same three variables and atomic `Set`, `Delete` and
`Restart`. The refinement maps the listed rates to `ListedNow`: the base
store's, except that the record a goroutine at `Record` is about to make is
already counted.

### Provision

Each webhook goroutine steps through `Get` (no lock, as in `shapedStore.Get`),
`LoadOrStore` on `Handler.queued`, `Send` (the `select`) and `Undo` (its default
branch). The worker's `Receive` takes a mark and calls `Set`, whose steps are
those of `ShapedStore`; `Unqueue` is `queued.Delete` after `Set` has returned.
`Put` and `DeleteMark` are requests that passed the API's checks (a 32-bit
mark, a rate between 1 and 2^32-1); the idle collector's deletions are
`DeleteMark` steps. `Restart` loses all of it and adopts the classes.

### IdleCollector

`List`, `Now`, one of `StartPeriod`, `TooYoung` and `DeleteIdle` for each listed
class in any order, the store's steps for `Delete`, and `Prune` are one
`Collect`; a listing that fails changes nothing. `look` holds its locals: the
listed classes not yet looked at, `present`, the classes whose age at `now` had
reached the timeout, and the ticks since `now`, which become the age of an entry
written late in the loop. Times are ages that stop at the timeout, so time has
no bound. `bytes` is the kernel's counter: zero for a new class, kept by `tc
class replace`, lost with the class. History for the properties: `last` (ticks
since a class was created or last sent), `moved` (classes that have sent since
the listing) and, in each observation, `life`: whether the class it was made of
is still the same, has been deleted, or has been deleted and found missing.

### Layout

One action per tc or nft command. `Exit` covers a command's error that `run`
returns, a signal and a crash, before any command; `DelRootFails` is the one
error the code ignores. The matchers `layoutMatches` and `steeringMatches` work
on the kernel's state as the listing shows it. Adding a qdisc, class or filter
succeeds only where there is none, deleting filters only where there are some,
as in the kernel. `Outside` steps are other tools taking away the root, clsact,
its filters or the nft table. Two history variables serve the properties:
`disturbed` (another tool interfered since this start, or the ignored deletion
failed) and `served` (the queue count the present tree last served).

### Marking

All webhooks are about one 4-tuple; a user stands for their mark. A handler goes
through `Webhook` (the event is read), `ReadClock` and `Skip` or `NotRecent`
(`contains`: the clock before the mutex, the lookup inside), `SetMark` or
`SetMarkFails`, `StartAdd` and `add` (again clock, then mutex; the sweep is part of
`add`). Between any two of these the connection may close and the port be taken
again (`Close`, `Open`), other handlers may run and time may pass; a handler may
be delayed without limit before `SetMark`, since Xray, the queue of requests and
netlink are in between, and by `MaxDelay` ticks where the code only computes or
takes a mutex. `SetMarkFails` covers an error with and without the mark set.
`Restart` is a crash or a shutdown, and a start with any `-remark-after`: the
kernel's entries stay. History: `since`, the ticks since the entry is there with
its present mark.

### Conntrack

The calls are about one client address and port, so that an entry and a request
are known by the local address; a family is the set of its addresses. A call is
`SetMark` (up to the choice of candidates), `localAddrs`, `Send` (`getSocket` and
the one `sendmsg`), a `Recv` for every reply, the last of which includes
`putSocket` and the answer, with `localAddrsFails`, `NoCandidate`, `SendFails` and
`RecvFails` for its early returns. The kernel's `Handle` takes the requests of a
socket in any order and at any time, also after the socket was closed; `RecvFails`
may come at any time, so an ack can be lost or late. `Handle`, `Open`, `Close`,
`Assign` and `Unassign` are outside the code. `SetMark`'s errors for another
protocol or an invalid address do not happen: the handler passes "tcp" and
parsed addresses. History: `reached`, the entries this call's requests have
marked, and `due`, those the call must find because they are there, under an
address the call has to try, from its start on.

### Users, Rates, Route

`Users` keeps ages like `Marking`, with the clock of `Mark` and `Prune` read before
the mutex; an email's mark is a function of the email (`Marks`) and no state.
`Rates` has the widths and the unit as parameters: TLC checks them with small
ones at every boundary, and the theorems hold for all. `Route` is the loop over
the lines of `/proc/net/route`, a line being what the loop's conditions make of
its fields.

## Runs

| Run | Checks | Instance | Result |
|---|---|---|---|
| `parts` | `MarkFitsLayout`, `MarksRunThroughAll`, `SplitIsExact`, `PerUserRateIsKept`; `RouteTypeOK`, `BestSoFar`, `LowestMetricWins`; `UsersTypeOK`, `RecentUsersListed`, `OnlyRecentUsersKept` | queue counts 1, 2, 3, 48, 254, 255 and values within 4 of every boundary, words of 12 and 20 bits; every file of up to 3 lines with 2 interfaces and 2 metrics; 2 emails, 2 callers, a timeout of 2 ticks | holds |
| `store` | types, `ListedIsEnforced`, `StoreInv`, `OtherClassesUntouched`, `ImplementsLimitTable` | 2 goroutines, marks on two queues and a default class, 2 rates | holds |
| `provision` | types, `QueuedIsWaiting`, `WaitsOnce`, `WebhookCompletes`, `EventuallyProvisioned` | 2 webhooks, the worker and one client, 2 marks, a channel of 1; fairness for webhooks only | holds |
| `provision_lost` | `NextWebhookProvisions` | 1 mark, 1 webhook, no tc errors, no restarts | violated |
| `provision_overwrite` | `SetOnlyWithoutRate` | 1 mark, 1 webhook, 2 rates | violated |
| `idle` | types, `OnlyIdleDeleted`, `IdleTimeKept` | 1 class, 1 client, a timeout of 3 ticks, counter up to 3 | holds |
| `idle_live` | `IdleCollected` | 2 classes, 1 client, a timeout of 2 ticks, no traffic | holds |
| `layout` | types, `SetupSound`, `NoConflict`, `ClassesSurvive` | up to 3 queues | holds |
| `layout_complete` | `SetupComplete` | up to 2 queues | violated |
| `marking` | types, `SkipIsRecent`, `SweptInTime`, `EventuallyMarked` | 2 users, 2 handlers, windows of 0 and 2 ticks, delays up to 1 | holds |
| `marking_reuse` | `KeepsOwnMark` | the same, a window of 2 | violated |
| `conntrack` | types, `SocketsAccounted`, `NoLateReplies`, `SetMarkSound` | 2 callers, a pool of 1, 3 sockets, 2 IPv4 addresses (one comes and goes) and an IPv6 one, wildcard and exact destinations | holds |

`parts` puts together what nothing else is composed of; a behaviour is about one
part, and the others do not move.

The bounds. Two goroutines suffice for every conflict over a mark, as the mutex
admits one at a time; a third mark, the default class, covers requests that
name no user. A channel of one slot with two marks is full as soon as one
waits, so overflow, `Undo` and the race with `Unqueue` all happen. Three queues
give a first, a middle and a last one, growth and shrinkage of the queue count
and filters of every kind of mismatch. A class concerns the collector's
decision about another one only by the time its deletion takes, which `Tick`
between any two steps covers, so `idle` spends its states on one class's timing;
`idle_live` has two, since there a class could be kept waiting by another, and no
traffic, which only makes a class not idle. `MCIdleCollector` leaves
`-per-user-rate-mbit` out: it decides what a start records, which `Collect` never
reads. In `marking` two keys, a window of two ticks
and a delay of one are enough for a sweep that keeps some entries and drops
others, for clocks that overtake each other, and for a handler to outlive the
connection it is about; ages stop where no comparison tells them apart. In
`conntrack` two calls compete for one pool slot and a third socket stands for
those a failed call left behind; a goroutine starts its next call when nothing
of its last one is under way. `MCParts` walks finite sets of values and files and
stops at their ends, hence no deadlock check there; everywhere else the system
can always be restarted or called.

Fairness. `HookFairness` is weak fairness of a webhook's own steps: goroutines
are scheduled and none of these steps waits for anything. `WorkerFairness` adds
weak fairness of the worker and of a call inside the mutex (tc commands end)
and strong fairness of `Lock`: Go's mutex hands itself to a waiter that has
been passed over for a millisecond. Nothing is assumed fair about requests,
errors, crashes or restarts. `EventuallyProvisioned` has `WorkerFairness` as a premise,
as `WebhookCompletes` must hold without it, and assumes in addition that
errors, deletions and restarts end and that the user keeps connecting.
Deletions of all marks have to end, not only of this one: marks that are
deleted and provisioned again for ever could fill the channel each time this
one is sent. `GcFairness` says that time passes, that the ticker fires and the
listing does not fail for ever, and that the deletion of a class which is tried
again and again does not fail every time (strong fairness of `Remove` for each
mark); `GcLiveSpec` has no restart, as each gives every class a fresh period: it
is the service after the last one. `MarkingFairness` says that time passes,
handlers run, and an open connection keeps sending webhooks, which is what a
multiplexing transport does and what the README's promise is about;
`EventuallyMarked` assumes in addition that failures and restarts end.

### What the violated properties show

- `provision_lost`: the worker's `Set` for a mark has returned, the mark is
  deleted, and the next webhook comes before `queued.Delete`. It finds no rate,
  finds the mark in `queued`, and returns; the mark stays without a rate until
  yet another webhook, which on a plain TCP transport is the user's next
  connection. `gc.go` and the README promise the next one.
- `provision_overwrite`: the lookup that found no rate is not repeated when the
  worker gets to the mark. A `PUT` in between is answered with success and then
  replaced by the per-user rate.
- `layout_complete`: `layoutMatches` looks at qdiscs. If a build ends after the
  last queue's HTB was added and before its default class and fw filter were,
  the next start takes the tree for complete, and that queue's users are not
  shaped until somebody deletes the root. A build cut off on an earlier queue
  is recognised and rebuilt, which is what `SetupSound` says.
- `marking_reuse`: a handler for a connection that is closed by now reaches
  `SetMark` after the port was taken by another user and that user's webhook was
  handled. The tuple is all `SetMark` knows, so the right mark is replaced. The
  README calls the reuse of a port by another user harmless, which is true of
  the cache, not of a late handler. `EventuallyMarked` shows that a connection
  that keeps sending webhooks gets its mark back; one that sends a single
  webhook does not.

### What the other properties leave out

`OnlyIdleDeleted` has two exceptions, which happen. The listing is older than the
deletion, by the other deletions of the same `Collect` and the wait for the mutex,
so that a class can be deleted just as it is used again; the property says that
nothing older than the listing of the same `Collect` can lead to such a deletion.
And `seen` knows a class by its mark and byte count: one deleted and created again
between two listings with the same count, as two classes that have never sent
have, is taken for the old one and inherits its idle time, although `gc.go` has
counting start "at the first Collect that sees the class". The test that demands
a fresh period (`gc_test.go`) has a `Collect` in between that finds the class gone,
and then the property says it gets one. `IdleTimeKept` is the counterpart: an idle
period, once begun, goes on through deletions that fail. `IdleCollected` alone
would not show that, since its fairness already has a deletion succeed that is
tried often enough.

`buildLayout` multiplies `-default-class-rate-mbit` unchecked, unlike
`-per-user-rate-mbit`: a value beyond 64 bits in bits per second wraps into a slow
default class. No run checks that, since it is simply so; `DefaultWrapsBeyond`
gives the exact border.

`SetMarkSound` covers a batch of which one request succeeds and another fails on
its side of the code: answered with success, an entry that was there would be
missed. The code answers with failure; that such a connection is not remembered
as marked, and is tried again, are `SkipIsRecent` and `EventuallyMarked` of `Marking`,
whose `SetMarkFails` may have set the mark.

## Proofs

Every invariant and every action property that a run of the right code checks
is also a theorem about its specification, for all values of the constants.
Assumed of the constants, by name in the modules that declare them:

- `StoreAssumption`, `ProvisionAssumption`: there is a mark, user marks are marks,
  `NoRate` is no rate, `Nobody` no goroutine, `NoMark` no mark, the worker is one
  of the store's callers, the channel has room for at least one;
- `CollectorAssumption`: the collector is one of the store's callers, and the
  timeout is not zero (a zero `-class-idle-timeout` starts no collector);
- `MaxTxAssumption`: at least one queue and at most `mark.MaxQueues`;
- `MarkingAssumption`, `UsersAssumption`: windows, timeouts and delays are numbers
  of ticks, and ages are counted far enough for every comparison made;
- `ConntrackAssumption`: families and reported destinations are made of local
  addresses, and `None` is no socket;
- `RatesAssumption`, `RouteAssumption`, `PartsAssumption`: widths, units, files and the
  values `MCParts` walks over.

No set is assumed finite, except the callers in `SocketsNeverLeak`, which counts
them.

- `ShapedStoreProofs`. `ListedIsEnforced` is not inductive: nothing in it says
  that the goroutine about to record a rate is the one whose tc command ran
  last. `StoreInv` adds `Mutex` (who runs tc or records holds the lock),
  `RecordsWhatItSet` (what is about to be recorded is what is enforced) and
  `OnlyUserMarks`. From it follow `ListedEnforced`, and `Refinement`: a
  successful tc command is the table's step, everything else is invisible or a
  restart. `OthersUntouched` needs types only.
- `ProvisionProofs`. `QueuedIsWaiting` and `WaitsOnce` are inductive together
  (each needs the other: a mark taken out of `queued` must have had one holder,
  a mark not in `queued` has none), with a lemma each for the channel's
  `Append` and `Tail`. `UsesStore` shows that the composition is a behaviour of
  `ShapedStore`, so the store's theorems hold with provisioning.
- `IdleCollectorProofs`. `CollectorUsesStore` does the same for the collector.
  `OnlyIdleDeleted` is about the moment of the tc command, long after the
  decision, so `GcInv` follows an observation from the listing on: a byte count
  seen of a class that still exists is at most its counter, and while the two
  are equal the class has been silent for at least the observation's age
  (`SeenIsTrue`, and `ListedIsTrue` for the counts just listed, whose period
  would begin at `now`); what Collect has still to look at is the class seen
  before, with a count no smaller, unless that one was deleted
  (`PendingIsListed`); a class found missing is dropped before the next listing,
  and one that is still there is in `present` (`CollectLocals`); and from the call of
  `Delete` to its tc command the observation is of full age and, without traffic
  since the listing, its count is the counter (`DeletesOld`). `IdlePeriodGoesOn`
  rests on the same facts: a class whose counter has not moved is listed with
  the count seen, so its period is not restarted, and is in `present`, so
  `Prune` keeps it.
- `LayoutProofs`. `SetupSound` and `NoConflict` need to know what trees there can
  be: the HTBs are those of the queues `1..k` for some `k`, all complete but
  perhaps the last (`TreeIsPrefix`), because every build goes queue by queue and
  nobody takes parts of a tree away. The matchers count what they list, and
  `MatchIsExact` and `SteeringIsExact` show that counting is enough. `BuildProgress`
  and `LoopBounds` say how far a build has come, `Undisturbed` what only another
  tool could have changed, and `ServedTree` that a tree some start has served on
  has that start's queue count, which is what `ClassesSurvive` rests on.
- `MarkingProofs`. `SkipIsRecent` compares the connection's mark with a handler's
  memory of it; `MarkingInv` says at each place where that memory is kept how old
  it can make a different mark: between `SetMark` and `add` (`MarkedOnTheWay`), in
  the map (`MarkedWhenRecorded`). `SweptSince` bounds what is in the map by the
  age of the last sweep. The proof corrected `SweptInTime`: two windows and a
  delay, its first bound, is not one when the delay exceeds the window, since
  an add whose clock is old by a delay may come just after a sweep; the second
  bound is for that case.
- `ConntrackProofs`. `SocketsAccounted` and `NoLateReplies` are inductive with
  `SocketUse` (a call has a socket exactly while it waits) and `RequestsKnown` (a
  request under way is awaited on that socket by its call, or was left behind
  by a call that has failed). Hence a reply that a call reads always answers
  one of its own pending requests (`ReplyIsMine`), and when the last one is read
  nothing is left on the socket, so that it may be pooled. `SetMarkSound` needs
  `AnswersTrue` (an errno, read or not, tells what the request has done) and
  `DueIsTried` (what the call ought to find is among its candidates, also when
  the cached list of addresses is used). `SocketsNeverLeak` turns
  `SocketsAccounted` into a number: at most `socketPoolSize` and one socket for
  each call in an exchange are open.
- `MarksProofs`. Division with remainder, then `For`'s two halves, then the
  three facts `MCParts` checks at the boundaries, for every sum and queue
  count.
- `PartsProofs`. `Route`: `BestSoFar` is inductive with the types (a line that is
  passed over leaves the best one best, a better one is the best), and with
  `AnswerAtEnd` (an answer is given at the end of the file) it yields
  `LowestMetricWins`. `Rates`: the quotient is the last factor whose product fits,
  so the check before the multiplication refuses exactly what would not fit, and
  what fits a word is kept by it; without the check a product that does not fit
  always comes out too small (`DefaultWrapsBeyond`). `Users`: `LastSeenIsRecent` relates the age kept
  in the table, or its absence, to the last webhook heard; both properties
  follow. Last, `MCParts`: its invariants hold in all of its states by
  the general theorems.

Only model-checked: liveness (`WebhookCompletes`, `EventuallyProvisioned`,
`IdleCollected`, `EventuallyMarked`), which needs fairness and is outside the
prover's reach, and the four violations, which are behaviours. The run `store`
checks `StoreInv`; `LayoutInv`, `MarkingInv`, `CtInv` and `GcInv` were checked by TLC on the
instances of their runs (`MarkingInv` with delays beyond the window too) before
they were proved.

## Not modelled, and the plan

To do next: state what `Marker` and the marking handlers promise as abstract
specifications, as `LimitTable` does for the store, and prove the refinements; in
`Provision`, prove as a safety property the step that makes `EventuallyProvisioned`
true (a mark that is queued without a rate is on its way to the worker).

Left out: the hash; JSON, HTTP and log messages; the encoding of netlink
messages, tc arguments and addresses; the size of a class's burst (a product and
a floor); `TxQueueCount` and `DetectLinkSpeedMbps`, which read a number or fail;
`GET /marks` and `GET /users`, which read tables and change nothing (the two reads
of `GET /users` are not at one moment, and nothing says they are); listener address
forms; the drain of the two servers at a shutdown, since a restart may come
before, during or after it; the kernel's own scheduling of packets.
