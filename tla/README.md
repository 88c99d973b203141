# Blackbox eBPF: a TLA+ verification project

Blackbox is a flight recorder for a Linux host. eBPF programs measure block I/O, run-queue
latency, TCP retransmissions and resets and OOM kills; a daemon keeps a bounded in-memory history
of them; a client can ask for a capture of the last minutes, critical events make the daemon write
captures of its own, and an analyzer turns a capture into a verdict. This directory models the
parts whose correctness depends on order, interleaving, failure and limits, from the tracepoint to
the verdict, and checks them with TLC on small instances. Every safety property that a passing run
checks is also proved with TLAPS, for every instance; liveness is left to TLC.

## 1. The system

| Part | State | Operations | Talks to |
|---|---|---|---|
| Recorder loop (`internal/app/app.go`) | last clock reading, end of the last collection, disabled sensors | sensor start; one `select`: cancellation, write result, automatic timer, detail event, poll ticker, query; then `automatic.progress` | every other part, by channels |
| Incident controller (`internal/autocapture/controller.go`) | current and waiting incident, first complete poll of each, write flag, end of the last file, counters | `Observe`, `Unavailable`, `Deadline`, `CollectedThrough`, `Begin`, `Finish` | called by the loop only |
| Automatic worker (`internal/app/automatic.go`) | one-slot job and result channels, retry flag, timer | take a job, save, release the lease, send the result; `close` | loop, store |
| Snapshot lease (`beginSnapshot`) | one atomic flag | acquire, release once | loop, worker, connections |
| Control server (`internal/control/control.go`) | socket path, listener, client slots, one goroutine per connection | take over the path, accept, refuse, parse, `Ask`, stream, drain | loop (query queue, unbuffered reply) |
| Control client and snapshot command (`internal/control`, `internal/capture`) | a temporary file | copy the stream, validate, link | server, capture container |
| Daemon and capture commands (`internal/cli`) | context, result channels | start, wait for the first to end, cancel, join, release the sensors | loop, server |
| Recorder (`internal/recorder/recorder.go`) | segments of raw data, roll-ups, byte account | `Advance`, `Event`, `Metric`, compaction, `SnapshotWindow` | loop only |
| Automatic store (`internal/autocapture/store.go`) | a directory shared by daemons, its lock file | scan, repair, stage, publish, rotate | worker; file shippers outside |
| Capture container (`internal/capture`) | files and streams | write, validate, link, sync | store, server, CLI |
| Sensors, kernel side (`bpf/`) | per-CPU aggregates, request and enqueue times, detail budgets | tracepoint handlers | ring buffer, maps |
| Sensors, user side (`internal/sensor`) | previous aggregates, ring readers | `Open`, `Start`, `Snapshot`, prune, decode, `Close` | loop, kernel |
| Process metadata (`internal/process`) | an LRU cache | `Enrich` | `/proc`, reader |
| Clock tracker (`internal/app/clock*.go`) | the last offset of the clocks | sample, observe | loop |
| Analyzer (`internal/analyzer`) | none between calls | summaries, coincidences, assessment | a capture |
| Configuration, terminal output, generated bindings | | pure functions | |

What is hard here: the loop must keep recording while files are written; one lease is shared by
goroutines that may abandon each other; windows move while they wait; every wakeup has to be
armed by somebody; sensors, clocks and disks fail one at a time, and shutdown may start anywhere;
handlers on several CPUs share maps without a lock while user space sweeps them; addresses, PIDs and
socket names are reused; files are published and rotated under crashes; and the verdict must not
mistake lost evidence for absence. `PROJECT.json` lists the hazards with their lines.

What makes each part correct:

* controller: metadata that the reader accepts, every trigger's interval inside the file, no
  trigger lost or counted twice, files that neither leave a gap nor overlap by more than a poll;
* loop: a pending incident always has a wakeup; a retry never replaces a collection;
* lease, worker, server: the lease is never leaked or held twice, a begun file is always
  somewhere, channel sends do not block, queries are answered, shutdown completes;
* recorder: the byte account is exact and bounded, compaction conserves counts, a snapshot holds
  exactly what is retained of its window and can be read back;
* store: quotas hold after rotation, nothing published is lost to a crash, orphans are collected;
* transfer: what the writer completes the reader accepts, and only a complete capture gets a name;
* kernel sensors: a reported latency is the latency of that request or wait; losses are counted;
* lifecycle: no map is used after its close, nothing stays open, one stuck read holds nobody;
* metadata, clocks, analyzer: a path belongs to its process and a missing one was counted, a gap is
  no clock step, a coincidence is one, and "clear" with complete evidence means that nothing was lost
  and that nothing happened which the tracepoints show.

## 2. Modules

| Module | Models |
|---|---|
| `Controller` | `autocapture.Controller`, one operator per method and per branch of `Observe`; `AutoIncident.Valid` |
| `AutoCapture` | the loop's iterations around it: select, collect, progress (extends `Controller`) |
| `AutoCaptureProofs` | inductive invariant and theorems |
| `SnapshotLease` | what the lease promises (abstract) |
| `Engine` | loop, worker, connections, server and daemon as processes; implements `SnapshotLease` |
| `EngineProofs` | inductive invariant, theorems, refinement |
| `Recorder` | the bounded history: segments, roll-ups, byte account, window selection |
| `RecorderProofs` | what the recorder keeps: inductive invariant, the account and conservation of counts |
| `SnapshotProofs` | what a snapshot of it holds (extends `RecorderProofs`) |
| `Store` | `Store.Save` system call by system call, with deaths, power loss and a shipper |
| `SnapshotTransfer` | container writer, connection, snapshot command, container reader, publication |
| `StorageProofs` | the theorems about the two rows above |
| `BlockSensor`, `SchedSensor` | handlers of `bpf/block.c` and `bpf/sched.c` against the kernel they observe |
| `DetailQuota` | the shared detail budget of `bpf/common.h`, its sweep and the poll of the counters |
| `KernelProofs` | the theorems about the two rows above |
| `SensorLifecycle` | opening, starting, failing and closing sensors under the capture command |
| `SocketOwnership` | daemons at one control socket path |
| `DaemonProofs` | the theorems about the two rows above |
| `EventDecode` | tracepoint signatures, TCP and OOM programs, the wire record and its decoding |
| `ProcessMetadata`, `ClockTracker` | cached `/proc` reads; the pair of clocks |
| `Correlation`, `Assessment` | coincidence search and verdict, each against its reference definition |
| `ObservationProofs` | the theorems about the three rows above |
| `MC*` | instances for TLC |

**Controller and AutoCapture.** State variables carry the names of the struct fields. An incident
is a record; its trigger slice, which holds at most one entry per family, is a function from
families to `[count, first, last]` with count 0 for "no entry". A trigger's reason and threshold
are determined by its family and the configuration and are left out. Times are natural numbers;
`uint64` nanoseconds since boot do not wrap. `phase` says where the loop stands:
`select -> collect -> progress -> schedule -> select`. One iteration is split only where the code
reads something the environment decides (each sensor's snapshot, the lease); `CollectSensor` observes
the last readable delta of a failed sensor before disabling it, as the code does, and ends the loop
in strict mode. `progress` is split into its early returns: `NothingPending`, `BeforeDeadline`,
`AwaitCollection`, `LeaseBusy`, `BeginWrite`. `polls`, `begun`, `recorded` and `filed` are history
variables that only the properties read: the end of the last published file, for one, is taken from the
job and not from the controller's own `lastSavedEnd`; the `deadline` field of a job is history too. Clock readings never
go back and may repeat. The lease and the outcome of a write (published, published with a rotation
error, failed) are arbitrary in this module. A clock reading that fails after a result was received
(`CompletedLost`) ends the loop without `Finish`.

**Engine.** The same loop seen from the outside. Windows are reduced to `none`, `open` and `due` (deadline
passed and collected); `Collect` allows every change of them that `Controller` allows in one collection.
Each connection goes `new -> open -> waiting -> [streaming ->] leaving -> closed`, or is `refused` when the
slots are taken; one that is over may come again, any number of times, as soon as the loop has nothing left
of it (`Forgotten`), so that a few names stand for every client there will be. The reply is a rendezvous:
`ReplyDelivered` moves loop and client together, `ReplyAbandoned` is the other case of `reply`'s select and
gives the lease back. A query's context has ended when the daemon's, the server's or its own timeout has
(`Cancelled`). `automatic.close` is two steps, because it waits for the worker between them. The loop starts
in its select: sensor startup is in `SensorLifecycle`. `dropped` is a history variable.

**Recorder.** `rec` is the `Recorder` struct and every method is an operator from one value of it to the
next, so that `Event` and `Metric` contain the `Advance`, compaction and eviction they trigger; the
actions `Query`, `Detail` and `Poll` are what the loop does with it. An event is its timestamp, a metric
its family, interval and one count that stands for all the counters, which are summed alike. A slice
carries its capacity, because that is what the byte account charges; costs and first capacities are
constants. A `for` loop that pops a queue is `Repeat`, bounded by the queue's length. The binary search
for the first segment is a filter, which is the same because the ends of sealed segments increase: that is
part of the proved invariant (`Following`). `accepted` is a history variable.

**Store.** `disk` is the directory as processes see it, `durable` what a power loss is sure to leave;
an entry names a file with its size, whether it is complete, and whether its data were synced. Every
system call of `Save` that can fail, block or be the last of its process is an action. The shipper works
without the lock, as the scan allows for: it removes a file, or replaces it by one that is no larger, with a
new or with the same time, and the rotation compares size and time before it removes. A file that is made
larger is left out; no quota could hold against it. A capture's number stands for its
name and its age, so the sorted slice of captures found is a set whose least member is the oldest; a
size is a number of units, and the total of the scan the number of units of what it lists.

**SnapshotTransfer.** A stream is the sequence of tar entries, end blocks and the trailer of the
compressed frame; the writer, the connection, the command and the reader each apply their own limits
to it. The connection may be closed after any item, and a frame may be repacked before analysis.

**BlockSensor, SchedSensor, DetailQuota.** The handlers are translated, the kernel around them is the
environment, with the serialization the kernel guarantees and no more: handlers of one request or of
one task do not overlap; requests are requeued, completed in parts, merged, and their addresses reused;
tasks wake, are preempted before they sleep, migrate and exit. A pid is not reused before the last
switch of its task. `first`, `since` and `last` are the truth that the reported numbers are compared
with. In `DetailQuota` look-up, insertion, check and charge are separate steps of each CPU, and the
sweep and the counter reads of a poll are separate steps too; the sum of the per-CPU counters is the
number of the increments made. Polls come from the timer and from queries, so two may fall into one second;
any of their look-ups may fail, which ends the polls of that sensor.

**EventDecode.** `kernel` ranges over the tracepoint signatures the loader distinguishes; each wire record
carries the truth behind it as history. **ProcessMetadata** interleaves the three reads of `Enrich` with
exits, moves and PID reuse. Each of them may fail, also for a process that is alive, and is then counted
(`failures` remembers for which key, and why) and cached as an empty path; `unified` says whether the host
has the cgroup v2 hierarchy at all, without which the path is empty and no failure. A pid is not reused
within one tick of the start-time clock, which is the identity the code has. A process that has moved may be
cached under its old cgroup id with its new path; the property accepts any path the process has had.
**ClockTracker** lets time pass, or the wall clock be set, between any two reads.

**SensorLifecycle.** Command, loop, one cleanup goroutine and one reader per sensor. The query of the command
has a collection of its own, which can fail or find the clock unreadable, with and without a reply; the command
may give up at each point. **SocketOwnership.**
Every system call of `Serve` on the path is a step, those of the deferred calls after a failed `chmod`
included, in their order (remove the name, then close); with `Supervised` no start or stop overlaps another.

**Correlation** builds the timeline as the pass goes, so that every sorted timeline within the bounds is
met; `at` is the loop's `i`, and the flag that tells block events from the others is a kind. **Assessment**
follows what happened (`happened`) and what the counters and the manifest say of it (`signals`, `manifest`,
`drops`, `missingEndpoints`); the verdict is computed in every state. `setup`, chosen once from `Setups`,
says which families the capture has, which resets the kernel's tracepoint shows (`TCPResetCoverage`: supported,
limited or unknown), whether it is automatic and how many intervals it may span. `unseen` is history: a reset
that the tracepoint does not show. It changes nothing that is recorded, and no verdict can exclude it; what can
be demanded is that a report under which it may have happened says so, and that an unknown coverage never
counts as complete evidence.

**Parts.** `MCStorage`, `MCKernel`, `MCDaemon` and `MCObservation` check several components
in one run. They share no state, so a variable `part`, chosen by `MCInit` and never changed, says which one
a behaviour is about; the others stay in an initial state. Every component is extended, not copied, so a
run checks the very definitions that the theorems name. Where a component is checked in more than one
configuration, the others are instances over the same variables that only lend their actions: the window
configuration of `Recorder` in `MCRecorder`, the non-strict and the one-family configuration of
`AutoCapture` in `MCAutoCapture`, and the three of `DetailQuota` in `MCKernel`. The assumptions of every
component and configuration are stated by the `ASSUME` of the MC module.

**Mutants.** Operators marked *Mutant* are variants of the definition that follows them with one
plausible mistake; replacing the definition by its mutant makes TLC report the property that
`PROJECT.json` pairs with it. They are used by nothing else.

## 3. What the runs check

| Run | Properties | Instance |
|---|---|---|
| `auto_capture` | `TypeOK`, `JobValid`, `TriggersInWindow`, `TriggersAccounted`, `WakeupsSound`, `OneIntervalOverlap`, `EndsAtFirstPoll`, `NoIntervalBetweenFiles`, `SavedEndAdvances` | before 3, after 2; *windows*: two families, strict, clock to 7; *degraded*: two families, not strict, clock to 5; *backlog*: one family, strict, clock to 9 |
| `engine_safety` | `LeaseExact`, `WriteAccounted`, `SendsNeverBlock`, `ReplyHasReceiver`, `CleanExit` | 3 connections, 2 slots, query queue of 1 |
| `engine_liveness` | `LeaseSpec`, `DueIsWritten`, `ShutdownCompletes` | automatic captures and one connection at a time, any number of them |
| `engine_clients` | `ClientServed` | manual snapshots only: 2 connections at a time, any number of them, 1 slot, query queue of 1 |
| `recorder` | `HistorySound`, `RollupsLast`, `SnapshotSound` | budget 12, history 3, roll-ups of 3 ticks, clock to 5; *polls*: two sensors, segments of 1 tick; *window*: one sensor, segments of 2 ticks, events up to 3 ticks late |
| `storage` | `StorageBounded`, `PublicationDurable`, `LimitsAgree`, `TransferAtomic` | *store*: 2 daemons, quota of 2 files and 3 units, up to 3 captures left by an earlier configuration, 2 saves, 2 faults; *transfer*: up to 2 segments of 2 or 3 units, 7 limit settings at each end |
| `kernel` | `LatencyTruthful`, `WaitsTruthful`, `BudgetsSound`, `LossAccounted`, `SlotsSuffice` | *block*: 2 addresses, map of 1, 2 allocations, clock to 3; *sched*: 3 tasks, 2 CPUs, map of 2, clock to 2; *quota*: 2 CPUs, 2 details a second, map of 2, 3 anomalies, clock to 3; *losses*: map of 1, 2 anomalies, clock to 2; *wide*: 1 detail a second, 1 active CPU, map of 6, clock to 9 |
| `daemon` | `ResourcesSafe`, `LoopReturns`, `CaptureEnds`, `BusySocketKept`, `StaleSocketRecovered` | *capture* and *blocking*: 2 sensors, 3 failures, strict or not; *socket*: 4 daemons, supervised |
| `observation` | `DecodeTruthful`, `MetadataTruthful`, `ClockSound`, `CoincidenceExact`, `VerdictSound` | *decode*: ring of 2, 3 events; *metadata*: 1 pid, 2 paths, cache of 2, clock to 6; *clock*: steps of -5, -1, 2 and 5 around a threshold of 2, clock to 6; *pairs*: 5 events at 3 times; *verdict*: block I/O and OOM over 2 intervals in an automatic capture, TCP in a manual one over 3 with full reset coverage, 4 with limited and 2 with unknown |
| `engine_result` | `ResultReported` (violated) | 1 connection |
| `recorder_select` | `AggregatesSelectable` (violated) | one sensor, budget 8 |
| `socket_overlap` | `BusySocketKept` (violated) | 3 daemons, not supervised |

What the larger properties say, by their conjuncts:

* `TriggersAccounted`: no trigger is lost, doubled or miscounted when incidents join, queue, merge and are
  written. `WakeupsSound`: back in the select the timer is armed for the pending window, and as a retry only
  when nothing is left to collect.
* `HistorySound`: the account equals the bytes held and never exceeds the budget after an operation; every
  accepted count is retained exactly once or was evicted. `SnapshotSound`: every window that can be asked
  for yields a capture the reader accepts, with exactly the retained contents.
* `StorageBounded`: after a successful save the quotas hold, failed rotations do not let files accumulate,
  no orphaned partial survives the next scan. `PublicationDurable`: a final name holds a complete capture, a
  partial in use is not removed, older captures are removed only for one that is durable, and a reported
  capture survives a power loss.
* `LimitsAgree`: a capture completed by the writer is accepted under the same limits, and the reader never
  decodes past its own. `TransferAtomic`: the destination changes only by linking a complete and accepted
  capture to a free name.
* `LatencyTruthful`, `WaitsTruthful`: latency, bytes and waits are those of the request or task they are
  reported for; one that is not reported has an excuse that was counted; the maps do not leak.
* `BudgetsSound`: a second exceeds its quota by at most one detail per other CPU, which `common.h`
  documents, and normal details leave the critical share alone; a budget in use is neither reset nor swept,
  and an expired one does not outlive the next complete sweep. `SlotsSuffice`: with the slots `common.h`
  provides for the polls, failed sweeps included, the current second always finds one. `LossAccounted`:
  every anomaly is submitted, suppressed or counted as lost, and the deltas of successive polls add up to
  the counters.
* `ResourcesSafe`: no closed map is used, every path releases everything, a sensor reports an error only
  when a read failed, and what is saved had sensors behind it.
* `DecodeTruthful`: endpoints, provenance, family and victim of a decoded event are those of the kernel's
  event, or absent; counts are exact on every signature. `MetadataTruthful`: a path is one its process has
  had; on the unified hierarchy a missing one was counted; and a process that neither moves nor exits has
  exactly its path, unless a read failed, the path exceeds the limit or the host has no such hierarchy.
  `ClockSound`: the loop's time does not go back; a step beyond the threshold by more than the sampling
  error is found, and none below it by more is reported.
* `CoincidenceExact`: the result is the first pair of the quadratic definition, and the indexes hold the
  latest event per key of the window. `VerdictSound`: no clear signal with complete evidence where the
  tracepoints showed something, no complete evidence where something was lost or reset coverage is unknown,
  a note where a reset may not be shown, critical events always shown, counts are lower bounds.
* `DueIsWritten`: a due window is handed to the writer, or the recorder stops, unless manual snapshots hold
  the lease again and again. `ClientServed`, `ShutdownCompletes`: every accepted connection is answered and
  closed, and shutdown joins everything, from wherever it starts.

Bounds. `MaxTime` bounds a clock and with it the number of polls. In `AutoCapture` the post-window is two
ticks, so that a waiting window can be pushed out after its first complete poll. 7 ticks let a window open,
end and be written, and a second one queue, merge and be written (*windows*); 5 let a file be written and
another window open after a sensor has failed (*degraded*); 9 make room for a waiting window and what
follows it (*backlog*). A post-window of zero is left to the theorems. `MaxCount` is 1: a delta has a
trigger or not, and the counters are sums. Three connections are the fewest for which one streams, one waits
behind it and one is refused; they are interchangeable, so the safety run uses symmetry, as do the store's
daemons. The liveness runs divide the graph, which is too large as a whole: `engine_liveness` has one
connection at a time, which competes with the automatic writer and comes again and again; `engine_clients`
has two and no automatic captures (`ManualSpec`), so that slots and query queue are full and a cancelled
query stays queued ahead of a live one. In the recorder a segment is one or two ticks and a roll-up bucket
three; five ticks make several segments in two buckets, and with a history of three a sealed segment, a
closed roll-up and the active one all age out in *polls*. The budget is a few segments, so that metrics
chain into one roll-up interval, roll-ups are evicted and metrics dropped. The first slice of metrics has
room for every sensor (`NumFamilies <= MetricCapacity`): the code starts with a capacity of 4 for its four
families, and the proof of the budget needs it. `MaxDrops` is 1: delivering more events to a full recorder
only counts them. The store starts within or over its quotas; two saves and two faults allow a death in one
save, its repair by the next daemon, and a power loss or a shipper beside it. Segment bodies fill a tar
block exactly or leave padding. The block map of one entry overflows with two requests; one address is
reused. Two CPUs race for one detail, and the sweep for the second they charge. Four daemons make a start
over a live one, a kill, a recovery and another start. `Word` is small, so that the unsigned subtraction of
the sweep would wrap in the first seconds. Deadlock checking is off in `kernel`, `daemon`, `observation` and
`socket_overlap`, where a behaviour ends when the bound on events is reached or every process has finished;
the other runs keep it, and a stopped daemon stutters through `Terminated`.

Views. `kernel` and `observation` have a VIEW, by part, that identifies states no later step and no
property can tell apart. In `kernel` request addresses, tasks and CPUs are interchangeable, so the view
keeps the bag of what each looks like; counters that no handler reads are left out of the parts that check
no property of them. In both runs a history variable that only records the last outcome (`last`, `switched`,
the metadata's `out`) counts by whether the invariant accepts it; the clock's `seen` needs no place,
since `ClockSound` is checked on the step that sets it. In `observation` the cgroups a process has had
are kept while something still refers to it, the wall clock as its difference from the last sample, and
a count that is only compared with zero by that comparison.

Fairness. `Engine!Fairness`: Go's `select` picks uniformly among the ready cases, so a case that is ready
again and again is taken: strong fairness for `Wake`, `Completed`, queries and cancellation, and for a
connection's send into the query queue (channel senders queue in order; a connection that never sends its
request is ended by its deadline, which is `BadRequest`). Everything else needs only that runnable
goroutines run: weak fairness. Save is assumed to return: its context has a timeout, but a file-system call
stuck in the kernel is not interruptible, and the code only logs that case. Nothing is assumed of clients,
signals, query timeouts or failures. No fairness gives the automatic writer its turn at the lease: it does
not queue, it tries again on its retry timer, and manual snapshots that keep coming can win each time. That
is what the code does, so `DueIsWritten` has the premise that they eventually let go (`ManualHolds`). In
`SensorLifecycle` the loop's `LoopDone` and `Asking` are cases of a select and strongly fair, command and
loop are weakly fair; reads of `/proc` return in *capture* only (`CaptureEnds`), and `LoopReturns` is
checked in *blocking* too, where neither readers nor cleanups are assumed to move. `SocketOwnership` assumes
that a daemon in `Serve` runs; a kill is always possible.

### Findings

`engine_result` shows the one path on which a write result is lost: the loop takes the result
from the channel, the clock reading that follows fails, and the loop returns before `auto.finish`;
`automatic.close` then finds the channel empty, although it drains it so as not to lose that report.
The lease was released by the worker before, so nothing else is affected (`CleanExit`, `LeaseExact`).

`recorder_select` shows a retained aggregate that no snapshot can contain. A poll that seals a segment
records its delta in the next one, so the delta starts before the segment that holds it. The first segment
therefore has no metrics; when it is compacted there is no roll-up to remember its start, `RetainedFromNS`
moves to the second segment and `SnapshotWindow` cuts the window there, although `compactOldest` promises
that the aggregate intervals of compacted details "remain available". The next compaction makes a roll-up
with the delta's start and repairs it.

`socket_overlap` shows two daemons that start together without a supervisor: the probe of one falls between
the other's bind and listen, is refused, and the removal that follows takes the name from a socket that is
served by then. The test `TestBusySocketCannotBeReplaced` requires that a live socket keep its name. With
starts and stops one after another, which a service manager provides, the property holds (`daemon`).

## 4. What is proved

Every theorem holds for every value of the constants under the named assumption of its module, and says of
the specification what the run says of one instance. The assumptions are what configuration validation
or the platform enforces: `ConfigAssumption` (before is positive, after is not negative, sources are known
families) and `LoopAssumption`; `EngineAssumption`, `RecorderAssumption`, `StoreAssumption`,
`TransferAssumption`, `BlockAssumption`, `SchedAssumption`, `DetailAssumption`, `LifecycleAssumption`,
`SocketAssumption`, `DecodeAssumption`, `ClockAssumption`, `MetadataAssumption`, `CorrelationAssumption` and
`AssessmentAssumption` (limits, capacities and bounds are natural numbers, positive where the code divides by
them or needs one; warning thresholds do not exceed critical ones; a segment fits the recorder's budget and
its first metrics slice every sensor; a container may hold an entry besides its manifest and trailer; seconds fit
their word; the set of CPUs is finite); and those that say that a nil value is no incident, job, time,
roll-up, daemon or path. The bounds on time, events and failures are constants like the others: a theorem
holds for each of them, so for every finite behaviour.

**AutoCaptureProofs.** None of the window properties is inductive: they speak of a file being written,
and what it will look like was decided polls ago. `IInv` adds
`PollsOK` (collections run over disjoint intervals that tile the time up to `previous`),
`WindowsOK` (each window was opened by a poll, each trigger starts with a poll that ended between the
window's detection and the trigger's last interval, and the remembered poll is the first at or past
the end; if none is remembered, none but the running one has reached it) and
`BoundariesOK` (what waits was detected at or after, and ends after, what is being written and what was
saved; and the controller's `lastSavedEnd` is the end of the last file that was published, also when an error
came with it). The interesting step is `BeginWrite`: a straddling trigger begins with a poll that ends at or
after the boundary, polls are disjoint and the boundary is itself the end of a poll or the lookback, so
at most one poll crosses it. From `IInv`: `TypeCorrect`, `MetadataValid`, `EvidenceSelected`,
`OverlapBounded`, `FixedEnd`, `NoGap`, `EndsIncrease`. `NoTriggerLost` (`TriggersAccounted`) and
`WakeupNeverLost` (`WakeupsSound`) are inductive relative to `IInv`: the first by what `WithTrigger` adds to an
incident's total, the second because a due window has a complete poll (`DueIsReady`), so a retry never stands
for a collection.

**EngineProofs.** The types of the goroutines' state are not among the properties of the runs; they are
proved (`TypeCorrect`). `IInv` states lease and write accounting without sets of holders (`LeaseFlat`,
`WriteFlat`), and adds that the loop replies to a client (`ReplyOK`) and the order in which goroutines
stop (`StopOrder`: a stopped loop has joined its worker and emptied the channels, a finished server has
no handler). From it: `LeaseNeverLeaked`, `WriteNeverLost`, `ChannelsNeverBlock`,
`ExitIsClean`. `QueriesExact` (`ReplyHasReceiver`) adds `QueueOK`: the query queue has no duplicates
and holds clients that wait, have given up or outlive the loop, and a client that waits is in it or
being answered. `ImplementsLease` maps every step of the daemon to a step of
`SnapshotLease` or a stutter, through `OwnerFacts`, which says what the refinement mapping
`LeaseOwner` is in each case.

**RecorderProofs.** `RecorderInv` has two halves. The books (`Books`): the account is the sum of what the
segments hold (`Accounted`), each segment's bounds enclose its contents, roll-ups, sealed segments and the
active one end one after another (`Following`). The chronicle: all retained aggregates in the order of
the segments, together with those of a segment that is just being folded (`flight`), never overlap within a family
(`Ordered`), count exactly the accepted deltas they cover (`Counted`), cut no delta in two (`Aligned`), and
miss none that is younger than the history unless a roll-up was evicted (`Complete`). Both hold between
any two calls inside `Advance`, `Event` and `Metric`, so each helper has a lemma that it keeps `Sound`. The
difficulty is the budget: `Metric` makes room first and compaction itself allocates, a roll-up and its slice. It
holds because folding never costs more than it frees, and that because a roll-up has at most two aggregates
of one family: those of a family are interrupted at most once (`Unbroken`). A sensor that fails delivers nothing
afterwards, and a metric is dropped only when the active segment alone leaves no room for it (`Jammed`), by which time
everything older has been evicted (`Contiguous` is what is known of that segment). So its slice grows at
most once, to twice the first capacity (`Roomy`). From it `HistoryKept`, and with the loop that pops roll-ups last
`DetailBeforeRollups`.

**SnapshotProofs.** `SnapshotsFaithful` follows from `RecorderInv` without another invariant. What is gathered
from a list of segments is gathered from its parts (`GatherConcat`); a segment that is skipped by the search, by
its bounds or as outside has nothing inside the window, and one that is copied whole has nothing outside; and
a window whose start was moved back to an aggregate that crosses it contains that aggregate, which ends past
the requested start, so `aggregateOnlyUntil` says so.

**KernelProofs.** `SchedInv` relates the map to the scheduler: for a queued task whose wait was recorded the
map holds the start of that wait, and otherwise, if anything, a later time (`WaitsKnown`); a running task is
the current one of exactly one CPU (`OnCpu`). `BlockInv` does the same for requests (`SlotOK`): an entry
belongs to the present generation of its address, its start is not before the first issue, and equals it
when the request was tracked throughout. A full map is the counted excuse in both. From them
`SchedTruthful`, `BlockTruthful`.

For the budgets, `BudgetInv` says that handlers in flight are recent (`HandlersRecent`), that the
sweep only holds seconds that no handler can still charge (`SweepOK`), that a budget equals what was
admitted on it (`Charged`), and that a second without a budget is over or has admitted nothing
(`Unspent`). `QuotaRoom` counts the CPUs that have passed the check and not yet charged: what was admitted
plus those stays within the quota and one per other CPU. `SlotsInv` (`SweepDebt`) bounds how far the map reaches
back by the last complete sweep and the sweeps missed since. From these `QuotaEnforced`, and
`SlotsNeverRunOut`: with the slots `common.h` provides (`Provisioned`), no detail is lost to a full map. The other
parts of `kernel` have fewer slots on purpose, so the run shows that one of *wide* (`SlotsSuffice`). `LossInv` (a
poll has seen at most what was counted, and reported at most what it saw) gives `NoSilentLoss`.

**DaemonProofs.** `LifeInv` says which resources a sensor holds at each stage of its cleanup
(`ResourcesOK`), what the loop may touch while it starts and while it serves (`Starting`, `Serving`,
`Attached`), how command and loop phases fit together (`Phases`), which sensors stand behind what is saved
(`Covered`) and what is left at the end (`Ended`). From it `ResourcesKept`.

`SocketKept` needs `Supervised`; without it the run `socket_overlap` has the counterexample. `SInv` says
that at most one daemon is starting or stopping (`OneBusy`) and what that daemon knows of the path at each
of its system calls (`Claim`): what it removes is not listened on, where it listens there is nothing, and
while it stops nobody serves.

**StorageProofs.** `StoreInv`: who holds the lock is the only one inside `Save`, published names are
complete and synced, the replacement is durable before anything is removed, and a reported capture stays
until rotation or the shipper takes it; this gives `CapturesDurable`. `DirectoryBounded` needs `QuotaInv`
beside it: every published name is listed with a size that it does not exceed, still to be examined by the
scan, or the Save's own; units of what is listed are counted as the cardinality of a set of (name, unit)
pairs, which makes adding and removing a file a lemma about finite sets. TLC checked `QuotaInv` on the
*store* part before it was proved.

The transfer rests on `TransferInv`: everything sent, copied or published consists of items of the written
stream, and the reader has consumed a prefix of them in their places; the items are distinct, so the copy of a
stream that lost its end is never accepted, whatever the reader skips. That is `TransferPublishesWhole`.
`LimitsInv` adds what the writer's total is worth, the sum of the costs of the entries sent (`WriterOK`), that
the copy loses nothing of a completed stream without an excuse (`CopyOK`), and how far a reader can go
(`DecodedOK`); so what fits the writer's limits fits those of a reader that are no narrower (`TransferLimitsAgree`).

**ObservationProofs.** `EventsTruthful` rests on `DecodeInv`: the ring holds only records that tell the
truth once `normalize` has decoded them (`Records`, `Told`), the loader's constants fit the kernel
(`LoadedOK`), and every tracepoint is counted once (`CountsOK`). The work is in `EndpointsFilled`, which
says what `record` leaves in the wire record for every socket and packet, and in `TcpTold` and `PlainTold`,
which decode it. `ClockTruthful` is the action property `ClockSound`, from `ClockInv`: the wall reading of a
sample lies between the two boot readings around it (`Bracketed`), samples are in order, and attempts are
bounded. `PathsOfTheirProcess` rests on `MetadataInv`: what the ring holds, what is cached and what `Enrich`
has read so far each name a process with a path it has had, or with none and the reason counted (`History`,
`Ring`, `Cache`, `Enriching`, `HandedOn`). `FirstPairFound` rests on `PassInv`: the queue holds the visited
events that have a key, in order, and gave up only those out of the window, and each index names the
greatest live position of its key; so the map lookup finds a partner whenever the quadratic search would.
`VerdictNeverMisleads` rests on `VerdictInv`: a summary counts no more than happened (`Counted`), covers no
more than the window (`Coverage`), and what it misses is excused by a loss, a drop, a compaction or a failed
sensor that the assessment sees (`Explained`); a reset is unseen only where the kernel's coverage is not
known to be full.

The inductions over queues and slices avoid the library's induction theorems, which take
the formula as a parameter that no backend instantiates. They are arguments by a least counterexample: the set
of the rounds for which a claim fails has a least element, by the well-foundedness of `<` (`Least` in
`RecorderProofs`), and the round before it gives the contradiction.

Only model-checked: liveness, which needs fairness and ENABLED, outside the prover. That is `DueIsWritten`,
`ClientServed`, `ShutdownCompletes` and the liveness part of `LeaseSpec` (its safety part is
`ImplementsLease`) in `engine_liveness` and `engine_clients`, and `LoopReturns`, `CaptureEnds` and
`StaleSocketRecovered` in `daemon`. And only TLC shows the three violations.

## 5. Not modelled, and the plan

Left out: byte formats and the JSON of a segment, the response header and protocol version, rendering,
colours, flags and configuration files (their constraints appear as assumptions on constants), attaching
eBPF programs, generated bindings. These transform data without state, order or failure beyond what the
modules have. Also left out: the health report, percentiles and rankings of the analyzer, histogram
buckets, argument discovery of the block program, detection of reset coverage, map sizing, the back-off
after a failed accept, ownership checks and the free-space floor of the store.

What could follow: `AutoCapture` shown to implement the windows of `Engine`, which now are arbitrary there (`Collect`
allows every change); the write outcome of `Store` and the lease of `Engine` in place of the arbitrary ones of
`AutoCapture`; and the parts listed above.
