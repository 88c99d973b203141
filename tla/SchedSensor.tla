---------------------------- MODULE SchedSensor ----------------------------
(***************************************************************************)
(* The scheduler sensor (bpf/sched.c): how long a runnable task waits for  *)
(* a CPU.  The handlers keep, per pid, when its wait began.                *)
(*                                                                         *)
(* The scheduler is the environment.  Its run-queue locks serialize the    *)
(* events of one task; a task sets its own state before it sleeps, may be  *)
(* preempted or woken before it does, and runs on after its exit event     *)
(* until its last switch.  A pid is not reused before that switch.         *)
(***************************************************************************)
EXTENDS Integers, FiniteSets

CONSTANTS
    Tasks,
    Cores,            \* the CPUs
    IdleTask,         \* pid 0, the idle task of every CPU
    MaxRunnable,      \* max_entries of runnable
    SlowWait, CriticalWait,  \* the thresholds
    MaxClock          \* bound: the clock

(* What the configuration guarantees.                                      *)
SchedAssumption ==
    /\ IdleTask \notin Tasks /\ MaxRunnable \in Nat /\ MaxClock \in Nat
    /\ SlowWait \in Nat /\ CriticalWait \in Nat /\ SlowWait <= CriticalWait

VARIABLES
    clock,     \* bpf_ktime_get_ns
    task,      \* the scheduler's tasks
    curr,      \* the task each CPU runs
    runnable,  \* the map: pid to the start of its wait
    counters,  \* the counters of struct stats that this sensor uses
    switched   \* history: what the last switch said of the task it ran

schedVars == <<clock, task, curr, runnable, counters, switched>>

\* sleepy: __state is not TASK_RUNNING; since: the start of the present wait;
\* tracked: the sensor was attached and had room when it began.
Gone == [st |-> "gone", sleepy |-> FALSE, exiting |-> FALSE, since |-> 0, tracked |-> TRUE]
Attached(st) == [Gone EXCEPT !.st = st, !.tracked = FALSE]

(* The sensor is attached to a live system.                                *)
SchedInit ==
    /\ clock = 0
    /\ task \in [Tasks -> {Gone, Attached("queued"), Attached("blocked"),
                           [Attached("queued") EXCEPT !.sleepy = TRUE]}]
    /\ curr = [c \in Cores |-> IdleTask]
    /\ runnable = [t \in {} |-> 0]
    /\ counters = [count |-> 0, anomalies |-> 0, critical |-> 0, tracking_failures |-> 0]
    /\ switched = [kind |-> "none"]

-----------------------------------------------------------------------------
(* The handlers.                                                           *)

Begun(m, t, v) == [x \in DOMAIN m \cup {t} |-> IF x = t THEN v ELSE m[x]]
Ended(m, t) == [x \in DOMAIN m \ {t} |-> m[x]]

Room(t) == t \in DOMAIN runnable \/ Cardinality(DOMAIN runnable) < MaxRunnable

(* BPF_NOEXIST: a wait that has begun is kept.                             *)
enqueued(t) == IF t \notin DOMAIN runnable /\ Room(t) THEN Begun(runnable, t, clock) ELSE runnable

Failed(t) == IF Room(t) THEN 0 ELSE 1

enqueue(t) ==
    /\ runnable' = enqueued(t)
    /\ counters' = [counters EXCEPT !.tracking_failures = @ + Failed(t)]

staysOnQueue(t, preempt) == preempt \/ ~task[t].sleepy

(* Mutant: a switch-out keeps the start an earlier wakeup left.            *)
switchedOutKeeping(t, preempt) ==
    IF t = IdleTask THEN runnable
    ELSE IF ~staysOnQueue(t, preempt) THEN Ended(runnable, t) ELSE enqueued(t)

(* The prev half of switch_task: a switch-out starts a fresh wait, a       *)
(* blocked task has none.                                                  *)
switchedOut(t, preempt) ==
    IF t = IdleTask THEN runnable
    ELSE IF ~staysOnQueue(t, preempt) THEN Ended(runnable, t)
    ELSE IF Room(t) THEN Begun(runnable, t, clock) ELSE runnable

Lost(t, preempt) ==
    IF t # IdleTask /\ staysOnQueue(t, preempt) THEN Failed(t) ELSE 0

Measured(s, latency) ==
    [s EXCEPT !.count = @ + 1,
              !.anomalies = IF latency >= SlowWait THEN @ + 1 ELSE @,
              !.critical = IF latency >= CriticalWait THEN @ + 1 ELSE @]

(* The next half, on the map and the counters the prev half left.          *)
switchedIn(t, map, s) ==
    IF t = IdleTask \/ t \notin DOMAIN map
    THEN /\ runnable' = map
         /\ counters' = s
         /\ switched' = IF t = IdleTask THEN [kind |-> "none"]
                    ELSE [kind |-> "missed", tracked |-> task[t].tracked]
    ELSE /\ runnable' = Ended(map, t)
         /\ counters' = Measured(s, clock - map[t])
         /\ switched' = [kind |-> "measured", tracked |-> task[t].tracked,
                     exact |-> map[t] = task[t].since, fresh |-> map[t] >= task[t].since]

switch_task(preempt, prev, next) ==
    switchedIn(next, switchedOut(prev, preempt),
               [counters EXCEPT !.tracking_failures = @ + Lost(prev, preempt)])

exit_task(t) == runnable' = Ended(runnable, t) /\ UNCHANGED counters

-----------------------------------------------------------------------------
(* The scheduler and the clock.                                            *)

SchedTick == clock < MaxClock /\ clock' = clock + 1 /\ UNCHANGED <<task, curr, runnable, counters, switched>>

\* wakeup and wakeup_new of a task that was not runnable.
Wake(t) ==
    /\ task[t].st \in {"gone", "blocked"}
    /\ enqueue(t)
    /\ task' = [task EXCEPT ![t] = [Gone EXCEPT !.st = "queued", !.since = clock, !.tracked = Room(t)]]
    /\ UNCHANGED <<clock, curr, switched>>

\* wakeup of a task that is on a run queue or a CPU but about to sleep.
WakeAgain(t) ==
    /\ task[t].st \in {"queued", "running"} /\ task[t].sleepy
    /\ enqueue(t)
    /\ task' = [task EXCEPT ![t].sleepy = FALSE]
    /\ UNCHANGED <<clock, curr, switched>>

PrepareToSleep(t) ==
    /\ task[t].st = "running" /\ ~task[t].sleepy
    /\ task' = [task EXCEPT ![t].sleepy = TRUE]
    /\ UNCHANGED <<clock, curr, runnable, counters, switched>>

Exit(t) ==
    /\ task[t].st = "running" /\ ~task[t].exiting
    /\ exit_task(t)
    /\ task' = [task EXCEPT ![t].exiting = TRUE]
    /\ UNCHANGED <<clock, curr, switched>>

\* The state of a task that leaves its CPU.  An exiting task that sleeps is
\* treated as gone: if it wakes, it is as a new task to the sensor.
OffCpu(t, preempt) ==
    IF staysOnQueue(t, preempt)
    THEN [task[t] EXCEPT !.st = "queued", !.since = clock, !.tracked = Room(t)]
    ELSE IF task[t].exiting THEN Gone ELSE [task[t] EXCEPT !.st = "blocked"]

Switch(c, preempt, next) ==
    LET prev == curr[c] IN
    /\ prev # next /\ (prev = IdleTask => ~preempt)
    /\ next # IdleTask => task[next].st = "queued"
    /\ switch_task(preempt, prev, next)
    /\ curr' = [curr EXCEPT ![c] = next]
    /\ task' = [t \in Tasks |-> IF t = prev THEN OffCpu(t, preempt)
                                ELSE IF t = next THEN [task[t] EXCEPT !.st = "running"]
                                ELSE task[t]]
    /\ UNCHANGED clock

SchedNext ==
    \/ SchedTick
    \/ \E t \in Tasks : Wake(t) \/ WakeAgain(t) \/ PrepareToSleep(t) \/ Exit(t)
    \/ \E c \in Cores, preempt \in BOOLEAN, next \in Tasks \cup {IdleTask} : Switch(c, preempt, next)

SchedSpec == SchedInit /\ [][SchedNext]_schedVars

-----------------------------------------------------------------------------
(* The map stays within its capacity; a task runs on one CPU at most.      *)
SchedTypeOK ==
    /\ clock \in 0..MaxClock
    /\ DOMAIN runnable \subseteq Tasks /\ Cardinality(DOMAIN runnable) <= MaxRunnable
    /\ \A t \in Tasks : task[t].st = "running" <=> \E c \in Cores : curr[c] = t
    /\ \A k \in DOMAIN counters : counters[k] \in Nat

(* sched.c: "Repeated wakeups must not shorten an existing runnable wait." *)
(* and "A switch-out starts a fresh wait, even after a wakeup while still  *)
(* on CPU."  A measured wait is the one that has just ended, exactly when  *)
(* its start was recorded and never longer than it.                        *)
WaitExact ==
    switched.kind = "measured" => switched.fresh /\ (switched.tracked => switched.exact)

(* A wait that began under the sensor's eyes is measured, unless the map   *)
(* was full and tracking_failures says so.                                 *)
WaitMeasured == switched.kind = "missed" => ~switched.tracked

(* "A blocked task has no runnable wait; discard any earlier wakeup": the  *)
(* map holds no blocked task, and no dead one, which nothing would remove. *)
NoLeftover == \A t \in DOMAIN runnable : task[t].st \in {"queued", "running"}

(* The wait a switch reports is the wait that has just ended, whatever     *)
(* wakeups, preemptions and exits came before, and the map neither leaks   *)
(* nor outgrows its capacity.                                              *)
WaitsTruthful == SchedTypeOK /\ WaitExact /\ WaitMeasured /\ NoLeftover
=============================================================================
