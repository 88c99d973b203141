---------------------------- MODULE KernelProofs ----------------------------
(***************************************************************************)
(* Proofs about the handlers that run in the kernel, for every number of   *)
(* tasks, CPUs and requests, every map capacity and every threshold: the   *)
(* waits the scheduler sensor measures and the latencies the block sensor  *)
(* reports are those of the waits and requests that have just ended, and   *)
(* the budgets of detail events are kept, suffice and hide no loss.        *)
(***************************************************************************)
EXTENDS BlockSensor, SchedSensor, DetailQuota, FiniteSetTheorems, TLAPS

-----------------------------------------------------------------------------
(* The scheduler sensor.                                                   *)
TaskRecords ==
    [st : {"gone", "blocked", "queued", "running"}, sleepy : BOOLEAN, exiting : BOOLEAN,
     since : Nat, tracked : BOOLEAN]

SchedStats == [count : Nat, anomalies : Nat, critical : Nat, tracking_failures : Nat]

SchedTypes ==
    /\ clock \in 0..MaxClock
    /\ task \in [Tasks -> TaskRecords]
    /\ curr \in [Cores -> Tasks \cup {IdleTask}]
    /\ counters \in SchedStats

Within(S, n) == IsFiniteSet(S) /\ Cardinality(S) <= n

WaitMap == DOMAIN runnable \subseteq Tasks /\ Within(DOMAIN runnable, MaxRunnable)

OnCpu ==
    /\ \A t \in Tasks : task[t].st = "running" <=> \E c \in Cores : curr[c] = t
    /\ \A c, d \in Cores : curr[c] = curr[d] /\ curr[c] # IdleTask => c = d

(* The map holds the start of a present wait whenever that was recorded,   *)
(* and otherwise, if anything, a later time.                               *)
WaitsKnown ==
    \A t \in Tasks :
        /\ task[t].since <= clock
        /\ task[t].st = "queued" =>
               /\ t \in DOMAIN runnable => runnable[t] >= task[t].since
               /\ task[t].tracked => t \in DOMAIN runnable /\ runnable[t] = task[t].since

SchedInv ==
    /\ SchedTypes /\ WaitMap /\ OnCpu /\ WaitsKnown
    /\ NoLeftover /\ WaitExact /\ WaitMeasured

(* A map that takes an entry only when it has room, or gives one up, stays *)
(* within its capacity.                                                    *)
LEMMA MapRoom ==
    ASSUME NEW S, NEW x, NEW n \in Nat, Within(S, n)
    PROVE  /\ x \in S \/ Cardinality(S) < n => Within(S \cup {x}, n)
           /\ Within(S \ {x}, n)
<1>1. Cardinality(S) \in Nat
  BY FS_CardinalityType DEF Within
<1>2. x \in S \/ Cardinality(S) < n => Within(S \cup {x}, n)
  BY <1>1, FS_AddElement DEF Within
<1>3. Within(S \ {x}, n)
  BY <1>1, FS_RemoveElement DEF Within
<1> QED
  BY <1>2, <1>3

(* The invariant implies the property the run checks.                      *)
LEMMA SchedImplies == SchedInv => WaitsTruthful
<1> SUFFICES ASSUME SchedInv PROVE SchedTypeOK
  BY DEF SchedInv, WaitsTruthful
<1>1. \A k \in DOMAIN counters : counters[k] \in Nat
  BY DEF SchedInv, SchedTypes, SchedStats
<1> QED
  BY <1>1 DEF SchedInv, SchedTypes, WaitMap, Within, OnCpu, SchedTypeOK

(* The counters stay natural numbers.                                      *)
LEMMA MeasuredCounts ==
    ASSUME NEW s \in SchedStats, NEW latency
    PROVE  Measured(s, latency) \in SchedStats
<1> USE DEF SchedStats
<1>1. PICK a \in Nat : a = IF latency >= SlowWait THEN s.anomalies + 1 ELSE s.anomalies
  OBVIOUS
<1>2. PICK b \in Nat : b = IF latency >= CriticalWait THEN s.critical + 1 ELSE s.critical
  OBVIOUS
<1>3. Measured(s, latency)
          = [s EXCEPT !.count = s.count + 1, !.anomalies = a, !.critical = b]
  BY <1>1, <1>2 DEF Measured
<1>4. s.count + 1 \in Nat
  OBVIOUS
<1> QED
  BY <1>3, <1>4

(* The fields of a task that is gone.                                      *)
LEMMA GoneRecord ==
    LET r == Gone
    IN  /\ r \in TaskRecords /\ r.st = "gone" /\ r.since = 0
        /\ r.sleepy = FALSE /\ r.exiting = FALSE
BY DEF Gone, TaskRecords

(* The sensor is attached to a live system.                                *)
LEMMA SchedInitial == SchedAssumption /\ SchedInit => SchedInv
<1> SUFFICES ASSUME SchedAssumption, SchedInit PROVE SchedInv
  OBVIOUS
<1> USE DEF SchedAssumption, SchedInit
<1>0. ASSUME NEW t \in Tasks
      PROVE  /\ task[t] \in TaskRecords /\ task[t].since = 0 /\ task[t].st # "running"
             /\ task[t].st = "queued" => ~task[t].tracked
  <2>1. CASE task[t] = Gone
    BY <2>1, GoneRecord
  <2>2. ASSUME NEW st \in {"queued", "blocked"}
        PROVE  LET r == Attached(st)
               IN  r \in TaskRecords /\ r.since = 0 /\ r.st = st /\ ~r.tracked
    BY GoneRecord DEF Attached, TaskRecords
  <2>3. CASE task[t] = [Attached("queued") EXCEPT !.sleepy = TRUE]
    BY <2>2, <2>3 DEF TaskRecords
  <2> QED
    BY <2>1, <2>2, <2>3
<1>1. SchedTypes
  <2>1. task \in [Tasks -> TaskRecords]
    BY <1>0
  <2> QED
    BY <2>1 DEF SchedTypes, SchedStats
<1>2. WaitMap
  <2>1. DOMAIN runnable = {}
    OBVIOUS
  <2> QED
    BY <2>1, FS_EmptySet DEF WaitMap, Within
<1>3. OnCpu
  BY <1>0 DEF OnCpu
<1>4. WaitsKnown
  BY <1>0 DEF WaitsKnown
<1>5. NoLeftover /\ WaitExact /\ WaitMeasured
  BY DEF NoLeftover, WaitExact, WaitMeasured
<1> QED
  BY <1>1, <1>2, <1>3, <1>4, <1>5 DEF SchedInv

(* A wakeup, of a sleeping task or of one about to sleep.                  *)
LEMMA SchedWake ==
    ASSUME SchedAssumption, SchedInv, NEW t \in Tasks,
           Wake(t) \/ WakeAgain(t)
    PROVE  SchedInv'
<1> USE DEF SchedAssumption, SchedInv
<1>1. /\ UNCHANGED <<clock, curr, switched>>
      /\ runnable' = enqueued(t)
      /\ counters' = [counters EXCEPT !.tracking_failures = @ + Failed(t)]
  BY DEF Wake, WakeAgain, enqueue
<1>2. PICK r \in TaskRecords :
          /\ task' = [task EXCEPT ![t] = r]
          /\ r.st \in {"queued", "running"} /\ (r.st = "running" <=> task[t].st = "running")
          /\ \/ /\ r.since = clock /\ (r.tracked => Room(t))
                /\ task[t].st \notin {"queued", "running"}
             \/ r.since = task[t].since /\ r.tracked = task[t].tracked /\ r.st = task[t].st
  <2>1. CASE Wake(t)
    <3>1. Room(t) \in BOOLEAN /\ clock \in Nat
      BY DEF Room, SchedTypes
    <3> DEFINE r == [Gone EXCEPT !.st = "queued", !.since = clock, !.tracked = Room(t)]
    <3>2. /\ r \in TaskRecords /\ r.st = "queued" /\ r.since = clock
          /\ r.tracked = Room(t)
      BY <3>1, GoneRecord DEF TaskRecords
    <3> QED
      BY <2>1, <3>2 DEF Wake
  <2>2. CASE WakeAgain(t)
    <3> DEFINE r == [task[t] EXCEPT !.sleepy = FALSE]
    <3>1. /\ r \in TaskRecords /\ r.st = task[t].st /\ r.since = task[t].since
          /\ r.tracked = task[t].tracked
      BY DEF SchedTypes, TaskRecords
    <3>2. task' = [task EXCEPT ![t] = r]
      BY <2>2 DEF WakeAgain, SchedTypes
    <3> QED
      BY <2>2, <3>1, <3>2 DEF WakeAgain
  <2> QED
    BY <2>1, <2>2
<1>3. SchedTypes'
  BY <1>1, <1>2 DEF SchedTypes, SchedStats, Failed
<1>4. WaitMap'
  BY <1>1, MapRoom DEF WaitMap, enqueued, Begun, Room
<1>5. OnCpu'
  BY <1>1, <1>2 DEF OnCpu, SchedTypes
<1>6. NoLeftover'
  BY <1>1, <1>2 DEF SchedTypes, NoLeftover, enqueued, Begun
<1>7. WaitsKnown'
  <2>1. runnable' = runnable \/ (/\ t \notin DOMAIN runnable /\ DOMAIN runnable' = DOMAIN runnable \cup {t}
                                /\ runnable'[t] = clock
                                /\ \A u \in DOMAIN runnable : runnable'[u] = runnable[u])
    BY <1>1 DEF enqueued, Begun
  <2>2. Room(t) => t \in DOMAIN runnable'
    BY <1>1 DEF enqueued, Begun
  <2>3. task[t].st \notin {"queued", "running"} => t \notin DOMAIN runnable
    BY DEF NoLeftover
  <2> QED
    BY <1>1, <1>2, <2>1, <2>2, <2>3 DEF WaitsKnown, SchedTypes, TaskRecords
<1>8. (WaitExact /\ WaitMeasured)'
  BY <1>1 DEF WaitExact, WaitMeasured
<1> QED
  BY <1>3, <1>4, <1>5, <1>6, <1>7, <1>8

(* The clock.                                                              *)
LEMMA SchedTicks ==
    ASSUME SchedAssumption, SchedInv, SchedTick
    PROVE  SchedInv'
<1> USE DEF SchedAssumption, SchedInv
<1>1. clock' \in 0..MaxClock /\ clock' = clock + 1
  BY DEF SchedTick, SchedTypes
<1>2. WaitsKnown'
  BY <1>1 DEF SchedTick, SchedTypes, TaskRecords, WaitsKnown
<1> QED
  BY <1>1, <1>2 DEF SchedTick, SchedTypes, WaitMap, OnCpu, NoLeftover,
                    WaitExact, WaitMeasured

(* What a running task does to itself.                                     *)
LEMMA SchedOther ==
    ASSUME SchedAssumption, SchedInv, NEW t \in Tasks,
           PrepareToSleep(t) \/ Exit(t)
    PROVE  SchedInv'
<1> USE DEF SchedAssumption, SchedInv
<1>1. PICK r \in TaskRecords : /\ task' = [task EXCEPT ![t] = r]
                               /\ task[t].st = "running" /\ r.st = "running"
                               /\ r.since = task[t].since
  <2> DEFINE r1 == [task[t] EXCEPT !.sleepy = TRUE]
  <2> DEFINE r2 == [task[t] EXCEPT !.exiting = TRUE]
  <2>1. /\ r1 \in TaskRecords /\ r1.st = task[t].st /\ r1.since = task[t].since
        /\ r2 \in TaskRecords /\ r2.st = task[t].st /\ r2.since = task[t].since
    BY DEF SchedTypes, TaskRecords
  <2>2. task' = [task EXCEPT ![t] = r1] \/ task' = [task EXCEPT ![t] = r2]
    BY DEF PrepareToSleep, Exit, SchedTypes
  <2> QED
    BY <2>1, <2>2 DEF PrepareToSleep, Exit
<1>2. UNCHANGED <<clock, curr, counters, switched>>
  BY DEF PrepareToSleep, Exit, exit_task
<1>3. runnable' = runnable \/ runnable' = Ended(runnable, t)
  BY DEF PrepareToSleep, Exit, exit_task
<1>4. SchedTypes'
  BY <1>1, <1>2 DEF SchedTypes
<1>5. WaitMap'
  BY <1>3, MapRoom DEF WaitMap, Ended
<1>6. OnCpu' /\ NoLeftover' /\ WaitsKnown'
  BY <1>1, <1>2, <1>3 DEF SchedTypes, OnCpu, NoLeftover, WaitsKnown, Ended
<1> QED
  BY <1>2, <1>4, <1>5, <1>6 DEF WaitExact, WaitMeasured

(* What the prev half of a switch does to the map.                         *)
LEMMA SwitchedOut ==
    ASSUME SchedAssumption, SchedInv, NEW prev \in Tasks \cup {IdleTask}, NEW preempt,
           NEW map, map = switchedOut(prev, preempt)
    PROVE  /\ DOMAIN map \subseteq Tasks /\ Within(DOMAIN map, MaxRunnable)
           /\ \A u \in Tasks \ {prev} :
                 /\ u \in DOMAIN map <=> u \in DOMAIN runnable
                 /\ u \in DOMAIN map => map[u] = runnable[u]
           /\ prev \in DOMAIN map => staysOnQueue(prev, preempt) /\ map[prev] = clock
           /\ prev \in Tasks /\ staysOnQueue(prev, preempt) /\ Room(prev)
                 => prev \in DOMAIN map
<1> USE DEF SchedAssumption, SchedInv, WaitMap
<1>1. CASE prev = IdleTask
  BY <1>1 DEF switchedOut
<1>2. CASE prev # IdleTask /\ ~staysOnQueue(prev, preempt)
  BY <1>2, MapRoom DEF switchedOut, Ended
<1>3. CASE prev # IdleTask /\ staysOnQueue(prev, preempt) /\ Room(prev)
  <2>1. /\ DOMAIN map = DOMAIN runnable \cup {prev}
        /\ \A u \in DOMAIN map : map[u] = IF u = prev THEN clock ELSE runnable[u]
    BY <1>3 DEF switchedOut, Begun
  <2>2. Within(DOMAIN map, MaxRunnable)
    <3>1. prev \in DOMAIN runnable \/ Cardinality(DOMAIN runnable) < MaxRunnable
      BY <1>3 DEF Room
    <3>2. Within(DOMAIN runnable \cup {prev}, MaxRunnable)
      BY <3>1, MapRoom
    <3> QED
      BY <2>1, <3>2
  <2> QED
    BY <1>3, <2>1, <2>2
<1>4. CASE prev # IdleTask /\ staysOnQueue(prev, preempt) /\ ~Room(prev)
  BY <1>4 DEF switchedOut, Room
<1> QED
  BY <1>1, <1>2, <1>3, <1>4

(* A switch of one CPU from prev to next.                                  *)
LEMMA SchedSwitch ==
    ASSUME SchedAssumption, SchedInv, NEW c \in Cores, NEW preempt \in BOOLEAN,
           NEW next \in Tasks \cup {IdleTask}, Switch(c, preempt, next)
    PROVE  SchedInv'
<1> USE DEF SchedAssumption, SchedInv
<1>1. PICK prev \in Tasks \cup {IdleTask} : prev = curr[c]
  BY DEF SchedTypes
<1>2. PICK map : map = switchedOut(prev, preempt)
  OBVIOUS
<1>3. PICK s : s = [counters EXCEPT !.tracking_failures = @ + Lost(prev, preempt)]
  OBVIOUS
<1>4. /\ prev # next
      /\ next # IdleTask => task[next].st = "queued"
      /\ switchedIn(next, map, s)
      /\ curr' = [curr EXCEPT ![c] = next]
      /\ task' = [t \in Tasks |-> IF t = prev THEN OffCpu(t, preempt)
                                  ELSE IF t = next THEN [task[t] EXCEPT !.st = "running"]
                                  ELSE task[t]]
      /\ clock' = clock
  BY <1>1, <1>2, <1>3 DEF Switch, switch_task
<1>5. /\ DOMAIN map \subseteq Tasks /\ Within(DOMAIN map, MaxRunnable)
      /\ \A u \in Tasks \ {prev} :
             /\ u \in DOMAIN map <=> u \in DOMAIN runnable
             /\ u \in DOMAIN map => map[u] = runnable[u]
      /\ prev \in DOMAIN map => staysOnQueue(prev, preempt) /\ map[prev] = clock
      /\ prev \in Tasks /\ staysOnQueue(prev, preempt) /\ Room(prev)
             => prev \in DOMAIN map
  BY <1>2, SwitchedOut
<1>6. /\ DOMAIN runnable' = DOMAIN map \ {next}
      /\ \A u \in DOMAIN runnable' : runnable'[u] = map[u]
  BY <1>4, <1>5 DEF switchedIn, Ended
\* The tasks.
<1>7. ASSUME prev \in Tasks
      PROVE  /\ task'[prev] \in TaskRecords /\ task'[prev].since <= clock
             /\ task'[prev].st # "running"
             /\ staysOnQueue(prev, preempt) =>
                   /\ task'[prev].st = "queued" /\ task'[prev].since = clock
                   /\ task'[prev].tracked => Room(prev)
             /\ ~staysOnQueue(prev, preempt) => task'[prev].st # "queued"
  <2>1. /\ task'[prev] = OffCpu(prev, preempt) /\ task[prev] \in TaskRecords
        /\ clock \in Nat /\ task[prev].since <= clock
    BY <1>4, <1>7 DEF SchedTypes, WaitsKnown
  <2>2. CASE staysOnQueue(prev, preempt)
    <3>1. PICK b \in BOOLEAN : b = Room(prev)
      BY DEF Room
    <3>2. task'[prev] = [task[prev] EXCEPT !.st = "queued", !.since = clock, !.tracked = b]
      BY <2>1, <2>2, <3>1 DEF OffCpu
    <3>3. /\ task'[prev] \in TaskRecords /\ task'[prev].st = "queued"
          /\ task'[prev].since = clock /\ task'[prev].tracked = b
      BY <2>1, <3>2 DEF TaskRecords
    <3> QED
      BY <2>1, <2>2, <3>1, <3>3
  <2>3. CASE ~staysOnQueue(prev, preempt) /\ task[prev].exiting
    BY <2>1, <2>3, GoneRecord DEF OffCpu
  <2>4. CASE ~staysOnQueue(prev, preempt) /\ ~task[prev].exiting
    BY <2>1, <2>4 DEF OffCpu, TaskRecords
  <2> QED
    BY <2>2, <2>3, <2>4
<1>8. ASSUME next \in Tasks
      PROVE  /\ task'[next] \in TaskRecords /\ task'[next].st = "running"
             /\ task'[next].since = task[next].since
  BY <1>4, <1>8 DEF SchedTypes, TaskRecords
<1>9. \A t \in Tasks \ {prev, next} : task'[t] = task[t]
  BY <1>4
<1>10. SchedTypes'
  <2>1. task' \in [Tasks -> TaskRecords]
    <3>1. \A t \in Tasks : task'[t] \in TaskRecords
      BY <1>7, <1>8, <1>9 DEF SchedTypes
    <3> QED
      BY <1>4, <3>1
  <2>2. s \in SchedStats
    <3>1. Lost(prev, preempt) \in Nat
      BY DEF Lost, Failed
    <3> QED
      BY <1>3, <3>1 DEF SchedTypes, SchedStats
  <2>3. counters' \in SchedStats
    <3>1. CASE counters' = s
      BY <2>2, <3>1
    <3>2. CASE counters' = Measured(s, clock - map[next])
      BY <2>2, <3>2, MeasuredCounts
    <3> QED
      BY <1>4, <3>1, <3>2 DEF switchedIn
  <2> QED
    BY <1>4, <2>1, <2>3 DEF SchedTypes
<1>11. WaitMap'
  <2>1. Within(DOMAIN map \ {next}, MaxRunnable)
    BY <1>5, MapRoom
  <2> QED
    BY <1>5, <1>6, <2>1 DEF WaitMap
<1>12. OnCpu'
  <2>1. \A d \in Cores : curr'[d] = IF d = c THEN next ELSE curr[d]
    BY <1>4 DEF SchedTypes
  <2>2. \A d \in Cores : next # IdleTask => curr[d] # next
    BY <1>4 DEF OnCpu
  <2>3. \A d \in Cores \ {c} : prev # IdleTask => curr[d] # prev
    BY <1>1 DEF OnCpu
  <2>4. ASSUME NEW t \in Tasks PROVE task'[t].st = "running" <=> \E d \in Cores : curr'[d] = t
    <3>1. CASE t = prev
      BY <1>4, <1>7, <2>1, <2>3, <3>1
    <3>2. CASE t = next
      BY <1>8, <2>1, <3>2
    <3>3. CASE t \notin {prev, next}
      BY <1>1, <1>9, <2>1, <3>3 DEF OnCpu
    <3> QED
      BY <3>1, <3>2, <3>3
  <2>5. \A d, e \in Cores : curr'[d] = curr'[e] /\ curr'[d] # IdleTask => d = e
    BY <2>1, <2>2 DEF OnCpu
  <2> QED
    BY <2>4, <2>5 DEF OnCpu
<1>13. NoLeftover'
  <2>1. ASSUME NEW t \in DOMAIN runnable' PROVE task'[t].st \in {"queued", "running"}
    <3>1. CASE t = prev
      BY <1>5, <1>6, <1>7, <2>1, <3>1
    <3>2. CASE t # prev
      BY <1>5, <1>6, <1>9, <2>1, <3>2 DEF NoLeftover
    <3> QED
      BY <3>1, <3>2
  <2> QED
    BY <2>1 DEF NoLeftover
<1>14. WaitsKnown'
  <2>1. clock \in Nat /\ clock' = clock
    BY <1>4 DEF SchedTypes
  <2>2. ASSUME NEW t \in Tasks
        PROVE  /\ task'[t].since <= clock
               /\ task'[t].st = "queued" =>
                    /\ t \in DOMAIN runnable' => runnable'[t] >= task'[t].since
                    /\ task'[t].tracked => t \in DOMAIN runnable' /\ runnable'[t] = task'[t].since
    <3>1. CASE t = prev
      BY <1>4, <1>5, <1>6, <1>7, <2>1, <3>1
    <3>2. CASE t = next
      BY <1>8, <3>2 DEF WaitsKnown
    <3>3. CASE t \notin {prev, next}
      BY <1>5, <1>6, <1>9, <3>3 DEF WaitsKnown
    <3> QED
      BY <3>1, <3>2, <3>3
  <2> QED
    BY <2>1, <2>2 DEF WaitsKnown
<1>15. (WaitExact /\ WaitMeasured)'
  <2>1. CASE next = IdleTask
    BY <1>4, <2>1 DEF switchedIn, WaitExact, WaitMeasured
  <2>2. CASE next # IdleTask /\ next \notin DOMAIN map
    <3>1. switched' = [kind |-> "missed", tracked |-> task[next].tracked] /\ ~task[next].tracked
      BY <1>4, <1>5, <2>2 DEF switchedIn, WaitsKnown
    <3> QED
      BY <3>1 DEF WaitExact, WaitMeasured
  <2>3. CASE next # IdleTask /\ next \in DOMAIN map
    <3>1. /\ map[next] >= task[next].since
          /\ task[next].tracked => map[next] = task[next].since
      BY <1>4, <1>5, <2>3 DEF WaitsKnown
    <3>2. switched' = [kind |-> "measured", tracked |-> task[next].tracked,
                   exact |-> map[next] = task[next].since, fresh |-> map[next] >= task[next].since]
      BY <1>4, <2>3 DEF switchedIn
    <3> QED
      BY <3>1, <3>2 DEF WaitExact, WaitMeasured
  <2> QED
    BY <2>1, <2>2, <2>3
<1> QED
  BY <1>10, <1>11, <1>12, <1>13, <1>14, <1>15

(* The scheduler sensor (enqueue, switch_task and exit_task of             *)
(* bpf/sched.c): the wait a switch reports is the one that has just ended, *)
(* a wait that was recorded is measured, and the map neither leaks nor     *)
(* overflows.                                                              *)
THEOREM SchedTruthful ==
    ASSUME SchedAssumption
    PROVE  SchedSpec => []WaitsTruthful
<1>1. SchedInv /\ [SchedNext]_schedVars => SchedInv'
  <2> SUFFICES ASSUME SchedInv, [SchedNext]_schedVars PROVE SchedInv'
    OBVIOUS
  <2>1. CASE UNCHANGED schedVars
    BY <2>1 DEF schedVars, SchedInv, SchedTypes, WaitMap, OnCpu, WaitsKnown,
                NoLeftover, WaitExact, WaitMeasured
  <2> QED
    BY <2>1, SchedTicks, SchedWake, SchedOther, SchedSwitch DEF SchedNext
<1> QED
  BY <1>1, SchedInitial, SchedImplies, PTL DEF SchedSpec

-----------------------------------------------------------------------------
(* The block sensor.                                                       *)
Requests ==
    [st : {"free", "queued", "issued", "done"}, born : Nat, gen : Nat, op : Ops,
     left : Nat, size : Nat, first : Nat, tracked : BOOLEAN]

Timings == [start : Nat, generation : Nat, requeued : BOOLEAN, bytes : Nat]

BlockStats ==
    [count : Nat, bytes : Nat, anomalies : Nat, critical : Nat, tracking_failures : Nat,
     unmatched : Nat, bookkeeping_completions : Nat]

(* A request the driver has seen and not completed.                        *)
Dispatched(r) == r.st = "issued" \/ (r.st = "queued" /\ r.first # 0)

(* A request by itself at time n.                                          *)
RequestOK(r, n) ==
    /\ r.born <= n /\ r.first <= n /\ r.gen \in {0, r.born}
    /\ r.st \in {"queued", "issued"} => (r.left = 0 <=> r.size = 0)
    /\ r.st = "queued" /\ r.first = 0 => r.left = r.size
    /\ r.st = "issued" => r.first # 0 /\ (r.op = "write" => r.size # 0)
    /\ r.st = "queued" /\ r.op = "write" /\ r.size = 0 => r.first = 0

(* What an entry of the map says of the request at its address.  Only a    *)
(* requeued entry outlives its request; it is then older than the next     *)
(* request there, or without a start.                                      *)
EntryOK(r, e, n) ==
    /\ e.start <= n /\ e.generation <= r.born
    /\ e.start = 0 => e.generation = 0
    /\ e.requeued /\ e.generation = 0 => e.start = 0
    /\ r.st # "done" /\ (e.requeued <=> r.st # "issued")
    /\ r.st = "queued" /\ r.first = 0 /\ r.gen # 0 => e.generation < r.gen
    /\ Dispatched(r) =>
          /\ e.generation = r.gen
          /\ e.start # 0 => /\ e.start >= r.first
                            /\ r.tracked => e.start = r.first /\ e.bytes = r.size

SlotOK(s) ==
    /\ RequestOK(req[s], now)
    /\ s \in DOMAIN starts => starts[s] \in Timings /\ EntryOK(req[s], starts[s], now)
    /\ Dispatched(req[s]) /\ req[s].tracked => s \in DOMAIN starts

BlockTypes ==
    /\ now \in 1..MaxTime /\ allocs \in 0..MaxAllocs
    /\ req \in [Slots -> Requests]
    /\ stats \in BlockStats
    /\ DOMAIN starts \subseteq Slots /\ Within(DOMAIN starts, Capacity)

Truthful ==
    LatencyExact /\ BytesExact /\ UnmatchedExcused /\ BookkeepingApart

BlockInv == BlockTypes /\ (\A s \in Slots : SlotOK(s)) /\ Truthful

(* The invariant implies the property the run checks.                      *)
LEMMA BlockImplies == BlockInv => LatencyTruthful
<1> SUFFICES ASSUME BlockInv PROVE TypeOK
  BY DEF BlockInv, Truthful, LatencyTruthful
<1>1. \A c \in DOMAIN stats : stats[c] \in Nat
  BY DEF BlockInv, BlockTypes, BlockStats
<1>2. ASSUME NEW s \in DOMAIN starts
      PROVE  starts[s].start \in 0..now /\ starts[s].generation \in 0..now
  <2>1. s \in Slots /\ req[s] \in Requests /\ now \in Nat
    BY DEF BlockInv, BlockTypes
  <2>2. /\ starts[s] \in Timings /\ EntryOK(req[s], starts[s], now)
        /\ RequestOK(req[s], now)
    BY <2>1 DEF BlockInv, SlotOK
  <2>3. starts[s].start <= now /\ starts[s].generation <= req[s].born /\ req[s].born <= now
    BY <2>2 DEF EntryOK, RequestOK
  <2> QED
    BY <2>1, <2>2, <2>3 DEF Requests, Timings
<1> QED
  BY <1>1, <1>2 DEF BlockInv, BlockTypes, Within, TypeOK

(* The fields of a free request.                                           *)
LEMMA FreeRecord ==
    ASSUME NEW b \in Nat, NEW r, r = Free(b)
    PROVE  /\ r \in Requests /\ r.st = "free" /\ r.born = b /\ r.gen = 0 /\ r.first = 0
           /\ r.op = "read" /\ r.left = 0 /\ r.size = 0 /\ r.tracked = TRUE
BY DEF Free, Requests, Ops

(* The sensor is attached while requests are in flight.                    *)
LEMMA BlockInit == BlockAssumption /\ Init => BlockInv
<1> SUFFICES ASSUME BlockAssumption, Init PROVE BlockInv
  OBVIOUS
<1>1. /\ now = 1 /\ allocs = 0 /\ starts = Empty /\ DOMAIN starts = {}
      /\ stats \in BlockStats /\ last = [kind |-> "none"]
      /\ Capacity \in Nat /\ MaxTime \in Nat \ {0} /\ MaxAllocs \in Nat
  BY DEF Init, Empty, BlockAssumption, BlockStats
<1>2. ASSUME NEW s \in Slots
      PROVE  req[s] \in Requests /\ RequestOK(req[s], 1) /\ ~(Dispatched(req[s]) /\ req[s].tracked)
  <2>1. CASE req[s] = Free(0)
    <3>1. PICK f : f = Free(0)
      OBVIOUS
    <3>2. f \in Requests /\ f.st = "free" /\ f.born = 0 /\ f.gen = 0 /\ f.first = 0
      BY <3>1 DEF Free, Requests, Ops
    <3> QED
      BY <2>1, <3>1, <3>2 DEF RequestOK, Dispatched
  <2>2. ASSUME NEW g \in {0, 1},
               req[s] = [Free(1) EXCEPT !.st = "issued", !.gen = g, !.left = 2, !.size = 2,
                                              !.first = 1, !.tracked = FALSE]
        PROVE  req[s] \in Requests /\ RequestOK(req[s], 1) /\ ~(Dispatched(req[s]) /\ req[s].tracked)
    <3>1. PICK f : f = Free(1)
      OBVIOUS
    <3>2. f \in Requests /\ f.born = 1 /\ f.op = "read"
      BY <3>1, FreeRecord
    <3>3. req[s] = [f EXCEPT !.st = "issued", !.gen = g, !.left = 2, !.size = 2, !.first = 1,
                             !.tracked = FALSE]
      BY <2>2, <3>1
    <3>4. req[s] \in Requests
      <4>1. g \in Nat
        OBVIOUS
      <4> DEFINE h == [f EXCEPT !.st = "issued", !.gen = g, !.left = 2]
      <4>2. h \in Requests
        BY <3>2, <4>1 DEF Requests
      <4>3. req[s] = [h EXCEPT !.size = 2, !.first = 1, !.tracked = FALSE]
        BY <3>3
      <4> HIDE DEF h
      <4>4. [h EXCEPT !.size = 2, !.first = 1, !.tracked = FALSE] \in Requests
        BY <4>2, Zenon DEF Requests
      <4> QED
        BY <4>3, <4>4
    <3>5. /\ req[s].st = "issued" /\ req[s].gen = g /\ req[s].left = 2 /\ req[s].size = 2
          /\ req[s].first = 1 /\ req[s].tracked = FALSE /\ req[s].born = 1
      BY <3>2, <3>3 DEF Requests
    <3> QED
      BY <3>4, <3>5 DEF RequestOK
  <2> QED
    BY <2>1, <2>2 DEF Init
<1>3. BlockTypes
  <2>1. req \in [Slots -> Requests]
    BY <1>2 DEF Init
  <2>2. Within(DOMAIN starts, Capacity)
    BY <1>1, FS_EmptySet DEF Within
  <2> QED
    BY <1>1, <2>1, <2>2 DEF BlockTypes
<1>4. \A s \in Slots : SlotOK(s)
  BY <1>1, <1>2 DEF SlotOK
<1>5. Truthful
  BY <1>1 DEF Truthful, LatencyExact, BytesExact, UnmatchedExcused,
              BookkeepingApart
<1> QED
  BY <1>3, <1>4, <1>5 DEF BlockInv

(* A step that touches one address: what has to be shown of it.            *)
LEMMA OneSlot ==
    ASSUME BlockInv, NEW s \in Slots, NEW r \in Requests, req' = [req EXCEPT ![s] = r],
           now' = now, allocs' \in 0..MaxAllocs, stats' \in BlockStats,
           DOMAIN starts' \subseteq Slots, Within(DOMAIN starts', Capacity),
           \A x \in Slots \ {s} : /\ x \in DOMAIN starts' <=> x \in DOMAIN starts
                                  /\ x \in DOMAIN starts' => starts'[x] = starts[x],
           SlotOK(s)', Truthful'
    PROVE  BlockInv'
<1>1. req' \in [Slots -> Requests] /\ \A x \in Slots \ {s} : req'[x] = req[x]
  BY DEF BlockInv, BlockTypes
<1>2. ASSUME NEW x \in Slots \ {s} PROVE SlotOK(x)'
  <2>1. /\ req'[x] = req[x] /\ (x \in DOMAIN starts' <=> x \in DOMAIN starts)
        /\ x \in DOMAIN starts => starts'[x] = starts[x]
    BY <1>1, <1>2
  <2> QED
    BY <2>1 DEF BlockInv, SlotOK
<1> QED
  BY <1>1, <1>2 DEF BlockInv, BlockTypes

(* Time passes.                                                            *)
LEMMA BlockTick ==
    ASSUME BlockAssumption, BlockInv, Tick
    PROVE  BlockInv'
<1>1. /\ now' \in 1..MaxTime /\ now' = now + 1 /\ now \in Nat
      /\ UNCHANGED <<allocs, req, starts, stats, last>>
  BY DEF Tick, BlockInv, BlockTypes, BlockAssumption
<1>2. ASSUME NEW s \in Slots PROVE SlotOK(s)'
  <2>1. SlotOK(s) /\ req[s] \in Requests
    BY DEF BlockInv, BlockTypes
  <2>2. \A a \in Nat : a <= now => a <= now + 1
    BY <1>1
  <2>3. RequestOK(req[s], now + 1)
    <3>1. req[s].born \in Nat /\ req[s].first \in Nat
      BY <2>1 DEF Requests
    <3> QED
      BY <2>1, <2>2, <3>1 DEF SlotOK, RequestOK
  <2>4. s \in DOMAIN starts => EntryOK(req[s], starts[s], now + 1)
    <3> SUFFICES ASSUME s \in DOMAIN starts PROVE EntryOK(req[s], starts[s], now + 1)
      OBVIOUS
    <3>1. starts[s].start \in Nat /\ EntryOK(req[s], starts[s], now)
      BY <2>1 DEF SlotOK, Timings
    <3> QED
      BY <2>2, <3>1 DEF EntryOK
  <2> QED
    BY <1>1, <2>1, <2>3, <2>4 DEF SlotOK
<1> QED
  BY <1>1, <1>2 DEF BlockInv, BlockTypes, Truthful, LatencyExact, BytesExact,
                    UnmatchedExcused, BookkeepingApart

(* The types and the map at one address.                                   *)
LEMMA AtSlot ==
    ASSUME BlockAssumption, BlockInv, NEW s \in Slots, NEW r, r = req[s]
    PROVE  /\ r \in Requests /\ RequestOK(r, now) /\ now \in Nat /\ now # 0
           /\ r.st \in {"free", "queued", "issued", "done"} /\ r.op \in Ops
           /\ {r.born, r.gen, r.left, r.size, r.first} \subseteq Nat /\ r.tracked \in BOOLEAN
           /\ s \in DOMAIN starts =>
                  /\ starts[s] \in Timings /\ EntryOK(r, starts[s], now)
                  /\ {starts[s].start, starts[s].generation, starts[s].bytes} \subseteq Nat
                  /\ starts[s].requeued \in BOOLEAN
           /\ Dispatched(r) /\ r.tracked => s \in DOMAIN starts
           /\ Capacity \in Nat /\ Within(DOMAIN starts, Capacity)
           /\ Within(DOMAIN starts \ {s}, Capacity) /\ (Fits(s) => Within(DOMAIN starts \cup {s}, Capacity))
<1>1. /\ r \in Requests /\ SlotOK(s) /\ now \in Nat /\ now # 0
      /\ Capacity \in Nat /\ Within(DOMAIN starts, Capacity)
  BY DEF BlockInv, BlockTypes, BlockAssumption
<1>2. /\ r.st \in {"free", "queued", "issued", "done"} /\ r.op \in Ops
      /\ {r.born, r.gen, r.left, r.size, r.first} \subseteq Nat /\ r.tracked \in BOOLEAN
  BY <1>1 DEF Requests
<1>3. s \in DOMAIN starts =>
          /\ starts[s] \in Timings /\ EntryOK(r, starts[s], now)
          /\ {starts[s].start, starts[s].generation, starts[s].bytes} \subseteq Nat
          /\ starts[s].requeued \in BOOLEAN
  BY <1>1 DEF SlotOK, Timings
<1>4. Within(DOMAIN starts \ {s}, Capacity) /\ (Fits(s) => Within(DOMAIN starts \cup {s}, Capacity))
  BY <1>1, MapRoom DEF Fits
<1> QED
  BY <1>1, <1>2, <1>3, <1>4 DEF SlotOK

(* A step without a final completion says nothing new.                     *)
LEMMA OutcomeKept == BlockInv /\ last' = last => Truthful'
BY DEF BlockInv, Truthful, LatencyExact, BytesExact, UnmatchedExcused,
       BookkeepingApart

(* Allocation reuses an address: what an entry says is older.              *)
LEMMA BlockAlloc ==
    ASSUME BlockAssumption, BlockInv, NEW s \in Slots, NEW op \in Ops,
           NEW size \in 0..2, NEW stamped \in BOOLEAN, Alloc(s, op, size, stamped)
    PROVE  BlockInv'
<1>1. PICK r0 : r0 = req[s]
  OBVIOUS
<1>2. PICK f : f = Free(now)
  OBVIOUS
<1>3. PICK gen : gen = IF stamped THEN now ELSE 0
  OBVIOUS
<1> DEFINE r == [f EXCEPT !.st = "queued", !.op = op, !.left = size, !.size = size, !.gen = gen]
<1>4. /\ r0.st = "free" /\ r0.born < now /\ req' = [req EXCEPT ![s] = r]
      /\ allocs' \in 0..MaxAllocs /\ UNCHANGED <<now, starts, stats, last>>
  BY <1>1, <1>2, <1>3 DEF Alloc, BlockInv, BlockTypes, BlockAssumption
<1>5. gen \in Nat /\ gen \in {0, now} /\ now \in Nat /\ now # 0 /\ size \in Nat
  BY <1>3 DEF BlockInv, BlockTypes
<1>6. f \in Requests /\ f.born = now /\ f.first = 0
  BY <1>2, <1>5, FreeRecord
<1>7. r \in Requests
  BY <1>5, <1>6, Zenon DEF Requests
<1>8. /\ r.st = "queued" /\ r.left = size /\ r.size = size /\ r.gen = gen
      /\ r.born = now /\ r.first = 0
  BY <1>6 DEF Requests
<1> HIDE DEF r
<1>9. RequestOK(r, now) /\ ~Dispatched(r)
  BY <1>5, <1>8 DEF RequestOK, Dispatched
<1>10. ASSUME s \in DOMAIN starts PROVE starts[s] \in Timings /\ EntryOK(r, starts[s], now)
  <2>1. /\ r0.born \in Nat /\ starts[s] \in Timings /\ EntryOK(r0, starts[s], now)
        /\ starts[s].generation \in Nat
    BY <1>1, <1>10, AtSlot
  <2>2. starts[s].generation < now
    BY <1>4, <1>5, <2>1 DEF EntryOK
  <2> QED
    BY <1>4, <1>5, <1>8, <1>9, <2>1, <2>2 DEF EntryOK
<1>11. req'[s] = r
  BY <1>4 DEF BlockInv, BlockTypes
<1>12. SlotOK(s)'
  BY <1>4, <1>9, <1>10, <1>11 DEF SlotOK
<1>13. Truthful'
  BY <1>4, OutcomeKept
<1> QED
  BY <1>4, <1>7, <1>12, <1>13, OneSlot DEF BlockInv, BlockTypes

(* A requeue marks the entry of the request and, without a time stamp to   *)
(* tell it from the next one, forgets its start.                           *)
LEMMA BlockRequeue ==
    ASSUME BlockAssumption, BlockInv, NEW s \in Slots, Requeue(s)
    PROVE  BlockInv'
<1>1. PICK r0 : r0 = req[s]
  OBVIOUS
<1> DEFINE r == [r0 EXCEPT !.st = "queued"]
<1>2. /\ r0.st = "issued" /\ requeue(s) /\ req' = [req EXCEPT ![s] = r]
      /\ UNCHANGED <<now, allocs, stats, last>>
  BY <1>1 DEF Requeue, BlockInv, BlockTypes
<1>3. /\ r0 \in Requests /\ RequestOK(r0, now) /\ now \in Nat /\ r0.first # 0
      /\ Dispatched(r0) /\ (r0.tracked => s \in DOMAIN starts) /\ Within(DOMAIN starts, Capacity)
  BY <1>1, <1>2, AtSlot DEF RequestOK, Dispatched
<1>4. r \in Requests
  BY <1>3, Zenon DEF Requests
<1>5. /\ r.st = "queued" /\ r.born = r0.born /\ r.gen = r0.gen /\ r.op = r0.op
      /\ r.left = r0.left /\ r.size = r0.size /\ r.first = r0.first /\ r.tracked = r0.tracked
  BY <1>3 DEF Requests
<1> HIDE DEF r
<1>6. RequestOK(r, now) /\ Dispatched(r)
  BY <1>2, <1>3, <1>5 DEF RequestOK, Dispatched
<1>7. /\ DOMAIN starts' = DOMAIN starts /\ \A x \in DOMAIN starts \ {s} : starts'[x] = starts[x]
      /\ s \in DOMAIN starts => starts'[s] = requeue_request(starts[s], r0.gen)
  BY <1>1, <1>2 DEF requeue
<1>8. ASSUME s \in DOMAIN starts PROVE starts'[s] \in Timings /\ EntryOK(r, starts'[s], now)
  <2>1. PICK e : e = starts[s]
    OBVIOUS
  <2>2. /\ e \in Timings /\ EntryOK(r0, e, now) /\ e.generation = r0.gen /\ e.start \in Nat
        /\ e.generation \in Nat
    BY <1>1, <1>3, <1>8, <2>1, AtSlot DEF EntryOK
  <2>3. PICK t \in Nat : t = IF r0.gen = 0 THEN 0 ELSE e.start
    BY <2>2
  <2>4. starts'[s] = [e EXCEPT !.requeued = TRUE, !.start = t]
    BY <1>7, <1>8, <2>1, <2>2, <2>3 DEF requeue_request
  <2>5. /\ starts'[s] \in Timings /\ starts'[s].requeued = TRUE /\ starts'[s].start = t
        /\ starts'[s].generation = e.generation /\ starts'[s].bytes = e.bytes
    BY <2>2, <2>4 DEF Timings
  <2> QED
    BY <1>2, <1>3, <1>5, <1>6, <2>2, <2>3, <2>5 DEF EntryOK
<1>9. req'[s] = r
  BY <1>2 DEF BlockInv, BlockTypes
<1>10. SlotOK(s)'
  BY <1>2, <1>3, <1>5, <1>6, <1>7, <1>8, <1>9 DEF SlotOK
<1>11. Truthful'
  BY <1>2, OutcomeKept
<1> QED
  BY <1>2, <1>3, <1>4, <1>7, <1>10, <1>11, OneSlot DEF BlockInv, BlockTypes

(* A request ends, or a requeued one is merged: its entry, if it has one,  *)
(* is marked as requeued.                                                  *)
LEMMA BlockRelease ==
    ASSUME BlockAssumption, BlockInv, NEW s \in Slots, Release(s)
    PROVE  BlockInv'
<1>1. PICK r0 : r0 = req[s]
  OBVIOUS
<1>2. PICK r : r = Free(r0.born)
  OBVIOUS
<1>3. /\ r0.st = "done" \/ (r0.st = "queued" /\ r0.first # 0)
      /\ UNCHANGED <<now, allocs, starts, stats, last>>
      /\ req' = [req EXCEPT ![s] = r]
  <2>1. req' = [req EXCEPT ![s] = Free(req[s].born)]
    BY DEF Release
  <2> QED
    BY <1>1, <1>2, <2>1 DEF Release
<1>4. r0.born \in Nat /\ r0.born <= now /\ now \in Nat
  BY <1>1, AtSlot DEF RequestOK
<1>5. r \in Requests /\ r.st = "free" /\ r.born = r0.born /\ r.gen = 0 /\ r.first = 0
  BY <1>2, <1>4, FreeRecord
<1>6. RequestOK(r, now) /\ ~Dispatched(r)
  BY <1>4, <1>5 DEF RequestOK, Dispatched
<1>7. s \in DOMAIN starts => starts[s] \in Timings /\ EntryOK(r, starts[s], now)
  BY <1>1, <1>3, <1>5, <1>6, AtSlot DEF EntryOK
<1>8. req'[s] = r
  BY <1>3 DEF BlockInv, BlockTypes
<1>9. SlotOK(s)'
  BY <1>3, <1>6, <1>7, <1>8 DEF SlotOK
<1>10. Truthful'
  BY <1>3, OutcomeKept
<1> QED
  BY <1>3, <1>5, <1>9, <1>10, OneSlot DEF BlockInv, BlockTypes

(* An issue: the entry of a requeued request is resumed, any other one is  *)
(* replaced, and a new one is made when the map has room.                  *)
LEMMA BlockIssue ==
    ASSUME BlockAssumption, BlockInv, NEW s \in Slots, Issue(s)
    PROVE  BlockInv'
<1>1. PICK r0 : r0 = req[s]
  OBVIOUS
<1>2. PICK fits \in BOOLEAN : fits <=> Fits(s)
  BY DEF Fits
<1>3. PICK first : first = IF r0.first = 0 THEN now ELSE r0.first
  OBVIOUS
<1>4. PICK tracked \in BOOLEAN : tracked <=> r0.tracked /\ fits
  OBVIOUS
<1> DEFINE r == [r0 EXCEPT !.st = "issued", !.tracked = tracked, !.first = first]
<1>5. /\ r0 \in Requests /\ RequestOK(r0, now) /\ now \in Nat /\ now # 0
      /\ {r0.born, r0.gen, r0.left, r0.size, r0.first} \subseteq Nat /\ r0.tracked \in BOOLEAN
      /\ r0.st = "queued" /\ (r0.op = "write" => r0.size > 0)
  BY <1>1, AtSlot DEF Issue
<1>6. first \in Nat /\ first # 0 /\ first <= now
  BY <1>3, <1>5 DEF RequestOK
<1>7. r \in Requests
  BY <1>5, <1>6, Zenon DEF Requests
<1>8. /\ r.st = "issued" /\ r.born = r0.born /\ r.gen = r0.gen /\ r.op = r0.op
      /\ r.left = r0.left /\ r.size = r0.size /\ r.first = first /\ r.tracked = tracked
  BY <1>5 DEF Requests
<1>9. req' = [req EXCEPT ![s] = r] /\ UNCHANGED <<now, allocs, last>>
  <2>1. /\ UNCHANGED <<now, allocs, last>>
        /\ req' = [req EXCEPT ![s].st = "issued", ![s].tracked = @ /\ Fits(s),
                              ![s].first = IF @ = 0 THEN now ELSE @]
    BY DEF Issue, issue
  <2>2. req' = [req EXCEPT ![s] = [req[s] EXCEPT !.st = "issued",
                    !.tracked = req[s].tracked /\ Fits(s),
                    !.first = IF req[s].first = 0 THEN now ELSE req[s].first]]
    BY <1>1, <1>5, <2>1 DEF BlockInv, BlockTypes, Requests
  <2> QED
    BY <1>1, <1>2, <1>3, <1>4, <1>5, <2>1, <2>2
<1> HIDE DEF r
<1>10. RequestOK(r, now) /\ Dispatched(r)
  BY <1>5, <1>6, <1>8 DEF RequestOK, Dispatched
<1>11. req'[s] = r
  BY <1>9 DEF BlockInv, BlockTypes
<1>12. Truthful'
  BY <1>9, OutcomeKept
<1>13. stats \in BlockStats /\ allocs \in 0..MaxAllocs /\ DOMAIN starts \subseteq Slots
  BY DEF BlockInv, BlockTypes
<1>14. CASE s \in DOMAIN starts /\ resume_request(starts[s], req[s].gen)
  <2>1. PICK e : e = starts[s]
    OBVIOUS
  <2>2. /\ stats' = stats /\ starts' = [starts EXCEPT ![s] = [e EXCEPT !.requeued = FALSE]]
        /\ fits
    BY <1>2, <1>14, <2>1 DEF Issue, issue, Resumed, Fits
  <2>3. /\ e \in Timings /\ EntryOK(r0, e, now) /\ e.requeued /\ e.generation = r0.gen
    BY <1>1, <1>14, <2>1, AtSlot DEF resume_request
  <2>4. /\ DOMAIN starts' = DOMAIN starts /\ \A x \in DOMAIN starts \ {s} : starts'[x] = starts[x]
        /\ starts'[s] = [e EXCEPT !.requeued = FALSE]
    BY <1>14, <2>2
  <2>5. /\ starts'[s] \in Timings /\ starts'[s].requeued = FALSE /\ starts'[s].start = e.start
        /\ starts'[s].generation = e.generation /\ starts'[s].bytes = e.bytes
    BY <2>3, <2>4 DEF Timings
  <2>6. r0.first = 0 => e.start = 0
    BY <1>5, <2>3 DEF EntryOK, RequestOK
  <2>7. EntryOK(r, starts'[s], now)
    BY <1>3, <1>4, <1>5, <1>8, <2>2, <2>3, <2>5, <2>6 DEF EntryOK, Dispatched
  <2>8. SlotOK(s)'
    BY <1>9, <1>10, <1>11, <1>14, <2>4, <2>5, <2>7 DEF SlotOK
  <2>9. Within(DOMAIN starts, Capacity)
    BY <1>1, AtSlot
  <2> QED
    BY <1>7, <1>9, <1>12, <1>13, <2>2, <2>4, <2>8, <2>9, OneSlot
<1>15. ASSUME ~(s \in DOMAIN starts /\ resume_request(starts[s], req[s].gen)), r0.first # 0
       PROVE  ~r0.tracked
  <2>1. Dispatched(r0) /\ r0.st # "issued"
    BY <1>5, <1>15 DEF Dispatched
  <2>2. ASSUME s \in DOMAIN starts PROVE starts[s].requeued /\ starts[s].generation = r0.gen
    BY <1>1, <2>1, <2>2, AtSlot DEF EntryOK
  <2>3. s \notin DOMAIN starts
    BY <1>1, <1>15, <2>2 DEF resume_request
  <2> QED
    BY <1>1, <2>1, <2>3, AtSlot
<1>16. CASE ~(s \in DOMAIN starts /\ resume_request(starts[s], req[s].gen)) /\ fits
  <2>1. PICK v : v = [start |-> now, generation |-> r0.gen, requeued |-> FALSE, bytes |-> r0.left]
    OBVIOUS
  <2>2. stats' = stats /\ starts' = With(starts, s, v)
    BY <1>1, <1>2, <1>16, <2>1 DEF Issue, issue
  <2>3. /\ DOMAIN starts' = DOMAIN starts \cup {s} /\ starts'[s] = v
        /\ \A x \in DOMAIN starts \ {s} : starts'[x] = starts[x]
    BY <2>2 DEF With
  <2>4. /\ v \in Timings /\ v.start = now /\ v.generation = r0.gen /\ v.requeued = FALSE
        /\ v.bytes = r0.left
    BY <1>5, <2>1 DEF Timings
  <2>5. r.tracked => now = first /\ r0.left = r0.size
    BY <1>3, <1>4, <1>5, <1>8, <1>15, <1>16 DEF RequestOK
  <2>6. EntryOK(r, v, now)
    BY <1>5, <1>6, <1>8, <2>4, <2>5 DEF EntryOK, RequestOK, Dispatched
  <2>7. SlotOK(s)'
    BY <1>9, <1>10, <1>11, <2>3, <2>4, <2>6 DEF SlotOK
  <2>8. Within(DOMAIN starts \cup {s}, Capacity)
    BY <1>1, <1>2, <1>16, AtSlot
  <2> QED
    BY <1>7, <1>9, <1>12, <1>13, <2>2, <2>3, <2>7, <2>8, OneSlot
<1>17. CASE ~(s \in DOMAIN starts /\ resume_request(starts[s], req[s].gen)) /\ ~fits
  <2>1. starts' = starts /\ stats' = [stats EXCEPT !.tracking_failures = @ + 1]
    BY <1>1, <1>2, <1>17 DEF Issue, issue
  <2>2. s \notin DOMAIN starts /\ ~tracked
    BY <1>2, <1>4, <1>17 DEF Fits
  <2>3. stats' \in BlockStats
    BY <1>13, <2>1 DEF BlockStats
  <2>4. SlotOK(s)'
    BY <1>8, <1>9, <1>10, <1>11, <2>1, <2>2 DEF SlotOK
  <2>5. Within(DOMAIN starts, Capacity)
    BY <1>1, AtSlot
  <2> QED
    BY <1>7, <1>9, <1>12, <1>13, <2>1, <2>3, <2>4, <2>5, OneSlot
<1> QED
  BY <1>14, <1>16, <1>17

(* The counters of a timed completion stay natural numbers.                *)
LEMMA TimedCounts ==
    ASSUME NEW s, NEW latency, stats \in BlockStats, starts[s].bytes \in Nat
    PROVE  Timed(s, latency) \in BlockStats
<1>1. /\ stats.count + 1 \in Nat /\ stats.bytes + starts[s].bytes \in Nat
      /\ stats.anomalies \in Nat /\ stats.critical \in Nat
  BY DEF BlockStats
<1>2. PICK a \in Nat : a = IF latency >= Threshold THEN stats.anomalies + 1 ELSE stats.anomalies
  BY <1>1
<1>3. PICK b \in Nat : b = IF latency >= CriticalThreshold THEN stats.critical + 1 ELSE stats.critical
  BY <1>1
<1>4. PICK n \in Nat, m \in Nat : n = stats.count + 1 /\ m = stats.bytes + starts[s].bytes
  BY <1>1
<1>5. Timed(s, latency)
          = [stats EXCEPT !.count = n, !.bytes = m, !.anomalies = a, !.critical = b]
  BY <1>2, <1>3, <1>4 DEF Timed
<1>6. [stats EXCEPT !.count = n, !.bytes = m, !.anomalies = a, !.critical = b] \in BlockStats
  BY Zenon DEF BlockStats
<1> QED
  BY <1>5, <1>6

(* The last completion of a request, or the end of a logical write: the    *)
(* entry is gone and what is said of the request is true.                  *)
LEMMA FinalCompletion ==
    ASSUME BlockAssumption, BlockInv, NEW s \in Slots, NEW completed \in Nat,
           complete(s, completed), ~(completed < req[s].left),
           \/ req[s].st = "issued"
           \/ /\ req[s].op = "write" /\ req[s].left = 0
              /\ req[s].st = "done" \/ (req[s].st = "queued" /\ req[s].size = 0)
              /\ completed = 0
    PROVE  /\ DOMAIN starts' = DOMAIN starts \ {s}
           /\ \A x \in DOMAIN starts' : starts'[x] = starts[x]
           /\ stats' \in BlockStats /\ Truthful'
<1>1. PICK r : r = req[s]
  OBVIOUS
<1>2. /\ r \in Requests /\ RequestOK(r, now) /\ now \in Nat /\ now # 0
      /\ {r.born, r.gen, r.left, r.size, r.first} \subseteq Nat /\ r.tracked \in BOOLEAN
      /\ Dispatched(r) /\ r.tracked => s \in DOMAIN starts
      /\ stats \in BlockStats
  BY <1>1, AtSlot DEF BlockInv, BlockTypes
<1> USE DEF Truthful, LatencyExact, BytesExact, UnmatchedExcused,
            BookkeepingApart
<1>3. CASE s \notin DOMAIN starts
  <2>1. starts' = starts /\ DOMAIN starts' = DOMAIN starts \ {s}
    BY <1>3 DEF complete
  <2>2. stats.unmatched + 1 # stats.unmatched /\ stats.unmatched \in Nat
    BY <1>2 DEF BlockStats
  <2>3. CASE r.left = 0 /\ completed = 0 /\ r.op = "write"
    <3>1. stats' = [stats EXCEPT !.bookkeeping_completions = @ + 1]
      BY <1>1, <1>3, <2>3 DEF complete
    <3>2. stats' \in BlockStats /\ stats'.unmatched = stats.unmatched
      BY <1>2, <3>1 DEF BlockStats
    <3>3. last' = Outcome(s, "bookkeeping")
      BY <1>1, <1>3, <2>3, <3>2 DEF complete
    <3>4. r.st # "issued"
      BY <1>2, <2>3 DEF RequestOK
    <3>5. last'.kind = "bookkeeping" /\ ~last'.dispatched
      BY <1>1, <3>3, <3>4 DEF Outcome
    <3> QED
      BY <2>1, <3>2, <3>5
  <2>4. CASE ~(r.left = 0 /\ completed = 0 /\ r.op = "write")
    <3>1. stats' = [stats EXCEPT !.unmatched = @ + 1]
      BY <1>1, <1>3, <2>4 DEF complete
    <3>2. stats' \in BlockStats /\ stats'.unmatched = stats.unmatched + 1
      BY <1>2, <3>1 DEF BlockStats
    <3>3. last' = Outcome(s, "unmatched")
      BY <1>1, <1>3, <2>2, <2>4, <3>2 DEF complete
    <3>4. r.st = "issued" /\ ~r.tracked
      BY <1>1, <1>2, <1>3, <2>4 DEF Dispatched
    <3>5. last'.kind = "unmatched" /\ ~last'.tracked
      BY <1>1, <3>3, <3>4 DEF Outcome
    <3> QED
      BY <2>1, <3>2, <3>5
  <2> QED
    BY <2>3, <2>4
<1>4. ASSUME s \in DOMAIN starts
      PROVE  /\ starts' = Forgotten(s)
             /\ DOMAIN starts' = DOMAIN starts \ {s}
             /\ \A x \in DOMAIN starts' : starts'[x] = starts[x]
  BY <1>4 DEF complete, Forgotten, Without
<1>5. PICK e : e = starts[s]
  OBVIOUS
<1>6. s \in DOMAIN starts => /\ EntryOK(r, e, now) /\ e.bytes \in Nat /\ e.start \in Nat
                             /\ e.generation \in Nat
  BY <1>1, <1>5, AtSlot
<1>7. CASE s \in DOMAIN starts /\ ~request_timing_valid(starts[s], req[s].gen)
  <2>1. stats' = [stats EXCEPT !.unmatched = @ + 1] /\ last' = Outcome(s, "unmatched")
    BY <1>7 DEF complete
  <2>2. stats' \in BlockStats
    BY <1>2, <2>1 DEF BlockStats
  <2>3. r.st = "issued" => r.gen = 0
    BY <1>1, <1>5, <1>6, <1>7 DEF EntryOK, Dispatched, request_timing_valid
  <2>4. last'.kind = "unmatched" /\ (last'.dispatched => ~last'.stamped)
    BY <1>1, <2>1, <2>3 DEF Outcome
  <2> QED
    BY <1>4, <1>7, <2>2, <2>4
<1>8. CASE s \in DOMAIN starts /\ request_timing_valid(starts[s], req[s].gen)
  <2>1. /\ stats' = Timed(s, now - starts[s].start) /\ last' = TimedOutcome(s)
    BY <1>8 DEF complete
  <2>2. stats' \in BlockStats
    BY <1>2, <1>5, <1>6, <1>8, <2>1, TimedCounts
  <2>3. e.start # 0 /\ e.generation = r.gen
    BY <1>1, <1>5, <1>8 DEF request_timing_valid
  <2>4. r.st = "issued"
    BY <1>1, <1>2, <1>6, <1>8, <2>3 DEF EntryOK, RequestOK
  <2>5. e.start >= r.first /\ (r.tracked => e.start = r.first /\ e.bytes = r.size)
    BY <1>6, <1>8, <2>3, <2>4 DEF EntryOK, Dispatched
  <2>6. /\ last'.kind = "timed" /\ last'.dispatched /\ last'.fresh
        /\ last'.tracked => last'.exact /\ last'.whole
    BY <1>1, <1>5, <2>1, <2>4, <2>5 DEF TimedOutcome
  <2> QED
    BY <1>4, <1>8, <2>2, <2>6
<1> QED
  BY <1>3, <1>7, <1>8

(* A completion in part leaves the entry, a final one removes it.          *)
LEMMA BlockComplete ==
    ASSUME BlockAssumption, BlockInv, NEW s \in Slots, NEW completed \in 0..2,
           Complete(s, completed)
    PROVE  BlockInv'
<1>1. PICK r0 : r0 = req[s]
  OBVIOUS
<1>2. PICK st : st = IF completed = r0.left THEN "done" ELSE "issued"
  OBVIOUS
<1>3. /\ r0 \in Requests /\ RequestOK(r0, now) /\ now \in Nat /\ Dispatched(r0)
      /\ {r0.born, r0.gen, r0.left, r0.size, r0.first} \subseteq Nat
      /\ r0.tracked => s \in DOMAIN starts
      /\ r0.st = "issued" /\ completed <= r0.left /\ (completed = 0 => r0.left = 0)
      /\ Within(DOMAIN starts, Capacity) /\ Within(DOMAIN starts \ {s}, Capacity)
  BY <1>1, AtSlot DEF Complete, Dispatched
<1>4. PICK left \in Nat : left = r0.left - completed
  BY <1>3
<1> DEFINE r == [r0 EXCEPT !.left = left, !.st = st]
<1>5. st \in {"free", "queued", "issued", "done"}
  BY <1>2
<1>6. r \in Requests
  BY <1>3, <1>5, Zenon DEF Requests
<1>7. /\ r.st = st /\ r.born = r0.born /\ r.gen = r0.gen /\ r.op = r0.op
      /\ r.left = left /\ r.size = r0.size /\ r.first = r0.first /\ r.tracked = r0.tracked
  BY <1>3 DEF Requests
<1>8. req' = [req EXCEPT ![s] = r] /\ UNCHANGED <<now, allocs>>
  BY <1>1, <1>2, <1>3, <1>4 DEF Complete, BlockInv, BlockTypes, Requests
<1> HIDE DEF r
<1>9. req'[s] = r
  BY <1>8 DEF BlockInv, BlockTypes
<1>10. stats \in BlockStats /\ allocs \in 0..MaxAllocs /\ DOMAIN starts \subseteq Slots
  BY DEF BlockInv, BlockTypes
<1>11. CASE completed = r0.left
  <2>1. /\ DOMAIN starts' = DOMAIN starts \ {s}
        /\ \A x \in DOMAIN starts' : starts'[x] = starts[x]
        /\ stats' \in BlockStats /\ Truthful'
    <3>1. complete(s, completed) /\ completed \in Nat
      BY DEF Complete
    <3>2. req[s].st = "issued" /\ ~(completed < req[s].left)
      BY <1>1, <1>3, <1>11
    <3> QED
      BY <3>1, <3>2, FinalCompletion
  <2>2. RequestOK(r, now) /\ ~Dispatched(r)
    BY <1>2, <1>3, <1>7, <1>11 DEF RequestOK, Dispatched
  <2>3. SlotOK(s)'
    BY <1>8, <1>9, <2>1, <2>2 DEF SlotOK
  <2> QED
    BY <1>3, <1>6, <1>8, <1>10, <2>1, <2>3, OneSlot
<1>12. CASE completed < r0.left
  <2>1. UNCHANGED <<starts, stats, last>>
    BY <1>1, <1>12 DEF Complete, complete
  <2>2. st = "issued" /\ left # 0 /\ r0.left # 0
    BY <1>2, <1>3, <1>4, <1>12
  <2>3. RequestOK(r, now) /\ Dispatched(r)
    BY <1>3, <1>7, <2>2 DEF RequestOK, Dispatched
  <2>4. s \in DOMAIN starts => starts[s] \in Timings /\ EntryOK(r, starts[s], now)
    BY <1>1, <1>3, <1>7, <2>2, <2>3, AtSlot DEF EntryOK
  <2>5. SlotOK(s)'
    BY <1>3, <1>7, <1>8, <1>9, <2>1, <2>3, <2>4 DEF SlotOK
  <2>6. Truthful'
    BY <2>1, OutcomeKept
  <2> QED
    BY <1>3, <1>6, <1>8, <1>10, <2>1, <2>5, <2>6, OneSlot
<1> QED
  BY <1>3, <1>11, <1>12

(* The flush machinery ends a logical write.                               *)
LEMMA BlockEndWrite ==
    ASSUME BlockAssumption, BlockInv, NEW s \in Slots, EndWrite(s)
    PROVE  BlockInv'
<1>1. PICK r0 : r0 = req[s]
  OBVIOUS
<1>2. PICK r : r = Free(r0.born)
  OBVIOUS
<1>3. r0.born \in Nat /\ r0.born <= now /\ now \in Nat /\ Within(DOMAIN starts \ {s}, Capacity)
  BY <1>1, AtSlot DEF RequestOK
<1>4. req' = [req EXCEPT ![s] = r] /\ UNCHANGED <<now, allocs>>
  <2>1. req' = [req EXCEPT ![s] = Free(req[s].born)]
    BY DEF EndWrite
  <2> QED
    BY <1>1, <1>2, <2>1 DEF EndWrite
<1>5. r \in Requests /\ r.st = "free" /\ r.born = r0.born /\ r.gen = 0 /\ r.first = 0
  BY <1>2, <1>3, FreeRecord
<1>6. RequestOK(r, now) /\ ~Dispatched(r)
  BY <1>3, <1>5 DEF RequestOK, Dispatched
<1>7. /\ DOMAIN starts' = DOMAIN starts \ {s}
      /\ \A x \in DOMAIN starts' : starts'[x] = starts[x]
      /\ stats' \in BlockStats /\ Truthful'
  <2>1. complete(s, 0) /\ 0 \in Nat
    BY DEF EndWrite
  <2>2. /\ ~(0 < req[s].left) /\ req[s].op = "write" /\ req[s].left = 0
        /\ req[s].st = "done" \/ (req[s].st = "queued" /\ req[s].size = 0)
    BY DEF EndWrite
  <2> QED
    BY <2>1, <2>2, FinalCompletion
<1>8. req'[s] = r
  BY <1>4 DEF BlockInv, BlockTypes
<1>9. SlotOK(s)'
  BY <1>4, <1>6, <1>7, <1>8 DEF SlotOK
<1>10. allocs \in 0..MaxAllocs /\ DOMAIN starts \subseteq Slots
  BY DEF BlockInv, BlockTypes
<1> QED
  BY <1>3, <1>4, <1>5, <1>7, <1>9, <1>10, OneSlot

(* The block sensor (issue, requeue and complete of bpf/block.c with       *)
(* bpf/request_timing.h): through partial completions, requeues, merges,   *)
(* flush sequences and the reuse of addresses, a reported latency and its  *)
(* bytes are those of the request's own first issue, a dispatched request  *)
(* goes unmatched only with an excuse, and the map keeps its capacity.     *)
THEOREM BlockTruthful ==
    ASSUME BlockAssumption
    PROVE  Spec => []LatencyTruthful
<1>1. BlockInv /\ [Next]_(vars) => BlockInv'
  <2> SUFFICES ASSUME BlockInv, [Next]_(vars) PROVE BlockInv'
    OBVIOUS
  <2>1. CASE UNCHANGED vars
    <3>1. UNCHANGED <<now, allocs, req, starts, stats, last>>
      BY <2>1 DEF vars
    <3>2. \A s \in Slots : SlotOK(s)'
      BY <3>1 DEF BlockInv, SlotOK
    <3> QED
      BY <3>1, <3>2, OutcomeKept DEF BlockInv, BlockTypes
  <2> QED
    BY <2>1, BlockTick, BlockAlloc, BlockComplete, BlockIssue, BlockRequeue, BlockEndWrite,
       BlockRelease DEF Next
<1> QED
  BY <1>1, BlockInit, BlockImplies, PTL DEF Spec
-----------------------------------------------------------------------------
(***************************************************************************)
(* The detail budgets: however the CPUs' lookups, insertions, checks and   *)
(* charges interleave with each other and with the poll's sweep, no        *)
(* second exceeds its quota by more than the documented race, the budget   *)
(* of a second in use is neither reset nor swept, a map with the slots the *)
(* polls need never turns a detail away, and no loss goes uncounted.       *)
(*                                                                         *)
(* The argument: a handler is at most two seconds behind the clock         *)
(* (HandlersRecent), a sweep only takes seconds more than two behind a     *)
(* clock read earlier (SweepOK), so the two never meet; a second that is   *)
(* not in the map and may still be charged has admitted nothing (Unspent). *)
(* The quota needs the CPUs that have passed the check and not yet charged *)
(* counted with those admitted (QuotaRoom), the capacity needs the time    *)
(* since the last complete sweep bounded by the sweeps missed (SweepDebt). *)
(* The losses need what a poll has seen bounded by what was counted        *)
(* (LossInv).                                                              *)
(***************************************************************************)
Handlers == [pc : {"idle", "lookup", "insert", "again", "check", "charge", "reserve"},
             sec : Nat, critical : BOOLEAN]
Admissions == [critical : Nat, normal : Nat]
Polls == [pc : {"idle", "read", "sweep", "delete", "report", "failed"},
          end : Nat,
          seen : [Cpus -> [Counters -> Nat]], todo : SUBSET Cpus, stale : SUBSET Nat,
          swept : Nat, missed : Nat]

QuotaTypes ==
    /\ second \in Seconds
    /\ DOMAIN budgets \subseteq 0..second /\ budgets \in [DOMAIN budgets -> Nat]
    /\ cpu \in [Cpus -> Handlers]
    /\ tally \in [Cpus -> [Counters -> Nat]]
    /\ admitted \in [Seconds -> Admissions]
    /\ poll \in Polls

(* A handler runs for less than two seconds.                               *)
HandlersRecent ==
    \A c \in Cpus : cpu[c].pc # "idle" => cpu[c].sec <= second /\ second <= cpu[c].sec + 2

(* Once a handler has seen its budget, or has inserted it, it is there.    *)
HandlerBudget ==
    \A c \in Cpus : cpu[c].pc \in {"again", "check", "charge"} =>
                        cpu[c].sec \in DOMAIN budgets

Charged == \A s \in DOMAIN budgets : budgets[s] = admitted[s].critical + admitted[s].normal

Unspent ==
    \A s \in Seconds : s \notin DOMAIN budgets =>
        s + 2 < second \/ (admitted[s].critical = 0 /\ admitted[s].normal = 0)

SweepOK ==
    /\ poll.end <= second /\ poll.swept <= poll.end
    /\ poll.pc = "delete" => /\ \A s \in poll.stale : s + 2 < poll.end
                             /\ \A s \in DOMAIN budgets : poll.end <= s + 2 \/ s \in poll.stale

BudgetInv ==
    QuotaTypes /\ HandlersRecent /\ HandlerBudget /\ Charged /\ Unspent /\ SweepOK

Charging(s) == {c \in Cpus : cpu[c].pc = "charge" /\ cpu[c].sec = s}
ChargingNormal(s) == {c \in Charging(s) : ~cpu[c].critical}

QuotaRoom ==
    \A s \in Seconds :
        /\ admitted[s].critical + admitted[s].normal + Cardinality(Charging(s)) <= AtMost(Rate)
        /\ admitted[s].normal + Cardinality(ChargingNormal(s)) <= AtMost(limit(FALSE))

SweepDebt ==
    /\ poll.missed <= MaxMissed
    /\ poll.pc = "idle" => second <= poll.end + Poll
    /\ poll.pc # "idle" => second <= poll.end + Lag
    /\ poll.end <= poll.swept
         + (IF poll.pc \in {"idle", "report"} THEN poll.missed ELSE poll.missed + 1) * Poll

SlotsInv == Provisioned => SweepDebt /\ \A c \in Cpus : tally[c].detail_budget_failures = 0

-----------------------------------------------------------------------------
(* The budgets.                                                            *)

LEMMA BudgetInitial == DetailAssumption /\ QuotaInit => BudgetInv
<1> SUFFICES ASSUME DetailAssumption, QuotaInit PROVE BudgetInv
  OBVIOUS
<1> USE DEF QuotaInit
<1>1. 0 \in Seconds /\ DOMAIN budgets = {} /\ 0 \in Nat
  BY DEF DetailAssumption, Seconds
<1>2. Zero \in [Counters -> Nat]
  BY <1>1 DEF Zero
<1>3. Off \in Handlers /\ Off.pc = "idle"
  BY DEF Off, Handlers
<1>4. poll \in Polls /\ poll.end = 0 /\ poll.swept = 0 /\ poll.pc = "idle"
  BY <1>1, <1>2 DEF Polls
<1>5. [critical |-> 0, normal |-> 0] \in Admissions
  BY DEF Admissions
<1>6. QuotaTypes
  BY <1>1, <1>2, <1>3, <1>4, <1>5 DEF QuotaTypes
<1>7. HandlersRecent /\ HandlerBudget
  BY <1>3 DEF HandlersRecent, HandlerBudget
<1>8. Charged /\ Unspent /\ SweepOK
  BY <1>1, <1>4 DEF Charged, Unspent, SweepOK
<1> QED
  BY <1>6, <1>7, <1>8 DEF BudgetInv

LEMMA Counted ==
    ASSUME QuotaTypes, NEW c \in Cpus, NEW k \in Counters, Count(c, k)
    PROVE  /\ tally' \in [Cpus -> [Counters -> Nat]]
           /\ \A d \in Cpus : \A j \in Counters \ {k} : tally'[d][j] = tally[d][j]
  BY DEF QuotaTypes, Count

(* A step of one handler that leaves the budgets alone.                    *)
LEMMA HandlerStep ==
    ASSUME BudgetInv, NEW c \in Cpus, NEW h \in Handlers, cpu' = [cpu EXCEPT ![c] = h],
           UNCHANGED <<second, budgets, admitted, poll>>, tally' \in [Cpus -> [Counters -> Nat]],
           h.pc # "idle" => h.sec <= second /\ second <= h.sec + 2,
           h.pc \in {"again", "check", "charge"} => h.sec \in DOMAIN budgets
    PROVE  BudgetInv'
<1>1. QuotaTypes'
  BY DEF BudgetInv, QuotaTypes
<1>2. HandlersRecent'
  BY DEF BudgetInv, QuotaTypes, HandlersRecent
<1>3. HandlerBudget'
  BY DEF BudgetInv, QuotaTypes, HandlerBudget
<1>4. Charged' /\ Unspent' /\ SweepOK'
  BY DEF BudgetInv, Charged, Unspent, SweepOK
<1> QED
  BY <1>1, <1>2, <1>3, <1>4 DEF BudgetInv

LEMMA QuotaAnomaly ==
    ASSUME DetailAssumption, BudgetInv, NEW c \in Cpus, NEW critical \in BOOLEAN, Anomaly(c, critical)
    PROVE  BudgetInv'
<1>1. PICK h : h = [pc |-> "lookup", sec |-> second, critical |-> critical]
  OBVIOUS
<1>2. second \in Nat
  BY DEF BudgetInv, QuotaTypes, Seconds
<1>3. h \in Handlers /\ h.pc = "lookup" /\ h.sec = second
  BY <1>1, <1>2 DEF Handlers
<1>4. tally' \in [Cpus -> [Counters -> Nat]]
  BY Counted DEF Anomaly, BudgetInv, Counters
<1>5. cpu' = [cpu EXCEPT ![c] = h] /\ UNCHANGED <<second, budgets, admitted, poll>>
  BY <1>1 DEF Anomaly, pollVars
<1>6. h.sec <= second /\ second <= h.sec + 2
  BY <1>2, <1>3
<1>7. h.pc \notin {"again", "check", "charge"}
  BY <1>3
<1> QED
  BY <1>3, <1>4, <1>5, <1>6, <1>7, HandlerStep

(* Lookup, LookupAgain, Check and Reserve move a handler on or end it.     *)
LEMMA QuotaHandler ==
    ASSUME DetailAssumption, BudgetInv, NEW c \in Cpus,
           \/ Lookup(c) \/ LookupAgain(c) \/ Check(c) \/ \E room \in BOOLEAN : Reserve(c, room)
    PROVE  BudgetInv'
<1>1. PICK h0 : h0 = cpu[c]
  OBVIOUS
<1>2. /\ h0 \in Handlers /\ tally \in [Cpus -> [Counters -> Nat]] /\ cpu \in [Cpus -> Handlers]
      /\ h0.pc # "idle" => h0.sec <= second /\ second <= h0.sec + 2
      /\ h0.pc \in {"again", "check", "charge"} => h0.sec \in DOMAIN budgets
  BY <1>1 DEF BudgetInv, QuotaTypes, HandlersRecent, HandlerBudget
<1>3. Off \in Handlers /\ Off.pc = "idle"
  BY DEF Off, Handlers
<1>4. \A p \in {"check", "insert", "charge"} :
         /\ [h0 EXCEPT !.pc = p] \in Handlers
         /\ [h0 EXCEPT !.pc = p].pc = p /\ [h0 EXCEPT !.pc = p].sec = h0.sec
  BY <1>2 DEF Handlers
<1>5. UNCHANGED <<second, budgets, admitted, poll>>
  BY DEF Lookup, LookupAgain, Check, Reserve, pollVars
<1>6. tally' \in [Cpus -> [Counters -> Nat]]
  BY <1>2, Counted DEF BudgetInv, Lookup, LookupAgain, Check, Reserve, Counters
<1>7. CASE cpu' = [cpu EXCEPT ![c] = Off]
  BY <1>3, <1>5, <1>6, <1>7, HandlerStep
<1>8. ASSUME NEW p \in {"check", "insert", "charge"}, cpu' = [cpu EXCEPT ![c] = [h0 EXCEPT !.pc = p]],
             p # "insert" => h0.sec \in DOMAIN budgets, h0.pc # "idle"
      PROVE  BudgetInv'
  <2>1. PICK h : h = [h0 EXCEPT !.pc = p]
    OBVIOUS
  <2>2. h \in Handlers /\ h.pc = p /\ h.sec = h0.sec /\ cpu' = [cpu EXCEPT ![c] = h]
    BY <1>4, <1>8, <2>1
  <2> QED
    BY <1>2, <1>5, <1>6, <1>8, <2>2, HandlerStep
<1>9. CASE Lookup(c)
  <2>1. h0.pc = "lookup" /\ cpu' = [cpu EXCEPT ![c].pc = IF h0.sec \in DOMAIN budgets
                                                         THEN "check" ELSE "insert"]
    BY <1>1, <1>9 DEF Lookup
  <2>2. CASE h0.sec \in DOMAIN budgets
    <3>1. cpu' = [cpu EXCEPT ![c] = [h0 EXCEPT !.pc = "check"]]
      BY <1>1, <1>2, <2>1, <2>2
    <3> QED
      BY <1>8, <2>1, <2>2, <3>1
  <2>3. CASE h0.sec \notin DOMAIN budgets
    <3>1. cpu' = [cpu EXCEPT ![c] = [h0 EXCEPT !.pc = "insert"]]
      BY <1>1, <1>2, <2>1, <2>3
    <3> QED
      BY <1>8, <2>1, <3>1
  <2> QED
    BY <2>2, <2>3
<1>10. CASE LookupAgain(c)
  <2>1. h0.pc = "again" /\ h0.sec \in DOMAIN budgets
    BY <1>1, <1>2, <1>10 DEF LookupAgain
  <2>2. cpu' = [cpu EXCEPT ![c] = [h0 EXCEPT !.pc = "check"]]
    BY <1>1, <1>2, <1>10, <2>1 DEF LookupAgain
  <2> QED
    BY <1>8, <2>1, <2>2
<1>11. CASE Check(c)
  <2>1. h0.pc = "check" /\ h0.sec \in DOMAIN budgets
    BY <1>1, <1>2, <1>11 DEF Check
  <2>2. \/ cpu' = [cpu EXCEPT ![c] = Off]
        \/ cpu' = [cpu EXCEPT ![c] = [h0 EXCEPT !.pc = "charge"]]
    BY <1>1, <1>2, <1>11 DEF Check
  <2> QED
    BY <1>7, <1>8, <2>1, <2>2
<1>12. CASE \E room \in BOOLEAN : Reserve(c, room)
  BY <1>7, <1>12 DEF Reserve
<1> QED
  BY <1>9, <1>10, <1>11, <1>12

(* BPF_NOEXIST: the insertion adds an empty budget or keeps the present    *)
(* one.                                                                    *)
LEMMA InsertedKeeps ==
    ASSUME NEW s
    PROVE  /\ DOMAIN InsertedOnce(s) = DOMAIN budgets \cup {s}
           /\ \A x \in DOMAIN budgets : InsertedOnce(s)[x] = budgets[x]
           /\ s \notin DOMAIN budgets => InsertedOnce(s)[s] = 0
           /\ budgets \in [DOMAIN budgets -> Nat] =>
                InsertedOnce(s) \in [DOMAIN budgets \cup {s} -> Nat]
  BY DEF InsertedOnce, Inserted

LEMMA QuotaInsert ==
    ASSUME DetailAssumption, BudgetInv, NEW c \in Cpus, Insert(c)
    PROVE  BudgetInv'
<1>1. PICK h0 : h0 = cpu[c]
  OBVIOUS
<1>2. /\ h0 \in Handlers /\ h0.pc = "insert" /\ h0.sec <= second /\ second <= h0.sec + 2
      /\ second \in Nat /\ second \in Seconds /\ h0.sec \in Nat /\ h0.sec \in Seconds
  <2>1. h0 \in Handlers /\ h0.pc = "insert"
    BY <1>1 DEF BudgetInv, QuotaTypes, Insert
  <2>2. h0.sec \in Nat
    BY <2>1 DEF Handlers
  <2>3. second \in Seconds /\ LastSecond \in Nat
    BY DEF BudgetInv, QuotaTypes, DetailAssumption
  <2>4. h0.sec <= second /\ second <= h0.sec + 2
    BY <1>1, <2>1 DEF BudgetInv, HandlersRecent
  <2> QED
    BY <2>1, <2>2, <2>3, <2>4 DEF Seconds
<1>3. UNCHANGED <<second, admitted, poll>>
  BY DEF Insert, pollVars
<1>4. tally' \in [Cpus -> [Counters -> Nat]]
  BY Counted DEF BudgetInv, QuotaTypes, Insert, Counters
<1>5. CASE Full(h0.sec)
  <2>1. cpu' = [cpu EXCEPT ![c] = Off] /\ budgets' = budgets
    BY <1>1, <1>5 DEF Insert
  <2>2. Off \in Handlers /\ Off.pc = "idle"
    BY DEF Off, Handlers
  <2> QED
    BY <1>3, <1>4, <2>1, <2>2, HandlerStep
<1>6. CASE ~Full(h0.sec)
  <2>1. PICK h : h = [h0 EXCEPT !.pc = "again"]
    OBVIOUS
  <2>2. h \in Handlers /\ h.sec = h0.sec /\ h.pc = "again"
    BY <1>2, <2>1 DEF Handlers
  <2>3. cpu' = [cpu EXCEPT ![c] = h] /\ budgets' = InsertedOnce(h0.sec)
    BY <1>1, <1>6, <2>1 DEF Insert
  <2>4. /\ DOMAIN budgets' = DOMAIN budgets \cup {h0.sec}
        /\ \A x \in DOMAIN budgets : budgets'[x] = budgets[x]
        /\ h0.sec \notin DOMAIN budgets => budgets'[h0.sec] = 0
        /\ budgets' \in [DOMAIN budgets' -> Nat]
    BY <2>3, InsertedKeeps DEF BudgetInv, QuotaTypes
  <2>5. QuotaTypes'
    <3>1. DOMAIN budgets' \subseteq 0..second'
      BY <1>2, <1>3, <2>4 DEF BudgetInv, QuotaTypes
    <3>2. cpu' \in [Cpus -> Handlers]
      BY <2>2, <2>3 DEF BudgetInv, QuotaTypes
    <3> QED
      BY <1>3, <1>4, <2>4, <3>1, <3>2 DEF BudgetInv, QuotaTypes
  <2>6. HandlersRecent'
    BY <1>2, <1>3, <2>2, <2>3 DEF BudgetInv, QuotaTypes, HandlersRecent
  <2>7. HandlerBudget'
    BY <2>2, <2>3, <2>4 DEF BudgetInv, QuotaTypes, HandlerBudget
  <2>8. Charged'
    <3>1. h0.sec \notin DOMAIN budgets =>
              admitted[h0.sec].critical = 0 /\ admitted[h0.sec].normal = 0
      BY <1>2 DEF BudgetInv, Unspent
    <3> QED
      BY <1>2, <1>3, <2>4, <3>1 DEF BudgetInv, Charged
  <2>9. Unspent'
    BY <1>3, <2>4 DEF BudgetInv, Unspent
  <2>10. SweepOK'
    <3>1. poll.end \in Nat /\ poll.end <= second
      BY DEF BudgetInv, QuotaTypes, SweepOK, Polls
    <3>2. poll.end <= h0.sec + 2
      BY <1>2, <3>1
    <3> QED
      BY <1>3, <2>4, <3>2 DEF BudgetInv, SweepOK
  <2> QED
    BY <2>5, <2>6, <2>7, <2>8, <2>9, <2>10 DEF BudgetInv
<1> QED
  BY <1>5, <1>6

(* What a charge adds, and what it leaves alone.                           *)
LEMMA ChargeAdds ==
    ASSUME DetailAssumption, BudgetInv, NEW c \in Cpus, Charge(c), NEW z, z = cpu[c].sec
    PROVE  /\ z \in DOMAIN budgets /\ z \in Seconds
           /\ DOMAIN budgets' = DOMAIN budgets /\ budgets' \in [DOMAIN budgets -> Nat]
           /\ \A x \in DOMAIN budgets \ {z} : budgets'[x] = budgets[x]
           /\ budgets'[z] = budgets[z] + 1
           /\ admitted' \in [Seconds -> Admissions]
           /\ \A x \in Seconds \ {z} : admitted'[x] = admitted[x]
           /\ cpu[c].critical => /\ admitted'[z].critical = admitted[z].critical + 1
                                 /\ admitted'[z].normal = admitted[z].normal
           /\ ~cpu[c].critical => /\ admitted'[z].critical = admitted[z].critical
                                  /\ admitted'[z].normal = admitted[z].normal + 1
<1>1. z \in DOMAIN budgets /\ z \in Seconds
  BY DEF BudgetInv, QuotaTypes, HandlerBudget, Charge, Seconds, DetailAssumption
<1>2. budgets \in [DOMAIN budgets -> Nat] /\ admitted \in [Seconds -> Admissions]
  BY DEF BudgetInv, QuotaTypes
<1>3. budgets' = [budgets EXCEPT ![z] = @ + 1]
  BY DEF Charge
<1>4. CASE cpu[c].critical
  <2>1. admitted' = [admitted EXCEPT ![z].critical = @ + 1]
    BY <1>4 DEF Charge
  <2> QED
    BY <1>1, <1>2, <1>3, <1>4, <2>1 DEF Admissions
<1>5. CASE ~cpu[c].critical
  <2>1. admitted' = [admitted EXCEPT ![z].normal = @ + 1]
    BY <1>5 DEF Charge
  <2> QED
    BY <1>1, <1>2, <1>3, <1>5, <2>1 DEF Admissions
<1> QED
  BY <1>4, <1>5

LEMMA QuotaCharge ==
    ASSUME DetailAssumption, BudgetInv, NEW c \in Cpus, Charge(c)
    PROVE  BudgetInv'
<1>1. PICK h0, z : h0 = cpu[c] /\ z = h0.sec
  OBVIOUS
<1>2. PICK h : h = [h0 EXCEPT !.pc = "reserve"]
  OBVIOUS
<1>3. h0 \in Handlers /\ h0.pc = "charge"
  BY <1>1 DEF BudgetInv, QuotaTypes, Charge
<1>4. h \in Handlers /\ h.sec = h0.sec /\ h.pc = "reserve"
  BY <1>2, <1>3 DEF Handlers
<1>5. cpu' = [cpu EXCEPT ![c] = h] /\ UNCHANGED <<second, tally, poll>>
  BY <1>1, <1>2 DEF Charge, pollVars, BudgetInv, QuotaTypes
<1>6. /\ z \in DOMAIN budgets /\ z \in Seconds
      /\ DOMAIN budgets' = DOMAIN budgets /\ budgets' \in [DOMAIN budgets -> Nat]
      /\ \A x \in DOMAIN budgets \ {z} : budgets'[x] = budgets[x]
      /\ budgets'[z] = budgets[z] + 1
      /\ admitted' \in [Seconds -> Admissions]
      /\ \A x \in Seconds \ {z} : admitted'[x] = admitted[x]
      /\ admitted'[z].critical + admitted'[z].normal = admitted[z].critical + admitted[z].normal + 1
  <2>1. cpu[c].critical \in BOOLEAN /\ admitted[z].critical \in Nat /\ admitted[z].normal \in Nat
    BY <1>1, ChargeAdds DEF BudgetInv, QuotaTypes, Handlers, Admissions
  <2> QED
    BY <1>1, <2>1, ChargeAdds
<1>7. QuotaTypes'
  BY <1>4, <1>5, <1>6 DEF BudgetInv, QuotaTypes
<1>8. HandlersRecent' /\ HandlerBudget'
  BY <1>1, <1>3, <1>4, <1>5, <1>6 DEF BudgetInv, QuotaTypes, HandlersRecent, HandlerBudget
<1>9. Charged'
  <2>1. DOMAIN budgets \subseteq Seconds
    BY DEF BudgetInv, QuotaTypes, Seconds, DetailAssumption
  <2> QED
    BY <1>6, <2>1 DEF BudgetInv, Charged
<1>10. Unspent' /\ SweepOK'
  BY <1>5, <1>6 DEF BudgetInv, Unspent, SweepOK
<1> QED
  BY <1>7, <1>8, <1>9, <1>10 DEF BudgetInv

(* A step of the poll that removes no budget.                              *)
LEMMA PollStep ==
    ASSUME BudgetInv, UNCHANGED <<second, budgets, cpu, tally, admitted>>,
           poll' \in Polls, SweepOK'
    PROVE  BudgetInv'
  BY DEF BudgetInv, QuotaTypes, HandlersRecent, HandlerBudget, Charged, Unspent

LEMMA QuotaRead ==
    ASSUME BudgetInv, NEW c \in Cpus, ReadCpu(c)
    PROVE  BudgetInv'
<1>1. PICK seen, todo, pc : /\ seen = [poll.seen EXCEPT ![c] = tally[c]]
                            /\ todo = poll.todo \ {c}
                            /\ pc = IF poll.todo = {c} THEN "sweep" ELSE "read"
  OBVIOUS
<1>2. poll \in Polls /\ tally \in [Cpus -> [Counters -> Nat]] /\ poll.pc = "read"
  BY DEF BudgetInv, QuotaTypes, ReadCpu
<1>3. poll' = [poll EXCEPT !.seen = seen, !.todo = todo, !.pc = pc]
  BY <1>1, <1>2 DEF ReadCpu, Polls
<1>4. seen \in [Cpus -> [Counters -> Nat]] /\ todo \in SUBSET Cpus /\ pc \in {"read", "sweep"}
  BY <1>1, <1>2 DEF Polls
<1>5. poll' \in Polls
  <2>1. pc \in {"idle", "read", "sweep", "delete", "report"}
    BY <1>4
  <2> QED
    BY <1>2, <1>3, <1>4, <2>1, Zenon DEF Polls
<1>6. poll'.end = poll.end /\ poll'.swept = poll.swept /\ poll'.pc = pc
  BY <1>2, <1>3 DEF Polls
<1>7. UNCHANGED <<second, budgets, cpu, tally, admitted>>
  BY DEF ReadCpu, kernelVars
<1>8. SweepOK'
  BY <1>4, <1>6, <1>7 DEF BudgetInv, SweepOK
<1> QED
  BY <1>5, <1>7, <1>8, PollStep

(* What the other steps of the poll leave alone.                           *)
LEMMA PollFrame ==
    ASSUME StartPoll \/ ReadFails \/ Sweep \/ Swept \/ Abandon \/ Report
    PROVE  UNCHANGED <<second, budgets, cpu, tally, admitted>>
  BY DEF StartPoll, ReadFails, Sweep, Swept, Abandon, Report, kernelVars

LEMMA PollFields ==
    ASSUME BudgetInv
    PROVE  /\ poll \in Polls
           /\ StartPoll => /\ poll.pc = "idle" /\ poll'.pc = "read" /\ poll'.end = second
                           /\ UNCHANGED <<poll.swept, poll.missed>> /\ poll' \in Polls
           /\ ReadFails => /\ poll.pc = "read" /\ poll'.pc = "failed"
                           /\ UNCHANGED <<poll.end, poll.swept, poll.missed>> /\ poll' \in Polls
           /\ Report => /\ poll.pc = "report" /\ poll'.pc = "idle"
                        /\ UNCHANGED <<poll.end, poll.swept, poll.missed>> /\ poll' \in Polls
           /\ Swept => /\ poll.pc = "delete" /\ poll.stale = {} /\ poll'.pc = "report"
                       /\ poll'.swept = poll.end /\ poll'.missed = 0
                       /\ UNCHANGED poll.end /\ poll' \in Polls
           /\ Abandon => /\ poll.pc \in {"sweep", "delete"} /\ poll.missed < MaxMissed
                         /\ poll'.pc = "report" /\ poll'.missed = poll.missed + 1
                         /\ UNCHANGED <<poll.end, poll.swept>> /\ poll' \in Polls
           /\ Sweep => /\ poll.pc = "sweep" /\ UNCHANGED <<poll.end, poll.swept, poll.missed>>
                       /\ \/ poll'.pc = "report" /\ poll.end = poll.swept
                          \/ /\ poll'.pc = "delete"
                             /\ poll'.stale = {s \in DOMAIN budgets : expired(s, poll.end)}
                       /\ poll' \in Polls
<1>1. poll \in Polls /\ second \in Nat /\ DOMAIN budgets \subseteq Nat
  BY DEF BudgetInv, QuotaTypes, Seconds
<1>2. ASSUME StartPoll
      PROVE  /\ poll.pc = "idle" /\ poll'.pc = "read" /\ poll'.end = second
             /\ UNCHANGED <<poll.swept, poll.missed>> /\ poll' \in Polls
  BY <1>1, <1>2 DEF StartPoll, Polls
<1>3. ASSUME Report
      PROVE  /\ poll.pc = "report" /\ poll'.pc = "idle"
             /\ UNCHANGED <<poll.end, poll.swept, poll.missed>> /\ poll' \in Polls
  BY <1>1, <1>3 DEF Report, Polls
<1>4. ASSUME Swept
      PROVE  /\ poll.pc = "delete" /\ poll.stale = {} /\ poll'.pc = "report"
             /\ poll'.swept = poll.end /\ poll'.missed = 0
             /\ UNCHANGED poll.end /\ poll' \in Polls
  BY <1>1, <1>4 DEF Swept, Polls
<1>5. ASSUME Abandon
      PROVE  /\ poll.pc \in {"sweep", "delete"} /\ poll.missed < MaxMissed
             /\ poll'.pc = "report" /\ poll'.missed = poll.missed + 1
             /\ UNCHANGED <<poll.end, poll.swept>> /\ poll' \in Polls
  <2>1. PICK m \in Nat : m = poll.missed + 1
    BY <1>1 DEF Polls
  <2>2. poll' = [poll EXCEPT !.pc = "report", !.stale = {}, !.missed = m]
    BY <1>1, <1>5, <2>1 DEF Abandon, Polls
  <2>3. poll' \in Polls
    BY <1>1, <2>2, Zenon DEF Polls
  <2>4. poll'.pc = "report" /\ poll'.missed = m /\ UNCHANGED <<poll.end, poll.swept>>
    BY <1>1, <2>2 DEF Polls
  <2> QED
    BY <1>5, <2>1, <2>3, <2>4 DEF Abandon
<1>6. ASSUME Sweep
      PROVE  /\ poll.pc = "sweep" /\ UNCHANGED <<poll.end, poll.swept, poll.missed>>
             /\ \/ poll'.pc = "report" /\ poll.end = poll.swept
                \/ /\ poll'.pc = "delete"
                   /\ poll'.stale = {s \in DOMAIN budgets : expired(s, poll.end)}
             /\ poll' \in Polls
  <2>1. PICK old \in SUBSET Nat : old = {s \in DOMAIN budgets : expired(s, poll.end)}
    BY <1>1
  <2>2. CASE poll.end = poll.swept
    BY <1>1, <1>6, <2>2 DEF Sweep, Polls
  <2>3. CASE poll.end # poll.swept
    <3>1. poll' = [poll EXCEPT !.pc = "delete", !.stale = old]
      BY <1>6, <2>1, <2>3 DEF Sweep
    <3>2. poll' \in Polls
      BY <1>1, <3>1 DEF Polls
    <3>3. /\ UNCHANGED <<poll.end, poll.swept, poll.missed>>
          /\ poll'.pc = "delete" /\ poll'.stale = old
      BY <1>1, <3>1 DEF Polls
    <3> QED
      BY <1>6, <2>1, <3>2, <3>3 DEF Sweep
  <2> QED
    BY <2>2, <2>3
<1>7. ASSUME ReadFails
      PROVE  /\ poll.pc = "read" /\ poll'.pc = "failed"
             /\ UNCHANGED <<poll.end, poll.swept, poll.missed>> /\ poll' \in Polls
  BY <1>1, <1>7 DEF ReadFails, Polls
<1> QED
  BY <1>1, <1>2, <1>3, <1>4, <1>5, <1>6, <1>7

LEMMA QuotaPoll ==
    ASSUME BudgetInv, StartPoll \/ ReadFails \/ Sweep \/ Swept \/ Abandon \/ Report
    PROVE  BudgetInv'
<1>1. UNCHANGED <<second, budgets, cpu, tally, admitted>>
  BY PollFrame
<1>2. second \in Nat /\ poll.end \in Nat /\ poll.swept \in Nat /\ DOMAIN budgets \subseteq Nat
      /\ poll.end <= second /\ poll.swept <= poll.end
  BY DEF BudgetInv, QuotaTypes, Seconds, Polls, SweepOK
<1>3. poll' \in Polls
  BY PollFields
<1>4. CASE poll'.pc # "delete"
  <2>1. poll'.end <= second /\ poll'.swept <= poll'.end
    BY <1>2, PollFields
  <2> QED
    BY <1>1, <1>3, <1>4, <2>1, PollStep DEF SweepOK
<1>5. CASE poll'.pc = "delete"
  <2>1. /\ UNCHANGED <<poll.end, poll.swept>>
        /\ poll'.stale = {s \in DOMAIN budgets : expired(s, poll.end)}
    BY <1>5, PollFields
  <2>2. \A s \in poll'.stale : s + 2 < poll.end
    BY <1>2, <2>1 DEF expired
  <2>3. \A s \in DOMAIN budgets : poll.end <= s + 2 \/ s \in poll'.stale
    BY <1>2, <2>1 DEF expired
  <2>4. SweepOK'
    BY <1>1, <1>2, <2>1, <2>2, <2>3 DEF SweepOK
  <2> QED
    BY <1>1, <1>3, <2>4, PollStep
<1> QED
  BY <1>4, <1>5

(* A sweep only deletes what no handler can still use.                     *)
LEMMA QuotaDelete ==
    ASSUME DetailAssumption, BudgetInv, NEW z \in Seconds, Delete(z)
    PROVE  BudgetInv'
<1>1. PICK stale : stale = poll.stale \ {z}
  OBVIOUS
<1>2. /\ poll \in Polls /\ poll.pc = "delete" /\ z \in poll.stale /\ second \in Nat /\ z \in Nat
      /\ poll' = [poll EXCEPT !.stale = stale] /\ UNCHANGED <<second, cpu, tally, admitted>>
      /\ poll.end \in Nat /\ poll.end <= second /\ z + 2 < poll.end
  BY <1>1 DEF BudgetInv, QuotaTypes, Delete, SweepOK, Seconds, Polls, DetailAssumption
<1>3. poll' \in Polls /\ UNCHANGED <<poll.end, poll.swept, poll.pc>> /\ poll'.stale = stale
  BY <1>1, <1>2 DEF Polls
<1>4. /\ DOMAIN budgets' = DOMAIN budgets \ {z} /\ budgets' \in [DOMAIN budgets' -> Nat]
      /\ \A x \in DOMAIN budgets' : budgets'[x] = budgets[x]
  BY DEF Delete, BudgetInv, QuotaTypes
<1>5. z + 2 < second
  BY <1>2
<1>6. QuotaTypes'
  BY <1>2, <1>3, <1>4 DEF BudgetInv, QuotaTypes
<1>7. HandlersRecent'
  BY <1>2 DEF BudgetInv, HandlersRecent
<1>8. HandlerBudget'
  <2>1. \A c \in Cpus : cpu[c].pc # "idle" => cpu[c].sec # z
    BY <1>2, <1>5 DEF BudgetInv, HandlersRecent
  <2> QED
    BY <1>2, <1>4, <2>1 DEF BudgetInv, HandlerBudget
<1>9. Charged'
  BY <1>2, <1>4 DEF BudgetInv, Charged
<1>10. Unspent'
  BY <1>2, <1>4, <1>5 DEF BudgetInv, Unspent
<1>11. SweepOK'
  BY <1>1, <1>2, <1>3, <1>4 DEF BudgetInv, SweepOK
<1> QED
  BY <1>6, <1>7, <1>8, <1>9, <1>10, <1>11 DEF BudgetInv

LEMMA BudgetTick ==
    ASSUME DetailAssumption, BudgetInv, QuotaTick
    PROVE  BudgetInv'
<1>1. UNCHANGED <<budgets, cpu, tally, admitted, poll>> /\ second' = second + 1
  BY DEF QuotaTick, kernelVars, pollVars
<1>2. second \in Nat /\ second' \in Nat /\ second < second' /\ second' \in Seconds /\ 0..second \subseteq 0..second'
  BY <1>1 DEF BudgetInv, QuotaTypes, QuotaTick, Seconds, DetailAssumption
<1>3. QuotaTypes'
  BY <1>1, <1>2 DEF BudgetInv, QuotaTypes
<1>4. HandlersRecent'
  <2>1. \A c \in Cpus : cpu[c].sec \in Nat
    BY DEF BudgetInv, QuotaTypes, Handlers
  <2>2. \A c \in Cpus : cpu[c].pc # "idle" => cpu[c].sec <= second /\ second - cpu[c].sec < 2
    BY DEF BudgetInv, HandlersRecent, QuotaTick
  <2> QED
    BY <1>1, <1>2, <2>1, <2>2 DEF HandlersRecent
<1>5. HandlerBudget' /\ Charged'
  BY <1>1 DEF BudgetInv, HandlerBudget, Charged
<1>6. Unspent'
  <2>1. \A s \in Seconds : s \in Int /\ (s + 2 < second => s + 2 < second')
    BY <1>2 DEF Seconds
  <2> QED
    BY <1>1, <2>1 DEF BudgetInv, Unspent
<1>7. SweepOK'
  <2>1. poll.end \in Nat /\ poll.end <= second
    BY DEF BudgetInv, QuotaTypes, Polls, SweepOK
  <2>2. poll.end <= second'
    BY <1>2, <2>1
  <2> QED
    BY <1>1, <2>2 DEF BudgetInv, SweepOK
<1> QED
  BY <1>3, <1>4, <1>5, <1>6, <1>7 DEF BudgetInv

LEMMA BudgetStep ==
    ASSUME DetailAssumption, BudgetInv, [QuotaNext]_quotaVars
    PROVE  BudgetInv'
<1>1. CASE UNCHANGED quotaVars
  BY <1>1 DEF quotaVars, BudgetInv, QuotaTypes, HandlersRecent, HandlerBudget, Charged, Unspent, SweepOK
<1> QED
  BY <1>1, BudgetTick, QuotaPoll, QuotaDelete, QuotaAnomaly, QuotaHandler, QuotaInsert, QuotaCharge,
     QuotaRead DEF QuotaNext

-----------------------------------------------------------------------------
(* The quota.                                                              *)

(* The normal share is never negative: a second keeps at most its rate for *)
(* critical details.                                                       *)
LEMMA LimitNat == DetailAssumption => limit(FALSE) \in Nat /\ limit(TRUE) \in Nat
<1> SUFFICES ASSUME DetailAssumption PROVE limit(FALSE) \in Nat /\ limit(TRUE) \in Nat
  OBVIOUS
<1>1. PICK q : q = (Rate + Divisor - 1) \div Divisor
  OBVIOUS
<1>2. Rate \in Nat /\ Divisor \in Nat /\ Rate >= 1 /\ Divisor >= 1
  BY DEF DetailAssumption
<1>3. q \in Int /\ Divisor * q <= Rate + Divisor - 1
  BY <1>1, <1>2
<1>4. q <= Rate
  <2> SUFFICES ASSUME q > Rate PROVE FALSE
    BY <1>2, <1>3
  <2>1. PICK d \in Nat : q = Rate + 1 + d
    <3>1. q - (Rate + 1) \in Nat /\ q = Rate + 1 + (q - (Rate + 1))
      BY <1>2, <1>3
    <3> QED
      BY <3>1
  <2>2. PICK x \in Int : x = Divisor * Rate
    BY <1>2
  <2>3. PICK y \in Int : y = Divisor * d
    BY <1>2
  <2>4. Divisor * q = x + Divisor + y
    BY <1>2, <2>1, <2>2, <2>3
  <2>5. x >= Rate /\ y >= 0
    BY <1>2, <2>2, <2>3
  <2> QED
    BY <1>2, <1>3, <2>4, <2>5
<1> QED
  BY <1>1, <1>2, <1>3, <1>4 DEF limit

LEMMA ChargingFinite ==
    ASSUME DetailAssumption, NEW s
    PROVE  /\ IsFiniteSet(Charging(s)) /\ IsFiniteSet(ChargingNormal(s))
           /\ Cardinality(Charging(s)) \in Nat /\ Cardinality(ChargingNormal(s)) \in Nat
           /\ Cardinality(Charging(s)) <= Cardinality(Cpus)
           /\ Cardinality(ChargingNormal(s)) <= Cardinality(Cpus)
<1>1. IsFiniteSet(Cpus)
  BY DEF DetailAssumption
<1>2. Charging(s) \in SUBSET Cpus /\ ChargingNormal(s) \in SUBSET Cpus
  BY DEF Charging, ChargingNormal
<1> QED
  BY <1>1, <1>2, FS_Subset, FS_CardinalityType

LEMMA AtMostInt ==
    ASSUME DetailAssumption
    PROVE  \E top, share \in Int, l \in Nat :
              /\ top = AtMost(Rate) /\ share = AtMost(limit(FALSE)) /\ l = limit(FALSE)
              /\ l <= Rate /\ limit(TRUE) = Rate /\ Rate \in Nat /\ Cardinality(Cpus) \in Nat
              /\ Rate > 0 => top = Rate + Cardinality(Cpus) - 1
              /\ l > 0 => share = l + Cardinality(Cpus) - 1
              /\ top >= 0 /\ share >= 0
<1>1. PICK l \in Nat : l = limit(FALSE)
  BY LimitNat, Zenon
<1>2. PICK n : n = Cardinality(Cpus)
  OBVIOUS
<1>3. l \in Nat /\ n \in Nat /\ Rate \in Nat /\ limit(TRUE) = Rate
  BY <1>1, <1>2, LimitNat, FS_CardinalityType DEF DetailAssumption, limit
<1>4. PICK q : q = (Rate + Divisor - 1) \div Divisor
  OBVIOUS
<1>5. Rate + Divisor - 1 \in Nat /\ Divisor \in Nat /\ Divisor > 0
  BY DEF DetailAssumption
<1>6. q \in Nat /\ l = Rate - q
  BY <1>1, <1>4, <1>5 DEF limit
<1>7. PICK top : top = IF Rate = 0 THEN 0 ELSE Rate + n - 1
  OBVIOUS
<1>8. PICK share : share = IF l = 0 THEN 0 ELSE l + n - 1
  OBVIOUS
<1>9. top \in Int /\ share \in Int /\ (Rate > 0 => top = Rate + n - 1)
      /\ (l > 0 => share = l + n - 1) /\ l <= Rate
      /\ top >= 0 /\ share >= 0
  BY <1>3, <1>6, <1>7, <1>8
<1>10. top = AtMost(Rate) /\ share = AtMost(l)
  BY <1>2, <1>7, <1>8 DEF AtMost
<1> QED
  BY <1>1, <1>2, <1>3, <1>9, <1>10

(* Steps that admit nothing and let no handler past the check.             *)
LEMMA RoomKept ==
    ASSUME DetailAssumption, BudgetInv, QuotaRoom, admitted' = admitted,
           \A s \in Seconds : Charging(s)' \subseteq Charging(s)
                              /\ ChargingNormal(s)' \subseteq ChargingNormal(s)
    PROVE  QuotaRoom'
<1> SUFFICES ASSUME NEW s \in Seconds
             PROVE  /\ admitted[s].critical + admitted[s].normal + Cardinality(Charging(s)')
                         <= AtMost(Rate)
                    /\ admitted[s].normal + Cardinality(ChargingNormal(s)') <= AtMost(limit(FALSE))
  BY DEF QuotaRoom, AtMost, limit
<1>1. /\ Cardinality(Charging(s)') <= Cardinality(Charging(s))
      /\ Cardinality(ChargingNormal(s)') <= Cardinality(ChargingNormal(s))
      /\ Cardinality(Charging(s)') \in Nat /\ Cardinality(ChargingNormal(s)') \in Nat
  BY ChargingFinite, FS_Subset, FS_CardinalityType
<1>2. Cardinality(Charging(s)) \in Nat /\ Cardinality(ChargingNormal(s)) \in Nat
  BY ChargingFinite
<1>3. PICK top \in Int, share \in Int, l \in Nat :
         /\ top = AtMost(Rate) /\ share = AtMost(limit(FALSE)) /\ l = limit(FALSE)
         /\ l <= Rate /\ limit(TRUE) = Rate /\ Rate \in Nat /\ Cardinality(Cpus) \in Nat
         /\ Rate > 0 => top = Rate + Cardinality(Cpus) - 1
         /\ l > 0 => share = l + Cardinality(Cpus) - 1
  BY AtMostInt
<1>4. admitted[s].critical \in Nat /\ admitted[s].normal \in Nat
  BY DEF BudgetInv, QuotaTypes, Admissions
<1>5. /\ admitted[s].critical + admitted[s].normal + Cardinality(Charging(s)) <= top
      /\ admitted[s].normal + Cardinality(ChargingNormal(s)) <= share
  BY <1>3 DEF QuotaRoom
<1>6. /\ admitted[s].critical + admitted[s].normal + Cardinality(Charging(s)') <= top
      /\ admitted[s].normal + Cardinality(ChargingNormal(s)') <= share
  BY <1>1, <1>2, <1>4, <1>5
<1> QED
  BY <1>3, <1>6

(* A handler that does not go on to charge.                                *)
LEMMA RoomHandler ==
    ASSUME DetailAssumption, BudgetInv, QuotaRoom, NEW c \in Cpus, NEW h \in Handlers,
           cpu' = [cpu EXCEPT ![c] = h], h.pc # "charge", admitted' = admitted
    PROVE  QuotaRoom'
<1>1. \A s \in Seconds : Charging(s)' \subseteq Charging(s)
                         /\ ChargingNormal(s)' \subseteq ChargingNormal(s)
  BY DEF Charging, ChargingNormal, BudgetInv, QuotaTypes
<1> QED
  BY <1>1, RoomKept

(* A handler passes the check: at that moment the second has a detail      *)
(* left, and no more than every CPU is past the check.                     *)
LEMMA RoomCheck ==
    ASSUME DetailAssumption, BudgetInv, QuotaRoom, NEW c \in Cpus, Check(c)
    PROVE  QuotaRoom'
<1>1. PICK h0, z : h0 = cpu[c] /\ z = h0.sec
  OBVIOUS
<1>2. /\ h0 \in Handlers /\ z \in DOMAIN budgets /\ z \in Seconds
      /\ admitted' = admitted /\ cpu \in [Cpus -> Handlers] /\ h0.critical \in BOOLEAN
  BY <1>1 DEF Check, BudgetInv, QuotaTypes, HandlerBudget, Handlers, Seconds, DetailAssumption
<1>3. CASE spent(budgets[z], limit(h0.critical))
  <2>1. Off \in Handlers /\ Off.pc = "idle" /\ cpu' = [cpu EXCEPT ![c] = Off]
    BY <1>1, <1>3 DEF Check, Off, Handlers
  <2> QED
    BY <1>2, <2>1, RoomHandler
<1>4. CASE ~spent(budgets[z], limit(h0.critical))
  <2>1. PICK h : h = [h0 EXCEPT !.pc = "charge"]
    OBVIOUS
  <2>2. h \in Handlers /\ h.sec = z /\ h.critical = h0.critical /\ h.pc = "charge"
    BY <1>1, <1>2, <2>1 DEF Handlers
  <2>3. cpu' = [cpu EXCEPT ![c] = h]
    BY <1>1, <1>4, <2>1 DEF Check
  <2>4. /\ \A s \in Seconds \ {z} : Charging(s)' = Charging(s)
                                    /\ ChargingNormal(s)' = ChargingNormal(s)
        /\ h0.critical => ChargingNormal(z)' \subseteq ChargingNormal(z)
    BY <1>1, <1>2, <2>2, <2>3 DEF Charging, ChargingNormal
  <2>5. /\ Cardinality(Charging(z)') \in Nat /\ Cardinality(Charging(z)') <= Cardinality(Cpus)
        /\ Cardinality(ChargingNormal(z)') \in Nat
        /\ Cardinality(ChargingNormal(z)') <= Cardinality(Cpus)
    <3>1. IsFiniteSet(Cpus) /\ Charging(z)' \in SUBSET Cpus /\ ChargingNormal(z)' \in SUBSET Cpus
      BY DEF Charging, ChargingNormal, DetailAssumption
    <3> QED
      BY <3>1, FS_Subset, FS_CardinalityType
  <2>6. PICK top \in Int, share \in Int, l \in Nat :
           /\ top = AtMost(Rate) /\ share = AtMost(limit(FALSE)) /\ l = limit(FALSE)
           /\ l <= Rate /\ limit(TRUE) = Rate /\ Rate \in Nat /\ Cardinality(Cpus) \in Nat
           /\ Rate > 0 => top = Rate + Cardinality(Cpus) - 1
           /\ l > 0 => share = l + Cardinality(Cpus) - 1
    BY AtMostInt
  <2>7. /\ l \in Nat /\ l <= Rate /\ Rate \in Nat /\ Cardinality(Cpus) \in Nat
        /\ Rate > 0 => top = Rate + Cardinality(Cpus) - 1
        /\ l > 0 => share = l + Cardinality(Cpus) - 1
    BY <2>6, Zenon
  <2>8. PICK a, n : a = admitted[z].critical /\ n = admitted[z].normal
    OBVIOUS
  <2>9. PICK m : m = limit(h0.critical)
    OBVIOUS
  <2>10. m \in Nat /\ m <= Rate /\ (~h0.critical => m = l)
    <3>1. CASE h0.critical = TRUE
      <4>1. m = Rate
        BY <2>6, <2>9, <3>1
      <4> QED
        BY <2>7, <3>1, <4>1
    <3>2. CASE h0.critical = FALSE
      <4>1. m = l
        BY <2>6, <2>9, <3>2
      <4> QED
        BY <2>7, <4>1
    <3> QED
      BY <1>2, <3>1, <3>2
  <2>11. a \in Nat /\ n \in Nat /\ a + n < m
    <3>1. a \in Nat /\ n \in Nat /\ budgets[z] = a + n
      BY <1>2, <2>8 DEF BudgetInv, QuotaTypes, Charged, Admissions
    <3>2. ~(a + n >= m)
      BY <1>4, <2>9, <3>1 DEF spent
    <3> QED
      BY <2>10, <3>1, <3>2
  <2>12. a + n + Cardinality(Charging(z)') <= top
    BY <2>5, <2>7, <2>10, <2>11
  <2>13. n + Cardinality(ChargingNormal(z)') <= share
    <3>1. CASE h0.critical
      <4>1. Cardinality(ChargingNormal(z)') <= Cardinality(ChargingNormal(z))
        BY <2>4, <3>1, ChargingFinite, FS_Subset
      <4>2. n + Cardinality(ChargingNormal(z)) <= share
        BY <1>2, <2>6, <2>8 DEF QuotaRoom
      <4>3. Cardinality(ChargingNormal(z)) \in Nat
        BY ChargingFinite
      <4> QED
        BY <2>5, <2>11, <4>1, <4>2, <4>3
    <3>2. CASE ~h0.critical
      <4>1. a + n < l
        BY <2>10, <2>11, <3>2
      <4> QED
        BY <2>5, <2>7, <2>11, <4>1
    <3> QED
      BY <3>1, <3>2
  <2>14. ASSUME NEW s \in Seconds
         PROVE  /\ admitted[s].critical + admitted[s].normal + Cardinality(Charging(s)')
                     <= AtMost(Rate)
                /\ admitted[s].normal + Cardinality(ChargingNormal(s)') <= AtMost(limit(FALSE))
    BY <2>4, <2>6, <2>8, <2>12, <2>13 DEF QuotaRoom
  <2> QED
    BY <1>2, <2>14 DEF QuotaRoom, AtMost, limit
<1> QED
  BY <1>3, <1>4

(* A charge admits one detail and takes its CPU from those past the check. *)
LEMMA RoomCharge ==
    ASSUME DetailAssumption, BudgetInv, QuotaRoom, NEW c \in Cpus, Charge(c)
    PROVE  QuotaRoom'
<1>1. PICK h0, z : h0 = cpu[c] /\ z = h0.sec
  OBVIOUS
<1>2. PICK h : h = [h0 EXCEPT !.pc = "reserve"]
  OBVIOUS
<1>3. h0 \in Handlers /\ h0.pc = "charge" /\ cpu \in [Cpus -> Handlers] /\ h0.critical \in BOOLEAN
  BY <1>1 DEF BudgetInv, QuotaTypes, Charge, Handlers
<1>4. h \in Handlers /\ h.pc = "reserve" /\ cpu' = [cpu EXCEPT ![c] = h]
  BY <1>1, <1>2, <1>3 DEF Handlers, Charge
<1>5. /\ z \in Seconds /\ c \in Charging(z) /\ Charging(z)' = Charging(z) \ {c}
      /\ h0.critical => ChargingNormal(z)' = ChargingNormal(z)
      /\ ~h0.critical => c \in ChargingNormal(z) /\ ChargingNormal(z)' = ChargingNormal(z) \ {c}
      /\ \A s \in Seconds \ {z} : Charging(s)' = Charging(s)
                                  /\ ChargingNormal(s)' = ChargingNormal(s)
  BY <1>1, <1>3, <1>4, ChargeAdds DEF Charging, ChargingNormal
<1>6. /\ \A x \in Seconds \ {z} : admitted'[x] = admitted[x]
      /\ h0.critical => /\ admitted'[z].critical = admitted[z].critical + 1
                        /\ admitted'[z].normal = admitted[z].normal
      /\ ~h0.critical => /\ admitted'[z].critical = admitted[z].critical
                         /\ admitted'[z].normal = admitted[z].normal + 1
  BY <1>1, ChargeAdds
<1>7. /\ Cardinality(Charging(z)') = Cardinality(Charging(z)) - 1
      /\ Cardinality(Charging(z)) \in Nat
  BY <1>5, ChargingFinite, FS_RemoveElement
<1>8. /\ ~h0.critical => Cardinality(ChargingNormal(z)') = Cardinality(ChargingNormal(z)) - 1
      /\ Cardinality(ChargingNormal(z)) \in Nat
  BY <1>5, ChargingFinite, FS_RemoveElement
<1>9. admitted[z].critical \in Nat /\ admitted[z].normal \in Nat
  BY <1>5 DEF BudgetInv, QuotaTypes, Admissions
<1>10. ASSUME NEW s \in Seconds
       PROVE  /\ admitted'[s].critical + admitted'[s].normal + Cardinality(Charging(s)')
                   <= AtMost(Rate)
              /\ admitted'[s].normal + Cardinality(ChargingNormal(s)') <= AtMost(limit(FALSE))
  <2>1. CASE s # z
    BY <1>5, <1>6, <2>1 DEF QuotaRoom
  <2>2. CASE s = z
    <3>1. PICK top \in Int, share \in Int : top = AtMost(Rate) /\ share = AtMost(limit(FALSE))
      BY AtMostInt
    <3>2. /\ admitted[z].critical + admitted[z].normal + Cardinality(Charging(z)) <= top
          /\ admitted[z].normal + Cardinality(ChargingNormal(z)) <= share
      BY <1>5, <3>1 DEF QuotaRoom
    <3>3. ASSUME h0.critical
          PROVE  /\ admitted'[z].critical + admitted'[z].normal + Cardinality(Charging(z)') <= top
                 /\ admitted'[z].normal + Cardinality(ChargingNormal(z)') <= share
      BY <1>5, <1>6, <1>7, <1>8, <1>9, <3>2, <3>3
    <3>4. ASSUME ~h0.critical
          PROVE  /\ admitted'[z].critical + admitted'[z].normal + Cardinality(Charging(z)') <= top
                 /\ admitted'[z].normal + Cardinality(ChargingNormal(z)') <= share
      BY <1>5, <1>6, <1>7, <1>8, <1>9, <3>2, <3>4
    <3> QED
      BY <2>2, <3>1, <3>3, <3>4
  <2> QED
    BY <2>1, <2>2
<1> QED
  BY <1>10 DEF QuotaRoom, AtMost, limit

LEMMA RoomStep ==
    ASSUME DetailAssumption, BudgetInv, QuotaRoom, [QuotaNext]_quotaVars
    PROVE  QuotaRoom'
<1>1. ASSUME UNCHANGED <<cpu, admitted>>
      PROVE  QuotaRoom'
  <2>1. \A s \in Seconds : Charging(s)' = Charging(s) /\ ChargingNormal(s)' = ChargingNormal(s)
    BY <1>1 DEF Charging, ChargingNormal
  <2> QED
    BY <1>1, <2>1, RoomKept
<1>2. ASSUME NEW c \in Cpus, NEW critical \in BOOLEAN, Anomaly(c, critical)
      PROVE  QuotaRoom'
  <2>1. PICK h : h = [pc |-> "lookup", sec |-> second, critical |-> critical]
    OBVIOUS
  <2>2. h \in Handlers /\ h.pc = "lookup"
    BY <2>1 DEF Handlers, BudgetInv, QuotaTypes, Seconds
  <2>3. cpu' = [cpu EXCEPT ![c] = h] /\ admitted' = admitted
    BY <1>2, <2>1 DEF Anomaly
  <2> QED
    BY <2>2, <2>3, RoomHandler
<1>3. ASSUME NEW c \in Cpus,
             Lookup(c) \/ Insert(c) \/ LookupAgain(c) \/ \E room \in BOOLEAN : Reserve(c, room)
      PROVE  QuotaRoom'
  <2>1. PICK h0 : h0 = cpu[c]
    OBVIOUS
  <2>2. Off \in Handlers /\ Off.pc = "idle" /\ h0 \in Handlers /\ cpu \in [Cpus -> Handlers]
    BY <2>1 DEF Off, Handlers, BudgetInv, QuotaTypes
  <2>3. admitted' = admitted
    BY <1>3 DEF Lookup, Insert, LookupAgain, Reserve
  <2>4. \/ cpu' = [cpu EXCEPT ![c] = Off]
        \/ \E p \in {"check", "insert", "again"} : cpu' = [cpu EXCEPT ![c] = [h0 EXCEPT !.pc = p]]
    BY <1>3, <2>1, <2>2 DEF Lookup, Insert, LookupAgain, Reserve
  <2>5. \A p \in {"check", "insert", "again"} :
           [h0 EXCEPT !.pc = p] \in Handlers /\ [h0 EXCEPT !.pc = p].pc = p
    BY <2>2 DEF Handlers
  <2>6. PICK h \in Handlers : cpu' = [cpu EXCEPT ![c] = h] /\ h.pc # "charge"
    BY <2>2, <2>4, <2>5
  <2> QED
    BY <2>3, <2>6, RoomHandler
<1>4. CASE UNCHANGED quotaVars
  BY <1>1, <1>4 DEF quotaVars
<1>5. CASE QuotaTick \/ StartPoll \/ ReadFails \/ Sweep \/ Swept \/ Abandon \/ Report
            \/ (\E s \in Seconds : Delete(s)) \/ (\E c \in Cpus : ReadCpu(c))
  <2>1. UNCHANGED <<cpu, admitted>>
    <3>1. CASE QuotaTick \/ StartPoll \/ ReadFails \/ Sweep \/ Swept \/ Abandon \/ Report
      BY <3>1 DEF QuotaTick, StartPoll, ReadFails, Sweep, Swept, Abandon, Report, kernelVars
    <3>2. CASE \E s \in Seconds : Delete(s)
      BY <3>2 DEF Delete
    <3>3. CASE \E c \in Cpus : ReadCpu(c)
      BY <3>3 DEF ReadCpu, kernelVars
    <3> QED
      BY <1>5, <3>1, <3>2, <3>3
  <2> QED
    BY <1>1, <2>1
<1> QED
  BY <1>2, <1>3, <1>4, <1>5, RoomCheck, RoomCharge DEF QuotaNext

-----------------------------------------------------------------------------
(* The capacity.                                                           *)

(* A handler that inserts a budget is at most two seconds behind the clock *)
(* and a sweep removes what is further behind the clock it has read, so a  *)
(* complete sweep leaves nothing that had expired.                         *)
LEMMA SweptStep ==
    ASSUME DetailAssumption, BudgetInv, SweptAway, [QuotaNext]_quotaVars
    PROVE  SweptAway'
<1>1. ASSUME DOMAIN budgets' \subseteq DOMAIN budgets, poll'.swept = poll.swept
      PROVE  SweptAway'
  BY <1>1 DEF SweptAway
<1>2. CASE UNCHANGED quotaVars \/ QuotaTick
  BY <1>1, <1>2 DEF quotaVars, QuotaTick, kernelVars, pollVars
<1>3. ASSUME NEW z \in Seconds, Delete(z)
      PROVE  SweptAway'
  <2>1. poll' = [poll EXCEPT !.stale = @ \ {z}] /\ poll \in Polls
    BY <1>3 DEF Delete, BudgetInv, QuotaTypes
  <2>2. poll'.swept = poll.swept
    BY <2>1 DEF Polls
  <2>3. DOMAIN budgets' \subseteq DOMAIN budgets
    BY <1>3 DEF Delete
  <2> QED
    BY <1>1, <2>2, <2>3
<1>4. ASSUME NEW c \in Cpus, ReadCpu(c)
      PROVE  SweptAway'
  <2>1. poll \in Polls /\ budgets' = budgets
    BY <1>4 DEF BudgetInv, QuotaTypes, ReadCpu, kernelVars
  <2>2. poll'.swept = poll.swept
    BY <1>4, <2>1 DEF ReadCpu, Polls
  <2> QED
    BY <1>1, <2>1, <2>2
<1>5. ASSUME NEW c \in Cpus,
             \/ \E critical \in BOOLEAN : Anomaly(c, critical)
             \/ \E room \in BOOLEAN : Reserve(c, room)
             \/ Lookup(c) \/ LookupAgain(c) \/ Check(c) \/ Charge(c)
      PROVE  SweptAway'
  <2>1. poll' = poll
    BY <1>5 DEF Anomaly, Reserve, Lookup, LookupAgain, Check, Charge, pollVars
  <2>2. DOMAIN budgets' = DOMAIN budgets
    BY <1>5, ChargeAdds DEF Anomaly, Reserve, Lookup, LookupAgain, Check
  <2> QED
    BY <1>1, <2>1, <2>2
<1>6. ASSUME NEW c \in Cpus, Insert(c)
      PROVE  SweptAway'
  <2>1. PICK z : z = cpu[c].sec
    OBVIOUS
  <2>2. z \in Nat /\ second <= z + 2
    BY <1>6, <2>1 DEF BudgetInv, QuotaTypes, HandlersRecent, Handlers, Insert
  <2>3. poll.swept <= z + 2
    BY <2>2 DEF BudgetInv, QuotaTypes, Polls, Seconds, SweepOK
  <2>4. poll' = poll /\ (budgets' = budgets \/ budgets' = InsertedOnce(z))
    BY <1>6, <2>1 DEF Insert, pollVars
  <2>5. DOMAIN budgets' \subseteq DOMAIN budgets \cup {z}
    BY <2>4, InsertedKeeps
  <2> QED
    BY <2>3, <2>4, <2>5 DEF SweptAway
<1>7. CASE StartPoll \/ ReadFails \/ Sweep \/ Swept \/ Abandon \/ Report
  <2>1. budgets' = budgets
    BY <1>7, PollFrame
  <2>2. CASE Swept
    <3>1. poll.pc = "delete" /\ poll.stale = {} /\ poll'.swept = poll.end
      BY <2>2, PollFields
    <3>2. \A s \in DOMAIN budgets : poll.end <= s + 2
      BY <3>1 DEF BudgetInv, SweepOK
    <3> QED
      BY <2>1, <3>1, <3>2 DEF SweptAway
  <2>3. CASE StartPoll \/ ReadFails \/ Sweep \/ Abandon \/ Report
    <3>1. poll'.swept = poll.swept
      BY <2>3, PollFields
    <3> QED
      BY <1>1, <2>1, <3>1
  <2> QED
    BY <1>7, <2>2, <2>3
<1> QED
  BY <1>2, <1>3, <1>4, <1>5, <1>6, <1>7 DEF QuotaNext

LEMMA SlotsInit == DetailAssumption /\ QuotaInit => SlotsInv
<1> SUFFICES ASSUME DetailAssumption, QuotaInit PROVE SlotsInv
  OBVIOUS
<1>1. /\ DOMAIN budgets = {} /\ poll.pc = "idle" /\ poll.end = 0 /\ poll.swept = 0
      /\ poll.missed = 0 /\ second = 0
  BY DEF QuotaInit
<1>2. Poll \in Nat /\ MaxMissed \in Nat
  BY DEF DetailAssumption
<1>3. SweepDebt
  BY <1>1, <1>2 DEF SweepDebt
<1>4. \A c \in Cpus : tally[c].detail_budget_failures = 0
  BY DEF QuotaInit, Zero, Counters
<1> QED
  BY <1>3, <1>4 DEF SlotsInv

(* Steps of the handlers that add no budget and count no budget failure.   *)
LEMMA SlotsKept ==
    ASSUME SlotsInv, UNCHANGED <<second, poll>>, DOMAIN budgets' \subseteq DOMAIN budgets,
           \A c \in Cpus : tally'[c].detail_budget_failures = tally[c].detail_budget_failures
    PROVE  SlotsInv'
  BY DEF SlotsInv, SweepDebt, Provisioned

(* When the map has its slots, a handler's second always finds one: the    *)
(* budgets in the map are of seconds no older than two before the last     *)
(* sweep, and that sweep is not long ago.                                  *)
LEMMA SweptRoom ==
    ASSUME DetailAssumption, BudgetInv, SweptAway, SlotsInv, Provisioned, NEW z \in 0..second,
           second <= z + 2, z \notin DOMAIN budgets
    PROVE  Cardinality(DOMAIN budgets) < BudgetSlots
<1>1. PICK e, w, m, k : /\ e = poll.end /\ w = poll.swept /\ m = poll.missed
                        /\ k = IF poll.pc \in {"idle", "report"} THEN m ELSE m + 1
  OBVIOUS
<1>2. /\ e \in Nat /\ w \in Nat /\ m \in Nat /\ k \in Nat /\ second \in Nat /\ w <= e /\ e <= second
  BY <1>1 DEF BudgetInv, QuotaTypes, SweepOK, Polls, Seconds
<1>3. /\ m <= MaxMissed /\ e <= w + k * Poll
      /\ poll.pc = "idle" => second <= e + Poll
      /\ poll.pc # "idle" => second <= e + Lag
      /\ \A s \in DOMAIN budgets : w <= s + 2
  BY <1>1 DEF SlotsInv, SweepDebt, SweptAway
<1>4. /\ Poll \in Nat /\ Lag \in Nat /\ MaxMissed \in Nat /\ BudgetSlots \in Nat /\ Lag <= Poll
      /\ BudgetSlots >= (1 + MaxMissed) * Poll + 3 + Lag
  BY DEF DetailAssumption, Provisioned
<1>5. second + 3 - w <= BudgetSlots
  <2>1. PICK x \in Nat : x = m * Poll
    BY <1>2, <1>4
  <2>2. (m + 1) * Poll = x + Poll
    BY <1>2, <1>4, <2>1
  <2>3. (1 + MaxMissed) * Poll >= x + Poll
    <3>1. PICK d \in Nat : MaxMissed = m + d
      <4>1. MaxMissed - m \in Nat /\ MaxMissed = m + (MaxMissed - m)
        BY <1>2, <1>3, <1>4
      <4> QED
        BY <4>1
    <3>2. PICK y \in Nat : y = d * Poll
      BY <1>4
    <3>3. (1 + MaxMissed) * Poll = x + Poll + y
      BY <1>2, <1>4, <2>1, <3>1, <3>2
    <3> QED
      BY <1>4, <2>1, <3>3
  <2>4. BudgetSlots >= x + Poll + 3 + Lag
    BY <1>4, <2>1, <2>3
  <2>5. CASE poll.pc = "idle"
    BY <1>1, <1>2, <1>3, <1>4, <2>1, <2>4, <2>5
  <2>6. CASE poll.pc # "idle"
    <3>1. k * Poll <= x + Poll
      BY <1>1, <1>4, <2>1, <2>2
    <3>2. PICK y \in Int : y = k * Poll
      BY <1>2, <1>4
    <3> QED
      BY <1>2, <1>3, <1>4, <2>1, <2>4, <2>6, <3>1, <3>2
  <2> QED
    BY <2>5, <2>6
<1>6. DOMAIN budgets \subseteq ((w - 2)..second) \ {z}
  BY <1>2, <1>3 DEF BudgetInv, QuotaTypes
<1>7. z \in (w - 2)..second
  BY <1>2
<1>8. /\ IsFiniteSet((w - 2)..second) /\ Cardinality((w - 2)..second) = second - (w - 2) + 1
  <2>1. w - 2 \in Int /\ second \in Int /\ w - 2 <= second
    BY <1>2
  <2> QED
    BY <2>1, FS_Interval
<1>9. /\ IsFiniteSet(((w - 2)..second) \ {z})
      /\ Cardinality(((w - 2)..second) \ {z}) = Cardinality((w - 2)..second) - 1
  BY <1>7, <1>8, FS_RemoveElement
<1>10. /\ Cardinality(DOMAIN budgets) <= Cardinality(((w - 2)..second) \ {z})
       /\ Cardinality(DOMAIN budgets) \in Nat
  BY <1>6, <1>9, FS_Subset, FS_CardinalityType
<1> QED
  BY <1>2, <1>4, <1>5, <1>8, <1>9, <1>10

LEMMA SlotsHandler ==
    ASSUME DetailAssumption, BudgetInv, SlotsInv, NEW c \in Cpus,
           \/ \E critical \in BOOLEAN : Anomaly(c, critical)
           \/ \E room \in BOOLEAN : Reserve(c, room)
           \/ Lookup(c) \/ LookupAgain(c) \/ Check(c) \/ Charge(c)
    PROVE  SlotsInv'
<1>1. UNCHANGED <<second, poll>>
  BY DEF Anomaly, Reserve, Lookup, LookupAgain, Check, Charge, pollVars
<1>2. DOMAIN budgets' = DOMAIN budgets
  BY ChargeAdds DEF Anomaly, Reserve, Lookup, LookupAgain, Check
<1>3. \/ tally' = tally
      \/ \E k \in {"anomalies", "suppressed", "ring_failures"} : Count(c, k)
  BY DEF Anomaly, Reserve, Lookup, LookupAgain, Check, Charge, BudgetInv, HandlerBudget
<1>4. \A d \in Cpus : tally'[d].detail_budget_failures = tally[d].detail_budget_failures
  <2>1. CASE tally' = tally
    BY <2>1
  <2>2. ASSUME NEW k \in {"anomalies", "suppressed", "ring_failures"}, Count(c, k)
        PROVE  \A d \in Cpus : tally'[d].detail_budget_failures = tally[d].detail_budget_failures
    BY <2>2, Counted DEF BudgetInv, Counters
  <2> QED
    BY <1>3, <2>1, <2>2
<1> QED
  BY <1>1, <1>2, <1>4, SlotsKept

LEMMA SlotsInsert ==
    ASSUME DetailAssumption, BudgetInv, SweptAway, SlotsInv, NEW c \in Cpus, Insert(c)
    PROVE  SlotsInv'
<1> SUFFICES ASSUME Provisioned
             PROVE  SweepDebt' /\ \A d \in Cpus : tally'[d].detail_budget_failures = 0
  BY DEF SlotsInv, Provisioned
<1>1. PICK z : z = cpu[c].sec
  OBVIOUS
<1>2. z \in 0..second /\ second <= z + 2 /\ second \in Nat /\ z \in Nat
  BY <1>1 DEF BudgetInv, QuotaTypes, HandlersRecent, Handlers, Insert, Seconds
<1>3. ~Full(z)
  <2>1. CASE z \notin DOMAIN budgets
    <3>1. Cardinality(DOMAIN budgets) < BudgetSlots
      BY <1>2, <2>1, SweptRoom
    <3>2. BudgetSlots \in Nat /\ Cardinality(DOMAIN budgets) \in Nat
      <4>1. IsFiniteSet(0..second)
        BY <1>2, FS_Interval
      <4>2. IsFiniteSet(DOMAIN budgets)
        BY <4>1, FS_Subset DEF BudgetInv, QuotaTypes
      <4> QED
        BY <4>2, FS_CardinalityType DEF DetailAssumption
    <3> QED
      BY <3>1, <3>2 DEF Full
  <2> QED
    BY <2>1 DEF Full
<1>4. budgets' = InsertedOnce(z) /\ tally' = tally /\ UNCHANGED <<second, poll>>
  BY <1>1, <1>3 DEF Insert, pollVars
<1>5. SweepDebt'
  BY <1>4 DEF SlotsInv, SweepDebt
<1> QED
  BY <1>4, <1>5 DEF SlotsInv

LEMMA SlotsPoll ==
    ASSUME DetailAssumption, BudgetInv, SlotsInv,
           StartPoll \/ ReadFails \/ Sweep \/ Swept \/ Abandon \/ Report
    PROVE  SlotsInv'
<1> SUFFICES ASSUME Provisioned
             PROVE  SweepDebt' /\ \A d \in Cpus : tally'[d].detail_budget_failures = 0
  BY DEF SlotsInv, Provisioned
<1>1. UNCHANGED <<second, budgets, tally>>
  BY PollFrame
<1>2. PICK e, w, m : e = poll.end /\ w = poll.swept /\ m = poll.missed
  OBVIOUS
<1>3. /\ e \in Nat /\ w \in Nat /\ m \in Nat /\ second \in Nat /\ w <= e /\ e <= second
      /\ Poll \in Nat /\ Lag \in Nat /\ MaxMissed \in Nat /\ Lag <= Poll
      /\ m <= MaxMissed
  BY <1>2 DEF BudgetInv, QuotaTypes, SweepOK, Polls, Seconds, DetailAssumption, Provisioned,
              SlotsInv, SweepDebt
<1>4. PICK x \in Nat : x = m * Poll
  BY <1>3
<1>5. (m + 1) * Poll = x + Poll /\ 0 * Poll = 0
  BY <1>3, <1>4
<1>6. /\ poll.pc = "idle" => second <= e + Poll /\ e <= w + x
      /\ poll.pc # "idle" => second <= e + Lag
      /\ poll.pc = "report" => e <= w + x
      /\ poll.pc \notin {"idle", "report"} => e <= w + (x + Poll)
  BY <1>2, <1>4, <1>5 DEF SlotsInv, SweepDebt
<1>7. CASE StartPoll
  <2>1. poll.pc = "idle" /\ poll'.pc = "read" /\ poll'.end = second /\ poll'.swept = w /\ poll'.missed = m
    BY <1>2, <1>7, PollFields
  <2>2. second <= w + (m + 1) * Poll /\ second <= second + Lag
    BY <1>3, <1>4, <1>5, <1>6, <2>1
  <2> QED
    BY <1>1, <1>3, <2>1, <2>2 DEF SweepDebt, SlotsInv
<1>8. CASE Report
  <2>1. poll.pc = "report" /\ poll'.pc = "idle" /\ poll'.end = e /\ poll'.swept = w /\ poll'.missed = m
    BY <1>2, <1>8, PollFields
  <2>2. second <= e + Poll /\ e <= w + m * Poll
    BY <1>3, <1>4, <1>6, <2>1
  <2> QED
    BY <1>1, <1>3, <2>1, <2>2 DEF SweepDebt, SlotsInv
<1>9. CASE Swept
  <2>1. /\ poll.pc = "delete" /\ poll.stale = {} /\ poll'.pc = "report" /\ poll'.end = e
        /\ poll'.swept = e /\ poll'.missed = 0
    BY <1>2, <1>9, PollFields
  <2>2. second <= e + Lag /\ e <= e + 0 * Poll /\ 0 <= MaxMissed
    BY <1>3, <1>5, <1>6, <2>1
  <2> QED
    BY <1>1, <2>1, <2>2 DEF SweepDebt, SlotsInv
<1>10. CASE Abandon
  <2>1. /\ poll.pc \in {"sweep", "delete"} /\ m < MaxMissed /\ poll'.pc = "report"
        /\ poll'.end = e /\ poll'.swept = w /\ poll'.missed = m + 1
    BY <1>2, <1>10, PollFields
  <2>2. second <= e + Lag /\ e <= w + (m + 1) * Poll /\ m + 1 <= MaxMissed
    BY <1>3, <1>5, <1>6, <2>1
  <2> QED
    BY <1>1, <1>3, <2>1, <2>2 DEF SweepDebt, SlotsInv
<1>11. CASE Sweep
  <2>1. /\ poll.pc = "sweep" /\ poll'.end = e /\ poll'.swept = w /\ poll'.missed = m
        /\ \/ poll'.pc = "report" /\ e = w
           \/ poll'.pc = "delete"
    BY <1>2, <1>11, PollFields
  <2>2. second <= e + Lag /\ e <= w + (m + 1) * Poll /\ (e = w => e <= w + m * Poll)
    BY <1>3, <1>4, <1>5, <1>6, <2>1
  <2> QED
    BY <1>1, <1>3, <2>1, <2>2 DEF SweepDebt, SlotsInv
<1>12. CASE ReadFails
  <2>1. poll.pc = "read" /\ poll'.pc = "failed" /\ poll'.end = e /\ poll'.swept = w /\ poll'.missed = m
    BY <1>2, <1>12, PollFields
  <2>2. second <= e + Lag /\ e <= w + (m + 1) * Poll
    BY <1>3, <1>4, <1>5, <1>6, <2>1
  <2> QED
    BY <1>1, <1>3, <2>1, <2>2 DEF SweepDebt, SlotsInv
<1> QED
  BY <1>7, <1>8, <1>9, <1>10, <1>11, <1>12

LEMMA SlotsStep ==
    ASSUME DetailAssumption, BudgetInv, SweptAway, SlotsInv, [QuotaNext]_quotaVars
    PROVE  SlotsInv'
<1>1. CASE UNCHANGED quotaVars
  BY <1>1, SlotsKept DEF quotaVars
<1>2. CASE QuotaTick
  <2>1. UNCHANGED <<poll, budgets, tally>> /\ second' = second + 1
    BY <1>2 DEF QuotaTick, kernelVars, pollVars
  <2>2. second \in Nat /\ poll.end \in Nat /\ Poll \in Nat /\ Lag \in Nat
    BY DEF BudgetInv, QuotaTypes, Polls, Seconds, DetailAssumption
  <2>3. /\ poll.pc = "idle" => second' <= poll.end + Poll
        /\ poll.pc # "idle" => second' <= poll.end + Lag
    BY <1>2, <2>1, <2>2 DEF QuotaTick
  <2> QED
    BY <2>1, <2>3 DEF SlotsInv, SweepDebt, Provisioned
<1>3. ASSUME NEW z \in Seconds, Delete(z)
      PROVE  SlotsInv'
  <2>1. poll' = [poll EXCEPT !.stale = @ \ {z}] /\ poll \in Polls
    BY <1>3 DEF Delete, BudgetInv, QuotaTypes
  <2>2. UNCHANGED <<poll.pc, poll.end, poll.swept, poll.missed>>
    BY <2>1 DEF Polls
  <2>3. UNCHANGED <<second, tally>> /\ DOMAIN budgets' \subseteq DOMAIN budgets
    BY <1>3 DEF Delete
  <2> QED
    BY <2>2, <2>3 DEF SlotsInv, SweepDebt, Provisioned
<1>4. ASSUME NEW c \in Cpus, ReadCpu(c)
      PROVE  SlotsInv'
  <2>1. PICK seen, todo, pc : /\ seen = [poll.seen EXCEPT ![c] = tally[c]]
                              /\ todo = poll.todo \ {c}
                              /\ pc = IF poll.todo = {c} THEN "sweep" ELSE "read"
    OBVIOUS
  <2>2. poll \in Polls /\ poll.pc = "read"
    BY <1>4 DEF BudgetInv, QuotaTypes, ReadCpu
  <2>3. poll' = [poll EXCEPT !.seen = seen, !.todo = todo, !.pc = pc]
    BY <1>4, <2>1, <2>2 DEF ReadCpu, Polls
  <2>4. UNCHANGED <<poll.end, poll.swept, poll.missed>> /\ poll'.pc = pc /\ pc \in {"read", "sweep"}
    BY <2>1, <2>2, <2>3 DEF Polls
  <2>5. UNCHANGED <<second, budgets, tally>>
    BY <1>4 DEF ReadCpu, kernelVars
  <2> QED
    BY <2>2, <2>4, <2>5 DEF SlotsInv, SweepDebt, Provisioned
<1> QED
  BY <1>1, <1>2, <1>3, <1>4, SlotsPoll, SlotsInsert, SlotsHandler DEF QuotaNext

-----------------------------------------------------------------------------
(* allowed of bpf/common.h takes no lock and pruneDetailBudgets of         *)
(* internal/sensor/sensor_linux.go runs beside it: on any number of CPUs,  *)
(* at any rate, no second admits more than its quota and one detail per    *)
(* further CPU, normal details leave the critical share alone, a budget    *)
(* that can still be charged is in the map and exact, and an expired one   *)
(* does not outlive the next complete sweep.                               *)
THEOREM QuotaEnforced ==
    ASSUME DetailAssumption
    PROVE  QuotaSpec => []BudgetsSound
<1> DEFINE Inv == BudgetInv /\ QuotaRoom /\ SweptAway
<1>1. QuotaInit => Inv
  <2> SUFFICES ASSUME QuotaInit PROVE Inv
    OBVIOUS
  <2>1. BudgetInv /\ SweptAway
    BY BudgetInitial DEF QuotaInit, SweptAway
  <2>2. \A s \in Seconds : Charging(s) = {} /\ ChargingNormal(s) = {}
                           /\ admitted[s].critical = 0 /\ admitted[s].normal = 0
    BY DEF Charging, ChargingNormal, QuotaInit, Off
  <2>3. PICK top \in Int, share \in Int :
           top = AtMost(Rate) /\ share = AtMost(limit(FALSE)) /\ top >= 0 /\ share >= 0
    BY AtMostInt
  <2>4. top >= 0 /\ share >= 0
    BY <2>3, Zenon
  <2>5. \A s \in Seconds :
           /\ admitted[s].critical + admitted[s].normal + Cardinality(Charging(s)) <= top
           /\ admitted[s].normal + Cardinality(ChargingNormal(s)) <= share
    <3>1. Cardinality({}) = 0
      BY FS_EmptySet
    <3>2. \A s \in Seconds : Cardinality(Charging(s)) = 0 /\ Cardinality(ChargingNormal(s)) = 0
      BY <2>2, <3>1
    <3> QED
      BY <2>2, <2>4, <3>2
  <2>6. QuotaRoom
    BY <2>3, <2>5 DEF QuotaRoom
  <2> QED
    BY <2>1, <2>6
<1>2. Inv /\ [QuotaNext]_quotaVars => Inv'
  BY BudgetStep, RoomStep, SweptStep
<1>3. Inv => BudgetsSound
  <2> SUFFICES ASSUME Inv PROVE BudgetsSound
    OBVIOUS
  <2>1. QuotaHeld
    <3> SUFFICES ASSUME NEW s \in Seconds
                 PROVE  /\ admitted[s].critical + admitted[s].normal <= AtMost(Rate)
                        /\ admitted[s].normal <= AtMost(limit(FALSE))
      BY DEF QuotaHeld
    <3>1. PICK top \in Int, share \in Int : top = AtMost(Rate) /\ share = AtMost(limit(FALSE))
      BY AtMostInt
    <3>2. /\ admitted[s].critical + admitted[s].normal + Cardinality(Charging(s)) <= top
          /\ admitted[s].normal + Cardinality(ChargingNormal(s)) <= share
      BY <3>1 DEF QuotaRoom
    <3>3. Cardinality(Charging(s)) \in Nat /\ Cardinality(ChargingNormal(s)) \in Nat
      BY ChargingFinite
    <3>4. admitted[s].critical \in Nat /\ admitted[s].normal \in Nat
      BY DEF BudgetInv, QuotaTypes, Admissions
    <3>5. admitted[s].critical + admitted[s].normal <= top /\ admitted[s].normal <= share
      BY <3>2, <3>3, <3>4
    <3> QED
      BY <3>1, <3>5
  <2>2. BudgetExact
    BY DEF BudgetExact, BudgetInv, HandlerBudget, Charged
  <2> QED
    BY <2>1, <2>2 DEF BudgetsSound
<1> QED
  BY <1>1, <1>2, <1>3, PTL DEF QuotaSpec

(* The 128 slots of detail_budgets in bpf/common.h: with slots for the     *)
(* polls of the sweeps that may fail in a row, no detail is lost to a full *)
(* map.                                                                    *)
THEOREM SlotsNeverRunOut ==
    ASSUME DetailAssumption
    PROVE  QuotaSpec => []BudgetsSuffice
<1> DEFINE Inv == BudgetInv /\ SweptAway /\ SlotsInv
<1>1. QuotaInit => Inv
  BY BudgetInitial, SlotsInit DEF QuotaInit, SweptAway
<1>2. Inv /\ [QuotaNext]_quotaVars => Inv'
  BY BudgetStep, SweptStep, SlotsStep
<1>3. Inv => BudgetsSuffice
  BY DEF SlotsInv, BudgetsSuffice
<1> QED
  BY <1>1, <1>2, <1>3, PTL DEF QuotaSpec

-----------------------------------------------------------------------------
(* The counters.                                                           *)

Busy == {c \in Cpus : cpu[c].pc # "idle"}

(* A poll has seen part of what was counted, and no more was reported than *)
(* the last one saw.                                                       *)
LossInv ==
    /\ submitted \in Nat /\ previous \in [Counters -> Nat] /\ reported = previous
    /\ Cardinality(DOMAIN budgets) <= BudgetSlots
    /\ AnomaliesAccounted
    /\ \A c \in Cpus, k \in Counters : poll.seen[c][k] <= tally[c][k]
    /\ \A k \in Counters : previous[k] <= Total(poll.seen, k)

CpuCounters == [Cpus -> [Counters -> Nat]]

LEMMA CountsMember ==
    ASSUME NEW m, NEW k, NEW p
    PROVE  p \in Counts(m, k) <=> \E c \in Cpus : \E i \in 1..m[c][k] : p = <<c, i>>
  BY DEF Counts

LEMMA CountsFinite ==
    ASSUME DetailAssumption, NEW m \in CpuCounters, NEW k \in Counters
    PROVE  IsFiniteSet(Counts(m, k)) /\ Total(m, k) \in Nat
<1> DEFINE row(c) == {<<c, i>> : i \in 1..m[c][k]}
           rows == {row(c) : c \in Cpus}
<1>1. ASSUME NEW c \in Cpus
      PROVE  IsFiniteSet(row(c))
  <2> DEFINE f == [i \in 1..m[c][k] |-> <<c, i>>]
  <2>1. f \in Surjection(1..m[c][k], row(c))
    BY DEF Surjection
  <2>2. m[c][k] \in Int
    BY DEF CpuCounters
  <2>3. IsFiniteSet(1..m[c][k])
    BY <2>2, FS_Interval
  <2> HIDE DEF f
  <2> QED
    BY <2>1, <2>3, FS_Surjection
<1>2. IsFiniteSet(rows)
  <2> DEFINE f == [c \in Cpus |-> row(c)]
  <2> HIDE DEF row
  <2>1. f \in Surjection(Cpus, rows)
    BY DEF Surjection
  <2>2. IsFiniteSet(Cpus)
    BY DEF DetailAssumption
  <2> HIDE DEF f
  <2> QED
    BY <2>1, <2>2, FS_Surjection
<1>3. \A T \in rows : IsFiniteSet(T)
  BY <1>1
<1>4. IsFiniteSet(UNION rows)
  <2> HIDE DEF rows
  <2> QED
    BY <1>2, <1>3, FS_UNION
<1>5. IsFiniteSet(Counts(m, k))
  BY <1>4 DEF Counts
<1> QED
  BY <1>5, FS_CardinalityType DEF Total

(* Sums of more are no less.                                               *)
LEMMA TotalMonotone ==
    ASSUME DetailAssumption, NEW m \in CpuCounters, NEW n \in CpuCounters, NEW k \in Counters,
           \A c \in Cpus : m[c][k] <= n[c][k]
    PROVE  Total(m, k) <= Total(n, k)
<1>1. Counts(m, k) \subseteq Counts(n, k)
  <2> SUFFICES ASSUME NEW p \in Counts(m, k)
               PROVE  p \in Counts(n, k)
    OBVIOUS
  <2>1. PICK c \in Cpus : \E i \in 1..m[c][k] : p = <<c, i>>
    BY CountsMember
  <2>2. PICK i \in 1..m[c][k] : p = <<c, i>>
    BY <2>1
  <2>3. i \in 1..n[c][k]
    BY DEF CpuCounters
  <2> QED
    BY <2>2, <2>3, CountsMember
<1> QED
  BY <1>1, CountsFinite, FS_Subset DEF Total

(* One count more on one CPU is one more in the sum.                       *)
LEMMA TotalCount ==
    ASSUME DetailAssumption, tally \in CpuCounters, NEW c \in Cpus, NEW k \in Counters, Count(c, k)
    PROVE  /\ Total(tally', k) = Total(tally, k) + 1
           /\ \A j \in Counters \ {k} : Total(tally', j) = Total(tally, j)
           /\ \A d \in Cpus, j \in Counters : tally[d][j] <= tally'[d][j]
           /\ tally' \in CpuCounters
<1> DEFINE n == tally[c][k]
<1>1. /\ tally' \in CpuCounters /\ n \in Nat /\ tally'[c][k] = n + 1
      /\ \A d \in Cpus \ {c} : tally'[d] = tally[d]
      /\ \A d \in Cpus : \A j \in Counters \ {k} : tally'[d][j] = tally[d][j]
  BY DEF CpuCounters, Count
<1>2. Counts(tally', k) = Counts(tally, k) \cup {<<c, n + 1>>}
  <2>1. ASSUME NEW p \in Counts(tally', k)
        PROVE  p \in Counts(tally, k) \cup {<<c, n + 1>>}
    <3>1. PICK d \in Cpus : \E i \in 1..tally'[d][k] : p = <<d, i>>
      BY CountsMember
    <3>2. PICK i \in 1..tally'[d][k] : p = <<d, i>>
      BY <3>1
    <3>3. CASE d = c /\ i = n + 1
      BY <3>2, <3>3
    <3>4. CASE ~(d = c /\ i = n + 1)
      <4>1. i \in 1..tally[d][k]
        <5>1. CASE d = c
          BY <1>1, <3>4, <5>1
        <5>2. CASE d # c
          BY <1>1, <5>2
        <5> QED
          BY <5>1, <5>2
      <4> QED
        BY <3>2, <4>1, CountsMember
    <3> QED
      BY <3>3, <3>4
  <2>2. ASSUME NEW p \in Counts(tally, k)
        PROVE  p \in Counts(tally', k)
    <3>1. PICK d \in Cpus : \E i \in 1..tally[d][k] : p = <<d, i>>
      BY CountsMember
    <3>2. PICK i \in 1..tally[d][k] : p = <<d, i>>
      BY <3>1
    <3>3. i \in 1..tally'[d][k]
      BY <1>1 DEF CpuCounters
    <3> QED
      BY <3>2, <3>3, CountsMember
  <2>3. <<c, n + 1>> \in Counts(tally', k)
    <3>1. n + 1 \in 1..tally'[c][k]
      BY <1>1
    <3> QED
      BY <3>1, CountsMember
  <2> QED
    BY <2>1, <2>2, <2>3
<1>3. <<c, n + 1>> \notin Counts(tally, k)
  <2> SUFFICES ASSUME <<c, n + 1>> \in Counts(tally, k)
               PROVE  FALSE
    OBVIOUS
  <2>1. PICK d \in Cpus : \E i \in 1..tally[d][k] : <<c, n + 1>> = <<d, i>>
    BY CountsMember
  <2> QED
    BY <1>1, <2>1
<1>4. Total(tally', k) = Total(tally, k) + 1
  BY <1>2, <1>3, CountsFinite, FS_AddElement DEF Total
<1>5. ASSUME NEW j \in Counters \ {k}
      PROVE  Total(tally', j) = Total(tally, j)
  <2>1. \A p : p \in Counts(tally', j) <=> p \in Counts(tally, j)
    <3> SUFFICES ASSUME NEW p
                 PROVE  p \in Counts(tally', j) <=> p \in Counts(tally, j)
      OBVIOUS
    <3>1. \A d \in Cpus : tally'[d][j] = tally[d][j]
      BY <1>1
    <3>2. p \in Counts(tally', j) <=> \E d \in Cpus : \E i \in 1..tally'[d][j] : p = <<d, i>>
      BY CountsMember
    <3>3. p \in Counts(tally, j) <=> \E d \in Cpus : \E i \in 1..tally[d][j] : p = <<d, i>>
      BY CountsMember
    <3> QED
      BY <3>1, <3>2, <3>3
  <2>2. Counts(tally', j) = Counts(tally, j)
    BY <2>1
  <2> QED
    BY <2>2 DEF Total
<1>6. ASSUME NEW d \in Cpus, NEW j \in Counters
      PROVE  tally[d][j] <= tally'[d][j]
  <2>1. tally[d][j] \in Nat
    BY DEF CpuCounters
  <2>2. tally'[d][j] = tally[d][j] \/ (d = c /\ j = k)
    BY <1>1
  <2> QED
    BY <1>1, <2>1, <2>2
<1> QED
  BY <1>1, <1>4, <1>5, <1>6

LEMMA LossInit == DetailAssumption /\ QuotaInit => LossInv
<1> SUFFICES ASSUME DetailAssumption, QuotaInit PROVE LossInv
  OBVIOUS
<1>1. /\ submitted = 0 /\ DOMAIN budgets = {} /\ previous = Zero /\ reported = Zero
      /\ \A c \in Cpus : tally[c] = Zero /\ poll.seen[c] = Zero /\ cpu[c].pc = "idle"
  BY DEF QuotaInit, Off
<1>2. Zero \in [Counters -> Nat] /\ \A k \in Counters : Zero[k] = 0
  BY DEF Zero
<1>3. \A k \in Counters : Counts(tally, k) = {} /\ Counts(poll.seen, k) = {}
  BY <1>1, <1>2 DEF Counts
<1>4. \A k \in Counters : Total(tally, k) = 0 /\ Total(poll.seen, k) = 0
  BY <1>3, FS_EmptySet DEF Total
<1>5. Cardinality({c \in Cpus : cpu[c].pc # "idle"}) = 0
  <2>1. {c \in Cpus : cpu[c].pc # "idle"} = {}
    BY <1>1
  <2> QED
    BY <2>1, FS_EmptySet
<1>6. AnomaliesAccounted
  BY <1>1, <1>4, <1>5 DEF AnomaliesAccounted, Counters
<1>7. Cardinality(DOMAIN budgets) <= BudgetSlots
  BY <1>1, FS_EmptySet DEF DetailAssumption
<1> QED
  BY <1>1, <1>2, <1>4, <1>6, <1>7 DEF LossInv

LEMMA BusyFinite ==
    ASSUME DetailAssumption
    PROVE  IsFiniteSet(Busy) /\ Cardinality(Busy) \in Nat
<1>1. IsFiniteSet(Cpus) /\ Busy \in SUBSET Cpus
  BY DEF Busy, DetailAssumption
<1> QED
  BY <1>1, FS_Subset, FS_CardinalityType

LEMMA TotalsNat ==
    ASSUME DetailAssumption, BudgetInv, LossInv
    PROVE  /\ tally \in CpuCounters /\ poll.seen \in CpuCounters /\ poll \in Polls
           /\ Total(tally, "anomalies") \in Nat /\ Total(tally, "suppressed") \in Nat
           /\ Total(tally, "ring_failures") \in Nat /\ Total(tally, "detail_budget_failures") \in Nat
           /\ Total(tally, "anomalies") = submitted + Total(tally, "suppressed")
                + Total(tally, "ring_failures") + Total(tally, "detail_budget_failures") + Cardinality(Busy)
           /\ submitted \in Nat
<1>1. tally \in CpuCounters /\ poll.seen \in CpuCounters /\ poll \in Polls
  BY DEF BudgetInv, QuotaTypes, Polls, CpuCounters
<1>2. \A k \in Counters : Total(tally, k) \in Nat
  BY <1>1, CountsFinite
<1> QED
  BY <1>1, <1>2 DEF LossInv, AnomaliesAccounted, Busy, Counters

(* A step of the kernel side that accounts for its anomalies.              *)
LEMMA LossFrame ==
    ASSUME DetailAssumption, BudgetInv, LossInv, UNCHANGED pollVars, submitted' \in Nat,
           tally' = tally \/ \E c \in Cpus, k \in Counters : Count(c, k),
           Cardinality(DOMAIN budgets') <= BudgetSlots, AnomaliesAccounted'
    PROVE  LossInv'
<1>1. UNCHANGED <<poll, previous, reported>>
  BY DEF pollVars
<1>2. tally \in CpuCounters /\ poll.seen \in CpuCounters
  BY TotalsNat
<1>3. tally' \in CpuCounters /\ \A c \in Cpus, k \in Counters : tally[c][k] <= tally'[c][k]
  <2>1. CASE tally' = tally
    BY <1>2, <2>1 DEF CpuCounters
  <2>2. CASE \E c \in Cpus, k \in Counters : Count(c, k)
    BY <1>2, <2>2, TotalCount
  <2> QED
    BY <2>1, <2>2
<1>4. \A c \in Cpus, k \in Counters : poll'.seen[c][k] <= tally'[c][k]
  BY <1>1, <1>2, <1>3 DEF LossInv, CpuCounters
<1>5. previous' \in [Counters -> Nat] /\ reported' = previous'
  BY <1>1 DEF LossInv
<1>6. \A k \in Counters : Total(poll.seen, k)' = Total(poll.seen, k)
  BY <1>1 DEF Total, Counts
<1>7. \A k \in Counters : previous'[k] <= Total(poll.seen, k)'
  BY <1>1, <1>6 DEF LossInv
<1> QED
  BY <1>4, <1>5, <1>7 DEF LossInv

LEMMA LossAnomaly ==
    ASSUME DetailAssumption, BudgetInv, LossInv, NEW c \in Cpus, NEW critical \in BOOLEAN,
           Anomaly(c, critical)
    PROVE  LossInv'
<1>1. /\ cpu[c].pc = "idle" /\ Count(c, "anomalies") /\ UNCHANGED <<budgets, submitted, pollVars>>
      /\ cpu' = [cpu EXCEPT ![c] = [pc |-> "lookup", sec |-> second, critical |-> critical]]
  BY DEF Anomaly
<1>2. cpu'[c].pc = "lookup" /\ \A d \in Cpus \ {c} : cpu'[d] = cpu[d]
  BY <1>1 DEF BudgetInv, QuotaTypes
<1>3. Busy' = Busy \cup {c} /\ c \notin Busy
  BY <1>1, <1>2 DEF Busy
<1>4. Cardinality(Busy') = Cardinality(Busy) + 1
  BY <1>3, BusyFinite, FS_AddElement
<1>5. /\ Total(tally', "anomalies") = Total(tally, "anomalies") + 1
      /\ Total(tally', "suppressed") = Total(tally, "suppressed")
      /\ Total(tally', "ring_failures") = Total(tally, "ring_failures")
      /\ Total(tally', "detail_budget_failures") = Total(tally, "detail_budget_failures")
  BY <1>1, TotalsNat, TotalCount DEF Counters
<1>6. AnomaliesAccounted'
  <2>1. Total(tally', "anomalies") = submitted' + Total(tally', "suppressed")
          + Total(tally', "ring_failures") + Total(tally', "detail_budget_failures") + Cardinality(Busy')
    BY <1>1, <1>4, <1>5, TotalsNat, BusyFinite
  <2> QED
    BY <2>1 DEF AnomaliesAccounted, Busy, Total, Counts
<1>7. submitted' \in Nat /\ Cardinality(DOMAIN budgets') <= BudgetSlots
  BY <1>1 DEF LossInv
<1> QED
  BY <1>1, <1>6, <1>7, LossFrame DEF Counters

(* A handler that goes on leaves the account as it was.                    *)
LEMMA LossGoesOn ==
    ASSUME DetailAssumption, BudgetInv, LossInv, NEW c \in Cpus, cpu[c].pc # "idle",
           cpu'[c].pc # "idle", \A d \in Cpus \ {c} : cpu'[d] = cpu[d],
           UNCHANGED <<tally, submitted, pollVars>>, Cardinality(DOMAIN budgets') <= BudgetSlots
    PROVE  LossInv'
<1>1. Busy' = Busy
  BY DEF Busy
<1>2. AnomaliesAccounted'
  <2>1. Total(tally', "anomalies") = submitted' + Total(tally', "suppressed")
          + Total(tally', "ring_failures") + Total(tally', "detail_budget_failures") + Cardinality(Busy')
    BY <1>1, TotalsNat
  <2> QED
    BY <2>1 DEF AnomaliesAccounted, Busy, Total, Counts
<1> QED
  BY <1>2, LossFrame DEF LossInv

(* A handler that ends has submitted its detail or counted its loss.       *)
LEMMA LossEnds ==
    ASSUME DetailAssumption, BudgetInv, LossInv, NEW c \in Cpus, cpu[c].pc # "idle",
           cpu' = [cpu EXCEPT ![c] = Off], UNCHANGED <<budgets, pollVars>>,
           \/ submitted' = submitted + 1 /\ tally' = tally
           \/ /\ submitted' = submitted
              /\ \E k \in {"suppressed", "ring_failures", "detail_budget_failures"} : Count(c, k)
    PROVE  LossInv'
<1>1. Off.pc = "idle"
  BY DEF Off
<1>2. cpu'[c].pc = "idle" /\ \A d \in Cpus \ {c} : cpu'[d] = cpu[d]
  BY <1>1 DEF BudgetInv, QuotaTypes
<1>3. Busy' = Busy \ {c} /\ c \in Busy
  BY <1>2 DEF Busy
<1>4. Cardinality(Busy') = Cardinality(Busy) - 1
  BY <1>3, BusyFinite, FS_RemoveElement
<1>5. Total(tally', "anomalies") = submitted' + Total(tally', "suppressed")
          + Total(tally', "ring_failures") + Total(tally', "detail_budget_failures") + Cardinality(Busy')
  <2>1. CASE submitted' = submitted + 1 /\ tally' = tally
    <3>1. \A k \in Counters : Total(tally', k) = Total(tally, k)
      BY <2>1
    <3> QED
      BY <1>4, <2>1, <3>1, TotalsNat, BusyFinite DEF Counters
  <2>2. ASSUME submitted' = submitted, NEW k \in {"suppressed", "ring_failures", "detail_budget_failures"},
               Count(c, k)
        PROVE  Total(tally', "anomalies") = submitted' + Total(tally', "suppressed")
                 + Total(tally', "ring_failures") + Total(tally', "detail_budget_failures")
                 + Cardinality(Busy')
    <3>1. k \in Counters /\ k # "anomalies"
      BY DEF Counters
    <3>2. /\ Total(tally', k) = Total(tally, k) + 1
          /\ \A j \in Counters \ {k} : Total(tally', j) = Total(tally, j)
      BY <2>2, <3>1, TotalsNat, TotalCount
    <3> QED
      BY <1>4, <2>2, <3>1, <3>2, TotalsNat, BusyFinite DEF Counters
  <2> QED
    BY <2>1, <2>2
<1>6. AnomaliesAccounted'
  BY <1>5 DEF AnomaliesAccounted, Busy, Total, Counts
<1>7. submitted' \in Nat /\ Cardinality(DOMAIN budgets') <= BudgetSlots
  BY DEF LossInv
<1>8. tally' = tally \/ \E d \in Cpus, k \in Counters : Count(d, k)
  BY DEF Counters
<1> QED
  BY <1>6, <1>7, <1>8, LossFrame

LEMMA LossHandler ==
    ASSUME DetailAssumption, BudgetInv, LossInv, NEW c \in Cpus,
           \/ Lookup(c) \/ LookupAgain(c) \/ Check(c) \/ Charge(c)
           \/ \E room \in BOOLEAN : Reserve(c, room)
    PROVE  LossInv'
<1>1. cpu \in [Cpus -> Handlers] /\ Cardinality(DOMAIN budgets) <= BudgetSlots /\ submitted \in Nat
  BY DEF BudgetInv, QuotaTypes, LossInv
<1>2. PICK h : h = cpu[c]
  OBVIOUS
<1>3. h \in Handlers
  BY <1>1, <1>2
<1>4. ASSUME NEW p \in {"check", "insert", "charge", "reserve"},
             cpu' = [cpu EXCEPT ![c] = [h EXCEPT !.pc = p]]
      PROVE  cpu'[c].pc # "idle" /\ \A d \in Cpus \ {c} : cpu'[d] = cpu[d]
  BY <1>1, <1>2, <1>3, <1>4 DEF Handlers
<1>5. CASE Lookup(c)
  <2>1. cpu[c].pc = "lookup" /\ UNCHANGED <<budgets, tally, submitted, pollVars>>
    BY <1>5 DEF Lookup
  <2>2. \E p \in {"check", "insert"} : cpu' = [cpu EXCEPT ![c] = [h EXCEPT !.pc = p]]
    BY <1>1, <1>2, <1>5 DEF Lookup
  <2>3. cpu'[c].pc # "idle" /\ \A d \in Cpus \ {c} : cpu'[d] = cpu[d]
    BY <1>4, <2>2
  <2> QED
    BY <1>1, <2>1, <2>3, LossGoesOn
<1>6. CASE LookupAgain(c)
  <2>1. cpu[c].pc = "again" /\ UNCHANGED <<budgets, submitted, pollVars>>
    BY <1>6 DEF LookupAgain
  <2>2. CASE h.sec \in DOMAIN budgets
    <3>1. cpu' = [cpu EXCEPT ![c] = [h EXCEPT !.pc = "check"]] /\ tally' = tally
      BY <1>1, <1>2, <1>6, <2>2 DEF LookupAgain
    <3>2. cpu'[c].pc # "idle" /\ \A d \in Cpus \ {c} : cpu'[d] = cpu[d]
      BY <1>4, <3>1
    <3> QED
      BY <1>1, <2>1, <3>1, <3>2, LossGoesOn
  <2>3. CASE h.sec \notin DOMAIN budgets
    <3>1. cpu' = [cpu EXCEPT ![c] = Off] /\ Count(c, "detail_budget_failures")
      BY <1>2, <1>6, <2>3 DEF LookupAgain
    <3> QED
      BY <2>1, <3>1, LossEnds
  <2> QED
    BY <2>2, <2>3
<1>7. CASE Check(c)
  <2>1. cpu[c].pc = "check" /\ UNCHANGED <<budgets, submitted, pollVars>>
    BY <1>7 DEF Check
  <2>2. CASE ~spent(budgets[cpu[c].sec], limit(cpu[c].critical))
    <3>1. cpu' = [cpu EXCEPT ![c] = [h EXCEPT !.pc = "charge"]] /\ tally' = tally
      BY <1>1, <1>2, <1>7, <2>2 DEF Check
    <3>2. cpu'[c].pc # "idle" /\ \A d \in Cpus \ {c} : cpu'[d] = cpu[d]
      BY <1>4, <3>1
    <3> QED
      BY <1>1, <2>1, <3>1, <3>2, LossGoesOn
  <2>3. CASE spent(budgets[cpu[c].sec], limit(cpu[c].critical))
    <3>1. cpu' = [cpu EXCEPT ![c] = Off] /\ Count(c, "suppressed")
      BY <1>7, <2>3 DEF Check
    <3> QED
      BY <2>1, <3>1, LossEnds
  <2> QED
    BY <2>2, <2>3
<1>8. CASE Charge(c)
  <2>1. cpu[c].pc = "charge" /\ UNCHANGED <<tally, submitted, pollVars>>
    BY <1>8 DEF Charge
  <2>2. cpu' = [cpu EXCEPT ![c] = [h EXCEPT !.pc = "reserve"]]
    BY <1>1, <1>2, <1>8 DEF Charge
  <2>3. cpu'[c].pc # "idle" /\ \A d \in Cpus \ {c} : cpu'[d] = cpu[d]
    BY <1>4, <2>2
  <2>4. DOMAIN budgets' = DOMAIN budgets
    BY <1>8 DEF Charge
  <2> QED
    BY <1>1, <2>1, <2>3, <2>4, LossGoesOn
<1>9. ASSUME NEW room \in BOOLEAN, Reserve(c, room)
      PROVE  LossInv'
  <2>1. /\ cpu[c].pc = "reserve" /\ cpu' = [cpu EXCEPT ![c] = Off]
        /\ UNCHANGED <<budgets, pollVars>>
    BY <1>9 DEF Reserve
  <2>2. \/ submitted' = submitted + 1 /\ tally' = tally
        \/ submitted' = submitted /\ Count(c, "ring_failures")
    BY <1>9 DEF Reserve
  <2> QED
    BY <2>1, <2>2, LossEnds
<1> QED
  BY <1>5, <1>6, <1>7, <1>8, <1>9

LEMMA BudgetsFinite ==
    ASSUME BudgetInv
    PROVE  IsFiniteSet(DOMAIN budgets) /\ Cardinality(DOMAIN budgets) \in Nat
<1>1. DOMAIN budgets \in SUBSET (0..second) /\ second \in Int
  BY DEF BudgetInv, QuotaTypes, Seconds
<1>2. IsFiniteSet(0..second)
  BY <1>1, FS_Interval
<1> QED
  BY <1>1, <1>2, FS_Subset, FS_CardinalityType

LEMMA LossInsert ==
    ASSUME DetailAssumption, BudgetInv, LossInv, NEW c \in Cpus, Insert(c)
    PROVE  LossInv'
<1>1. PICK h : h = cpu[c]
  OBVIOUS
<1>2. cpu \in [Cpus -> Handlers] /\ h \in Handlers /\ budgets \in [DOMAIN budgets -> Nat]
  BY <1>1 DEF BudgetInv, QuotaTypes
<1>3. h.pc = "insert" /\ UNCHANGED <<submitted, pollVars>>
  BY <1>1 DEF Insert
<1>4. CASE Full(h.sec)
  <2>1. cpu' = [cpu EXCEPT ![c] = Off] /\ Count(c, "detail_budget_failures") /\ budgets' = budgets
    BY <1>1, <1>4 DEF Insert
  <2> QED
    BY <1>1, <1>3, <2>1, LossEnds
<1>5. CASE ~Full(h.sec)
  <2>1. /\ cpu' = [cpu EXCEPT ![c] = [h EXCEPT !.pc = "again"]]
        /\ budgets' = InsertedOnce(h.sec) /\ tally' = tally
    BY <1>1, <1>2, <1>5 DEF Insert
  <2>2. cpu'[c].pc # "idle" /\ \A d \in Cpus \ {c} : cpu'[d] = cpu[d]
    BY <1>2, <2>1 DEF Handlers
  <2>3. DOMAIN budgets' = DOMAIN budgets \cup {h.sec}
    BY <1>2, <2>1, InsertedKeeps
  <2>4. Cardinality(DOMAIN budgets') <= BudgetSlots
    <3>1. CASE h.sec \in DOMAIN budgets
      <4>1. DOMAIN budgets' = DOMAIN budgets
        BY <2>3, <3>1
      <4> QED
        BY <4>1 DEF LossInv
    <3>2. CASE h.sec \notin DOMAIN budgets
      <4>1. Cardinality(DOMAIN budgets) < BudgetSlots
        BY <1>5, <3>2, BudgetsFinite DEF Full, DetailAssumption
      <4>2. Cardinality(DOMAIN budgets') = Cardinality(DOMAIN budgets) + 1
        BY <2>3, <3>2, BudgetsFinite, FS_AddElement
      <4> QED
        BY <4>1, <4>2, BudgetsFinite DEF DetailAssumption
    <3> QED
      BY <3>1, <3>2
  <2> QED
    BY <1>1, <1>3, <2>1, <2>2, <2>4, LossGoesOn
<1> QED
  BY <1>4, <1>5

(* A step of the poll that neither reads counters nor reports them.        *)
LEMMA LossPoll ==
    ASSUME DetailAssumption, BudgetInv, LossInv,
           QuotaTick \/ StartPoll \/ ReadFails \/ Sweep \/ Swept \/ Abandon \/ \E s \in Seconds : Delete(s)
    PROVE  LossInv'
<1>1. UNCHANGED <<cpu, tally, submitted, previous, reported>>
  BY DEF QuotaTick, StartPoll, ReadFails, Sweep, Swept, Abandon, Delete, kernelVars, pollVars
<1>2. poll'.seen = poll.seen
  <2>1. poll \in Polls
    BY TotalsNat
  <2> QED
    BY <2>1 DEF QuotaTick, StartPoll, ReadFails, Sweep, Swept, Abandon, Delete, pollVars, Polls
<1>3. DOMAIN budgets' \in SUBSET (DOMAIN budgets)
  BY DEF QuotaTick, StartPoll, ReadFails, Sweep, Swept, Abandon, Delete, kernelVars
<1>4. Cardinality(DOMAIN budgets') <= BudgetSlots
  <2>1. Cardinality(DOMAIN budgets') <= Cardinality(DOMAIN budgets) /\ Cardinality(DOMAIN budgets') \in Nat
    BY <1>3, BudgetsFinite, FS_Subset, FS_CardinalityType
  <2> QED
    BY <2>1, BudgetsFinite DEF LossInv, DetailAssumption
<1>5. AnomaliesAccounted'
  BY <1>1 DEF LossInv, AnomaliesAccounted, Total, Counts
<1>6. \A k \in Counters : Total(poll.seen, k)' = Total(poll.seen, k)
  BY <1>2 DEF Total, Counts
<1> QED
  BY <1>1, <1>2, <1>4, <1>5, <1>6 DEF LossInv

LEMMA LossRead ==
    ASSUME DetailAssumption, BudgetInv, LossInv, NEW c \in Cpus, ReadCpu(c)
    PROVE  LossInv'
<1>1. UNCHANGED <<budgets, cpu, tally, submitted, previous, reported>>
  BY DEF ReadCpu, kernelVars
<1>2. tally \in CpuCounters /\ poll.seen \in CpuCounters /\ poll \in Polls
  BY TotalsNat
<1>3. poll'.seen = [poll.seen EXCEPT ![c] = tally[c]]
  BY <1>2 DEF ReadCpu, Polls
<1>4. poll'.seen \in CpuCounters
  BY <1>2, <1>3 DEF CpuCounters
<1>5. \A d \in Cpus, k \in Counters :
          poll.seen[d][k] <= poll'.seen[d][k] /\ poll'.seen[d][k] <= tally[d][k]
  BY <1>2, <1>3 DEF LossInv, CpuCounters
<1>6. ASSUME NEW k \in Counters
      PROVE  previous'[k] <= Total(poll'.seen, k)
  <2>1. Total(poll.seen, k) <= Total(poll'.seen, k)
    BY <1>2, <1>4, <1>5, TotalMonotone
  <2>2. Total(poll.seen, k) \in Nat /\ Total(poll'.seen, k) \in Nat
    BY <1>2, <1>4, CountsFinite
  <2>3. previous[k] \in Nat /\ previous[k] <= Total(poll.seen, k)
    BY DEF LossInv
  <2> QED
    BY <1>1, <2>1, <2>2, <2>3
<1>7. AnomaliesAccounted'
  BY <1>1 DEF LossInv, AnomaliesAccounted, Total, Counts
<1>8. \A k \in Counters : previous'[k] <= Total(poll.seen, k)'
  BY <1>6 DEF Total, Counts
<1> QED
  BY <1>1, <1>5, <1>7, <1>8 DEF LossInv

(* The sums never go back, so a delta is their difference.                 *)
LEMMA LossReport ==
    ASSUME DetailAssumption, BudgetInv, LossInv, Report
    PROVE  LossInv'
<1>1. /\ UNCHANGED <<budgets, cpu, tally, submitted>> /\ previous' = sum
      /\ reported' = [k \in Counters |-> reported[k] + delta(sum[k], previous[k])]
  BY DEF Report, kernelVars
<1>2. poll.seen \in CpuCounters /\ poll \in Polls
  BY TotalsNat
<1>3. poll'.seen = poll.seen
  BY <1>2 DEF Report, Polls
<1>4. \A k \in Counters : sum[k] = Total(poll.seen, k) /\ sum[k] \in Nat
  BY <1>2, CountsFinite DEF sum
<1>5. sum = [k \in Counters |-> sum[k]] /\ sum \in [Counters -> Nat]
  BY <1>4 DEF sum
<1>6. \A k \in Counters : reported[k] + delta(sum[k], previous[k]) = sum[k]
  BY <1>4 DEF LossInv, delta
<1>7. reported' = [k \in Counters |-> sum[k]]
  BY <1>1, <1>6
<1>8. reported' = previous' /\ previous' \in [Counters -> Nat]
  BY <1>1, <1>5, <1>7
<1>9. AnomaliesAccounted'
  BY <1>1 DEF LossInv, AnomaliesAccounted, Total, Counts
<1>10. \A k \in Counters : Total(poll.seen, k)' = Total(poll.seen, k)
  BY <1>3 DEF Total, Counts
<1>11. \A k \in Counters : previous'[k] <= Total(poll.seen, k)'
  BY <1>1, <1>4, <1>10
<1>12. \A c \in Cpus, k \in Counters : poll'.seen[c][k] <= tally'[c][k]
  BY <1>1, <1>3 DEF LossInv
<1> QED
  BY <1>1, <1>8, <1>9, <1>11, <1>12 DEF LossInv

LEMMA LossStep ==
    ASSUME DetailAssumption, BudgetInv, LossInv, [QuotaNext]_quotaVars
    PROVE  LossInv'
<1>1. CASE UNCHANGED quotaVars
  BY <1>1 DEF quotaVars, LossInv, AnomaliesAccounted, Total, Counts
<1> QED
  BY <1>1, LossAnomaly, LossHandler, LossInsert, LossPoll, LossRead, LossReport DEF QuotaNext

(* reserve and allowed of bpf/common.h count what they turn away, and      *)
(* Snapshot of internal/sensor/sensor_linux.go sums the CPUs' counters one *)
(* after another while they run: on any number of CPUs every anomaly is    *)
(* submitted, counted as lost or still in a handler, and the deltas of all *)
(* polls add up to what was read, never to more than was counted.          *)
THEOREM NoSilentLoss ==
    ASSUME DetailAssumption
    PROVE  QuotaSpec => []LossAccounted
<1> DEFINE Inv == BudgetInv /\ LossInv
<1>1. QuotaInit => Inv
  BY BudgetInitial, LossInit
<1>2. Inv /\ [QuotaNext]_quotaVars => Inv'
  BY BudgetStep, LossStep
<1>3. Inv => LossAccounted
  <2> SUFFICES ASSUME Inv PROVE LossAccounted
    OBVIOUS
  <2>1. QuotaTypeOK
    BY DEF QuotaTypeOK, BudgetInv, QuotaTypes, LossInv
  <2>2. DeltasExact
    <3> SUFFICES ASSUME NEW k \in Counters
                 PROVE  reported[k] <= Total(tally, k)
      BY DEF DeltasExact, LossInv
    <3>1. tally \in CpuCounters /\ poll.seen \in CpuCounters
      BY TotalsNat
    <3>2. Total(poll.seen, k) <= Total(tally, k)
      BY <3>1, TotalMonotone DEF LossInv
    <3>3. Total(poll.seen, k) \in Nat /\ Total(tally, k) \in Nat
      BY <3>1, CountsFinite
    <3>4. reported[k] \in Nat /\ reported[k] <= Total(poll.seen, k)
      BY DEF LossInv
    <3> QED
      BY <3>2, <3>3, <3>4
  <2> QED
    BY <2>1, <2>2 DEF LossAccounted, LossInv
<1> QED
  BY <1>1, <1>2, <1>3, PTL DEF QuotaSpec
=============================================================================
