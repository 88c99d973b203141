----------------------------- MODULE AutoCapture -----------------------------
(***************************************************************************)
(* Automatic capture as the recorder loop drives it: Engine.RunWithReady's *)
(* select, collect over the sensors, and automatic.progress, composed with *)
(* the controller (Controller.tla).  The loop is one goroutine; `phase` is *)
(* where it stands in the iteration that the select chose:                 *)
(*                                                                         *)
(*   select -> [collect ->] progress -> schedule -> select                 *)
(*                                                                         *)
(* The snapshot lease and the file worker are the environment here: the    *)
(* lease is free or held at any time, a write ends with any outcome.       *)
(* Engine.tla models those two.                                            *)
(***************************************************************************)
EXTENDS Controller

CONSTANTS
    Sensors,      \* names of the ready sensors
    Strict,       \* stop the recorder when a sensor fails
    RetryInterval,\* config.AutoRetryInterval
    MaxTime,      \* bound: latest clock reading
    MaxCount,     \* bound: observations in one aggregate delta
    NoJob,        \* no file handed to the worker
    Off           \* the automatic timer is not armed

ASSUME LoopAssumption ==
    /\ Strict \in BOOLEAN
    /\ RetryInterval \in Nat /\ MaxTime \in Nat /\ MaxCount \in Nat
    /\ AutoSensors \subseteq Sensors

Time == 0..MaxTime
Interval == [start : Nat, end : Nat]
Job == [incident : Incident, start : Nat, deadline : Nat]

ASSUME NoJobAssumption == NoJob \notin Job
ASSUME OffAssumption == Off \notin Nat

VARIABLES
    phase,     \* where the loop stands
    now,       \* the loop's last clock reading
    previous,  \* end of the last complete collection
    todo,      \* sensors the running collection has not reached
    disabled,  \* permanently failed sensors
    timer,     \* deadline of automatic.timer, or Off
    retrying,  \* automatic.retrying
    job,       \* the capture handed to the worker (deadline: the incident's
               \* end before Begin moved it to the collected poll)
    polls,     \* history: the intervals collections ran over
    begun,     \* history: number of incidents begun
    recorded,  \* history: trigger counts in the manifests of begun incidents
    filed      \* history: end of the last file that the worker published, or 0

loopVars == <<phase, now, previous, todo, disabled, timer, retrying, job>>
vars == <<ctlVars, loopVars, polls, begun, recorded, filed>>

Phases == {"select", "collect", "progress", "schedule", "closing", "stopped"}

TypeOK ==
    /\ ControllerTypeOK
    /\ phase \in Phases
    /\ now \in Nat /\ previous \in Nat
    /\ todo \subseteq Sensors /\ disabled \subseteq Sensors
    /\ timer \in Nat \cup {Off}
    /\ retrying \in BOOLEAN
    /\ job \in Job \cup {NoJob}
    /\ polls \subseteq Interval
    /\ begun \in Nat /\ recorded \in Nat /\ filed \in Nat

Init ==
    /\ ControllerInit
    /\ phase = "select"
    /\ now = 1 /\ previous = 1   \* BOOTTIME is positive once sensors are ready
    /\ todo = {} /\ disabled = {}
    /\ timer = Off /\ retrying = FALSE
    /\ job = NoJob
    /\ polls = {} /\ begun = 0 /\ recorded = 0 /\ filed = 0

-----------------------------------------------------------------------------
(* A clock reading; CLOCK_BOOTTIME never goes back, two readings may agree.*)
ReadClock == now' \in {t \in Time : t >= now}

StartCollect ==
    /\ ReadClock
    /\ phase' = "collect"
    /\ todo' = Sensors \ disabled
    /\ polls' = IF now' > previous THEN polls \cup {[start |-> previous, end |-> now']}
                ELSE polls
    /\ UNCHANGED <<ctlVars, previous, disabled, retrying, job, begun, recorded, filed>>

SkipCollect ==
    /\ ReadClock
    /\ phase' = "progress"
    /\ UNCHANGED <<ctlVars, previous, todo, disabled, retrying, job, polls, begun, recorded, filed>>

(* The poll ticker.                                                        *)
Tick == phase = "select" /\ StartCollect /\ UNCHANGED timer

(* The automatic timer fired: a retry only waits for the lease, any other  *)
(* wakeup collects.                                                        *)
AutoTick ==
    /\ phase = "select"
    /\ timer # Off
    /\ IF retrying THEN SkipCollect ELSE StartCollect
    /\ now' >= timer
    /\ timer' = Off

(* A snapshot query collects before it selects; whether or not it then gets*)
(* the lease, scheduling runs.                                             *)
SnapshotQuery == phase = "select" /\ StartCollect /\ UNCHANGED timer

StatusQuery == phase = "select" /\ SkipCollect /\ UNCHANGED timer

(* A detail event, a rejected or a cancelled query: no scheduling.         *)
DetailOrRejected ==
    /\ phase = "select"
    /\ ReadClock
    /\ UNCHANGED <<ctlVars, phase, previous, todo, disabled, timer, retrying, job,
                   polls, begun, recorded, filed>>

Outcomes == {o \in [published : BOOLEAN, err : BOOLEAN] : o.published \/ o.err}

(* What the worker reports of the job reaches the controller.              *)
Finished ==
    \E o \in Outcomes :
        /\ Finish(o.published, o.err)
        /\ filed' = IF o.published THEN job.incident.end ELSE filed

(* Mutant: the loop continues without scheduling, as after a detail event. *)
CompletedContinues ==
    /\ phase = "select"
    /\ job # NoJob
    /\ ReadClock
    /\ Finished
    /\ job' = NoJob
    /\ UNCHANGED <<phase, previous, todo, disabled, timer, retrying, polls, begun, recorded>>

(* The worker's result.                                                    *)
Completed ==
    /\ phase = "select"
    /\ job # NoJob
    /\ ReadClock
    /\ Finished
    /\ job' = NoJob
    /\ phase' = "progress"
    /\ UNCHANGED <<previous, todo, disabled, timer, retrying, polls, begun, recorded>>

(* The result is received but the clock reading that follows fails: the    *)
(* loop ends without Finish.                                               *)
CompletedLost ==
    /\ phase = "select"
    /\ job # NoJob
    /\ job' = NoJob
    /\ phase' = "closing"
    /\ UNCHANGED <<ctlVars, now, previous, todo, disabled, timer, retrying, polls, begun, recorded, filed>>

(* One sensor of collect: its last readable aggregate is observed even when*)
(* its reader has failed; then a failed sensor is disabled.                *)
CollectSensor(s) ==
    /\ phase = "collect"
    /\ s \in todo
    /\ \E healthy, readable \in BOOLEAN, count, critical \in 0..MaxCount :
        /\ critical <= count
        /\ readable \/ count = 0
        /\ IF readable
           THEN Observe([family |-> s, start |-> previous, end |-> now,
                         count |-> count, critical |-> critical], now)
           ELSE UNCHANGED <<current, next, currentReady, nextReady, writing, writingEnd,
                            lastSavedEnd, detected, coalesced, saved, failures>>
        /\ IF healthy /\ readable
           THEN UNCHANGED <<sensors, disabled, phase>>
           ELSE /\ Unavailable(s)
                /\ disabled' = disabled \cup {s}
                /\ phase' = IF Strict THEN "closing" ELSE phase
    /\ todo' = todo \ {s}
    /\ UNCHANGED <<now, previous, timer, retrying, job, polls, begun, recorded, filed>>

CollectDone ==
    /\ phase = "collect"
    /\ todo = {}
    /\ IF disabled = Sensors
       THEN phase' = "closing" /\ UNCHANGED previous
       ELSE phase' = "progress" /\ previous' = now
    /\ UNCHANGED <<ctlVars, now, todo, disabled, timer, retrying, job, polls, begun, recorded, filed>>

-----------------------------------------------------------------------------
(* automatic.progress.                                                     *)
Progress ==
    /\ phase = "progress"
    /\ CollectedThrough(previous)
    /\ phase' = "schedule"
    /\ UNCHANGED <<now, previous, todo, disabled, timer, retrying, job, polls, begun, recorded, filed>>

Reschedule(deadline, retry) ==
    /\ phase' = "select"
    /\ timer' = deadline
    /\ retrying' = retry
    /\ UNCHANGED <<ctlVars, now, previous, todo, disabled, job, polls, begun, recorded, filed>>

NothingPending == phase = "schedule" /\ ~Pending /\ Reschedule(timer, FALSE)

BeforeDeadline ==
    phase = "schedule" /\ Pending /\ now < current.end /\ Reschedule(current.end, FALSE)

AwaitCollection ==
    /\ phase = "schedule" /\ Pending
    /\ now >= current.end /\ previous < current.end
    /\ Reschedule(now, FALSE)

Due == phase = "schedule" /\ Pending /\ now >= current.end /\ previous >= current.end

(* Another snapshot holds the lease.                                       *)
LeaseBusy == Due /\ Reschedule(now + RetryInterval, TRUE)

TriggerTotal(i) ==
    i.triggers["block_io"].count + i.triggers["scheduler"].count + i.triggers["oom"].count

BeginWrite ==
    /\ Due
    /\ Begin
    /\ \E start \in {Boundary} \cup {current.triggers[f].first : f \in Straddling} :
        /\ IsBeginStart(start)
        /\ job' = [incident |-> BeginIncident, start |-> start, deadline |-> current.end]
    /\ phase' = "select"
    /\ retrying' = FALSE
    /\ begun' = begun + 1
    /\ recorded' = recorded + TriggerTotal(current)
    /\ UNCHANGED <<now, previous, todo, disabled, timer, polls, filed>>

-----------------------------------------------------------------------------
(* The context is cancelled, or a clock reading failed.                    *)
Cancel ==
    /\ phase = "select"
    /\ phase' = "closing"
    /\ UNCHANGED <<ctlVars, now, previous, todo, disabled, timer, retrying, job,
                   polls, begun, recorded, filed>>

(* automatic.close: the last result is applied, a waiting incident is lost.*)
Close ==
    /\ phase = "closing"
    /\ IF job = NoJob
       THEN UNCHANGED <<ctlVars, filed>>
       ELSE Finished
    /\ job' = NoJob
    /\ timer' = Off
    /\ phase' = "stopped"
    /\ UNCHANGED <<now, previous, todo, disabled, retrying, polls, begun, recorded>>

Terminated == phase = "stopped" /\ UNCHANGED vars

Next ==
    \/ Tick \/ AutoTick \/ SnapshotQuery \/ StatusQuery \/ DetailOrRejected
    \/ Completed \/ CompletedLost
    \/ \E s \in Sensors : CollectSensor(s)
    \/ CollectDone
    \/ Progress
    \/ NothingPending \/ BeforeDeadline \/ AwaitCollection \/ LeaseBusy \/ BeginWrite
    \/ Cancel \/ Close \/ Terminated

Spec == Init /\ [][Next]_vars

-----------------------------------------------------------------------------
(* Every capture handed to the worker carries metadata that Store.Save and *)
(* the capture reader accept: no sequence of openings, merges and moved    *)
(* ends produces an incident that model.AutoIncident.Valid rejects.        *)
JobValid == job # NoJob => Valid(job.incident, job.incident.end)

(* "Include a complete trigger aggregate if it straddles the previous      *)
(* file's end": every trigger interval named in a manifest lies inside the *)
(* selected window.                                                        *)
TriggersInWindow ==
    job # NoJob =>
        \A f \in Reported(job.incident) :
            /\ job.start <= job.incident.triggers[f].first
            /\ job.incident.triggers[f].last <= job.incident.end

(* "This permits only the boundary interval to overlap, not the full       *)
(* lookback": a window that reaches back into the last published file does *)
(* so by exactly the collection interval that ends where that file ends,   *)
(* also when only the rotation after its publication failed.               *)
OneIntervalOverlap ==
    job # NoJob /\ job.start < filed => [start |-> job.start, end |-> filed] \in polls

(* "A busy snapshot writer must not extend the window on every later       *)
(* retry": a file ends at the first collection at or past its deadline,    *)
(* however long it then waited for the lease or for an earlier write.      *)
EndsAtFirstPoll ==
    job # NoJob =>
        /\ \E p \in polls : p.end = job.incident.end
        /\ job.incident.end >= job.deadline
        /\ \A p \in polls : p.end >= job.deadline => p.end >= job.incident.end

(* "Include the interval collected at the deadline so it cannot fall       *)
(* between two published files": an interval inside the requested lookback *)
(* that the previous file did not take whole is taken whole by this one.   *)
NoIntervalBetweenFiles ==
    job # NoJob =>
        \A p \in polls :
            /\ filed < p.end /\ p.end <= job.incident.end
            /\ p.start + job.incident.before >= job.incident.detected
            => job.start <= p.start

(* A published file always ends later than the one before it.              *)
SavedEndAdvances == job # NoJob => job.incident.end > filed

(* Health.Coalesced counts exactly the triggers that did not open a window:*)
(* none is counted twice or lost when windows queue up behind a writer.    *)
CoalescedAccounting ==
    detected = coalesced + begun + (IF current = NoIncident THEN 0 ELSE 1)
                                 + (IF next = NoIncident THEN 0 ELSE 1)

(* "No trigger is suppressed": every detected trigger is in the manifest of*)
(* a begun incident or in a window still pending.                          *)
TriggersConserved ==
    detected = recorded + (IF current = NoIncident THEN 0 ELSE TriggerTotal(current))
                        + (IF next = NoIncident THEN 0 ELSE TriggerTotal(next))

(* The loop never returns to its select with a pending incident and no     *)
(* armed timer to wake it at the deadline (or at the retry).               *)
WakeupArmed ==
    phase = "select" /\ Pending =>
        /\ timer # Off
        /\ timer <= current.end \/ timer <= now + RetryInterval

(* A retry wakeup skips collection, so it is only ever armed for a window  *)
(* whose last interval is already collected.                               *)
RetryOnlyWhenCollected ==
    phase = "select" /\ retrying => Pending /\ currentReady # 0 /\ previous >= current.end

(* Every detected trigger is accounted for once, in the files and in       *)
(* Health, however windows join, queue and merge behind a writer.          *)
TriggersAccounted == CoalescedAccounting /\ TriggersConserved

(* Whatever path leads back to the select, the timer is armed for the      *)
(* pending window, and as a retry only when nothing is left to collect.    *)
WakeupsSound == WakeupArmed /\ RetryOnlyWhenCollected
=============================================================================
