----------------------------- MODULE Controller -----------------------------
(***************************************************************************)
(* The incident controller of internal/autocapture/controller.go.  It is   *)
(* owned by the recorder loop: every operation below is one method, called *)
(* by the loop modelled in AutoCapture.tla.  It keeps the current incident *)
(* window and at most one waiting window, and remembers for each the first *)
(* poll that completed at or after its deadline.                           *)
(*                                                                         *)
(* Times are natural numbers (nanoseconds of CLOCK_BOOTTIME in the code).  *)
(* A trigger's reason and threshold are functions of its family and of the *)
(* configuration, so they are left out.                                    *)
(***************************************************************************)
EXTENDS Integers

CONSTANTS
    AutoSensors,   \* configured, enabled and available trigger sources
    Before,        \* auto_capture.before
    After,         \* auto_capture.after
    NoIncident     \* the nil *AutoIncident

(* The families Observe's switch accepts; tcp takes its default branch.    *)
LatencyFamilies == {"block_io", "scheduler"}
VictimFamilies  == {"oom"}
TriggerFamilies == LatencyFamilies \cup VictimFamilies

(* An incident has at most one AutoTrigger per family; count 0 stands for  *)
(* no entry.                                                               *)
AutoTrigger == [count : Nat, first : Nat, last : Nat]

Incident ==
    [detected : Nat, end : Nat, before : Nat, after : Nat,
     triggers : [TriggerFamilies -> AutoTrigger]]

Reported(i) == {f \in TriggerFamilies : i.triggers[f].count # 0}

ASSUME ConfigAssumption ==
    /\ Before \in Nat \ {0}
    /\ After \in Nat
    /\ AutoSensors \subseteq TriggerFamilies \cup {"tcp"}

ASSUME NoIncidentAssumption == NoIncident \notin Incident

VARIABLES
    sensors,                 \* health.Sensors
    current, next,           \* the current and the waiting incident
    currentReady, nextReady, \* first complete poll past each deadline, or 0
    writing, writingEnd,     \* a file is being written, and its end
    lastSavedEnd,            \* end of the last published file, or 0
    detected, coalesced,     \* health counters
    saved, failures

ctlVars == <<sensors, current, next, currentReady, nextReady, writing,
             writingEnd, lastSavedEnd, detected, coalesced, saved, failures>>

ControllerTypeOK ==
    /\ sensors \subseteq AutoSensors
    /\ current \in Incident \cup {NoIncident}
    /\ next \in Incident \cup {NoIncident}
    /\ currentReady \in Nat /\ nextReady \in Nat
    /\ writing \in BOOLEAN
    /\ writingEnd \in Nat /\ lastSavedEnd \in Nat
    /\ detected \in Nat /\ coalesced \in Nat
    /\ saved \in Nat /\ failures \in Nat

-----------------------------------------------------------------------------
ControllerInit ==
    /\ sensors = AutoSensors
    /\ current = NoIncident /\ next = NoIncident
    /\ currentReady = 0 /\ nextReady = 0
    /\ writing = FALSE /\ writingEnd = 0 /\ lastSavedEnd = 0
    /\ detected = 0 /\ coalesced = 0 /\ saved = 0 /\ failures = 0

Unavailable(f) == sensors' = sensors \ {f}

(* The number of triggers in an aggregate delta m: critical latencies for  *)
(* block_io and scheduler, victims for oom, none for any other family.     *)
TriggerCount(m) ==
    IF m.family \in LatencyFamilies THEN m.critical
    ELSE IF m.family \in VictimFamilies THEN m.count ELSE 0

(* Mutant: a delta without triggers is not skipped.                        *)
TriggeringAnyCount(m) == m.start < m.end /\ m.family \in sensors

Triggering(m) ==
    /\ m.start < m.end
    /\ m.family \in sensors
    /\ TriggerCount(m) > 0

newIncident(now) ==
    [detected |-> now, end |-> now + After, before |-> Before,
     after |-> After,
     triggers |-> [f \in TriggerFamilies |-> [count |-> 0, first |-> 0, last |-> 0]]]

(* Add m to an incident's trigger of the same family, or append one.       *)
WithTrigger(i, m) ==
    [i EXCEPT !.triggers[m.family] =
        [count |-> @.count + TriggerCount(m),
         first |-> IF m.family \in Reported(i) THEN @.first ELSE m.start,
         last  |-> m.end]]

Extends(now) == now + After > next.end

(* Mutant: the waiting window's post-window is not adjusted.               *)
ExtendedKeepsAfter(i, now) == IF Extends(now) THEN [i EXCEPT !.end = now + After] ELSE i

(* A waiting window is pushed out by a trigger near or after its end.      *)
Extended(i, now) ==
    IF Extends(now)
    THEN [i EXCEPT !.end = now + After, !.after = now + After - i.detected]
    ELSE i

ObserveIgnored(m) ==
    /\ ~Triggering(m)
    /\ UNCHANGED <<current, next, nextReady, detected, coalesced>>

ObserveOpen(m, now) ==
    /\ Triggering(m)
    /\ current = NoIncident
    /\ current' = WithTrigger(newIncident(now), m)
    /\ detected' = detected + TriggerCount(m)
    /\ coalesced' = coalesced + TriggerCount(m) - 1
    /\ UNCHANGED <<next, nextReady>>

ObserveJoin(m, now) ==
    /\ Triggering(m)
    /\ current # NoIncident
    /\ now <= current.end
    /\ current' = WithTrigger(current, m)
    /\ detected' = detected + TriggerCount(m)
    /\ coalesced' = coalesced + TriggerCount(m)
    /\ UNCHANGED <<next, nextReady>>

ObserveWait(m, now) ==
    /\ Triggering(m)
    /\ current # NoIncident
    /\ now > current.end
    /\ next = NoIncident
    /\ next' = WithTrigger(newIncident(now), m)
    /\ detected' = detected + TriggerCount(m)
    /\ coalesced' = coalesced + TriggerCount(m) - 1
    /\ UNCHANGED <<current, nextReady>>

(* Mutant: a merged window moves its end and forgets the trigger.          *)
ObserveMergeForgets(m, now) ==
    /\ Triggering(m)
    /\ current # NoIncident
    /\ now > current.end
    /\ next # NoIncident
    /\ next' = Extended(next, now)
    /\ nextReady' = IF Extends(now) THEN 0 ELSE nextReady
    /\ detected' = detected + TriggerCount(m)
    /\ coalesced' = coalesced + TriggerCount(m)
    /\ UNCHANGED current

ObserveMerge(m, now) ==
    /\ Triggering(m)
    /\ current # NoIncident
    /\ now > current.end
    /\ next # NoIncident
    /\ next' = WithTrigger(Extended(next, now), m)
    /\ nextReady' = IF Extends(now) THEN 0 ELSE nextReady
    /\ detected' = detected + TriggerCount(m)
    /\ coalesced' = coalesced + TriggerCount(m)
    /\ UNCHANGED current

(* The caller says what happens to sensors: a failing sensor is observed a *)
(* last time and then made Unavailable in the same step of the loop.       *)
Observe(m, now) ==
    /\ \/ ObserveIgnored(m)
       \/ ObserveOpen(m, now)
       \/ ObserveJoin(m, now)
       \/ ObserveWait(m, now)
       \/ ObserveMerge(m, now)
    /\ UNCHANGED <<currentReady, writing, writingEnd, lastSavedEnd, saved, failures>>

-----------------------------------------------------------------------------
Pending == current # NoIncident /\ ~writing

(* Mutant: every later poll moves the remembered one.                      *)
CollectedThroughLatest(end) ==
    /\ currentReady' = IF current # NoIncident /\ end >= current.end THEN end ELSE currentReady
    /\ nextReady' = IF next # NoIncident /\ end >= next.end THEN end ELSE nextReady
    /\ UNCHANGED <<sensors, current, next, writing, writingEnd, lastSavedEnd,
                   detected, coalesced, saved, failures>>

CollectedThrough(end) ==
    /\ currentReady' = IF current # NoIncident /\ currentReady = 0 /\ end >= current.end
                       THEN end ELSE currentReady
    /\ nextReady' = IF next # NoIncident /\ nextReady = 0 /\ end >= next.end
                    THEN end ELSE nextReady
    /\ UNCHANGED <<sensors, current, next, writing, writingEnd, lastSavedEnd,
                   detected, coalesced, saved, failures>>

(* The incident Begin returns: the current one, its end moved to the poll  *)
(* that completed its collection.                                          *)
BeginIncident ==
    IF currentReady > current.end
    THEN [current EXCEPT !.end = currentReady, !.after = currentReady - current.detected]
    ELSE current

(* Mutant: the lookback is taken from the end of the window.               *)
BoundaryFromEnd ==
    LET lookback == IF current.end > current.before THEN current.end - current.before ELSE 0
    IN  IF lookback < lastSavedEnd THEN lastSavedEnd ELSE lookback

(* The lookback, clipped to the previous file.                             *)
Boundary ==
    LET lookback == IF current.detected > current.before
                    THEN current.detected - current.before ELSE 0
    IN  IF lookback < lastSavedEnd THEN lastSavedEnd ELSE lookback

(* Mutant: a trigger that ends on the boundary does not straddle it.       *)
StraddlingStrictly ==
    {f \in Reported(current) :
        /\ current.triggers[f].first < Boundary
        /\ current.triggers[f].last > Boundary}

Straddling ==
    {f \in Reported(current) :
        /\ current.triggers[f].first < Boundary
        /\ current.triggers[f].last >= Boundary}

(* The start Begin returns: the boundary, or the earliest interval of a    *)
(* trigger that straddles it.                                              *)
IsBeginStart(start) ==
    /\ start \in {Boundary} \cup {current.triggers[f].first : f \in Straddling}
    /\ start <= Boundary
    /\ \A f \in Straddling : start <= current.triggers[f].first

(* Mutant: the begun incident is not taken off.                            *)
BeginKeepsCurrent ==
    /\ writing' = TRUE
    /\ writingEnd' = BeginIncident.end
    /\ UNCHANGED <<sensors, current, next, currentReady, nextReady, lastSavedEnd,
                   detected, coalesced, saved, failures>>

Begin ==
    /\ current' = next
    /\ next' = NoIncident
    /\ currentReady' = nextReady
    /\ nextReady' = 0
    /\ writing' = TRUE
    /\ writingEnd' = BeginIncident.end
    /\ UNCHANGED <<sensors, lastSavedEnd, detected, coalesced, saved, failures>>

(* Mutant: a file whose rotation failed is not taken for saved.            *)
FinishUnlessFailed(published, err) ==
    /\ writing' = FALSE
    /\ writingEnd' = 0
    /\ saved' = IF published /\ ~err THEN saved + 1 ELSE saved
    /\ lastSavedEnd' = IF published /\ ~err THEN writingEnd ELSE lastSavedEnd
    /\ failures' = IF err THEN failures + 1 ELSE failures
    /\ UNCHANGED <<sensors, current, next, currentReady, nextReady, detected, coalesced>>

(* published: Save returned a path; err: Save returned an error.  Both     *)
(* hold when only the rotation after publication failed.                   *)
Finish(published, err) ==
    /\ writing' = FALSE
    /\ writingEnd' = 0
    /\ saved' = IF published THEN saved + 1 ELSE saved
    /\ lastSavedEnd' = IF published THEN writingEnd ELSE lastSavedEnd
    /\ failures' = IF err THEN failures + 1 ELSE failures
    /\ UNCHANGED <<sensors, current, next, currentReady, nextReady, detected, coalesced>>

-----------------------------------------------------------------------------
(* model.AutoIncident.Valid: the metadata Store.Save and capture.Read      *)
(* accept for a capture that ends at end.                                  *)
Valid(i, end) ==
    /\ i.before # 0
    /\ i.detected <= i.end
    /\ i.end = end
    /\ i.end - i.detected = i.after
    /\ Reported(i) # {}
    /\ \A f \in Reported(i) :
        /\ i.triggers[f].first < i.triggers[f].last
        /\ i.triggers[f].last <= i.end
=============================================================================
