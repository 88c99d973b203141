-------------------------- MODULE AutoCaptureProofs --------------------------
(***************************************************************************)
(* Proofs about automatic capture for every configuration, every set of    *)
(* sensors and every bound on time and counts.  IInv is the inductive      *)
(* invariant; its parts say what a window, its first complete poll and the *)
(* file being written owe to the sequence of collections.                  *)
(***************************************************************************)
EXTENDS AutoCapture, TLAPS

InCollection == phase \in {"collect", "closing", "stopped"}

(* Collections run over disjoint intervals; only the running one may reach *)
(* past previous.                                                          *)
PollsOK ==
    /\ previous <= now
    /\ \A p \in polls :
        /\ p.start < p.end
        /\ p.end <= previous \/ (InCollection /\ p.start = previous /\ p.end = now)
    /\ \A p, q \in polls : p.end <= q.start \/ q.end <= p.start \/ p = q
    /\ phase \in {"select", "progress", "schedule"} =>
        (polls # {} => \E p \in polls : p.end = previous)
    /\ phase = "collect" =>
        IF now > previous THEN \E p \in polls : p.end = now
        ELSE polls # {} => \E p \in polls : p.end = previous

(* A window was opened by a collection.                                    *)
WindowOK(i) ==
    /\ i.before = Before
    /\ i.detected + After <= i.end
    /\ i.after = i.end - i.detected
    /\ \E p \in polls : p.end = i.detected
    /\ After = 0 => \E p \in polls : p.end = i.end

(* Every trigger names the start of a collection that ended between the    *)
(* detection and the trigger's last interval.                              *)
TriggersOK(i) ==
    \A f \in TriggerFamilies : i.triggers[f].count # 0 =>
        /\ i.triggers[f].first < i.triggers[f].last
        /\ i.detected <= i.triggers[f].last
        /\ i.triggers[f].last <= i.end
        /\ \E p \in polls : /\ p.start = i.triggers[f].first
                            /\ i.detected <= p.end
                            /\ p.end <= i.triggers[f].last

IncidentOK(i) ==
    /\ WindowOK(i)
    /\ TriggersOK(i)
    /\ \E f \in TriggerFamilies : i.triggers[f].count # 0

(* The remembered poll is the first one at or past the end.                *)
ReadyOK(i, r) ==
    /\ r # 0 => /\ i.end <= r
                /\ \E p \in polls : p.end = r
                /\ \A p \in polls : i.end <= p.end => r <= p.end
    /\ r = 0 => \A p \in polls :
                   p.end < i.end \/ (phase \notin {"select", "schedule"} /\ p.end = now)

WindowsOK ==
    /\ current # NoIncident => IncidentOK(current) /\ ReadyOK(current, currentReady)
    /\ next # NoIncident => IncidentOK(next) /\ ReadyOK(next, nextReady)
    /\ next # NoIncident => current # NoIncident /\ current.end < next.detected
    /\ current = NoIncident => currentReady = 0
    /\ next = NoIncident => nextReady = 0

(* What is waiting starts at or after, and ends after, what is written.    *)
BoundariesOK ==
    /\ lastSavedEnd <= previous /\ filed = lastSavedEnd
    /\ lastSavedEnd # 0 => \E p \in polls : p.end = lastSavedEnd
    /\ current # NoIncident => lastSavedEnd <= current.detected /\ lastSavedEnd < current.end
    /\ job # NoJob => writing
    /\ job # NoJob =>
        /\ writingEnd = job.incident.end
        /\ writingEnd <= previous
        /\ current # NoIncident => writingEnd <= current.detected /\ writingEnd < current.end

JobOK ==
    /\ JobValid
    /\ TriggersInWindow
    /\ OneIntervalOverlap
    /\ EndsAtFirstPoll
    /\ NoIntervalBetweenFiles
    /\ SavedEndAdvances

IInv == TypeOK /\ PollsOK /\ WindowsOK /\ BoundariesOK /\ JobOK

-----------------------------------------------------------------------------
Metric == [family : Sensors, start : Nat, end : Nat, count : Nat, critical : Nat]

(* What newIncident builds.                                                *)
LEMMA NewIncidentType ==
    ASSUME NEW t \in Nat
    PROVE  /\ newIncident(t) \in Incident
           /\ newIncident(t).detected = t
           /\ newIncident(t).end = t + After
           /\ newIncident(t).before = Before
           /\ newIncident(t).after = After
           /\ \A f \in TriggerFamilies : newIncident(t).triggers[f].count = 0
BY ConfigAssumption DEF ConfigAssumption, newIncident, Incident, AutoTrigger

(* Adding a delta to an incident changes the trigger of its family only.   *)
LEMMA WithTriggerType ==
    ASSUME NEW i \in Incident, NEW m \in Metric, m.family \in TriggerFamilies
    PROVE  /\ WithTrigger(i, m) \in Incident
           /\ WithTrigger(i, m).detected = i.detected
           /\ WithTrigger(i, m).end = i.end
           /\ WithTrigger(i, m).before = i.before
           /\ WithTrigger(i, m).after = i.after
           /\ \A f \in TriggerFamilies : f # m.family =>
                 WithTrigger(i, m).triggers[f] = i.triggers[f]
           /\ WithTrigger(i, m).triggers[m.family].count
                 = i.triggers[m.family].count + TriggerCount(m)
           /\ WithTrigger(i, m).triggers[m.family].last = m.end
           /\ i.triggers[m.family].count # 0 =>
                 WithTrigger(i, m).triggers[m.family].first = i.triggers[m.family].first
           /\ i.triggers[m.family].count = 0 =>
                 WithTrigger(i, m).triggers[m.family].first = m.start
<1>1. TriggerCount(m) \in Nat
  BY DEF TriggerCount, Metric
<1>2. m.start \in Nat /\ m.end \in Nat
  BY DEF Metric
<1> QED
  BY <1>1, <1>2 DEF WithTrigger, Reported, Incident, AutoTrigger

(* A waiting window that a trigger pushes out keeps its detection.         *)
LEMMA ExtendedType ==
    ASSUME next \in Incident, NEW t \in Nat, next.detected <= t
    PROVE  /\ Extended(next, t) \in Incident
           /\ Extended(next, t).detected = next.detected
           /\ Extended(next, t).before = next.before
           /\ Extended(next, t).triggers = next.triggers
           /\ Extended(next, t).end = IF t + After > next.end THEN t + After ELSE next.end
           /\ Extended(next, t).after = IF t + After > next.end THEN t + After - next.detected
                                                              ELSE next.after
<1>1. CASE t + After > next.end
  <2>1. t + After - next.detected \in Nat
    BY ConfigAssumption DEF ConfigAssumption, Incident
  <2>2. t + After \in Nat
    BY ConfigAssumption DEF ConfigAssumption
  <2>3. Extended(next, t) = [next EXCEPT !.end = t + After, !.after = t + After - next.detected]
    BY <1>1 DEF Extended, Extends
  <2> HIDE DEF Extended
  <2> QED
    BY <1>1, <2>1, <2>2, <2>3 DEF Incident
<1>2. CASE ~(t + After > next.end)
  BY <1>2 DEF Extended, Extends
<1> QED
  BY <1>1, <1>2

(* The file's incident: the end moved to the remembered poll.              *)
LEMMA BeginIncidentType ==
    ASSUME current \in Incident, currentReady \in Nat, current.detected <= current.end
    PROVE  /\ BeginIncident \in Incident
           /\ BeginIncident.detected = current.detected
           /\ BeginIncident.before = current.before
           /\ BeginIncident.triggers = current.triggers
           /\ BeginIncident.end = IF currentReady > current.end THEN currentReady
                                                              ELSE current.end
           /\ BeginIncident.after = IF currentReady > current.end
                                    THEN currentReady - current.detected ELSE current.after
<1>1. CASE currentReady > current.end
  <2>1. currentReady - current.detected \in Nat
    BY <1>1 DEF Incident
  <2>2. BeginIncident = [current EXCEPT !.end = currentReady,
                                        !.after = currentReady - current.detected]
    BY <1>1 DEF BeginIncident
  <2> HIDE DEF BeginIncident
  <2> QED
    BY <1>1, <2>1, <2>2 DEF Incident
<1>2. CASE ~(currentReady > current.end)
  BY <1>2 DEF BeginIncident
<1> QED
  BY <1>1, <1>2

(* Only block_io, scheduler and oom deltas trigger.                        *)
LEMMA TriggeringFacts ==
    ASSUME NEW m \in Metric, Triggering(m)
    PROVE  /\ m.family \in TriggerFamilies
           /\ TriggerCount(m) \in Nat \ {0}
           /\ m.start < m.end
BY DEF Triggering, TriggerCount, TriggerFamilies, LatencyFamilies, VictimFamilies, Metric

(* Joining the running collection's delta to a window that has not ended   *)
(* leaves a well-formed incident.                                          *)
LEMMA JoinOK ==
    ASSUME TypeOK, PollsOK, phase = "collect",
           NEW i \in Incident, WindowOK(i), TriggersOK(i), now <= i.end,
           NEW m \in Metric, Triggering(m), m.start = previous, m.end = now
    PROVE  /\ WithTrigger(i, m) \in Incident
           /\ IncidentOK(WithTrigger(i, m))
           /\ WithTrigger(i, m).end = i.end
           /\ WithTrigger(i, m).detected = i.detected
<1> DEFINE w == WithTrigger(i, m)
<1>1. m.family \in TriggerFamilies /\ TriggerCount(m) \in Nat \ {0} /\ previous < now
  BY TriggeringFacts
<1>2. /\ w \in Incident
      /\ w.detected = i.detected
      /\ w.end = i.end
      /\ w.before = i.before
      /\ w.after = i.after
      /\ \A f \in TriggerFamilies : f # m.family => w.triggers[f] = i.triggers[f]
      /\ w.triggers[m.family].count = i.triggers[m.family].count + TriggerCount(m)
      /\ w.triggers[m.family].last = now
      /\ i.triggers[m.family].count # 0 =>
            w.triggers[m.family].first = i.triggers[m.family].first
      /\ i.triggers[m.family].count = 0 => w.triggers[m.family].first = previous
  BY <1>1, WithTriggerType
<1> HIDE DEF w
<1>3. /\ i.detected \in Nat /\ i.end \in Nat
      /\ \A f \in TriggerFamilies : /\ i.triggers[f].count \in Nat
                                    /\ i.triggers[f].first \in Nat
                                    /\ i.triggers[f].last \in Nat
  BY DEF Incident, AutoTrigger
<1>4. now \in Nat /\ previous \in Nat /\ polls \subseteq Interval
  BY DEF TypeOK
<1>5. PICK q \in polls : q.start = previous /\ q.end = now
  BY <1>1, <1>4 DEF PollsOK, Interval
<1>6. i.detected <= now
  BY <1>3, <1>4 DEF WindowOK, PollsOK, Interval
<1>7. WindowOK(w)
  BY <1>2 DEF WindowOK
<1>8. ASSUME NEW f \in TriggerFamilies, w.triggers[f].count # 0
      PROVE  /\ w.triggers[f].first < w.triggers[f].last
             /\ w.detected <= w.triggers[f].last
             /\ w.triggers[f].last <= w.end
             /\ \E p \in polls : /\ p.start = w.triggers[f].first
                                 /\ w.detected <= p.end
                                 /\ p.end <= w.triggers[f].last
  <2>1. CASE f # m.family
    BY <2>1, <1>8, <1>2 DEF TriggersOK
  <2>2. CASE f = m.family /\ i.triggers[f].count = 0
    <3>1. w.triggers[f].first = previous /\ w.triggers[f].last = now
      BY <2>2, <1>2
    <3> QED
      BY <3>1, <1>1, <1>2, <1>3, <1>4, <1>5, <1>6
  <2>3. CASE f = m.family /\ i.triggers[f].count # 0
    <3>1. w.triggers[f].first = i.triggers[f].first /\ w.triggers[f].last = now
      BY <2>3, <1>2
    <3>2. PICK p \in polls : /\ p.start = i.triggers[f].first
                             /\ i.detected <= p.end
                             /\ p.end <= i.triggers[f].last
      BY <2>3 DEF TriggersOK
    <3>3. p.start < p.end /\ p.end <= now /\ p.start \in Nat /\ p.end \in Nat
      BY <1>4 DEF PollsOK, Interval
    <3> QED
      BY <3>1, <3>2, <3>3, <1>2, <1>3, <1>4, <1>6
  <2> QED
    BY <2>1, <2>2, <2>3
<1>9. TriggersOK(w)
  BY <1>8 DEF TriggersOK
<1>10. w.triggers[m.family].count # 0
  BY <1>1, <1>2, <1>3
<1> QED
  BY <1>1, <1>2, <1>7, <1>9, <1>10 DEF IncidentOK, w

(* A window opened by the running collection is well formed but for having *)
(* no trigger yet.                                                         *)
LEMMA OpenOK ==
    ASSUME TypeOK, PollsOK, phase = "collect",
           NEW m \in Metric, Triggering(m), m.start = previous, m.end = now
    PROVE  /\ newIncident(now) \in Incident
           /\ WindowOK(newIncident(now))
           /\ TriggersOK(newIncident(now))
           /\ newIncident(now).end = now + After
           /\ newIncident(now).detected = now
<1>1. previous < now /\ now \in Nat
  BY TriggeringFacts DEF TypeOK
<1>2. \E p \in polls : p.end = now
  BY <1>1 DEF PollsOK
<1>3. After \in Nat
  BY ConfigAssumption DEF ConfigAssumption
<1> QED
  BY <1>1, <1>2, <1>3, NewIncidentType DEF WindowOK, TriggersOK

(* An observation made by a collection keeps every window well formed.     *)
LEMMA ObserveStep ==
    ASSUME IInv, phase = "collect", phase' \in {"collect", "closing"},
           NEW m \in Metric, m.start = previous, m.end = now,
           Observe(m, now), UNCHANGED <<now, previous, job, polls, filed>>
    PROVE  /\ current' \in Incident \cup {NoIncident}
           /\ next' \in Incident \cup {NoIncident}
           /\ currentReady' \in Nat /\ nextReady' \in Nat
           /\ detected' \in Nat /\ coalesced' \in Nat
           /\ WindowsOK' /\ BoundariesOK'
<1>0. /\ TypeOK /\ PollsOK /\ WindowsOK /\ BoundariesOK
      /\ now \in Nat /\ previous \in Nat /\ polls \subseteq Interval
      /\ lastSavedEnd \in Nat /\ writingEnd \in Nat
      /\ nextReady \in Nat /\ currentReady \in Nat
      /\ detected \in Nat /\ coalesced \in Nat
      /\ current \in Incident \cup {NoIncident} /\ next \in Incident \cup {NoIncident}
  BY DEF IInv, TypeOK, ControllerTypeOK
<1>1. After \in Nat
  BY ConfigAssumption DEF ConfigAssumption
<1>2. \A p \in polls : p.end <= now /\ p.end \in Nat
  BY <1>0 DEF PollsOK, Interval
<1>3. /\ UNCHANGED <<currentReady, writing, writingEnd, lastSavedEnd>>
      /\ UNCHANGED <<now, previous, job, polls, filed>>
  BY DEF Observe
<1>4. CASE ObserveIgnored(m)
  <2>1. UNCHANGED <<current, next, nextReady, detected, coalesced>>
    BY <1>4 DEF ObserveIgnored
  <2>2. WindowsOK'
    BY <2>1, <1>0, <1>3 DEF WindowsOK, IncidentOK, WindowOK, TriggersOK, ReadyOK
  <2>3. BoundariesOK'
    BY <2>1, <1>0, <1>3 DEF BoundariesOK
  <2> QED
    BY <2>1, <2>2, <2>3, <1>0, <1>3
<1>5. ASSUME Triggering(m) PROVE /\ TriggerCount(m) \in Nat \ {0}
                                 /\ previous < now
  BY <1>5, TriggeringFacts
<1>6. CASE ObserveOpen(m, now)
  <2> DEFINE w == WithTrigger(newIncident(now), m)
  <2>1. Triggering(m) /\ current = NoIncident /\ current' = w /\ UNCHANGED <<next, nextReady>>
    BY <1>6 DEF ObserveOpen
  <2>2. w \in Incident /\ IncidentOK(w) /\ w.end = now + After /\ w.detected = now
    <3>1. now <= newIncident(now).end
      BY <2>1, <1>0, <1>1, OpenOK
    <3> QED
      BY <2>1, <3>1, <1>0, OpenOK, JoinOK
  <2> HIDE DEF w
  <2>3. next = NoIncident /\ currentReady = 0
    BY <2>1, <1>0 DEF WindowsOK
  <2>4. WindowsOK'
    <3>1. IncidentOK(current)'
      BY <2>1, <2>2, <1>3 DEF IncidentOK, WindowOK, TriggersOK
    <3>2. ReadyOK(current, currentReady)'
      BY <2>1, <2>2, <2>3, <1>0, <1>1, <1>2, <1>3 DEF ReadyOK
    <3>3. current' # NoIncident /\ next' = NoIncident /\ nextReady' = 0
      BY <2>1, <2>2, <2>3, <1>0, NoIncidentAssumption DEF WindowsOK, NoIncidentAssumption
    <3> QED
      BY <3>1, <3>2, <3>3 DEF WindowsOK
  <2>5. BoundariesOK'
    <3>1. previous < now
      BY <2>1, <1>5
    <3> QED
      BY <2>1, <2>2, <3>1, <1>0, <1>1, <1>3 DEF BoundariesOK
  <2>6. detected' \in Nat /\ coalesced' \in Nat
    BY <1>6, <1>5, <1>0 DEF ObserveOpen
  <2> QED
    BY <2>1, <2>2, <2>4, <2>5, <2>6, <1>0, <1>3
<1>7. CASE ObserveJoin(m, now)
  <2> DEFINE w == WithTrigger(current, m)
  <2>1. /\ Triggering(m) /\ current # NoIncident /\ now <= current.end
        /\ current' = w /\ UNCHANGED <<next, nextReady>>
    BY <1>7 DEF ObserveJoin
  <2>2. /\ current \in Incident /\ IncidentOK(current) /\ ReadyOK(current, currentReady)
    BY <2>1, <1>0 DEF WindowsOK
  <2>3. w \in Incident /\ IncidentOK(w) /\ w.end = current.end /\ w.detected = current.detected
    BY <2>1, <2>2, <1>0, JoinOK DEF IncidentOK
  <2> HIDE DEF w
  <2>4. WindowsOK'
    <3>1. IncidentOK(current)'
      BY <2>1, <2>3, <1>3 DEF IncidentOK, WindowOK, TriggersOK
    <3>2. ReadyOK(current, currentReady)'
      BY <2>1, <2>2, <2>3, <1>3 DEF ReadyOK
    <3>3. next # NoIncident => IncidentOK(next)' /\ ReadyOK(next, nextReady)'
      BY <2>1, <1>0, <1>3 DEF WindowsOK, IncidentOK, WindowOK, TriggersOK, ReadyOK
    <3>4. current' # NoIncident
      BY <2>1, <2>3, NoIncidentAssumption DEF NoIncidentAssumption
    <3> QED
      BY <3>1, <3>2, <3>3, <3>4, <2>1, <2>3, <1>0 DEF WindowsOK
  <2>5. BoundariesOK'
    BY <2>1, <2>3, <1>0, <1>3 DEF BoundariesOK
  <2>6. detected' \in Nat /\ coalesced' \in Nat
    BY <1>7, <1>5, <1>0 DEF ObserveJoin
  <2> QED
    BY <2>1, <2>3, <2>4, <2>5, <2>6, <1>0, <1>3
<1>8. CASE ObserveWait(m, now)
  <2> DEFINE w == WithTrigger(newIncident(now), m)
  <2>1. /\ Triggering(m) /\ current # NoIncident /\ current.end < now
        /\ next = NoIncident /\ next' = w /\ UNCHANGED <<current, nextReady>>
    BY <1>8, <1>0 DEF ObserveWait, Incident
  <2>2. w \in Incident /\ IncidentOK(w) /\ w.end = now + After /\ w.detected = now
    <3>1. now <= newIncident(now).end
      BY <2>1, <1>0, <1>1, OpenOK
    <3> QED
      BY <2>1, <3>1, <1>0, OpenOK, JoinOK
  <2> HIDE DEF w
  <2>3. WindowsOK'
    <3>1. IncidentOK(next)'
      BY <2>1, <2>2, <1>3 DEF IncidentOK, WindowOK, TriggersOK
    <3>2. ReadyOK(next, nextReady)'
      <4>1. nextReady' = 0
        BY <2>1, <1>0 DEF WindowsOK
      <4> QED
        BY <4>1, <2>1, <2>2, <1>0, <1>1, <1>2, <1>3 DEF ReadyOK
    <3>3. IncidentOK(current)' /\ ReadyOK(current, currentReady)'
      BY <2>1, <1>0, <1>3 DEF WindowsOK, IncidentOK, WindowOK, TriggersOK, ReadyOK
    <3>4. next' # NoIncident
      BY <2>1, <2>2, NoIncidentAssumption DEF NoIncidentAssumption
    <3> QED
      BY <3>1, <3>2, <3>3, <3>4, <2>1, <2>2, <1>0 DEF WindowsOK
  <2>4. BoundariesOK'
    BY <2>1, <1>0, <1>3 DEF BoundariesOK
  <2>5. detected' \in Nat /\ coalesced' \in Nat
    BY <1>8, <1>5, <1>0 DEF ObserveWait
  <2> QED
    BY <2>1, <2>2, <2>3, <2>4, <2>5, <1>0, <1>3
<1>9. CASE ObserveMerge(m, now)
  <2> DEFINE x == Extended(next, now)
             w == WithTrigger(x, m)
  <2>1. /\ Triggering(m) /\ current # NoIncident /\ next # NoIncident
        /\ next' = w /\ UNCHANGED current
        /\ nextReady' = IF now + After > next.end THEN 0 ELSE nextReady
    BY <1>9 DEF ObserveMerge, Extends
  <2>2. /\ next \in Incident /\ next.end \in Nat /\ next.detected \in Nat
        /\ WindowOK(next) /\ TriggersOK(next) /\ ReadyOK(next, nextReady)
    BY <2>1, <1>0 DEF WindowsOK, IncidentOK, Incident
  <2>3. next.detected <= now
    BY <2>2, <1>2 DEF WindowOK
  <2>4. /\ x \in Incident /\ x.detected = next.detected /\ x.before = next.before
        /\ x.triggers = next.triggers
        /\ x.end = IF now + After > next.end THEN now + After ELSE next.end
        /\ x.after = IF now + After > next.end THEN now + After - next.detected ELSE next.after
    BY <2>2, <2>3, <1>0, ExtendedType
  <2> HIDE DEF x
  <2>5. now <= x.end /\ next.end <= x.end
    BY <2>2, <2>4, <1>0, <1>1
  <2>6. WindowOK(x)
    <3>1. \E p \in polls : p.end = now
      BY <2>1, <1>0, <1>5 DEF PollsOK
    <3> QED
      BY <3>1, <2>2, <2>3, <2>4, <1>0, <1>1 DEF WindowOK
  <2>7. TriggersOK(x)
    <3>1. \A f \in TriggerFamilies : next.triggers[f].last \in Nat
      BY <2>2 DEF Incident, AutoTrigger
    <3> QED
      BY <3>1, <2>2, <2>4, <2>5 DEF TriggersOK, Incident
  <2>8. w \in Incident /\ IncidentOK(w) /\ w.end = x.end /\ w.detected = x.detected
    BY <2>1, <2>4, <2>5, <2>6, <2>7, <1>0, JoinOK
  <2> HIDE DEF w
  <2>9. WindowsOK'
    <3>1. IncidentOK(next)'
      BY <2>1, <2>8, <1>3 DEF IncidentOK, WindowOK, TriggersOK
    <3>2. ReadyOK(next, nextReady)'
      <4>1. CASE now + After > next.end
        <5>1. nextReady' = 0 /\ next'.end = now + After
          BY <4>1, <2>1, <2>4, <2>8
        <5> QED
          BY <5>1, <1>0, <1>1, <1>2, <1>3 DEF ReadyOK
      <4>2. CASE ~(now + After > next.end)
        <5>1. nextReady' = nextReady /\ next'.end = next.end
          BY <4>2, <2>1, <2>4, <2>8
        <5> QED
          BY <5>1, <2>2, <1>3 DEF ReadyOK
      <4> QED
        BY <4>1, <4>2
    <3>3. IncidentOK(current)' /\ ReadyOK(current, currentReady)'
      BY <2>1, <1>0, <1>3 DEF WindowsOK, IncidentOK, WindowOK, TriggersOK, ReadyOK
    <3>4. next' # NoIncident
      BY <2>1, <2>8, NoIncidentAssumption DEF NoIncidentAssumption
    <3> QED
      BY <3>1, <3>2, <3>3, <3>4, <2>1, <2>4, <2>8, <1>0 DEF WindowsOK
  <2>10. BoundariesOK'
    BY <2>1, <1>0, <1>3 DEF BoundariesOK
  <2>11. detected' \in Nat /\ coalesced' \in Nat /\ nextReady' \in Nat
    BY <1>9, <2>1, <1>5, <1>0 DEF ObserveMerge
  <2> QED
    BY <2>1, <2>8, <2>9, <2>10, <2>11, <1>0, <1>3
<1> QED
  BY <1>4, <1>6, <1>7, <1>8, <1>9 DEF Observe

-----------------------------------------------------------------------------
(* Plain consequences of IInv that most steps need.                        *)
LEMMA Facts ==
    ASSUME IInv
    PROVE  /\ now \in Nat /\ previous \in Nat /\ polls \subseteq Interval
           /\ lastSavedEnd \in Nat /\ writingEnd \in Nat /\ filed \in Nat
           /\ currentReady \in Nat /\ nextReady \in Nat
           /\ current \in Incident \cup {NoIncident}
           /\ next \in Incident \cup {NoIncident}
           /\ job \in Job \cup {NoJob}
           /\ \A p \in polls : p.start \in Nat /\ p.end \in Nat /\ p.end <= now
           /\ previous <= now
           /\ PollsOK /\ WindowsOK /\ BoundariesOK /\ JobOK /\ TypeOK
<1>1. TypeOK /\ PollsOK /\ WindowsOK /\ BoundariesOK /\ JobOK
  BY DEF IInv
<1>2. now \in Nat /\ previous \in Nat /\ polls \subseteq Interval
  BY <1>1 DEF TypeOK
<1>3. \A p \in polls : p.start \in Nat /\ p.end \in Nat /\ p.end <= now
  BY <1>1, <1>2 DEF PollsOK, Interval
<1> QED
  BY <1>1, <1>2, <1>3 DEF TypeOK, ControllerTypeOK, PollsOK

(* Starting a collection appends one interval after all earlier ones.      *)
LEMMA StartCollectStep ==
    ASSUME IInv, phase = "select", StartCollect
    PROVE  PollsOK' /\ WindowsOK' /\ BoundariesOK' /\ JobOK' /\ now' \in Nat
           /\ polls' \subseteq Interval
<1> USE Facts
<1>1. now' \in Nat /\ now <= now'
  BY LoopAssumption DEF LoopAssumption, StartCollect, ReadClock, Time
<1>2. /\ phase' = "collect"
      /\ UNCHANGED <<previous, job, current, next, currentReady, nextReady, writing,
                     writingEnd, lastSavedEnd, filed>>
  BY DEF StartCollect, ctlVars
<1> DEFINE n == [start |-> previous, end |-> now']
<1>3. /\ n \in Interval /\ n.start = previous /\ n.end = now'
  BY <1>1 DEF Interval
<1>4. polls' = IF now' > previous THEN polls \cup {n} ELSE polls
  BY DEF StartCollect
<1>5. \A p \in polls' : p \in polls \/ (p = n /\ previous < now')
  BY <1>1, <1>4
<1>6. polls \subseteq polls'
  BY <1>4
<1> HIDE DEF n
<1>7. \A p \in polls : p.start < p.end /\ p.end <= previous
  BY DEF PollsOK, InCollection
<1>8. PollsOK'
  <2>1. \A p \in polls' : /\ p.start < p.end
                          /\ p.end <= previous \/ (p.start = previous /\ p.end = now')
    BY <1>1, <1>3, <1>5, <1>7
  <2>2. \A p, q \in polls' : p.end <= q.start \/ q.end <= p.start \/ p = q
    BY <1>3, <1>5, <1>7 DEF PollsOK
  <2>3. now' > previous => \E p \in polls' : p.end = now'
    BY <1>3, <1>4
  <2>4. ~(now' > previous) /\ polls' # {} => \E p \in polls' : p.end = previous
    BY <1>4 DEF PollsOK
  <2> QED
    BY <2>1, <2>2, <2>3, <2>4, <1>1, <1>2 DEF PollsOK, InCollection
<1>9. \A i \in Incident, r \in Nat :
        IncidentOK(i) /\ ReadyOK(i, r) => IncidentOK(i)' /\ ReadyOK(i, r)'
  <2> SUFFICES ASSUME NEW i \in Incident, NEW r \in Nat, IncidentOK(i), ReadyOK(i, r)
               PROVE  IncidentOK(i)' /\ ReadyOK(i, r)'
    OBVIOUS
  <2>1. IncidentOK(i)'
    <3>1. WindowOK(i)'
      BY <1>6 DEF IncidentOK, WindowOK
    <3>2. TriggersOK(i)'
      BY <1>6 DEF IncidentOK, TriggersOK
    <3> QED
      BY <3>1, <3>2 DEF IncidentOK
  <2>2. ReadyOK(i, r)'
    <3>1. CASE r # 0
      <4>1. \A p \in polls' : i.end <= p.end => r <= p.end
        BY <3>1, <1>1, <1>3, <1>5 DEF ReadyOK, Incident
      <4> QED
        BY <3>1, <4>1, <1>6 DEF ReadyOK
    <3>2. CASE r = 0
      BY <3>2, <1>2, <1>3, <1>5 DEF ReadyOK
    <3> QED
      BY <3>1, <3>2
  <2> QED
    BY <2>1, <2>2
<1>10. WindowsOK'
  <2>1. current # NoIncident => IncidentOK(current)' /\ ReadyOK(current, currentReady)'
    <3>1. current # NoIncident => IncidentOK(current) /\ ReadyOK(current, currentReady)
      BY DEF WindowsOK
    <3>2. current # NoIncident =>
            /\ \A i \in Incident : i = current =>
                  (IncidentOK(i)' /\ ReadyOK(i, currentReady)' )
      BY <3>1, <1>9, <1>2
    <3> QED
      BY <3>2, <1>2 DEF IncidentOK, WindowOK, TriggersOK, ReadyOK
  <2>2. next # NoIncident => IncidentOK(next)' /\ ReadyOK(next, nextReady)'
    <3>1. next # NoIncident => IncidentOK(next) /\ ReadyOK(next, nextReady)
      BY DEF WindowsOK
    <3>2. next # NoIncident =>
            /\ \A i \in Incident : i = next =>
                  (IncidentOK(i)' /\ ReadyOK(i, nextReady)' )
      BY <3>1, <1>9, <1>2
    <3> QED
      BY <3>2, <1>2 DEF IncidentOK, WindowOK, TriggersOK, ReadyOK
  <2> QED
    BY <2>1, <2>2, <1>2 DEF WindowsOK
<1>11. BoundariesOK'
  BY <1>2, <1>6 DEF BoundariesOK
<1>12. JobOK'
  <2>1. CASE job = NoJob
    BY <2>1, <1>2 DEF JobOK, JobValid, TriggersInWindow, OneIntervalOverlap, EndsAtFirstPoll,
                      NoIntervalBetweenFiles, SavedEndAdvances
  <2>2. CASE job # NoJob
    <3>1. job.incident.end \in Nat /\ job.incident.end <= previous /\ job.deadline \in Nat
      BY <2>2 DEF BoundariesOK, Job, Incident
    <3>2. JobValid' /\ TriggersInWindow' /\ SavedEndAdvances'
      BY <1>2 DEF JobOK, JobValid, TriggersInWindow, SavedEndAdvances, Valid, Reported
    <3>3. OneIntervalOverlap'
      BY <1>2, <1>6 DEF JobOK, OneIntervalOverlap
    <3>4. EndsAtFirstPoll'
      BY <2>2, <3>1, <1>1, <1>2, <1>3, <1>5, <1>6 DEF JobOK, EndsAtFirstPoll
    <3>5. NoIntervalBetweenFiles'
      BY <2>2, <3>1, <1>1, <1>2, <1>3, <1>5, <1>6 DEF JobOK, NoIntervalBetweenFiles
    <3> QED
      BY <3>2, <3>3, <3>4, <3>5 DEF JobOK
  <2> QED
    BY <2>1, <2>2
<1> QED
  BY <1>1, <1>3, <1>5, <1>8, <1>10, <1>11, <1>12

(* When the loop begins a file its last poll is already remembered.        *)
LEMMA ReadyWhenDue ==
    ASSUME IInv, Due
    PROVE  /\ phase = "schedule" /\ current \in Incident /\ current # NoIncident
           /\ ~writing /\ job = NoJob
           /\ IncidentOK(current) /\ ReadyOK(current, currentReady) /\ currentReady # 0
           /\ \A p \in polls : p.end <= previous
<1>1. /\ phase = "schedule" /\ current # NoIncident /\ ~writing
      /\ current.end <= previous
  BY Facts DEF Due, Pending, Incident
<1>2. current \in Incident /\ IncidentOK(current) /\ ReadyOK(current, currentReady)
  BY <1>1, Facts DEF WindowsOK
<1>3. PICK p \in polls : p.end = previous
  BY <1>1, <1>2, Facts DEF IncidentOK, WindowOK, PollsOK
<1>4. currentReady # 0
  BY <1>1, <1>2, <1>3, Facts DEF ReadyOK, Incident
<1>5. job = NoJob
  BY <1>1, Facts DEF BoundariesOK
<1>6. \A q \in polls : q.end <= previous
  BY <1>1, Facts DEF PollsOK, InCollection
<1> QED
  BY <1>1, <1>2, <1>4, <1>5, <1>6

(* The file Begin selects: its window, its end and its start.              *)
LEMMA BeginWriteStep ==
    ASSUME IInv, BeginWrite
    PROVE  TypeOK' /\ PollsOK' /\ WindowsOK' /\ BoundariesOK' /\ JobOK'
<1> USE Facts
<1>1. /\ phase = "schedule" /\ current \in Incident /\ current # NoIncident
      /\ ~writing /\ job = NoJob
      /\ IncidentOK(current) /\ ReadyOK(current, currentReady) /\ currentReady # 0
      /\ \A p \in polls : p.end <= previous
  BY ReadyWhenDue DEF BeginWrite
<1>2. /\ After \in Nat /\ Before \in Nat \ {0}
  BY ConfigAssumption DEF ConfigAssumption
<1>3. /\ current.detected \in Nat /\ current.end \in Nat /\ current.before = Before
      /\ current.detected <= current.end /\ current.after = current.end - current.detected
      /\ \A f \in TriggerFamilies : /\ current.triggers[f].count \in Nat
                                    /\ current.triggers[f].first \in Nat
                                    /\ current.triggers[f].last \in Nat
  BY <1>1, <1>2 DEF IncidentOK, WindowOK, Incident, AutoTrigger
<1> DEFINE v == BeginIncident
           r == currentReady
<1>4. /\ v \in Incident /\ v.detected = current.detected /\ v.before = Before
      /\ v.triggers = current.triggers /\ v.end = r /\ v.after = r - current.detected
      /\ current.end <= r
  BY <1>1, <1>3, BeginIncidentType DEF ReadyOK
<1> HIDE DEF v
<1>5. PICK start \in {Boundary} \cup {current.triggers[f].first : f \in Straddling} :
         /\ IsBeginStart(start)
         /\ job' = [incident |-> v, start |-> start, deadline |-> current.end]
  BY DEF BeginWrite, v
<1>6. /\ Boundary \in Nat /\ lastSavedEnd <= Boundary /\ Boundary <= current.detected
      /\ Boundary = lastSavedEnd \/ Boundary + Before = current.detected \/ Boundary = 0
  <2>1. lastSavedEnd <= current.detected
    BY <1>1 DEF BoundariesOK
  <2> QED
    BY <2>1, <1>2, <1>3 DEF Boundary
<1> HIDE DEF Boundary
<1>7. /\ start \in Nat /\ start <= Boundary
      /\ \A f \in Reported(current) : start <= current.triggers[f].first
  <2>1. start \in Nat
    BY <1>3, <1>5, <1>6 DEF Straddling, Reported
  <2>2. ASSUME NEW f \in Reported(current) PROVE start <= current.triggers[f].first
    <3>1. /\ f \in TriggerFamilies
          /\ Boundary <= current.triggers[f].last
      BY <1>1, <1>3, <1>6 DEF Reported, IncidentOK, TriggersOK
    <3>2. CASE current.triggers[f].first < Boundary
      BY <3>1, <3>2, <1>3, <1>5, <1>6 DEF Straddling, IsBeginStart
    <3>3. CASE ~(current.triggers[f].first < Boundary)
      BY <3>1, <3>3, <2>1, <1>3, <1>5, <1>6 DEF IsBeginStart
    <3> QED
      BY <3>2, <3>3
  <2> QED
    BY <2>1, <2>2, <1>5 DEF IsBeginStart
<1>8. /\ job' \in Job /\ job' # NoJob
      /\ job'.incident = v /\ job'.start = start /\ job'.deadline = current.end
  BY <1>3, <1>4, <1>5, <1>7, NoJobAssumption DEF Job, NoJobAssumption
<1>9. /\ phase' = "select" /\ retrying' = FALSE
      /\ UNCHANGED <<now, previous, todo, disabled, timer, polls, lastSavedEnd, filed, sensors,
                     detected, coalesced, saved, failures>>
      /\ current' = next /\ next' = NoIncident /\ currentReady' = nextReady /\ nextReady' = 0
      /\ writing' = TRUE /\ writingEnd' = r
      /\ begun' = begun + 1 /\ recorded' = recorded + TriggerTotal(current)
  BY <1>4 DEF BeginWrite, Begin, v
<1>10. TypeOK'
  <2>1. TriggerTotal(current) \in Nat
    BY <1>3 DEF TriggerTotal, TriggerFamilies, LatencyFamilies, VictimFamilies
  <2>2. ControllerTypeOK'
    BY <1>9 DEF TypeOK, ControllerTypeOK
  <2>3. begun' \in Nat /\ recorded' \in Nat
    BY <2>1, <1>9 DEF TypeOK
  <2>4. retrying' \in BOOLEAN /\ phase' \in Phases /\ job' \in Job \cup {NoJob}
    BY <1>8, <1>9 DEF Phases
  <2> QED
    BY <2>2, <2>3, <2>4, <1>9 DEF TypeOK
<1>11. PollsOK'
  BY <1>1, <1>9 DEF PollsOK, InCollection
<1>12. WindowsOK'
  <2>1. next # NoIncident => IncidentOK(current)' /\ ReadyOK(current, currentReady)'
    BY <1>1, <1>9 DEF WindowsOK, IncidentOK, WindowOK, TriggersOK, ReadyOK
  <2> QED
    BY <2>1, <1>9 DEF WindowsOK
<1>13. r <= previous /\ \A p \in polls : current.end <= p.end => r <= p.end
  BY <1>1 DEF ReadyOK
<1>14. BoundariesOK'
  <2>1. CASE next # NoIncident
    <3>1. /\ next.detected \in Nat /\ next.end \in Nat /\ IncidentOK(next)
          /\ current.end < next.detected
      BY <2>1 DEF WindowsOK, Incident
    <3>2. next.detected + After <= next.end
      BY <3>1 DEF IncidentOK, WindowOK
    <3>3. r <= next.detected
      BY <3>1, <1>3, <1>13 DEF IncidentOK, WindowOK
    <3>4. r < next.end
      <4>1. CASE After = 0
        <5>1. r <= current.end
          BY <4>1, <1>1, <1>3, <1>13 DEF IncidentOK, WindowOK
        <5> QED
          BY <5>1, <3>1, <3>2, <4>1, <1>3
      <4>2. CASE After # 0
        BY <4>2, <3>1, <3>2, <3>3, <1>2
      <4> QED
        BY <4>1, <4>2
    <3>5. lastSavedEnd < current.end
      BY <1>1 DEF BoundariesOK
    <3>6. lastSavedEnd <= next.detected /\ lastSavedEnd < next.end
      BY <3>1, <3>2, <3>5, <1>2, <1>3
    <3> QED
      BY <3>3, <3>4, <3>6, <1>4, <1>8, <1>9, <1>13 DEF BoundariesOK
  <2>2. CASE next = NoIncident
    BY <2>2, <1>4, <1>8, <1>9, <1>13 DEF BoundariesOK
  <2> QED
    BY <2>1, <2>2
<1>15. JobValid'
  <2>1. Reported(v) # {}
    BY <1>1, <1>4 DEF Reported, IncidentOK
  <2>2. \A f \in Reported(v) : /\ v.triggers[f].first < v.triggers[f].last
                               /\ v.triggers[f].last <= v.end
    BY <1>1, <1>3, <1>4 DEF Reported, IncidentOK, TriggersOK
  <2>3. Valid(v, v.end)
    BY <2>1, <2>2, <1>2, <1>3, <1>4 DEF Valid
  <2> QED
    BY <2>3, <1>8 DEF JobValid, Valid, Reported
<1>16. TriggersInWindow'
  <2>1. \A f \in Reported(v) : start <= v.triggers[f].first /\ v.triggers[f].last <= v.end
    BY <1>1, <1>3, <1>4, <1>7 DEF Reported, IncidentOK, TriggersOK
  <2> QED
    BY <2>1, <1>8 DEF TriggersInWindow, Reported
<1>f. filed' = lastSavedEnd
  BY DEF BeginWrite, BoundariesOK
<1>17. OneIntervalOverlap'
  <2> SUFFICES ASSUME start < lastSavedEnd
               PROVE  [start |-> start, end |-> lastSavedEnd] \in polls
    BY <1>8, <1>9, <1>f DEF OneIntervalOverlap
  <2>1. PICK f \in Straddling : start = current.triggers[f].first
    BY <1>5, <1>6, <1>7
  <2>2. f \in TriggerFamilies /\ current.triggers[f].count # 0
    BY DEF Straddling, Reported
  <2>3. PICK p \in polls : p.start = start /\ current.detected <= p.end
    BY <2>1, <2>2, <1>1 DEF IncidentOK, TriggersOK
  <2>4. PICK q \in polls : q.end = lastSavedEnd /\ q.start < q.end
    BY <1>7 DEF BoundariesOK, PollsOK
  <2>5. q.end <= p.end
    BY <2>3, <2>4, <1>3, <1>6
  <2>6. p = q
    BY <2>3, <2>4, <2>5, <1>7 DEF PollsOK
  <2> QED
    BY <2>3, <2>4, <2>6 DEF Interval
<1>18. EndsAtFirstPoll'
  <2>1. \E p \in polls : p.end = r
    BY <1>1 DEF ReadyOK
  <2> QED
    BY <2>1, <1>3, <1>4, <1>8, <1>9, <1>13 DEF EndsAtFirstPoll
<1>19. NoIntervalBetweenFiles'
  <2> SUFFICES ASSUME NEW p \in polls, lastSavedEnd < p.end,
                      current.detected <= p.start + Before
               PROVE  start <= p.start
    BY <1>4, <1>8, <1>9, <1>f, <1>3, <1>2 DEF NoIntervalBetweenFiles
  <2>1. CASE Boundary = lastSavedEnd /\ lastSavedEnd # 0
    <3>1. PICK q \in polls : q.end = lastSavedEnd /\ q.start < q.end
      BY <2>1 DEF BoundariesOK, PollsOK
    <3>2. lastSavedEnd <= p.start
      BY <3>1 DEF PollsOK
    <3> QED
      BY <3>2, <2>1, <1>7
  <2>2. CASE Boundary + Before = current.detected \/ Boundary = 0
    BY <2>2, <1>2, <1>3, <1>6, <1>7
  <2> QED
    BY <2>1, <2>2, <1>6
<1>20. SavedEndAdvances'
  <2>1. lastSavedEnd < current.end
    BY <1>1 DEF BoundariesOK
  <2> QED
    BY <2>1, <1>3, <1>4, <1>8, <1>9, <1>f DEF SavedEndAdvances
<1> QED
  BY <1>10, <1>11, <1>12, <1>14, <1>15, <1>16, <1>17, <1>18, <1>19, <1>20 DEF JobOK

(* Phase changes that keep the meaning of the recorded collections.        *)
PhaseStep ==
    /\ now' \in Nat /\ now <= now'
    /\ \/ phase = "select" /\ phase' \in {"select", "progress", "closing"}
       \/ phase = "schedule" /\ phase' = "select"
       \/ phase = "collect" /\ phase' \in {"collect", "closing"} /\ now' = now
       \/ phase = "closing" /\ phase' = "stopped" /\ now' = now
       \/ UNCHANGED <<phase, now>>

(* A step that leaves the collections alone keeps PollsOK and whatever it  *)
(* does not touch of the windows and of the file being written.            *)
LEMMA PhaseStepOK ==
    ASSUME IInv, PhaseStep, UNCHANGED <<polls, previous>>
    PROVE  /\ PollsOK'
           /\ UNCHANGED <<current, next, currentReady, nextReady>> => WindowsOK'
           /\ UNCHANGED <<current, writing, writingEnd, lastSavedEnd, filed, job>> => BoundariesOK'
           /\ UNCHANGED <<filed, job>> => JobOK'
<1> USE Facts
<1>1. PollsOK'
  BY DEF PollsOK, PhaseStep, InCollection
<1>2. ASSUME UNCHANGED <<current, next, currentReady, nextReady>> PROVE WindowsOK'
  <2>1. current # NoIncident => IncidentOK(current)' /\ ReadyOK(current, currentReady)'
    <3>1. current # NoIncident => IncidentOK(current)'
      BY <1>2 DEF WindowsOK, IncidentOK, WindowOK, TriggersOK
    <3> QED
      BY <3>1, <1>2 DEF WindowsOK, ReadyOK, PhaseStep
  <2>2. next # NoIncident => IncidentOK(next)' /\ ReadyOK(next, nextReady)'
    <3>1. next # NoIncident => IncidentOK(next)'
      BY <1>2 DEF WindowsOK, IncidentOK, WindowOK, TriggersOK
    <3> QED
      BY <3>1, <1>2 DEF WindowsOK, ReadyOK, PhaseStep
  <2> QED
    BY <2>1, <2>2, <1>2 DEF WindowsOK
<1>3. ASSUME UNCHANGED <<current, writing, writingEnd, lastSavedEnd, filed, job>> PROVE BoundariesOK'
  BY <1>3 DEF BoundariesOK
<1>4. ASSUME UNCHANGED <<filed, job>> PROVE JobOK'
  BY <1>4 DEF JobOK, JobValid, TriggersInWindow, OneIntervalOverlap, EndsAtFirstPoll,
              NoIntervalBetweenFiles, SavedEndAdvances, Valid, Reported
<1> QED
  BY <1>1, <1>2, <1>3, <1>4

(* The worker's result moves the saved boundary to the written end, if at  *)
(* all; every waiting window already starts at or after it.                *)
LEMMA FinishStep ==
    ASSUME IInv, PhaseStep, UNCHANGED <<polls, previous>>,
           job # NoJob, job' = NoJob,
           NEW published \in BOOLEAN, NEW err \in BOOLEAN, Finish(published, err),
           filed' = IF published THEN job.incident.end ELSE filed
    PROVE  ControllerTypeOK' /\ PollsOK' /\ WindowsOK' /\ BoundariesOK' /\ JobOK'
<1> USE Facts
<1>1. /\ writing' = FALSE /\ writingEnd' = 0
      /\ lastSavedEnd' \in {lastSavedEnd, writingEnd} /\ filed' = lastSavedEnd'
      /\ UNCHANGED <<sensors, current, next, currentReady, nextReady, detected, coalesced>>
  BY DEF Finish, BoundariesOK
<1>2. PollsOK' /\ WindowsOK'
  BY <1>1, PhaseStepOK
<1>3. BoundariesOK'
  <2>1. \E p \in polls : p.end = writingEnd
    BY DEF BoundariesOK, JobOK, EndsAtFirstPoll
  <2> QED
    BY <2>1, <1>1 DEF BoundariesOK
<1>4. JobOK'
  BY DEF JobOK, JobValid, TriggersInWindow, OneIntervalOverlap, EndsAtFirstPoll,
         NoIntervalBetweenFiles, SavedEndAdvances
<1>5. saved' \in Nat /\ failures' \in Nat
  BY DEF Finish, TypeOK, ControllerTypeOK
<1>6. ControllerTypeOK'
  BY <1>1, <1>5 DEF TypeOK, ControllerTypeOK
<1> QED
  BY <1>2, <1>3, <1>4, <1>6

(* Remembering the poll that just completed.                               *)
LEMMA ProgressStep ==
    ASSUME IInv, Progress
    PROVE  ControllerTypeOK' /\ PollsOK' /\ WindowsOK' /\ BoundariesOK' /\ JobOK'
<1> USE Facts
<1>1. /\ phase = "progress" /\ phase' = "schedule"
      /\ UNCHANGED <<now, previous, job, polls, filed, sensors, current, next, writing, writingEnd,
                     lastSavedEnd, detected, coalesced, saved, failures>>
      /\ currentReady' = IF current # NoIncident /\ currentReady = 0 /\ previous >= current.end
                         THEN previous ELSE currentReady
      /\ nextReady' = IF next # NoIncident /\ nextReady = 0 /\ previous >= next.end
                      THEN previous ELSE nextReady
  BY DEF Progress, CollectedThrough
<1>2. PollsOK' /\ BoundariesOK' /\ JobOK'
  BY <1>1 DEF PollsOK, InCollection, BoundariesOK, JobOK, JobValid, TriggersInWindow,
              OneIntervalOverlap, EndsAtFirstPoll, NoIntervalBetweenFiles, SavedEndAdvances,
              Valid, Reported
<1>3. \A p \in polls : p.end <= previous
  BY <1>1 DEF PollsOK, InCollection
<1>4. ASSUME NEW i \in Incident, NEW r \in Nat, NEW s \in Nat,
             IncidentOK(i), ReadyOK(i, r),
             s = IF r = 0 /\ previous >= i.end THEN previous ELSE r
      PROVE  /\ s # 0 => /\ i.end <= s
                         /\ \E p \in polls : p.end = s
                         /\ \A p \in polls : i.end <= p.end => s <= p.end
             /\ s = 0 => \A p \in polls : p.end < i.end
  <2>1. i.end \in Nat /\ \E p \in polls : p.end = previous
    BY <1>1, <1>4 DEF Incident, IncidentOK, WindowOK, PollsOK
  <2>2. CASE r = 0 /\ previous >= i.end
    <3>1. previous # 0
      BY <2>1 DEF PollsOK
    <3>2. \A p \in polls : i.end <= p.end => previous <= p.end
      BY <2>1, <2>2, <1>4 DEF ReadyOK
    <3> QED
      BY <3>1, <3>2, <2>1, <2>2, <1>4
  <2>3. CASE r = 0 /\ previous < i.end
    BY <2>1, <2>3, <1>3, <1>4 DEF ReadyOK
  <2>4. CASE r # 0
    BY <2>1, <2>4, <1>4 DEF ReadyOK
  <2> QED
    BY <2>1, <2>2, <2>3, <2>4
<1>5. WindowsOK'
  <2>1. ASSUME current # NoIncident PROVE IncidentOK(current)' /\ ReadyOK(current, currentReady)'
    <3>1. current \in Incident /\ IncidentOK(current) /\ ReadyOK(current, currentReady)
      BY <2>1 DEF WindowsOK
    <3>2. currentReady' \in Nat
      BY <1>1
    <3>3. ReadyOK(current, currentReady)'
      BY <2>1, <3>1, <3>2, <1>1, <1>4 DEF ReadyOK
    <3> QED
      BY <3>1, <3>3, <1>1 DEF IncidentOK, WindowOK, TriggersOK
  <2>2. ASSUME next # NoIncident PROVE IncidentOK(next)' /\ ReadyOK(next, nextReady)'
    <3>1. next \in Incident /\ IncidentOK(next) /\ ReadyOK(next, nextReady)
      BY <2>2 DEF WindowsOK
    <3>2. nextReady' \in Nat
      BY <1>1
    <3>3. ReadyOK(next, nextReady)'
      BY <2>2, <3>1, <3>2, <1>1, <1>4 DEF ReadyOK
    <3> QED
      BY <3>1, <3>3, <1>1 DEF IncidentOK, WindowOK, TriggersOK
  <2> QED
    BY <2>1, <2>2, <1>1 DEF WindowsOK
<1>6. ControllerTypeOK'
  BY <1>1 DEF TypeOK, ControllerTypeOK
<1> QED
  BY <1>2, <1>5, <1>6

(* A finished collection becomes the new previous.                         *)
LEMMA CollectDoneStep ==
    ASSUME IInv, CollectDone
    PROVE  PollsOK' /\ WindowsOK' /\ BoundariesOK' /\ JobOK' /\ previous' \in Nat
<1> USE Facts
<1>1. /\ phase = "collect" /\ UNCHANGED <<now, job, polls, filed>>
      /\ UNCHANGED <<current, next, currentReady, nextReady, writing, writingEnd, lastSavedEnd>>
  BY DEF CollectDone, ctlVars
<1>2. CASE disabled = Sensors
  <2>1. PhaseStep /\ UNCHANGED previous
    BY <1>2 DEF CollectDone, PhaseStep
  <2> QED
    BY <2>1, <1>1, PhaseStepOK
<1>3. CASE disabled # Sensors
  <2>1. phase' = "progress" /\ previous' = now
    BY <1>3 DEF CollectDone
  <2>2. PollsOK'
    BY <2>1, <1>1 DEF PollsOK, InCollection
  <2>3. WindowsOK'
    <3>1. /\ current # NoIncident => IncidentOK(current)'
          /\ next # NoIncident => IncidentOK(next)'
      BY <1>1 DEF WindowsOK, IncidentOK, WindowOK, TriggersOK
    <3>2. /\ current # NoIncident => ReadyOK(current, currentReady)'
          /\ next # NoIncident => ReadyOK(next, nextReady)'
      BY <2>1, <1>1 DEF WindowsOK, ReadyOK
    <3> QED
      BY <3>1, <3>2, <1>1 DEF WindowsOK
  <2>4. BoundariesOK'
    BY <2>1, <1>1 DEF BoundariesOK
  <2>5. JobOK'
    BY <1>1 DEF JobOK, JobValid, TriggersInWindow, OneIntervalOverlap, EndsAtFirstPoll,
                NoIntervalBetweenFiles, SavedEndAdvances, Valid, Reported
  <2> QED
    BY <2>1, <2>2, <2>3, <2>4, <2>5
<1> QED
  BY <1>2, <1>3

-----------------------------------------------------------------------------
(* IInv holds initially.                                                   *)
LEMMA InitIInv == Init => IInv
<1> SUFFICES ASSUME Init PROVE IInv
  OBVIOUS
<1>1. TypeOK
  BY DEF Init, ControllerInit, TypeOK, ControllerTypeOK, Phases
<1> QED
  BY <1>1 DEF Init, ControllerInit, IInv, PollsOK, WindowsOK, BoundariesOK, JobOK, JobValid,
              TriggersInWindow, OneIntervalOverlap, EndsAtFirstPoll, NoIntervalBetweenFiles,
              SavedEndAdvances

(* Every step of the loop preserves IInv.                                  *)
LEMMA NextIInv == IInv /\ [Next]_vars => IInv'
<1> SUFFICES ASSUME IInv, [Next]_vars PROVE IInv'
  OBVIOUS
<1> USE Facts
<1>0. ReadClock => now' \in Nat /\ now <= now'
  BY LoopAssumption DEF LoopAssumption, ReadClock, Time
<1>1. ASSUME phase = "select", StartCollect, timer' \in {timer, Off} PROVE IInv'
  <2>1. PollsOK' /\ WindowsOK' /\ BoundariesOK' /\ JobOK' /\ now' \in Nat
        /\ polls' \subseteq Interval
    BY <1>1, StartCollectStep
  <2>2. TypeOK'
    BY <1>1, <2>1 DEF StartCollect, ctlVars, TypeOK, ControllerTypeOK, Phases
  <2> QED
    BY <2>1, <2>2 DEF IInv
<1>2. ASSUME phase = "select", SkipCollect, timer' \in {timer, Off} PROVE IInv'
  <2>1. PhaseStep /\ UNCHANGED <<polls, previous, job, filed, ctlVars>>
    BY <1>0, <1>2 DEF SkipCollect, PhaseStep
  <2>2. TypeOK'
    BY <1>0, <1>2 DEF SkipCollect, ctlVars, TypeOK, ControllerTypeOK, Phases
  <2> QED
    BY <2>1, <2>2, PhaseStepOK DEF IInv, ctlVars
<1>3. CASE Tick \/ SnapshotQuery
  BY <1>1, <1>3 DEF Tick, SnapshotQuery
<1>4. CASE StatusQuery
  BY <1>2, <1>4 DEF StatusQuery
<1>5. CASE AutoTick
  BY <1>1, <1>2, <1>5 DEF AutoTick
<1>6. CASE DetailOrRejected
  <2>1. PhaseStep /\ UNCHANGED <<polls, previous, job, filed, ctlVars>>
    BY <1>0, <1>6 DEF DetailOrRejected, PhaseStep
  <2>2. TypeOK'
    BY <1>0, <1>6 DEF DetailOrRejected, ctlVars, TypeOK, ControllerTypeOK
  <2> QED
    BY <2>1, <2>2, PhaseStepOK DEF IInv, ctlVars
<1>7. CASE Completed
  <2>1. PICK o \in Outcomes : /\ Finish(o.published, o.err)
                              /\ filed' = IF o.published THEN job.incident.end ELSE filed
    BY <1>7 DEF Completed, Finished
  <2>2. PhaseStep /\ UNCHANGED <<polls, previous>> /\ job # NoJob /\ job' = NoJob
    BY <1>0, <1>7 DEF Completed, PhaseStep
  <2>3. ControllerTypeOK' /\ PollsOK' /\ WindowsOK' /\ BoundariesOK' /\ JobOK'
    BY <2>1, <2>2, FinishStep DEF Outcomes
  <2>f. filed' \in Nat
    BY <2>1, <2>2 DEF BoundariesOK
  <2>4. TypeOK'
    BY <1>0, <1>7, <2>3, <2>f DEF Completed, TypeOK, Phases
  <2> QED
    BY <2>3, <2>4 DEF IInv
<1>8. ASSUME NEW s \in Sensors, CollectSensor(s) PROVE IInv'
  <2>1. /\ phase = "collect" /\ phase' \in {"collect", "closing"}
        /\ sensors' \subseteq sensors
        /\ UNCHANGED <<now, previous, timer, retrying, job, polls, begun, recorded, filed>>
        /\ disabled' \subseteq disabled \cup {s} /\ todo' \subseteq todo
    BY <1>8 DEF CollectSensor, Unavailable
  <2>2. PhaseStep
    BY <2>1 DEF PhaseStep
  <2>3. PICK count \in 0..MaxCount, critical \in 0..MaxCount :
          \/ Observe([family |-> s, start |-> previous, end |-> now,
                      count |-> count, critical |-> critical], now)
          \/ UNCHANGED <<current, next, currentReady, nextReady, writing, writingEnd,
                         lastSavedEnd, detected, coalesced, saved, failures>>
    BY <1>8 DEF CollectSensor
  <2>4. CASE UNCHANGED <<current, next, currentReady, nextReady, writing, writingEnd,
                         lastSavedEnd, detected, coalesced, saved, failures>>
    <3>1. TypeOK'
      BY <2>1, <2>4 DEF TypeOK, ControllerTypeOK, Phases
    <3> QED
      BY <2>1, <2>2, <2>4, <3>1, PhaseStepOK DEF IInv
  <2>5. CASE Observe([family |-> s, start |-> previous, end |-> now,
                      count |-> count, critical |-> critical], now)
    <3> DEFINE m == [family |-> s, start |-> previous, end |-> now,
                     count |-> count, critical |-> critical]
    <3>1. m \in Metric /\ m.start = previous /\ m.end = now /\ Observe(m, now)
      BY <2>5, LoopAssumption DEF LoopAssumption, Metric
    <3> HIDE DEF m
    <3>2. /\ current' \in Incident \cup {NoIncident}
          /\ next' \in Incident \cup {NoIncident}
          /\ currentReady' \in Nat /\ nextReady' \in Nat
          /\ detected' \in Nat /\ coalesced' \in Nat
          /\ WindowsOK' /\ BoundariesOK'
      BY <2>1, <3>1, ObserveStep
    <3>3. UNCHANGED <<writing, writingEnd, lastSavedEnd, saved, failures>>
      BY <3>1 DEF Observe
    <3>4. TypeOK'
      BY <2>1, <3>2, <3>3 DEF TypeOK, ControllerTypeOK, Phases
    <3> QED
      BY <2>1, <2>2, <3>2, <3>3, <3>4, PhaseStepOK DEF IInv
  <2> QED
    BY <2>3, <2>4, <2>5
<1>9. CASE CollectDone
  <2>1. PollsOK' /\ WindowsOK' /\ BoundariesOK' /\ JobOK' /\ previous' \in Nat
    BY <1>9, CollectDoneStep
  <2>2. TypeOK'
    BY <1>9, <2>1 DEF CollectDone, ctlVars, TypeOK, ControllerTypeOK, Phases
  <2> QED
    BY <2>1, <2>2 DEF IInv
<1>10. CASE Progress
  <2>1. ControllerTypeOK' /\ PollsOK' /\ WindowsOK' /\ BoundariesOK' /\ JobOK'
    BY <1>10, ProgressStep
  <2>2. TypeOK'
    BY <1>10, <2>1 DEF Progress, TypeOK, Phases
  <2> QED
    BY <2>1, <2>2 DEF IInv
<1>11. CASE NothingPending \/ BeforeDeadline \/ AwaitCollection \/ LeaseBusy
  <2>1. PICK d, b : phase = "schedule" /\ Reschedule(d, b) /\ b \in BOOLEAN
                    /\ d \in Nat \cup {Off}
    <3>1. current # NoIncident => current.end \in Nat
      BY DEF Incident
    <3>2. now + RetryInterval \in Nat /\ timer \in Nat \cup {Off}
      BY LoopAssumption DEF LoopAssumption, TypeOK
    <3>3. CASE NothingPending
      BY <3>2, <3>3 DEF NothingPending
    <3>4. CASE BeforeDeadline
      BY <3>1, <3>4 DEF BeforeDeadline, Pending
    <3>5. CASE AwaitCollection
      BY <3>5 DEF AwaitCollection
    <3>6. CASE LeaseBusy
      BY <3>2, <3>6 DEF LeaseBusy, Due
    <3> QED
      BY <1>11, <3>3, <3>4, <3>5, <3>6
  <2>2. PhaseStep /\ UNCHANGED <<polls, previous, job, filed, ctlVars>>
    BY <2>1 DEF Reschedule, PhaseStep
  <2>3. TypeOK'
    BY <2>1 DEF Reschedule, ctlVars, TypeOK, ControllerTypeOK, Phases
  <2> QED
    BY <2>2, <2>3, PhaseStepOK DEF IInv, ctlVars
<1>12. CASE BeginWrite
  BY <1>12, BeginWriteStep DEF IInv
<1>13. CASE Cancel
  <2>1. PhaseStep /\ UNCHANGED <<polls, previous, job, filed, ctlVars>>
    BY <1>13 DEF Cancel, PhaseStep
  <2>2. TypeOK'
    BY <1>13 DEF Cancel, ctlVars, TypeOK, ControllerTypeOK, Phases
  <2> QED
    BY <2>1, <2>2, PhaseStepOK DEF IInv, ctlVars
<1>14. CASE Close
  <2>1. PhaseStep /\ UNCHANGED <<polls, previous>> /\ job' = NoJob
    BY <1>14 DEF Close, PhaseStep
  <2>2. ControllerTypeOK' /\ PollsOK' /\ WindowsOK' /\ BoundariesOK' /\ JobOK'
    <3>1. CASE job = NoJob
      <4>1. UNCHANGED <<ctlVars, filed>>
        BY <1>14, <3>1 DEF Close
      <4>2. ControllerTypeOK'
        BY <4>1 DEF ctlVars, TypeOK, ControllerTypeOK
      <4> QED
        BY <2>1, <3>1, <4>1, <4>2, PhaseStepOK DEF ctlVars
    <3>2. CASE job # NoJob
      <4>1. PICK o \in Outcomes : /\ Finish(o.published, o.err)
                                  /\ filed' = IF o.published THEN job.incident.end ELSE filed
        BY <1>14, <3>2 DEF Close, Finished
      <4> QED
        BY <2>1, <3>2, <4>1, FinishStep DEF Outcomes
    <3> QED
      BY <3>1, <3>2
  <2>f. filed' \in Nat
    BY <2>2 DEF BoundariesOK, ControllerTypeOK
  <2>3. TypeOK'
    BY <1>14, <2>2, <2>f DEF Close, TypeOK, Phases
  <2> QED
    BY <2>2, <2>3 DEF IInv
<1>17. CASE CompletedLost
  <2>1. PhaseStep /\ UNCHANGED <<polls, previous, filed, ctlVars>> /\ job' = NoJob
    BY <1>17 DEF CompletedLost, PhaseStep
  <2>2. TypeOK'
    BY <1>17 DEF CompletedLost, ctlVars, TypeOK, ControllerTypeOK, Phases
  <2>3. BoundariesOK' /\ JobOK'
    BY <2>1 DEF ctlVars, BoundariesOK, JobOK, JobValid, TriggersInWindow, OneIntervalOverlap,
                EndsAtFirstPoll, NoIntervalBetweenFiles, SavedEndAdvances
  <2> QED
    BY <2>1, <2>2, <2>3, PhaseStepOK DEF IInv, ctlVars
<1>15. CASE UNCHANGED vars
  <2>1. PhaseStep /\ UNCHANGED <<polls, previous, job, filed, ctlVars>>
    BY <1>15 DEF vars, loopVars, PhaseStep
  <2>2. TypeOK'
    BY <1>15 DEF vars, loopVars, ctlVars, TypeOK, ControllerTypeOK
  <2> QED
    BY <2>1, <2>2, PhaseStepOK DEF IInv, ctlVars
<1>16. CASE Terminated
  BY <1>15, <1>16 DEF Terminated
<1> QED
  BY <1>3, <1>4, <1>5, <1>6, <1>7, <1>8, <1>9, <1>10, <1>11, <1>12, <1>13, <1>14, <1>15, <1>16,
     <1>17
  DEF Next

(* IInv is an invariant of automatic capture.                              *)
THEOREM Invariance == Spec => []IInv
<1>1. Init => IInv
  BY InitIInv
<1>2. IInv /\ [Next]_vars => IInv'
  BY NextIInv
<1> QED
  BY <1>1, <1>2, PTL DEF Spec

(* Type correctness of the controller and of the loop that drives it.      *)
THEOREM TypeCorrect == Spec => []TypeOK
BY Invariance, PTL DEF IInv

(* Every automatic capture carries metadata that model.AutoIncident.Valid  *)
(* accepts, for every configuration and every order of polls and writes.   *)
THEOREM MetadataValid == Spec => []JobValid
BY Invariance, PTL DEF IInv, JobOK

(* A capture's window contains the interval of every trigger it names.     *)
THEOREM EvidenceSelected == Spec => []TriggersInWindow
BY Invariance, PTL DEF IInv, JobOK

(* Successive files overlap by at most one collection interval.            *)
THEOREM OverlapBounded == Spec => []OneIntervalOverlap
BY Invariance, PTL DEF IInv, JobOK

(* A file ends at the first collection past its deadline, however long the *)
(* writer was busy.                                                        *)
THEOREM FixedEnd == Spec => []EndsAtFirstPoll
BY Invariance, PTL DEF IInv, JobOK

(* No collected interval falls between two published files.                *)
THEOREM NoGap == Spec => []NoIntervalBetweenFiles
BY Invariance, PTL DEF IInv, JobOK

(* Published files end at strictly increasing times.                       *)
THEOREM EndsIncrease == Spec => []SavedEndAdvances
BY Invariance, PTL DEF IInv, JobOK

-----------------------------------------------------------------------------
(* A delta adds its triggers to the total of the incident it joins.        *)
LEMMA WithTriggerTotal ==
    ASSUME NEW i \in Incident, NEW m \in Metric, Triggering(m)
    PROVE  TriggerTotal(WithTrigger(i, m)) = TriggerTotal(i) + TriggerCount(m)
<1>1. m.family \in TriggerFamilies /\ TriggerCount(m) \in Nat
  BY TriggeringFacts
<1>2. /\ \A f \in TriggerFamilies : f # m.family =>
            WithTrigger(i, m).triggers[f] = i.triggers[f]
      /\ WithTrigger(i, m).triggers[m.family].count
            = i.triggers[m.family].count + TriggerCount(m)
  BY <1>1, WithTriggerType
<1>3. \A f \in TriggerFamilies : i.triggers[f].count \in Nat
  BY DEF Incident, AutoTrigger
<1> HIDE DEF WithTrigger, TriggerCount
<1> QED
  BY <1>1, <1>2, <1>3 DEF TriggerTotal, TriggerFamilies, LatencyFamilies, VictimFamilies

(* A total is a number, and a new window has none.                         *)
LEMMA TotalFacts ==
    /\ \A i \in Incident : TriggerTotal(i) \in Nat
    /\ \A t \in Nat : TriggerTotal(newIncident(t)) = 0
<1>1. \A i \in Incident : TriggerTotal(i) \in Nat
  BY DEF TriggerTotal, Incident, AutoTrigger, TriggerFamilies, LatencyFamilies, VictimFamilies
<1>2. \A t \in Nat : TriggerTotal(newIncident(t)) = 0
  BY DEF TriggerTotal, newIncident, TriggerFamilies, LatencyFamilies, VictimFamilies
<1> QED
  BY <1>1, <1>2

(* Whichever window an observation opens, joins or extends, its triggers   *)
(* are counted in that window and, but for the one that opened it, as      *)
(* coalesced.                                                              *)
LEMMA ObserveAccounted ==
    ASSUME IInv, TriggersAccounted, NEW m \in Metric, m.end = now,
           Observe(m, now), UNCHANGED <<begun, recorded>>
    PROVE  TriggersAccounted'
<1>1. /\ current \in Incident \cup {NoIncident} /\ next \in Incident \cup {NoIncident}
      /\ detected \in Nat /\ coalesced \in Nat /\ begun \in Nat /\ recorded \in Nat
      /\ now \in Nat /\ NoIncident \notin Incident
  BY NoIncidentAssumption DEF IInv, TypeOK, ControllerTypeOK
<1>2. next # NoIncident => current # NoIncident
  BY DEF IInv, WindowsOK
<1>3. CASE ObserveIgnored(m)
  BY <1>3 DEF ObserveIgnored, TriggersAccounted, CoalescedAccounting, TriggersConserved
<1>4. ASSUME Triggering(m)
      PROVE  TriggerCount(m) \in Nat \ {0} /\ m.family \in TriggerFamilies
  BY <1>4, TriggeringFacts
<1>new. ASSUME Triggering(m)
      PROVE  /\ WithTrigger(newIncident(now), m) \in Incident
             /\ TriggerTotal(WithTrigger(newIncident(now), m)) = TriggerCount(m)
  <2>1. newIncident(now) \in Incident
    BY <1>1, NewIncidentType
  <2>2. WithTrigger(newIncident(now), m) \in Incident
    BY <1>new, <1>1, <1>4, <2>1, WithTriggerType
  <2>3. TriggerTotal(WithTrigger(newIncident(now), m))
          = TriggerTotal(newIncident(now)) + TriggerCount(m)
    BY <1>new, <2>1, WithTriggerTotal
  <2>4. TriggerTotal(newIncident(now)) = 0
    BY <1>1, TotalFacts
  <2>5. TriggerCount(m) \in Nat
    BY <1>new, <1>4
  <2> QED
    BY <2>2, <2>3, <2>4, <2>5
<1>5. CASE ObserveOpen(m, now)
  <2> DEFINE w == WithTrigger(newIncident(now), m)
  <2>1. Triggering(m) /\ current' = w /\ current = NoIncident /\ next = NoIncident
    BY <1>2, <1>5 DEF ObserveOpen
  <2>2. w \in Incident /\ TriggerTotal(w) = TriggerCount(m)
    BY <2>1, <1>1, <1>new
  <2> HIDE DEF w
  <2> QED
    BY <2>1, <2>2, <1>1, <1>4, <1>5
    DEF ObserveOpen, TriggersAccounted, CoalescedAccounting, TriggersConserved
<1>6. CASE ObserveJoin(m, now)
  <2> DEFINE w == WithTrigger(current, m)
  <2>1. Triggering(m) /\ current' = w /\ current \in Incident
    BY <1>1, <1>6 DEF ObserveJoin
  <2>2. w \in Incident /\ TriggerTotal(w) = TriggerTotal(current) + TriggerCount(m)
    BY <2>1, <1>4, WithTriggerType, WithTriggerTotal
  <2>3. TriggerTotal(current) \in Nat /\ (next # NoIncident => TriggerTotal(next) \in Nat)
    BY <2>1, <1>1, TotalFacts
  <2> HIDE DEF w
  <2> QED
    BY <2>1, <2>2, <2>3, <1>1, <1>4, <1>6
    DEF ObserveJoin, TriggersAccounted, CoalescedAccounting, TriggersConserved
<1>7. CASE ObserveWait(m, now)
  <2> DEFINE w == WithTrigger(newIncident(now), m)
  <2>1. Triggering(m) /\ next' = w /\ current \in Incident /\ next = NoIncident
    BY <1>1, <1>7 DEF ObserveWait
  <2>2. w \in Incident /\ TriggerTotal(w) = TriggerCount(m)
    BY <2>1, <1>1, <1>new
  <2>3. TriggerTotal(current) \in Nat
    BY <2>1, TotalFacts
  <2> HIDE DEF w
  <2> QED
    BY <2>1, <2>2, <2>3, <1>1, <1>4, <1>7
    DEF ObserveWait, TriggersAccounted, CoalescedAccounting, TriggersConserved
<1>8. CASE ObserveMerge(m, now)
  <2> DEFINE x == Extended(next, now)
             w == WithTrigger(x, m)
  <2>1. Triggering(m) /\ next' = w /\ current \in Incident /\ next \in Incident
    BY <1>1, <1>8 DEF ObserveMerge
  <2>2. next.detected <= now
    BY <2>1, <1>1 DEF IInv, TypeOK, Incident, Interval, WindowsOK, IncidentOK, WindowOK, PollsOK
  <2>3. x \in Incident /\ x.triggers = next.triggers
    BY <2>1, <2>2, <1>1, ExtendedType
  <2>4. TriggerTotal(x) = TriggerTotal(next)
    BY <2>3 DEF TriggerTotal
  <2> HIDE DEF x
  <2>5. w \in Incident /\ TriggerTotal(w) = TriggerTotal(next) + TriggerCount(m)
    BY <2>1, <2>3, <2>4, <1>4, WithTriggerType, WithTriggerTotal
  <2>6. TriggerTotal(current) \in Nat /\ TriggerTotal(next) \in Nat
    BY <2>1, TotalFacts
  <2> HIDE DEF w
  <2> QED
    BY <2>1, <2>5, <2>6, <1>1, <1>4, <1>8
    DEF ObserveMerge, TriggersAccounted, CoalescedAccounting, TriggersConserved
<1> QED
  BY <1>3, <1>5, <1>6, <1>7, <1>8 DEF Observe

(* Every step keeps the account: only observations detect triggers, and    *)
(* only Begin moves a window from the pending ones to the files.           *)
LEMMA NextAccounted == IInv /\ TriggersAccounted /\ [Next]_vars => TriggersAccounted'
<1> SUFFICES ASSUME IInv, TriggersAccounted, [Next]_vars PROVE TriggersAccounted'
  OBVIOUS
<1>1. ASSUME UNCHANGED <<current, next, detected, coalesced, begun, recorded>>
      PROVE  TriggersAccounted'
  BY <1>1 DEF TriggersAccounted, CoalescedAccounting, TriggersConserved, TriggerTotal
<1>2. CASE \/ Tick \/ AutoTick \/ SnapshotQuery \/ StatusQuery \/ DetailOrRejected
           \/ CompletedLost \/ CollectDone \/ Cancel \/ Terminated \/ UNCHANGED vars
  BY <1>1, <1>2
  DEF Tick, AutoTick, SnapshotQuery, StatusQuery, DetailOrRejected, CompletedLost, CollectDone,
      Cancel, Terminated, StartCollect, SkipCollect, vars, ctlVars
<1>3. CASE Completed \/ Close
  BY <1>1, <1>3 DEF Completed, Close, Finished, Finish, ctlVars
<1>4. CASE Progress
  BY <1>1, <1>4 DEF Progress, CollectedThrough
<1>5. CASE NothingPending \/ BeforeDeadline \/ AwaitCollection \/ LeaseBusy
  BY <1>1, <1>5 DEF NothingPending, BeforeDeadline, AwaitCollection, LeaseBusy, Reschedule, ctlVars
<1>6. ASSUME NEW s \in Sensors, CollectSensor(s) PROVE TriggersAccounted'
  <2>1. PICK readable \in BOOLEAN, count \in 0..MaxCount, critical \in 0..MaxCount :
           IF readable
           THEN Observe([family |-> s, start |-> previous, end |-> now,
                         count |-> count, critical |-> critical], now)
           ELSE UNCHANGED <<current, next, currentReady, nextReady, writing, writingEnd,
                            lastSavedEnd, detected, coalesced, saved, failures>>
    BY <1>6 DEF CollectSensor
  <2>2. UNCHANGED <<begun, recorded>>
    BY <1>6 DEF CollectSensor
  <2> DEFINE m == [family |-> s, start |-> previous, end |-> now,
                   count |-> count, critical |-> critical]
  <2>3. m \in Metric /\ m.end = now
    BY LoopAssumption DEF LoopAssumption, Metric, IInv, TypeOK
  <2>4. CASE readable
    <3>1. Observe(m, now)
      BY <2>1, <2>4
    <3> HIDE DEF m
    <3> QED
      BY <2>2, <2>3, <3>1, ObserveAccounted
  <2>5. CASE ~readable
    BY <2>1, <2>2, <2>5, <1>1
  <2> QED
    BY <2>4, <2>5
<1>7. CASE BeginWrite
  <2>1. /\ current \in Incident /\ next \in Incident \cup {NoIncident}
        /\ begun \in Nat /\ recorded \in Nat
    BY <1>7 DEF BeginWrite, Due, Pending, IInv, TypeOK, ControllerTypeOK
  <2>2. TriggerTotal(current) \in Nat /\ (next # NoIncident => TriggerTotal(next) \in Nat)
    BY <2>1, TotalFacts
  <2>3. /\ current' = next /\ next' = NoIncident /\ UNCHANGED <<detected, coalesced>>
        /\ begun' = begun + 1 /\ recorded' = recorded + TriggerTotal(current)
        /\ current # NoIncident
    BY <1>7 DEF BeginWrite, Begin, Due, Pending
  <2>4. detected \in Nat /\ coalesced \in Nat
    BY DEF IInv, TypeOK, ControllerTypeOK
  <2>5. CoalescedAccounting'
    BY <2>1, <2>3, <2>4 DEF TriggersAccounted, CoalescedAccounting
  <2>6. TriggersConserved'
    <3>1. CASE next = NoIncident
      BY <2>1, <2>2, <2>3, <2>4, <3>1 DEF TriggersAccounted, TriggersConserved
    <3>2. CASE next # NoIncident
      <4>1. TriggerTotal(current)' = TriggerTotal(next)
        BY <2>3 DEF TriggerTotal
      <4> QED
        BY <2>1, <2>2, <2>3, <2>4, <3>2, <4>1 DEF TriggersAccounted, TriggersConserved
    <3> QED
      BY <3>1, <3>2
  <2> QED
    BY <2>5, <2>6 DEF TriggersAccounted
<1> QED
  BY <1>2, <1>3, <1>4, <1>5, <1>6, <1>7 DEF Next

(* "No trigger is suppressed": for every configuration each detected       *)
(* trigger is in exactly one file or pending window, and Health counts     *)
(* exactly those that did not open one.                                    *)
THEOREM NoTriggerLost == Spec => []TriggersAccounted
<1>1. Init => TriggersAccounted
  BY DEF Init, ControllerInit, TriggersAccounted, CoalescedAccounting, TriggersConserved
<1> QED
  BY <1>1, NextAccounted, Invariance, PTL DEF Spec

-----------------------------------------------------------------------------
(* A window whose end has been collected remembers its first complete poll *)
(* when progress schedules it.                                             *)
LEMMA DueIsReady == IInv /\ Due => currentReady # 0
<1> SUFFICES ASSUME IInv, Due, currentReady = 0 PROVE FALSE
  OBVIOUS
<1>1. /\ phase = "schedule" /\ current \in Incident /\ previous >= current.end
      /\ polls \subseteq Interval /\ previous \in Nat
  BY DEF Due, Pending, IInv, TypeOK, ControllerTypeOK
<1>2. IncidentOK(current) /\ ReadyOK(current, currentReady)
  BY <1>1, NoIncidentAssumption DEF IInv, WindowsOK, Due, Pending
<1>3. \A p \in polls : p.end < current.end
  BY <1>1, <1>2 DEF ReadyOK
<1>4. \E p \in polls : p.end = previous
  BY <1>1, <1>2 DEF IInv, PollsOK, IncidentOK, WindowOK
<1> QED
  BY <1>1, <1>3, <1>4 DEF Incident, Interval

(* Every way back to the select arms the timer for what is pending, and    *)
(* only a window waiting for the lease is retried without a collection.    *)
LEMMA NextWakeups == IInv /\ WakeupsSound /\ [Next]_vars => WakeupsSound'
<1> SUFFICES ASSUME IInv, WakeupsSound, [Next]_vars PROVE WakeupsSound'
  OBVIOUS
<1>1. /\ now \in Nat /\ RetryInterval \in Nat /\ timer \in Nat \cup {Off} /\ Off \notin Nat
      /\ current \in Incident \cup {NoIncident}
      /\ current # NoIncident => current.end \in Nat
  BY LoopAssumption, OffAssumption DEF LoopAssumption, IInv, TypeOK, ControllerTypeOK, Incident
<1>2. ASSUME phase' # "select" PROVE WakeupsSound'
  BY <1>2 DEF WakeupsSound, WakeupArmed, RetryOnlyWhenCollected
<1>3. CASE \/ Tick \/ AutoTick \/ SnapshotQuery \/ StatusQuery \/ Completed \/ CompletedLost
           \/ CollectDone \/ Progress \/ Cancel \/ Close \/ Terminated
  BY <1>2, <1>3
  DEF Tick, AutoTick, SnapshotQuery, StatusQuery, Completed, CompletedLost, CollectDone,
      Progress, Cancel, Close, Terminated, StartCollect, SkipCollect, vars, loopVars
<1>4. CASE \E s \in Sensors : CollectSensor(s)
  BY <1>2, <1>4 DEF CollectSensor
<1>5. CASE DetailOrRejected
  <2>1. now' \in Nat /\ now' >= now
    BY <1>1, <1>5, LoopAssumption DEF DetailOrRejected, ReadClock, Time, LoopAssumption
  <2>2. UNCHANGED <<ctlVars, phase, previous, timer, retrying>> /\ phase = "select"
    BY <1>5 DEF DetailOrRejected
  <2>3. RetryOnlyWhenCollected'
    BY <2>2 DEF ctlVars, WakeupsSound, RetryOnlyWhenCollected, Pending
  <2>4. ASSUME Pending'
        PROVE  timer' # Off /\ (timer' <= current'.end \/ timer' <= now' + RetryInterval)
    <3>1. Pending /\ current' = current /\ timer' = timer
      BY <2>2, <2>4 DEF ctlVars, Pending
    <3>2. timer # Off /\ (timer <= current.end \/ timer <= now + RetryInterval)
      BY <2>2, <3>1 DEF WakeupsSound, WakeupArmed
    <3>3. timer \in Nat /\ now \in Nat /\ RetryInterval \in Nat
      BY <3>2, <1>1
    <3>4. timer <= now + RetryInterval => timer <= now' + RetryInterval
      <4>1. \A t, n, m, r \in Nat : t <= n + r /\ m >= n => t <= m + r
        OBVIOUS
      <4> QED
        BY <2>1, <3>3, <4>1
    <3> QED
      BY <3>1, <3>2, <3>4
  <2> QED
    BY <2>3, <2>4 DEF WakeupsSound, WakeupArmed
<1>6. CASE UNCHANGED vars
  BY <1>6 DEF vars, loopVars, ctlVars, WakeupsSound, WakeupArmed, RetryOnlyWhenCollected, Pending
<1>7. CASE NothingPending
  BY <1>7 DEF NothingPending, Reschedule, ctlVars, WakeupsSound, WakeupArmed,
              RetryOnlyWhenCollected, Pending
<1>8. CASE BeforeDeadline
  <2>1. /\ UNCHANGED <<ctlVars, now, previous>> /\ timer' = current.end /\ retrying' = FALSE
        /\ current # NoIncident
    BY <1>8 DEF BeforeDeadline, Reschedule, Pending
  <2> QED
    BY <2>1, <1>1 DEF ctlVars, WakeupsSound, WakeupArmed, RetryOnlyWhenCollected, Pending
<1>9. CASE AwaitCollection
  <2>1. UNCHANGED <<ctlVars, now, previous>> /\ timer' = now /\ retrying' = FALSE
    BY <1>9 DEF AwaitCollection, Reschedule
  <2> QED
    BY <2>1, <1>1 DEF ctlVars, WakeupsSound, WakeupArmed, RetryOnlyWhenCollected, Pending
<1>10. CASE LeaseBusy
  <2>1. /\ UNCHANGED <<ctlVars, now, previous>> /\ timer' = now + RetryInterval
        /\ Pending /\ previous >= current.end /\ currentReady # 0
    BY <1>10, DueIsReady DEF LeaseBusy, Due, Reschedule
  <2> QED
    BY <2>1, <1>1 DEF ctlVars, WakeupsSound, WakeupArmed, RetryOnlyWhenCollected, Pending
<1>11. CASE BeginWrite
  BY <1>11 DEF BeginWrite, Begin, WakeupsSound, WakeupArmed, RetryOnlyWhenCollected, Pending
<1> QED
  BY <1>3, <1>4, <1>5, <1>6, <1>7, <1>8, <1>9, <1>10, <1>11 DEF Next

(* The loop never sleeps with a pending window and no timer, and a retry   *)
(* that skips collection is armed only for a window collected in full.     *)
THEOREM WakeupNeverLost == Spec => []WakeupsSound
<1>1. Init => WakeupsSound
  BY DEF Init, ControllerInit, WakeupsSound, WakeupArmed, RetryOnlyWhenCollected, Pending
<1> QED
  BY <1>1, NextWakeups, Invariance, PTL DEF Spec
=============================================================================
