------------------------------ MODULE Recorder ------------------------------
(***************************************************************************)
(* The bounded history of internal/recorder/recorder.go: an active segment,*)
(* sealed segments, and the aggregate-only roll-ups into which the oldest  *)
(* segments are folded under budget pressure.  The recorder is owned by the*)
(* loop; every method maps the record rec to its next value, and an action *)
(* is what the loop does in one iteration.                                 *)
(*                                                                         *)
(* An event is its timestamp.  The counters of a Metric are all summed the *)
(* same way, so one count stands for them.  A slice keeps its capacity,    *)
(* which is what the byte account charges.                                 *)
(***************************************************************************)
EXTENDS Integers, Sequences, FiniteSets, SequencesExt

CONSTANTS
    NumFamilies,      \* sensors, in the order the loop polls them
    History, MaxBytes, SegmentInterval, RollupInterval,
    SegmentCost, EventSize, MetricSize,  \* segmentCost and the struct sizes
    EventText, FamilyText,               \* stringCost and len(Family)
    EventCapacity, MetricCapacity,       \* first capacity of a slice
    MaxTime,          \* bound: latest clock reading
    Delays,           \* bound: delays of a delivered event
    MaxDrops,         \* bound: no event is delivered after that many drops
    NoRollup          \* the nil rollupActive

Families == 1..NumFamilies

Aggregates == [family : Families, start : Nat, end : Nat, count : Nat]

Segments ==
    [start : Nat, end : Nat, min : Nat, max : Nat, bytes : Int,
     events : Seq(Nat), ecap : Nat, metrics : Seq(Aggregates), mcap : Nat]

Recorders ==
    [bytes : Int, rollups : Seq(Segments), rollupActive : Segments \cup {NoRollup},
     rollupBucket : Int, sealed : Seq(Segments), active : Segments,
     drops : Nat, evictions : Nat, aggregateEvictions : Nat]

(* What the configuration and the constants of the code guarantee: the     *)
(* first slice of metrics has room for one of every sensor.                *)
RecorderAssumption ==
    /\ NumFamilies \in Nat /\ History \in Nat /\ MaxTime \in Nat \ {0} /\ MaxDrops \in Nat
    /\ SegmentInterval \in Nat \ {0} /\ RollupInterval \in Nat \ {0}
    /\ EventCapacity \in Nat \ {0} /\ MetricCapacity \in Nat \ {0}
    /\ EventSize \in Nat /\ MetricSize \in Nat /\ EventText \in Nat /\ FamilyText \in Nat
    /\ SegmentCost \in Nat /\ MaxBytes \in Nat /\ SegmentCost <= MaxBytes
    /\ Delays \subseteq Nat
    /\ NumFamilies <= MetricCapacity
    /\ NoRollup \notin Segments

VARIABLES
    rec,       \* the Recorder
    now,       \* the loop's clock
    previous,  \* end of the last collection
    alive,     \* sensors that have not failed
    accepted   \* history: the aggregate deltas Metric has accepted

vars == <<rec, now, previous, alive, accepted>>

-----------------------------------------------------------------------------
(* n rounds of a loop that starts from x.                                  *)
Iterate(x, n, Round(_, _)) ==
    LET f[k \in 0..n] == IF k = 0 THEN x ELSE Round(f[k - 1], k) IN f[n]

(* While Continue holds, at most n times.                                  *)
Repeat(r, n, Continue(_), Body(_)) ==
    Iterate(r, n, LAMBDA s, k : IF Continue(s) THEN Body(s) ELSE s)

Retained(t) ==
    [start |-> t, end |-> t, min |-> t, max |-> t, bytes |-> SegmentCost,
     events |-> <<>>, ecap |-> 0, metrics |-> <<>>, mcap |-> 0]

Observed(s, start, end) ==
    [s EXCEPT !.min = IF start < @ THEN start ELSE @, !.max = IF end > @ THEN end ELSE @]

Open(r, t) == [r EXCEPT !.active = Retained(t), !.bytes = @ + SegmentCost]

dropRaw(r, memory) ==
    [r EXCEPT !.bytes = @ - Head(r.sealed).bytes, !.sealed = Tail(@),
              !.evictions = IF memory THEN @ + 1 ELSE @]

hasRollup(r) == r.rollups # <<>> \/ r.rollupActive # NoRollup

dropRollup(r, memory) ==
    LET s == [r EXCEPT !.aggregateEvictions = IF memory THEN @ + 1 ELSE @]
    IN  IF r.rollups # <<>>
        THEN [s EXCEPT !.bytes = @ - Head(r.rollups).bytes, !.rollups = Tail(@)]
        ELSE [s EXCEPT !.bytes = @ - r.rollupActive.bytes, !.rollupActive = NoRollup]

(* The capacity of a slice that has to take one more element.              *)
Grown(len, cap, first) == IF len < cap THEN cap ELSE IF cap = 0 THEN first ELSE 2 * cap

WithMetric(s, m) ==
    [s EXCEPT !.metrics = Append(@, m), !.mcap = Grown(Len(s.metrics), s.mcap, MetricCapacity)]

MetricGrowth(s) == (Grown(Len(s.metrics), s.mcap, MetricCapacity) - s.mcap) * MetricSize

(* The metrics of roll-up s that m continues.                              *)
Continued(s, m) ==
    {i \in DOMAIN s.metrics : s.metrics[i].family = m.family /\ s.metrics[i].end = m.start}

Spanning(s, m) ==
    [Observed(s, m.start, m.end) EXCEPT !.start = IF m.start < @ THEN m.start ELSE @,
                                        !.end = IF m.end > @ THEN m.end ELSE @]

(* Metric n, continued by m.                                               *)
Lengthening(n, m) == [n EXCEPT !.end = m.end, !.count = @ + m.count]

(* m extends the first metric it continues, or is appended.                *)
addRollupMetric(r, m) ==
    LET a == r.rollupActive
    IN  IF Continued(a, m) # {}
        THEN [r EXCEPT !.rollupActive =
                 [Spanning(a, m) EXCEPT !.metrics[Min(Continued(a, m))] = Lengthening(@, m)]]
        ELSE [r EXCEPT !.bytes = @ + MetricGrowth(a),
                       !.rollupActive = [WithMetric(Spanning(a, m), m) EXCEPT
                                            !.bytes = @ + MetricGrowth(a)]]

(* Mutant: a new bucket overwrites the active roll-up.                     *)
RollupOverwritten(r, bucket) ==
    IF bucket # r.rollupBucket THEN [r EXCEPT !.rollupActive = NoRollup] ELSE r

(* Close the active roll-up when the bucket changes.                       *)
RollupSealed(r, bucket) ==
    IF r.rollupActive # NoRollup /\ bucket # r.rollupBucket
    THEN [r EXCEPT !.rollups = Append(@, r.rollupActive), !.rollupActive = NoRollup]
    ELSE r

RollupOpened(r, bucket, first) ==
    IF r.rollupActive # NoRollup THEN r
    ELSE [r EXCEPT !.rollupBucket = bucket, !.bytes = @ + SegmentCost,
                   !.rollupActive = [Retained(first.start) EXCEPT !.end = first.end,
                                                                 !.max = first.end]]

AllAdded(r, metrics) ==
    Iterate(r, Len(metrics), LAMBDA s, k : addRollupMetric(s, metrics[k]))

Folded(r, old, bucket) ==
    IF old.metrics = <<>> THEN r
    ELSE AllAdded(RollupOpened(RollupSealed(r, bucket), bucket, Head(old.metrics)), old.metrics)

compactOldest(r) ==
    Folded(dropRaw(r, TRUE), Head(r.sealed), Head(r.sealed).start \div RollupInterval)

(* Fold raw segments while cost does not fit.                              *)
Compacted(r, cost) ==
    Repeat(r, Len(r.sealed), LAMBDA s : s.bytes + cost > MaxBytes /\ s.sealed # <<>>,
           compactOldest)

(* Drop roll-ups while cost does not fit.                                  *)
Relieved(r, cost) ==
    Repeat(r, Len(r.rollups) + 1, LAMBDA s : s.bytes + cost > MaxBytes /\ hasRollup(s),
           LAMBDA s : dropRollup(s, TRUE))

(* Mutant: roll-ups go before raw detail.                                  *)
roomRollupsFirst(r, cost, metric) ==
    IF metric THEN Compacted(Relieved(r, cost), cost) ELSE Compacted(r, cost)

(* Only a metric, or the recorder's own needs, displace roll-ups.          *)
room(r, cost, metric) ==
    IF metric THEN Relieved(Compacted(r, cost), cost) ELSE Compacted(r, cost)

Expired(s, t) == t >= s.end /\ t - s.end >= History

Sealed(r, t) ==
    IF t - r.active.start >= SegmentInterval
    THEN Open([r EXCEPT !.sealed =
                  Append(@, [r.active EXCEPT !.end = r.active.start + SegmentInterval])], t)
    ELSE r

AgedRaw(r, t) ==
    Repeat(r, Len(r.sealed), LAMBDA s : s.sealed # <<>> /\ Expired(Head(s.sealed), t),
           LAMBDA s : dropRaw(s, FALSE))

AgedRollups(r, t) ==
    Repeat(r, Len(r.rollups), LAMBDA s : s.rollups # <<>> /\ Expired(Head(s.rollups), t),
           LAMBDA s : dropRollup(s, FALSE))

AgedActive(r, t) ==
    IF r.rollupActive # NoRollup /\ Expired(r.rollupActive, t) THEN dropRollup(r, FALSE) ELSE r

Aged(r, t) == AgedActive(AgedRollups(AgedRaw(r, t), t), t)

(* The last two loops of the code are those of room.                       *)
Advance(r, t) ==
    IF t < r.active.start THEN r
    ELSE room(Aged([Sealed(r, t) EXCEPT !.active.end = t], t), 0, TRUE)

Dropped(r) == [r EXCEPT !.drops = @ + 1]

(* After room has been made: s, the active segment with the observation,   *)
(* replaces the active segment if its cost fits.                           *)
Admitted(r, cost, s) ==
    IF r.bytes + cost > MaxBytes THEN Dropped(r)
    ELSE [r EXCEPT !.bytes = @ + cost, !.active = [s EXCEPT !.bytes = @ + cost]]

EventCost(s) == EventText + (Grown(Len(s.events), s.ecap, EventCapacity) - s.ecap) * EventSize

WithEvent(s, e) ==
    [Observed(s, e, e) EXCEPT !.events = Append(@, e),
                              !.ecap = Grown(Len(s.events), s.ecap, EventCapacity)]

EventAfterAdvance(r, e, t) ==
    IF e > t \/ t - e > History THEN Dropped(r)
    ELSE Admitted(room(r, EventCost(r.active), FALSE), EventCost(r.active), WithEvent(r.active, e))

Event(r, e, t) == EventAfterAdvance(Advance(r, t), e, t)

MetricCost(s) == FamilyText + MetricGrowth(s)

MetricAfterAdvance(r, m) ==
    Admitted(room(r, MetricCost(r.active), TRUE), MetricCost(r.active),
             Observed(WithMetric(r.active, m), m.start, m.end))

Metric(r, m, t) == MetricAfterAdvance(Advance(r, t), m)

-----------------------------------------------------------------------------
(* Health().RetainedFromNS.                                                *)
RetainedFrom(r) ==
    LET detailed == IF r.sealed # <<>> THEN Head(r.sealed).start ELSE r.active.start
        oldest == IF r.rollups # <<>> THEN {Head(r.rollups).min}
                  ELSE IF r.rollupActive # NoRollup THEN {r.rollupActive.min} ELSE {}
    IN  Min({detailed} \cup oldest)

Rollups(r) == IF r.rollupActive = NoRollup THEN r.rollups ELSE Append(r.rollups, r.rollupActive)

(* Mutant: a crossing roll-up that ends after the window widens it too.    *)
WidenedPastEnd(r, boundary, end) ==
    Min({boundary} \cup {m.start : m \in {n \in UNION {ToSet(s.metrics) : s \in ToSet(Rollups(r))} :
                                             n.start < boundary /\ n.end > boundary}})

(* A roll-up metric that crosses the boundary is included whole.           *)
Widened(r, boundary, end) ==
    LET looked == {s \in ToSet(r.rollups) : s.max > boundary /\ s.min < boundary}
                  \cup ({r.rollupActive} \ {NoRollup})
        crossing == {m \in UNION {ToSet(s.metrics) : s \in looked} :
                        m.start < boundary /\ m.end > boundary /\ m.end <= end}
    IN  Min({boundary} \cup {m.start : m \in crossing})

SelectedStart(r, start, end) ==
    Widened(r, IF start < RetainedFrom(r) THEN Min({RetainedFrom(r), end}) ELSE start, end)

(* The elements of s that are in S, in their order.                        *)
Among(s, S) == FlattenSeq([i \in DOMAIN s |-> IF s[i] \in S THEN <<s[i]>> ELSE <<>>])

(* The metrics of s that lie in the window.                                *)
Inner(s, from, end) == {m \in ToSet(s.metrics) : from <= m.start /\ m.end <= end}

(* What one retained segment contributes, as a sequence of at most one.    *)
Selected(s, from, eventStart, end) ==
    LET contained == s.min >= from /\ s.max <= end
        eventsContained == s.events = <<>> \/ s.min >= eventStart
        outside == s.max < from \/ s.min > end
    IN  IF outside THEN <<>>
        ELSE IF contained /\ eventsContained
        THEN <<[events |-> s.events, metrics |-> s.metrics]>>
        ELSE <<[events |-> Among(s.events, eventStart..end),
                metrics |-> Among(s.metrics, Inner(s, from, end))]>>

Metrics(segments) == UNION {ToSet(s.metrics) : s \in ToSet(segments)}
Events(segments) == FlattenSeq([i \in DOMAIN segments |-> segments[i].events])

Picked(segments, from, eventStart, end) ==
    FlattenSeq([i \in DOMAIN segments |-> Selected(segments[i], from, eventStart, end)])

Capture(requested, from, end, old, raw) ==
    [start |-> from, end |-> end, requested |-> requested,
     aggregateOnlyUntil |-> Max({0} \cup {m.end : m \in Metrics(old)}),
     segments |-> old \o raw]

CaptureFrom(r, requested, from, end) ==
    Capture(requested, from, end,
            Picked(Rollups(r), from, Max({requested, from}), end),
            Picked(Append(Among(r.sealed, {s \in ToSet(r.sealed) : s.end >= from}), r.active),
                   from, Max({requested, from}), end))

SnapshotWindow(r, start, end) == CaptureFrom(r, start, SelectedStart(r, start, end), end)

-----------------------------------------------------------------------------
Init ==
    /\ now = 1 /\ previous = 1
    /\ rec = [bytes |-> SegmentCost, rollups |-> <<>>, rollupActive |-> NoRollup,
              rollupBucket |-> 0, sealed |-> <<>>, active |-> Retained(1),
              drops |-> 0, evictions |-> 0, aggregateEvictions |-> 0]
    /\ alive = Families
    /\ accepted = {}

ReadClock == now' \in now..MaxTime

(* A query before it drains and collects, which are Detail and Poll with   *)
(* the clock standing still; or a query that does neither.                 *)
Query ==
    /\ ReadClock
    /\ rec' = Advance(rec, now')
    /\ UNCHANGED <<previous, alive, accepted>>

(* A detail event, delivered some time after it happened: the sensors run  *)
(* before the recorder starts, so it can even precede the recording.       *)
Detail ==
    /\ ReadClock /\ rec.drops < MaxDrops
    /\ \E d \in Delays : d <= now' /\ rec' = Event(rec, now' - d, now')
    /\ UNCHANGED <<previous, alive, accepted>>

Delta(f, t) == [family |-> f, start |-> previous, end |-> t, count |-> 1]

(* One sensor's turn; next is the recorder after its Metric call.          *)
Taken(q, m, next) ==
    [rec |-> next, taken |-> q.taken \cup {d \in {m} : next.drops = q.rec.drops}]

(* Collect over the readable sensors, in order.                            *)
Collected(readable, t) ==
    Iterate([rec |-> Advance(rec, t), taken |-> {}], NumFamilies,
            LAMBDA q, f : IF f \in readable
                          THEN Taken(q, Delta(f, t), Metric(q.rec, Delta(f, t), t)) ELSE q)

Took(c) == rec' = c.rec /\ accepted' = accepted \cup c.taken

(* The poll: sensors that fail deliver at most once more, and the loop ends*)
(* when none is left.  Nanoseconds pass between two collections.           *)
Poll ==
    /\ ReadClock /\ now' > previous
    /\ \E readable \in SUBSET alive :
        /\ alive' \in SUBSET readable \ {{}}
        /\ Took(Collected(readable, now'))
    /\ previous' = now'

Next == Query \/ Detail \/ Poll

Spec == Init /\ [][Next]_vars

-----------------------------------------------------------------------------
Everything(r) == Rollups(r) \o Append(r.sealed, r.active)

TypeOK ==
    /\ now \in 1..MaxTime /\ previous \in 1..now
    /\ alive \subseteq Families
    /\ accepted \subseteq [family : Families, start : 1..MaxTime, end : 1..MaxTime, count : {1}]
    /\ rec \in Recorders /\ rec.bytes >= 0
    /\ \A s \in ToSet(Everything(rec)) : s.min <= s.max /\ s.start <= s.end

(* The byte account equals what the retained slices hold, element by       *)
(* element, through growth, sealing, folding and dropping.                 *)
Held(s, text) ==
    SegmentCost + s.ecap * EventSize + Len(s.events) * EventText
                + s.mcap * MetricSize + Len(s.metrics) * text

Total(segments) == Iterate(0, Len(segments), LAMBDA n, k : n + segments[k].bytes)

AccountExact ==
    /\ rec.bytes = Total(Everything(rec))
    /\ \A s \in ToSet(Rollups(rec)) : s.bytes = Held(s, 0)
    /\ \A s \in ToSet(Append(rec.sealed, rec.active)) : s.bytes = Held(s, FamilyText)

(* "The fixed recorder budget": no operation leaves more than the budget.  *)
BudgetHeld == rec.bytes <= MaxBytes

(* "Their complete aggregate intervals remain available": unless a roll-up *)
(* was evicted, every accepted delta younger than the history is part of   *)
(* exactly one retained metric, and no metric counts anything else.        *)
Covers(m, a) == m.family = a.family /\ m.start <= a.start /\ a.end <= m.end

Ledger(segments) == FlattenSeq([i \in DOMAIN segments |-> segments[i].metrics])

CountsConserved ==
    LET all == Ledger(Everything(rec))
    IN  /\ \A i \in DOMAIN all :
               all[i].count = Cardinality({a \in accepted : Covers(all[i], a)})
        /\ rec.aggregateEvictions = 0 =>
               \A a \in accepted : now - a.end < History =>
                   Cardinality({i \in DOMAIN all : Covers(all[i], a)}) = 1

Windows == {w \in [start : 0..now, end : 1..now] : w.start <= w.end}

(* What capture.Read requires of the window and its contents.              *)
Readable(c) ==
    /\ c.start <= c.end /\ c.requested <= c.end /\ 1 <= c.start
    /\ c.requested > c.start => c.aggregateOnlyUntil > c.requested
    /\ c.aggregateOnlyUntil # 0 => c.start <= c.aggregateOnlyUntil /\ c.aggregateOnlyUntil <= c.end
    /\ \A e \in ToSet(Events(c.segments)) : c.start <= e /\ e <= c.end
    /\ \A m \in Metrics(c.segments) : m.start <= m.end /\ c.start <= m.start /\ m.end <= c.end

(* Timestamp bounds and segment search only save work: a snapshot has every*)
(* retained aggregate inside its window and every retained event that was  *)
(* asked for, once.                                                        *)
Exact(c, metrics, events) ==
    LET asked == Max({c.start, c.requested})..c.end
    IN  /\ Metrics(c.segments) = {m \in metrics : c.start <= m.start /\ m.end <= c.end}
        /\ Events(c.segments) = Among(events, asked)

(* "The oldest details go first; their complete aggregate intervals remain *)
(* available" (compactOldest): unless a roll-up was evicted, a retained    *)
(* aggregate that lies in the requested window and in the configured       *)
(* history is in the snapshot.                                             *)
AggregatesSelectable ==
    rec.aggregateEvictions = 0 =>
        \A w \in Windows : \A m \in Metrics(Everything(rec)) :
            w.start <= m.start /\ m.end <= w.end /\ now - m.start < History =>
                m \in Metrics(SnapshotWindow(rec, w.start, w.end).segments)

(* "A new metric may replace the oldest summary only when no raw history   *)
(* remains to fold": roll-ups are evicted only once every sealed segment   *)
(* has been folded.                                                        *)
RollupsLast ==
    [][rec'.aggregateEvictions > rec.aggregateEvictions => rec'.sealed = <<>>]_vars

(* Under any sequence of polls, details and overload the budget is kept    *)
(* and its account exact, and folding loses and repeats no aggregate.      *)
HistorySound == TypeOK /\ AccountExact /\ BudgetHeld /\ CountsConserved

(* Every snapshot that can be asked for is readable and exact.             *)
SnapshotSound ==
    LET metrics == Metrics(Everything(rec))
        events == Events(Everything(rec))
    IN  \A w \in Windows :
            LET c == SnapshotWindow(rec, w.start, w.end) IN Readable(c) /\ Exact(c, metrics, events)
=============================================================================
