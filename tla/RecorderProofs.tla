--------------------------- MODULE RecorderProofs ---------------------------
(***************************************************************************)
(* What the recorder keeps, for every number of sensors, budget and        *)
(* interval.                                                               *)
(***************************************************************************)
EXTENDS Recorder, FiniteSetTheorems, SequenceTheorems, WellFoundedInduction, TLAPS

-----------------------------------------------------------------------------
(* The books: what each segment holds, and how the segments follow one     *)
(* another.                                                                *)

Within(s) ==
    /\ s.min <= s.max /\ s.start <= s.end
    /\ \A i \in DOMAIN s.metrics :
           /\ 1 <= s.metrics[i].start
           /\ s.min <= s.metrics[i].start /\ s.metrics[i].start < s.metrics[i].end
           /\ s.metrics[i].end <= s.max /\ s.metrics[i].end <= s.end
    /\ \A i \in DOMAIN s.events : s.min <= s.events[i] /\ s.events[i] <= s.max

RawOK(s) ==
    /\ Within(s) /\ 1 <= s.start /\ s.bytes = Held(s, FamilyText)
    /\ Len(s.metrics) <= s.mcap
    /\ s.mcap = 0 \/ s.mcap = MetricCapacity \/ s.mcap >= 2 * MetricCapacity
    /\ \A i \in DOMAIN s.events : s.events[i] <= s.end

RollupOK(s) ==
    /\ Within(s) /\ 1 <= s.min /\ s.bytes = Held(s, 0)
    /\ s.events = <<>> /\ s.ecap = 0

\* The bytes of the active roll-up, if there is one.
Rolled(r) == IF r.rollupActive = NoRollup THEN 0 ELSE r.rollupActive.bytes

Accounted(r) == r.bytes = Total(r.rollups) + Rolled(r) + Total(r.sealed) + r.active.bytes

Following(r) ==
    /\ \A i, j \in DOMAIN r.rollups : i < j => r.rollups[i].end <= r.rollups[j].end
    /\ \A i \in DOMAIN r.rollups : r.rollups[i].end <= r.active.start
    /\ \A i, j \in DOMAIN r.sealed : i < j => r.sealed[i].end <= r.sealed[j].end
    /\ \A i \in DOMAIN r.sealed :
           /\ r.sealed[i].end <= r.active.start
           /\ \A j \in DOMAIN r.rollups : r.rollups[j].end <= r.sealed[i].end
    /\ r.rollupActive # NoRollup =>
           /\ r.rollupActive.end <= r.active.start
           /\ \A i \in DOMAIN r.rollups : r.rollups[i].end <= r.rollupActive.end
           /\ \A i \in DOMAIN r.sealed : r.rollupActive.end <= r.sealed[i].end

Books(r) ==
    /\ r \in Recorders /\ Accounted(r) /\ Following(r)
    /\ \A i \in DOMAIN r.rollups : RollupOK(r.rollups[i])
    /\ r.rollupActive # NoRollup => RollupOK(r.rollupActive)
    /\ \A i \in DOMAIN r.sealed : RawOK(r.sealed[i])
    /\ RawOK(r.active)
    /\ r.active.end <= r.active.start + SegmentInterval

-----------------------------------------------------------------------------
(* The chronicle: every retained aggregate in the order of the segments,   *)
(* with the aggregates flight of a segment that is being folded.           *)

Raws(r, flight) == flight \o Ledger(Append(r.sealed, r.active))

Chronicle(r, flight) == Ledger(Rollups(r)) \o Raws(r, flight)

\* Collections end one after another, and what is rolled up ended first.
Advancing(r, flight) ==
    /\ \A i, j \in DOMAIN Raws(r, flight) :
           i < j => Raws(r, flight)[i].end <= Raws(r, flight)[j].end
    /\ \A j \in DOMAIN Raws(r, flight) :
           /\ \A i \in DOMAIN r.rollups : r.rollups[i].end <= Raws(r, flight)[j].end
           /\ r.rollupActive # NoRollup => r.rollupActive.end <= Raws(r, flight)[j].end

Ordered(c) ==
    /\ \A i \in DOMAIN c : c[i].start < c[i].end
    /\ \A i, j \in DOMAIN c : i < j /\ c[i].family = c[j].family => c[i].end <= c[j].start

Counted(c, deltas) ==
    \A i \in DOMAIN c : c[i].count = Cardinality({a \in deltas : Covers(c[i], a)})

Aligned(c, deltas) ==
    \A i \in DOMAIN c : \A a \in deltas :
        a.family = c[i].family => a.end <= c[i].start \/ c[i].end <= a.start \/ Covers(c[i], a)

Reached(c, deltas, q) ==
    /\ \A i \in DOMAIN c : c[i].end <= q[c[i].family]
    /\ \A a \in deltas : a.end <= q[a.family]

\* Nothing retained continues c[i].
Loose(c, i) == \A j \in DOMAIN c : c[j].family = c[i].family => c[j].start # c[i].end

\* Recording was interrupted at most once: loose ends are those of the gap and
\* of the last collection of the sensor.
Unbroken(c, q, on) ==
    /\ \A i, j, k \in DOMAIN c :
          /\ Loose(c, i) /\ Loose(c, j) /\ Loose(c, k)
          /\ c[i].family = c[j].family /\ c[j].family = c[k].family
          => c[i].end = c[j].end \/ c[j].end = c[k].end \/ c[i].end = c[k].end
    /\ \A i, j \in DOMAIN c :
          /\ Loose(c, i) /\ Loose(c, j) /\ c[i].family = c[j].family /\ c[i].family \in on
          => c[i].end = c[j].end \/ c[i].end = q[c[i].family] \/ c[j].end = q[c[i].family]

Complete(c, deltas, t) ==
    \A a \in deltas : t - a.end < History => \E i \in DOMAIN c : Covers(c[i], a)

\* The active segment cannot take one more metric, whatever is evicted.
Jammed(s) == s.bytes + MetricCost(s) > MaxBytes

\* Within the active segment no family was interrupted.
Contiguous(s, q, on) ==
    /\ \A i, j \in DOMAIN s.metrics :
          /\ Loose(s.metrics, i) /\ Loose(s.metrics, j)
          /\ s.metrics[i].family = s.metrics[j].family
          => s.metrics[i].end = s.metrics[j].end
    /\ ~Jammed(s) =>
          \A i \in DOMAIN s.metrics :
             Loose(s.metrics, i) /\ s.metrics[i].family \in on => s.metrics[i].end = q[s.metrics[i].family]

\* No aggregate of a roll-up continues another.
Merged(s) ==
    \A i, j \in DOMAIN s.metrics :
       s.metrics[i].family = s.metrics[j].family => s.metrics[i].end # s.metrics[j].start

RollupRoom(s) ==
    /\ Merged(s) /\ Len(s.metrics) <= s.mcap
    /\ s.mcap = 0 \/ s.mcap = MetricCapacity \/ (s.mcap = 2 * MetricCapacity /\ Len(s.metrics) > MetricCapacity)

Roomy(r) == r.rollupActive # NoRollup => RollupRoom(r.rollupActive)

Recorded(c, deltas, q, on) ==
    Ordered(c) /\ Counted(c, deltas) /\ Aligned(c, deltas) /\ Reached(c, deltas, q) /\ Unbroken(c, q, on)

\* The chronicle after n evictions of roll-ups.
Truthful(c, n, deltas, q, on, t) ==
    Recorded(c, deltas, q, on) /\ (n = 0 => Complete(c, deltas, t))

\* A recorder, also in the middle of an operation.
Sound(r, flight, deltas, q, on, t) ==
    /\ Books(r) /\ Advancing(r, flight) /\ Roomy(r)
    /\ Truthful(Chronicle(r, flight), r.aggregateEvictions, deltas, q, on, t)
    /\ Contiguous(r.active, q, on)

Affordable(r) == r.bytes <= MaxBytes /\ r.active.bytes <= MaxBytes

Frontier(p) == [f \in Families |-> p]

DeltasOK(d) ==
    /\ d \subseteq [family : Families, start : Nat, end : Nat, count : {1}]
    /\ IsFiniteSet(d) /\ \A a \in d : a.start < a.end

RecorderInv ==
    /\ TypeOK /\ DeltasOK(accepted)
    /\ Sound(rec, <<>>, accepted, Frontier(previous), alive, now)
    /\ rec.active.start <= now /\ rec.active.end <= now
    /\ Affordable(rec)
LEMMA Least ==
    ASSUME NEW T \in SUBSET Nat, T # {}
    PROVE  \E m \in T : \A n \in T : m <= n
<1> DEFINE R == {p \in Nat \X Nat : p[1] < p[2]}
<1>1. R = OpToRel(<, Nat)
  BY DEF OpToRel
<1>2. IsWellFoundedOn(R, Nat)
  BY <1>1, NatLessThanWellFounded, Zenon
<1>3. PICK m \in T : \A n \in T : ~ (<<n, m>> \in R)
  BY <1>2, WFMin, Zenon
<1>4. ASSUME NEW n \in T PROVE m <= n
  <2> SUFFICES ASSUME n < m PROVE FALSE
    OBVIOUS
  <2>1. <<n, m>> \in Nat \X Nat /\ <<n, m>>[1] < <<n, m>>[2]
    OBVIOUS
  <2> QED
    BY <1>3, <2>1
<1> QED
  BY <1>4

(* Induction over the naturals, for a property given as the set of those   *)
(* that have it.                                                           *)
LEMMA Induction ==
    ASSUME NEW T, 0 \in T, \A n \in Nat : n \in T => n + 1 \in T
    PROVE  Nat \subseteq T
<1> DEFINE bad == {n \in Nat : n \notin T}
<1> SUFFICES ASSUME bad # {} PROVE FALSE
  OBVIOUS
<1>1. PICK m \in bad : \A n \in bad : m <= n
  BY Least
<1>2. m - 1 \in Nat /\ m - 1 \in T
  BY <1>1
<1> QED
  BY <1>1, <1>2

-----------------------------------------------------------------------------
-----------------------------------------------------------------------------
(* Loops.  A loop that starts in the first of a row of sets, and whose     *)
(* rounds lead from each set to the next, ends in the last.                *)

\* f holds the states between n rounds of F that start from x.
Runs(f, n, x, F) == f = [k \in 0..n |-> IF k = 0 THEN x ELSE F[<<f[k - 1], k>>]]

LEMMA Recursion ==
    ASSUME NEW n \in Nat, NEW x, NEW F
    PROVE  \E f : Runs(f, n, x, F)
<1> USE DEF Runs
<1> DEFINE T == {m \in Nat : \E f : f = [k \in 0..m |-> IF k = 0 THEN x ELSE F[<<f[k - 1], k>>]]}
<1>1. 0 \in T
  <2> DEFINE f == [k \in 0..0 |-> x]
  <2>1. f = [k \in 0..0 |-> IF k = 0 THEN x ELSE F[<<f[k - 1], k>>]]
    OBVIOUS
  <2> QED
    BY <2>1
<1>2. ASSUME NEW m \in Nat, m \in T PROVE m + 1 \in T
  <2>1. PICK f : f = [k \in 0..m |-> IF k = 0 THEN x ELSE F[<<f[k - 1], k>>]]
    BY <1>2
  <2> DEFINE w == [k \in 0..(m + 1) |-> IF k = m + 1 THEN F[<<f[m], m + 1>>] ELSE f[k]]
             v == [k \in 0..(m + 1) |-> IF k = 0 THEN x ELSE F[<<w[k - 1], k>>]]
  <2>2. ASSUME NEW k \in 0..(m + 1) PROVE w[k] = v[k]
    <3>1. CASE k = m + 1
      <4>1. w[k] = F[<<f[m], m + 1>>] /\ k - 1 = m /\ w[m] = f[m] /\ v[k] = F[<<w[k - 1], k>>]
        <5>1. k - 1 = m /\ m \in 0..(m + 1) /\ m # m + 1 /\ k # 0
          BY <3>1
        <5> QED
          BY <3>1, <5>1
      <4> QED
        BY <4>1, <3>1
    <3>2. CASE k # m + 1
      <4>1. k \in 0..m /\ w[k] = f[k]
        BY <3>2
      <4>2. CASE k = 0
        BY <4>1, <4>2, <2>1
      <4>3. CASE k # 0
        <5>1. k - 1 \in 0..m /\ w[k - 1] = f[k - 1]
          BY <4>1, <4>3
        <5>2. f[k] = F[<<f[k - 1], k>>]
          BY <2>1, <4>1, <4>3
        <5>3. v[k] = F[<<w[k - 1], k>>]
          BY <4>3
        <5> QED
          BY <4>1, <5>1, <5>2, <5>3
      <4> QED
        BY <4>2, <4>3
    <3> QED
      BY <3>1, <3>2
  <2>3. w = v
    BY <2>2
  <2> HIDE DEF w
  <2> QED
    BY <2>3
<1>3. n \in T
  <2> HIDE DEF T
  <2> QED
    BY <1>1, <1>2, Induction
<1> QED
  BY <1>3

LEMMA Walk ==
    ASSUME NEW n \in Nat, NEW f, NEW S, f[0] \in S[0],
           \A k \in 1..n : f[k - 1] \in S[k - 1] => f[k] \in S[k]
    PROVE  \A k \in 0..n : f[k] \in S[k]
<1> DEFINE T == {m \in Nat : m <= n => f[m] \in S[m]}
<1>1. 0 \in T
  OBVIOUS
<1>2. ASSUME NEW m \in Nat, m \in T PROVE m + 1 \in T
  <2> SUFFICES ASSUME m + 1 <= n PROVE f[m + 1] \in S[m + 1]
    OBVIOUS
  <2>1. m + 1 \in 1..n /\ (m + 1) - 1 = m /\ f[m] \in S[m]
    BY <1>2
  <2> QED
    BY <2>1
<1>3. Nat \subseteq T
  <2> HIDE DEF T
  <2> QED
    BY <1>1, <1>2, Induction
<1> QED
  BY <1>3

LEMMA CompactedEnds ==
    ASSUME NEW r, NEW cost, NEW n \in Nat, n = Len(r.sealed), NEW S, r \in S[0],
           \A k \in 1..n : \A s \in S[k - 1] :
               (IF s.bytes + cost > MaxBytes /\ s.sealed # <<>> THEN compactOldest(s) ELSE s)
                   \in S[k]
    PROVE  Compacted(r, cost) \in S[n]
<1> DEFINE Round(s) == IF s.bytes + cost > MaxBytes /\ s.sealed # <<>> THEN compactOldest(s) ELSE s
           D == UNION {S[k] : k \in 0..n}
           F == [q \in D \X (0..n) |-> Round(q[1])]
           g == CHOOSE f : f = [k \in 0..n |-> IF k = 0 THEN r ELSE Round(f[k - 1])]
<1>1. PICK f : Runs(f, n, r, F)
  <2> HIDE DEF F
  <2> QED
    BY Recursion
<1>2. \A k \in 1..n : \A s \in S[k - 1] : Round(s) \in S[k] /\ F[<<s, k>>] = Round(s)
  <2> SUFFICES ASSUME NEW k \in 1..n, NEW s \in S[k - 1]
               PROVE  Round(s) \in S[k] /\ F[<<s, k>>] = Round(s)
    OBVIOUS
  <2>1. Round(s) \in S[k]
    OBVIOUS
  <2>2. s \in D /\ k \in 0..n
    OBVIOUS
  <2> HIDE DEF Round, D
  <2> QED
    BY <2>1, <2>2
<1>3. Compacted(r, cost) = g[n]
  BY Zenon DEF Compacted, Repeat, Iterate
<1> HIDE DEF F, D, Round, g
<1>4. f[0] \in S[0]
  BY <1>1 DEF Runs
<1>5. \A k \in 1..n : f[k - 1] \in S[k - 1] => f[k] \in S[k]
  BY <1>1, <1>2 DEF Runs
<1>6. \A k \in 0..n : f[k] \in S[k]
  BY <1>4, <1>5, Walk
<1>7. f = [k \in 0..n |-> IF k = 0 THEN r ELSE Round(f[k - 1])]
  <2> DEFINE v == [k \in 0..n |-> IF k = 0 THEN r ELSE Round(f[k - 1])]
  <2>1. \A k \in 1..n : k - 1 \in 0..n /\ F[<<f[k - 1], k>>] = Round(f[k - 1])
    BY <1>2, <1>6
  <2>2. ASSUME NEW k \in 0..n PROVE f[k] = v[k]
    <3>1. CASE k = 0
      BY <1>1, <3>1 DEF Runs
    <3>2. CASE k # 0
      <4>1. k \in 1..n /\ f[k] = F[<<f[k - 1], k>>]
        BY <1>1, <3>2 DEF Runs
      <4>2. v[k] = Round(f[k - 1])
        BY <3>2
      <4> QED
        BY <2>1, <4>1, <4>2
    <3> QED
      BY <3>1, <3>2
  <2>3. f = [k \in 0..n |-> f[k]]
    BY <1>1 DEF Runs
  <2>4. f = v
    BY <2>2, <2>3
  <2> QED
    BY <2>4
<1>8. g = [k \in 0..n |-> IF k = 0 THEN r ELSE Round(g[k - 1])]
  BY <1>7 DEF g
<1>9. \A k \in 0..n : g[k] \in S[k]
  <2>1. g[0] \in S[0]
    BY <1>8
  <2>2. ASSUME NEW k \in 1..n, g[k - 1] \in S[k - 1] PROVE g[k] \in S[k]
    <3>1. g[k] = Round(g[k - 1])
      BY <1>8
    <3>2. Round(g[k - 1]) \in S[k]
      <4> HIDE DEF Round, F, g
      <4> QED
        BY <1>2, <2>2
    <3> QED
      BY <3>1, <3>2
  <2> QED
    BY <2>1, <2>2, Walk
<1> QED
  BY <1>3, <1>9

LEMMA RelievedEnds ==
    ASSUME NEW r, NEW cost, NEW n \in Nat, n = Len(r.rollups) + 1, NEW S, r \in S[0],
           \A k \in 1..n : \A s \in S[k - 1] :
               (IF s.bytes + cost > MaxBytes /\ hasRollup(s) THEN dropRollup(s, TRUE) ELSE s)
                   \in S[k]
    PROVE  Relieved(r, cost) \in S[n]
<1> DEFINE Round(s) == IF s.bytes + cost > MaxBytes /\ hasRollup(s) THEN dropRollup(s, TRUE) ELSE s
           D == UNION {S[k] : k \in 0..n}
           F == [q \in D \X (0..n) |-> Round(q[1])]
           g == CHOOSE f : f = [k \in 0..n |-> IF k = 0 THEN r ELSE Round(f[k - 1])]
<1>1. PICK f : Runs(f, n, r, F)
  <2> HIDE DEF F
  <2> QED
    BY Recursion
<1>2. \A k \in 1..n : \A s \in S[k - 1] : Round(s) \in S[k] /\ F[<<s, k>>] = Round(s)
  <2> SUFFICES ASSUME NEW k \in 1..n, NEW s \in S[k - 1]
               PROVE  Round(s) \in S[k] /\ F[<<s, k>>] = Round(s)
    OBVIOUS
  <2>1. Round(s) \in S[k]
    OBVIOUS
  <2>2. s \in D /\ k \in 0..n
    OBVIOUS
  <2> HIDE DEF Round, D
  <2> QED
    BY <2>1, <2>2
<1>3. Relieved(r, cost) = g[n]
  BY Zenon DEF Relieved, Repeat, Iterate
<1> HIDE DEF F, D, Round, g
<1>4. f[0] \in S[0]
  BY <1>1 DEF Runs
<1>5. \A k \in 1..n : f[k - 1] \in S[k - 1] => f[k] \in S[k]
  BY <1>1, <1>2 DEF Runs
<1>6. \A k \in 0..n : f[k] \in S[k]
  BY <1>4, <1>5, Walk
<1>7. f = [k \in 0..n |-> IF k = 0 THEN r ELSE Round(f[k - 1])]
  <2> DEFINE v == [k \in 0..n |-> IF k = 0 THEN r ELSE Round(f[k - 1])]
  <2>1. \A k \in 1..n : k - 1 \in 0..n /\ F[<<f[k - 1], k>>] = Round(f[k - 1])
    BY <1>2, <1>6
  <2>2. ASSUME NEW k \in 0..n PROVE f[k] = v[k]
    <3>1. CASE k = 0
      BY <1>1, <3>1 DEF Runs
    <3>2. CASE k # 0
      <4>1. k \in 1..n /\ f[k] = F[<<f[k - 1], k>>]
        BY <1>1, <3>2 DEF Runs
      <4>2. v[k] = Round(f[k - 1])
        BY <3>2
      <4> QED
        BY <2>1, <4>1, <4>2
    <3> QED
      BY <3>1, <3>2
  <2>3. f = [k \in 0..n |-> f[k]]
    BY <1>1 DEF Runs
  <2>4. f = v
    BY <2>2, <2>3
  <2> QED
    BY <2>4
<1>8. g = [k \in 0..n |-> IF k = 0 THEN r ELSE Round(g[k - 1])]
  BY <1>7 DEF g
<1>9. \A k \in 0..n : g[k] \in S[k]
  <2>1. g[0] \in S[0]
    BY <1>8
  <2>2. ASSUME NEW k \in 1..n, g[k - 1] \in S[k - 1] PROVE g[k] \in S[k]
    <3>1. g[k] = Round(g[k - 1])
      BY <1>8, SMTT(30)
    <3> QED
      BY <1>2, <2>2, <3>1
  <2> QED
    BY <2>1, <2>2, Walk
<1> QED
  BY <1>3, <1>9

LEMMA AgedRawEnds ==
    ASSUME NEW r, NEW t, NEW n \in Nat, n = Len(r.sealed), NEW S, r \in S[0],
           \A k \in 1..n : \A s \in S[k - 1] :
               (IF s.sealed # <<>> /\ Expired(Head(s.sealed), t) THEN dropRaw(s, FALSE) ELSE s)
                   \in S[k]
    PROVE  AgedRaw(r, t) \in S[n]
<1> DEFINE Round(s) == IF s.sealed # <<>> /\ Expired(Head(s.sealed), t) THEN dropRaw(s, FALSE) ELSE s
           D == UNION {S[k] : k \in 0..n}
           F == [q \in D \X (0..n) |-> Round(q[1])]
           g == CHOOSE f : f = [k \in 0..n |-> IF k = 0 THEN r ELSE Round(f[k - 1])]
<1>1. PICK f : Runs(f, n, r, F)
  <2> HIDE DEF F
  <2> QED
    BY Recursion
<1>2. \A k \in 1..n : \A s \in S[k - 1] : Round(s) \in S[k] /\ F[<<s, k>>] = Round(s)
  <2> SUFFICES ASSUME NEW k \in 1..n, NEW s \in S[k - 1]
               PROVE  Round(s) \in S[k] /\ F[<<s, k>>] = Round(s)
    OBVIOUS
  <2>1. Round(s) \in S[k]
    OBVIOUS
  <2>2. s \in D /\ k \in 0..n
    OBVIOUS
  <2> HIDE DEF Round, D
  <2> QED
    BY <2>1, <2>2
<1>3. AgedRaw(r, t) = g[n]
  BY Zenon DEF AgedRaw, Repeat, Iterate
<1> HIDE DEF F, D, Round, g
<1>4. f[0] \in S[0]
  BY <1>1 DEF Runs
<1>5. \A k \in 1..n : f[k - 1] \in S[k - 1] => f[k] \in S[k]
  BY <1>1, <1>2 DEF Runs
<1>6. \A k \in 0..n : f[k] \in S[k]
  BY <1>4, <1>5, Walk
<1>7. f = [k \in 0..n |-> IF k = 0 THEN r ELSE Round(f[k - 1])]
  <2> DEFINE v == [k \in 0..n |-> IF k = 0 THEN r ELSE Round(f[k - 1])]
  <2>1. \A k \in 1..n : k - 1 \in 0..n /\ F[<<f[k - 1], k>>] = Round(f[k - 1])
    BY <1>2, <1>6
  <2>2. ASSUME NEW k \in 0..n PROVE f[k] = v[k]
    <3>1. CASE k = 0
      BY <1>1, <3>1 DEF Runs
    <3>2. CASE k # 0
      <4>1. k \in 1..n /\ f[k] = F[<<f[k - 1], k>>]
        BY <1>1, <3>2 DEF Runs
      <4>2. v[k] = Round(f[k - 1])
        BY <3>2
      <4> QED
        BY <2>1, <4>1, <4>2
    <3> QED
      BY <3>1, <3>2
  <2>3. f = [k \in 0..n |-> f[k]]
    BY <1>1 DEF Runs
  <2>4. f = v
    BY <2>2, <2>3
  <2> QED
    BY <2>4
<1>8. g = [k \in 0..n |-> IF k = 0 THEN r ELSE Round(g[k - 1])]
  BY <1>7 DEF g
<1>9. \A k \in 0..n : g[k] \in S[k]
  <2>1. g[0] \in S[0]
    BY <1>8
  <2>2. ASSUME NEW k \in 1..n, g[k - 1] \in S[k - 1] PROVE g[k] \in S[k]
    <3>1. g[k] = Round(g[k - 1])
      BY <1>8
    <3>2. Round(g[k - 1]) \in S[k]
      <4> HIDE DEF Round, F, g
      <4> QED
        BY <1>2, <2>2
    <3> QED
      BY <3>1, <3>2
  <2> QED
    BY <2>1, <2>2, Walk
<1> QED
  BY <1>3, <1>9

LEMMA AgedRollupsEnds ==
    ASSUME NEW r, NEW t, NEW n \in Nat, n = Len(r.rollups), NEW S, r \in S[0],
           \A k \in 1..n : \A s \in S[k - 1] :
               (IF s.rollups # <<>> /\ Expired(Head(s.rollups), t) THEN dropRollup(s, FALSE) ELSE s)
                   \in S[k]
    PROVE  AgedRollups(r, t) \in S[n]
<1> DEFINE Round(s) == IF s.rollups # <<>> /\ Expired(Head(s.rollups), t) THEN dropRollup(s, FALSE) ELSE s
           D == UNION {S[k] : k \in 0..n}
           F == [q \in D \X (0..n) |-> Round(q[1])]
           g == CHOOSE f : f = [k \in 0..n |-> IF k = 0 THEN r ELSE Round(f[k - 1])]
<1>1. PICK f : Runs(f, n, r, F)
  <2> HIDE DEF F
  <2> QED
    BY Recursion
<1>2. \A k \in 1..n : \A s \in S[k - 1] : Round(s) \in S[k] /\ F[<<s, k>>] = Round(s)
  <2> SUFFICES ASSUME NEW k \in 1..n, NEW s \in S[k - 1]
               PROVE  Round(s) \in S[k] /\ F[<<s, k>>] = Round(s)
    OBVIOUS
  <2>1. Round(s) \in S[k]
    OBVIOUS
  <2>2. s \in D /\ k \in 0..n
    OBVIOUS
  <2> HIDE DEF Round, D
  <2> QED
    BY <2>1, <2>2
<1>3. AgedRollups(r, t) = g[n]
  BY Zenon DEF AgedRollups, Repeat, Iterate
<1> HIDE DEF F, D, Round, g
<1>4. f[0] \in S[0]
  BY <1>1 DEF Runs
<1>5. \A k \in 1..n : f[k - 1] \in S[k - 1] => f[k] \in S[k]
  BY <1>1, <1>2 DEF Runs
<1>6. \A k \in 0..n : f[k] \in S[k]
  BY <1>4, <1>5, Walk
<1>7. f = [k \in 0..n |-> IF k = 0 THEN r ELSE Round(f[k - 1])]
  <2> DEFINE v == [k \in 0..n |-> IF k = 0 THEN r ELSE Round(f[k - 1])]
  <2>1. \A k \in 1..n : k - 1 \in 0..n /\ F[<<f[k - 1], k>>] = Round(f[k - 1])
    BY <1>2, <1>6
  <2>2. ASSUME NEW k \in 0..n PROVE f[k] = v[k]
    <3>1. CASE k = 0
      BY <1>1, <3>1 DEF Runs
    <3>2. CASE k # 0
      <4>1. k \in 1..n /\ f[k] = F[<<f[k - 1], k>>]
        BY <1>1, <3>2 DEF Runs
      <4>2. v[k] = Round(f[k - 1])
        BY <3>2
      <4> QED
        BY <2>1, <4>1, <4>2
    <3> QED
      BY <3>1, <3>2
  <2>3. f = [k \in 0..n |-> f[k]]
    BY <1>1 DEF Runs
  <2>4. f = v
    BY <2>2, <2>3
  <2> QED
    BY <2>4
<1>8. g = [k \in 0..n |-> IF k = 0 THEN r ELSE Round(g[k - 1])]
  BY <1>7 DEF g
<1>9. \A k \in 0..n : g[k] \in S[k]
  <2>1. g[0] \in S[0]
    BY <1>8
  <2>2. ASSUME NEW k \in 1..n, g[k - 1] \in S[k - 1] PROVE g[k] \in S[k]
    <3>1. g[k] = Round(g[k - 1])
      BY <1>8
    <3>2. Round(g[k - 1]) \in S[k]
      <4> HIDE DEF Round, F, g
      <4> QED
        BY <1>2, <2>2
    <3> QED
      BY <3>1, <3>2
  <2> QED
    BY <2>1, <2>2, Walk
<1> QED
  BY <1>3, <1>9

LEMMA FoldEnds ==
    ASSUME NEW ms, NEW x, NEW n \in Nat, n = Len(ms), NEW S, x \in S[0],
           \A k \in 1..n : \A s \in S[k - 1] :
               (addRollupMetric(s, ms[k])) \in S[k]
    PROVE  AllAdded(x, ms) \in S[n]
<1> DEFINE Round(s, k) == addRollupMetric(s, ms[k])
           D == UNION {S[k] : k \in 0..n}
           F == [q \in D \X (0..n) |-> Round(q[1], q[2])]
           g == CHOOSE f : f = [k \in 0..n |-> IF k = 0 THEN x ELSE Round(f[k - 1], k)]
<1>1. PICK f : Runs(f, n, x, F)
  <2> HIDE DEF F
  <2> QED
    BY Recursion
<1>2. \A k \in 1..n : \A s \in S[k - 1] : Round(s, k) \in S[k] /\ F[<<s, k>>] = Round(s, k)
  <2> SUFFICES ASSUME NEW k \in 1..n, NEW s \in S[k - 1]
               PROVE  Round(s, k) \in S[k] /\ F[<<s, k>>] = Round(s, k)
    OBVIOUS
  <2>1. Round(s, k) \in S[k]
    OBVIOUS
  <2>2. s \in D /\ k \in 0..n
    OBVIOUS
  <2> HIDE DEF Round, D
  <2> QED
    BY <2>1, <2>2
<1>3. AllAdded(x, ms) = g[n]
  BY Zenon DEF AllAdded, Iterate
<1> HIDE DEF F, D, Round, g
<1>4. f[0] \in S[0]
  BY <1>1 DEF Runs
<1>5. \A k \in 1..n : f[k - 1] \in S[k - 1] => f[k] \in S[k]
  BY <1>1, <1>2 DEF Runs
<1>6. \A k \in 0..n : f[k] \in S[k]
  BY <1>4, <1>5, Walk
<1>7. f = [k \in 0..n |-> IF k = 0 THEN x ELSE Round(f[k - 1], k)]
  <2> DEFINE v == [k \in 0..n |-> IF k = 0 THEN x ELSE Round(f[k - 1], k)]
  <2>1. \A k \in 1..n : k - 1 \in 0..n /\ F[<<f[k - 1], k>>] = Round(f[k - 1], k)
    BY <1>2, <1>6
  <2>2. ASSUME NEW k \in 0..n PROVE f[k] = v[k]
    <3>1. CASE k = 0
      BY <1>1, <3>1 DEF Runs
    <3>2. CASE k # 0
      <4>1. k \in 1..n /\ f[k] = F[<<f[k - 1], k>>]
        BY <1>1, <3>2 DEF Runs
      <4>2. v[k] = Round(f[k - 1], k)
        BY <3>2
      <4> QED
        BY <2>1, <4>1, <4>2
    <3> QED
      BY <3>1, <3>2
  <2>3. f = [k \in 0..n |-> f[k]]
    BY <1>1 DEF Runs
  <2>4. f = v
    BY <2>2, <2>3
  <2> QED
    BY <2>4
<1>8. g = [k \in 0..n |-> IF k = 0 THEN x ELSE Round(g[k - 1], k)]
  BY <1>7 DEF g
<1>9. \A k \in 0..n : g[k] \in S[k]
  <2>1. g[0] \in S[0]
    BY <1>8
  <2>2. ASSUME NEW k \in 1..n, g[k - 1] \in S[k - 1] PROVE g[k] \in S[k]
    <3>1. g[k] = Round(g[k - 1], k)
      BY <1>8
    <3> QED
      BY <1>2, <2>2, <3>1
  <2> QED
    BY <2>1, <2>2, Walk
<1> QED
  BY <1>3, <1>9

\* One round of Collected leads from each set of S to the next.
Collecting(S, n, readable, t) ==
    \A k \in 1..n : \A s \in S[k - 1] :
        (IF k \in readable THEN Taken(s, Delta(k, t), Metric(s.rec, Delta(k, t), t)) ELSE s) \in S[k]

LEMMA CollectionEnds ==
    ASSUME NEW readable, NEW t, NEW n \in Nat, n = NumFamilies, NEW S,
           [rec |-> Advance(rec, t), taken |-> {}] \in S[0], Collecting(S, n, readable, t)
    PROVE  Collected(readable, t) \in S[n]
<1> DEFINE x == [rec |-> Advance(rec, t), taken |-> {}]
           Round(s, k) == IF k \in readable THEN Taken(s, Delta(k, t), Metric(s.rec, Delta(k, t), t)) ELSE s
           D == UNION {S[k] : k \in 0..n}
           F == [q \in D \X (0..n) |-> Round(q[1], q[2])]
           g == CHOOSE f : f = [k \in 0..n |-> IF k = 0 THEN x ELSE Round(f[k - 1], k)]
<1>0. x \in S[0]
  OBVIOUS
<1>1. PICK f : Runs(f, n, x, F)
  <2> HIDE DEF F, x
  <2> QED
    BY Recursion
<1>2. \A k \in 1..n : \A s \in S[k - 1] : Round(s, k) \in S[k] /\ F[<<s, k>>] = Round(s, k)
  <2> SUFFICES ASSUME NEW k \in 1..n, NEW s \in S[k - 1]
               PROVE  Round(s, k) \in S[k] /\ F[<<s, k>>] = Round(s, k)
    OBVIOUS
  <2>1. Round(s, k) \in S[k]
    BY DEF Collecting
  <2>2. s \in D /\ k \in 0..n
    OBVIOUS
  <2> HIDE DEF Round, D
  <2> QED
    BY <2>1, <2>2
<1>3. Collected(readable, t) = g[n]
  BY Zenon DEF Collected, Iterate
<1> HIDE DEF F, D, Round, g, x
<1>4. f[0] \in S[0]
  BY <1>0, <1>1 DEF Runs
<1>5. \A k \in 1..n : f[k - 1] \in S[k - 1] => f[k] \in S[k]
  BY <1>1, <1>2 DEF Runs
<1>6. \A k \in 0..n : f[k] \in S[k]
  BY <1>4, <1>5, Walk
<1>7. f = [k \in 0..n |-> IF k = 0 THEN x ELSE Round(f[k - 1], k)]
  <2> DEFINE v == [k \in 0..n |-> IF k = 0 THEN x ELSE Round(f[k - 1], k)]
  <2>1. \A k \in 1..n : k - 1 \in 0..n /\ F[<<f[k - 1], k>>] = Round(f[k - 1], k)
    BY <1>2, <1>6
  <2>2. ASSUME NEW k \in 0..n PROVE f[k] = v[k]
    <3>1. CASE k = 0
      BY <1>1, <3>1 DEF Runs
    <3>2. CASE k # 0
      <4>1. k \in 1..n /\ f[k] = F[<<f[k - 1], k>>]
        BY <1>1, <3>2 DEF Runs
      <4>2. v[k] = Round(f[k - 1], k)
        BY <3>2
      <4> QED
        BY <2>1, <4>1, <4>2
    <3> QED
      BY <3>1, <3>2
  <2>3. f = [k \in 0..n |-> f[k]]
    BY <1>1 DEF Runs
  <2>4. f = v
    BY <2>2, <2>3
  <2> QED
    BY <2>4
<1>8. g = [k \in 0..n |-> IF k = 0 THEN x ELSE Round(g[k - 1], k)]
  BY <1>7 DEF g
<1>9. \A k \in 0..n : g[k] \in S[k]
  <2>1. g[0] \in S[0]
    BY <1>0, <1>8
  <2>2. ASSUME NEW k \in 1..n, g[k - 1] \in S[k - 1] PROVE g[k] \in S[k]
    <3>1. g[k] = Round(g[k - 1], k)
      BY <1>8
    <3> QED
      BY <1>2, <2>2, <3>1
  <2> QED
    BY <2>1, <2>2, Walk
<1> QED
  BY <1>3, <1>9

LEMMA TotalEnds ==
    ASSUME NEW c, NEW n \in Nat, n = Len(c), NEW S, 0 \in S[0],
           \A k \in 1..n : \A s \in S[k - 1] :
               (s + c[k].bytes) \in S[k]
    PROVE  Total(c) \in S[n]
<1> DEFINE Round(s, k) == s + c[k].bytes
           D == UNION {S[k] : k \in 0..n}
           F == [q \in D \X (0..n) |-> Round(q[1], q[2])]
           g == CHOOSE f : f = [k \in 0..n |-> IF k = 0 THEN 0 ELSE Round(f[k - 1], k)]
<1>1. PICK f : Runs(f, n, 0, F)
  <2> HIDE DEF F
  <2> QED
    BY Recursion
<1>2. \A k \in 1..n : \A s \in S[k - 1] : Round(s, k) \in S[k] /\ F[<<s, k>>] = Round(s, k)
  <2> SUFFICES ASSUME NEW k \in 1..n, NEW s \in S[k - 1]
               PROVE  Round(s, k) \in S[k] /\ F[<<s, k>>] = Round(s, k)
    OBVIOUS
  <2>1. Round(s, k) \in S[k]
    OBVIOUS
  <2>2. s \in D /\ k \in 0..n
    OBVIOUS
  <2> HIDE DEF Round, D
  <2> QED
    BY <2>1, <2>2
<1>3. Total(c) = g[n]
  BY Zenon DEF Total, Iterate
<1> HIDE DEF F, D, Round, g
<1>4. f[0] \in S[0]
  BY <1>1 DEF Runs
<1>5. \A k \in 1..n : f[k - 1] \in S[k - 1] => f[k] \in S[k]
  BY <1>1, <1>2 DEF Runs
<1>6. \A k \in 0..n : f[k] \in S[k]
  BY <1>4, <1>5, Walk
<1>7. f = [k \in 0..n |-> IF k = 0 THEN 0 ELSE Round(f[k - 1], k)]
  <2> DEFINE v == [k \in 0..n |-> IF k = 0 THEN 0 ELSE Round(f[k - 1], k)]
  <2>1. \A k \in 1..n : k - 1 \in 0..n /\ F[<<f[k - 1], k>>] = Round(f[k - 1], k)
    BY <1>2, <1>6
  <2>2. ASSUME NEW k \in 0..n PROVE f[k] = v[k]
    <3>1. CASE k = 0
      BY <1>1, <3>1 DEF Runs
    <3>2. CASE k # 0
      <4>1. k \in 1..n /\ f[k] = F[<<f[k - 1], k>>]
        BY <1>1, <3>2 DEF Runs
      <4>2. v[k] = Round(f[k - 1], k)
        BY <3>2
      <4> QED
        BY <2>1, <4>1, <4>2
    <3> QED
      BY <3>1, <3>2
  <2>3. f = [k \in 0..n |-> f[k]]
    BY <1>1 DEF Runs
  <2>4. f = v
    BY <2>2, <2>3
  <2> QED
    BY <2>4
<1>8. g = [k \in 0..n |-> IF k = 0 THEN 0 ELSE Round(g[k - 1], k)]
  BY <1>7 DEF g
<1>9. \A k \in 0..n : g[k] \in S[k]
  <2>1. g[0] \in S[0]
    BY <1>8
  <2>2. ASSUME NEW k \in 1..n, g[k - 1] \in S[k - 1] PROVE g[k] \in S[k]
    <3>1. g[k] = Round(g[k - 1], k)
      BY <1>8
    <3> QED
      BY <1>2, <2>2, <3>1
  <2> QED
    BY <2>1, <2>2, Walk
<1> QED
  BY <1>3, <1>9

-----------------------------------------------------------------------------
(* Sums of bytes.                                                          *)

Sums(u, c, n) == u[0] = 0 /\ \A k \in 1..n : u[k] = u[k - 1] + c[k].bytes

LEMMA TotalIs ==
    ASSUME NEW c, NEW n \in Nat, n = Len(c), NEW u, Sums(u, c, n)
    PROVE  Total(c) = u[n]
<1> DEFINE S == [k \in 0..n |-> {u[k]}]
<1>1. 0 \in S[0]
  BY DEF Sums
<1>2. ASSUME NEW k \in 1..n, NEW s \in S[k - 1] PROVE s + c[k].bytes \in S[k]
  <2>1. s = u[k - 1]
    OBVIOUS
  <2> QED
    BY <2>1 DEF Sums
<1>3. Total(c) \in S[n]
  <2> HIDE DEF S
  <2> QED
    BY <1>1, <1>2, TotalEnds
<1> QED
  BY <1>3

LEMMA SumsExist ==
    ASSUME NEW c \in Seq(Segments), NEW n \in Nat, n = Len(c)
    PROVE  \E u \in [0..n -> Int] : Sums(u, c, n)
<1> DEFINE F == [q \in Int \X (0..n) |-> q[1] + c[q[2]].bytes]
           S == [k \in 0..n |-> Int]
<1>0. ASSUME NEW k \in 1..n PROVE c[k].bytes \in Int
  <2>1. c[k] \in Segments
    OBVIOUS
  <2> QED
    BY <2>1 DEF Segments
<1>1. PICK f : Runs(f, n, 0, F)
  BY Recursion
<1>2. f[0] = 0 /\ \A k \in 1..n : f[k] = F[<<f[k - 1], k>>]
  <2> HIDE DEF F
  <2> QED
    BY <1>1 DEF Runs
<1>3. ASSUME NEW k \in 1..n, f[k - 1] \in Int PROVE f[k] = f[k - 1] + c[k].bytes /\ f[k] \in Int
  <2>1. F[<<f[k - 1], k>>] = f[k - 1] + c[k].bytes
    BY <1>3
  <2> HIDE DEF F
  <2> QED
    BY <1>0, <1>2, <1>3, <2>1
<1> HIDE DEF F
<1>4. \A k \in 0..n : f[k] \in S[k]
  <2>1. f[0] \in S[0] /\ \A k \in 1..n : f[k - 1] \in S[k - 1] => f[k] \in S[k]
    BY <1>2, <1>3
  <2> HIDE DEF S
  <2> QED
    BY <2>1, Walk
<1>5. f \in [0..n -> Int]
  BY <1>1, <1>4 DEF Runs
<1>6. Sums(f, c, n)
  <2> SUFFICES ASSUME NEW k \in 1..n PROVE f[k] = f[k - 1] + c[k].bytes
    BY <1>2 DEF Sums
  <2> QED
    BY <1>3, <1>4
<1> QED
  BY <1>5, <1>6

LEMMA TotalInt ==
    ASSUME NEW c \in Seq(Segments)
    PROVE  Total(c) \in Int /\ Total(<<>>) = 0
<1>1. Len(c) \in Nat
  OBVIOUS
<1>2. PICK u \in [0..Len(c) -> Int] : Sums(u, c, Len(c))
  BY <1>1, SumsExist
<1>3. Total(c) = u[Len(c)]
  BY <1>1, <1>2, TotalIs
<1>4. Sums([k \in {0} |-> 0], <<>>, 0)
  BY DEF Sums
<1>5. Total(<<>>) = 0
  BY <1>4, TotalIs
<1> QED
  BY <1>1, <1>2, <1>3, <1>5

LEMMA TotalAppend ==
    ASSUME NEW c \in Seq(Segments), NEW s \in Segments
    PROVE  Total(Append(c, s)) = Total(c) + s.bytes
<1> DEFINE n == Len(c)
<1>1. n \in Nat /\ Len(Append(c, s)) = n + 1 /\ n + 1 \in Nat
  OBVIOUS
<1>2. PICK u \in [0..n -> Int] : Sums(u, c, n)
  BY <1>1, SumsExist
<1>3. Total(c) = u[n]
  BY <1>1, <1>2, TotalIs
<1> DEFINE v == [k \in 0..(n + 1) |-> IF k = n + 1 THEN u[n] + s.bytes ELSE u[k]]
<1>4. Sums(v, Append(c, s), n + 1)
  <2>1. v[0] = 0
    BY <1>1, <1>2 DEF Sums
  <2>2. ASSUME NEW k \in 1..(n + 1) PROVE v[k] = v[k - 1] + Append(c, s)[k].bytes
    <3>1. CASE k = n + 1
      <4>1. k - 1 = n /\ k - 1 # n + 1 /\ k - 1 \in 0..(n + 1) /\ Append(c, s)[k] = s
        BY <1>1, <3>1
      <4>2. v[n + 1] = u[n] + s.bytes /\ v[n] = u[n]
        BY <1>1
      <4> HIDE DEF v
      <4> QED
        BY <3>1, <4>1, <4>2
    <3>2. CASE k # n + 1
      <4>1. k \in 1..n /\ k - 1 # n + 1 /\ k - 1 \in 0..(n + 1) /\ Append(c, s)[k] = c[k]
        BY <1>1, <3>2
      <4>2. v[k] = u[k] /\ v[k - 1] = u[k - 1]
        BY <3>2, <4>1
      <4> QED
        BY <1>2, <4>1, <4>2 DEF Sums
    <3> QED
      BY <3>1, <3>2
  <2> QED
    BY <2>1, <2>2 DEF Sums
<1>5. Total(Append(c, s)) = v[n + 1]
  <2> HIDE DEF v, n
  <2>1. n + 1 = Len(Append(c, s))
    BY <1>1
  <2> QED
    BY <1>1, <1>4, <2>1, TotalIs
<1> QED
  BY <1>3, <1>5

LEMMA TotalTail ==
    ASSUME NEW c \in Seq(Segments), c # <<>>
    PROVE  Total(Tail(c)) = Total(c) - Head(c).bytes
<1> DEFINE n == Len(c)
<1>1. n \in Nat /\ n - 1 \in Nat /\ Len(Tail(c)) = n - 1 /\ Head(c) = c[1]
  OBVIOUS
<1>2. PICK u \in [0..n -> Int] : Sums(u, c, n)
  BY <1>1, SumsExist
<1>3. Total(c) = u[n]
  BY <1>1, <1>2, TotalIs
<1>4. u[1] = c[1].bytes /\ c[1].bytes \in Int
  <2>1. 1 \in 1..n /\ u[0] = 0 /\ u[1] = u[1 - 1] + c[1].bytes /\ c[1] \in Segments
    BY <1>1, <1>2 DEF Sums
  <2> QED
    BY <2>1, SMTT(30) DEF Segments
<1> DEFINE v == [k \in 0..(n - 1) |-> u[k + 1] - u[1]]
<1>5. Sums(v, Tail(c), n - 1)
  <2>1. v[0] = 0
    BY <1>1, <1>2
  <2>2. ASSUME NEW k \in 1..(n - 1) PROVE v[k] = v[k - 1] + Tail(c)[k].bytes
    <3>1. k + 1 \in 1..n /\ k - 1 \in 0..(n - 1) /\ (k + 1) - 1 = k /\ (k - 1) + 1 = k
      BY <1>1
    <3>2. Tail(c)[k] = c[k + 1] /\ c[k + 1] \in Segments
      BY <1>1, <3>1
    <3>3. u[k + 1] = u[k] + c[k + 1].bytes
      BY <1>2, <3>1 DEF Sums
    <3>4. v[k] = u[k + 1] - u[1] /\ v[k - 1] = u[k] - u[1]
      BY <3>1
    <3>5. u[k + 1] \in Int /\ u[k] \in Int /\ u[1] \in Int
      <4>1. k + 1 \in 0..n /\ k \in 0..n /\ 1 \in 0..n
        BY <1>1
      <4> QED
        BY <1>2, <4>1
    <3>6. c[k + 1].bytes \in Int
      BY <3>2 DEF Segments
    <3> QED
      BY <3>2, <3>3, <3>4, <3>5, <3>6
  <2> QED
    BY <2>1, <2>2 DEF Sums
<1>6. Total(Tail(c)) = v[n - 1]
  <2> HIDE DEF v
  <2> QED
    BY <1>1, <1>5, TotalIs
<1> QED
  BY <1>1, <1>3, <1>4, <1>6

LEMMA TotalNat ==
    ASSUME NEW c \in Seq(Segments), \A i \in DOMAIN c : c[i].bytes >= 0
    PROVE  Total(c) >= 0
<1> DEFINE n == Len(c)
           S == [k \in 0..n |-> Nat]
<1>1. n \in Nat
  OBVIOUS
<1>2. ASSUME NEW k \in 1..n, NEW s \in S[k - 1] PROVE s + c[k].bytes \in S[k]
  <2>1. s \in Nat /\ c[k] \in Segments /\ c[k].bytes >= 0
    OBVIOUS
  <2>2. c[k].bytes \in Int
    BY <2>1 DEF Segments
  <2> QED
    BY <2>1, <2>2
<1>3. Total(c) \in S[n]
  <2>1. 0 \in S[0]
    OBVIOUS
  <2> HIDE DEF S
  <2> QED
    BY <1>1, <1>2, <2>1, TotalEnds
<1> QED
  BY <1>1, <1>3

-----------------------------------------------------------------------------
(* Flattened sequences.                                                    *)

\* w holds the concatenations of the first terms of s, sequences over S.
Joins(w, s, n, S) ==
    /\ w \in [0..n -> Seq(S)] /\ w[0] = <<>>
    /\ \A k \in 1..n : w[k] = w[k - 1] \o s[k]

LEMMA FlatIs ==
    ASSUME NEW S, NEW s \in Seq(Seq(S)), NEW n \in Nat, n = Len(s), NEW w, Joins(w, s, n, S)
    PROVE  FlattenSeq(s) = w[n]
<1>1. CASE n = 0
  <2>1. s = <<>>
    BY <1>1, EmptySeq
  <2> QED
    BY <1>1, <2>1 DEF FlattenSeq, Joins
<1>2. CASE n # 0
  <2> DEFINE g == CHOOSE f : f = [i \in 1..n |-> IF i = 1 THEN s[i] ELSE f[i - 1] \o s[i]]
             h == [i \in 1..n |-> w[i]]
             v == [i \in 1..n |-> IF i = 1 THEN s[i] ELSE h[i - 1] \o s[i]]
  <2>1. FlattenSeq(s) = g[n]
    BY <1>2, Zenon DEF FlattenSeq
  <2>2. ASSUME NEW i \in 1..n PROVE h[i] = v[i]
    <3>1. CASE i = 1
      <4>1. s[1] \in Seq(S) /\ w[1] = w[0] \o s[1] /\ w[0] = <<>>
        <5>1. 1 \in 1..n /\ 1 - 1 = 0
          BY <3>1
        <5>2. s[1] \in Seq(S)
          BY <5>1, ElementOfSeq
        <5> QED
          BY <5>1, <5>2 DEF Joins
      <4>2. w[1] = s[1]
        BY <4>1, ConcatEmptySeq
      <4> QED
        BY <3>1, <4>2
    <3>2. CASE i # 1
      <4>1. i - 1 \in 1..n
        BY <3>2
      <4>2. w[i] = w[i - 1] \o s[i]
        BY DEF Joins
      <4>3. v[i] = h[i - 1] \o s[i] /\ h[i - 1] = w[i - 1] /\ h[i] = w[i]
        BY <3>2, <4>1
      <4> HIDE DEF v, h
      <4> QED
        BY <4>2, <4>3
    <3> QED
      BY <3>1, <3>2
  <2>3. h = v
    BY <2>2
  <2>4. h = [i \in 1..n |-> IF i = 1 THEN s[i] ELSE h[i - 1] \o s[i]]
    BY <2>3
  <2> HIDE DEF h
  <2>5. g = [i \in 1..n |-> IF i = 1 THEN s[i] ELSE g[i - 1] \o s[i]]
    BY <2>4, Zenon
  <2> HIDE DEF g
  <2> DEFINE T == {m \in Nat : m + 1 <= n => g[m + 1] = w[m + 1]}
  <2>6. 0 \in T
    <3> SUFFICES ASSUME 0 + 1 <= n PROVE g[1] = w[1]
      OBVIOUS
    <3>1. 1 \in 1..n
      OBVIOUS
    <3>2. g[1] = s[1]
      BY <2>5, <3>1
    <3>3. h[1] = s[1]
      BY <2>4, <3>1
    <3> QED
      BY <3>1, <3>2, <3>3 DEF h
  <2>7. ASSUME NEW m \in Nat, m \in T PROVE m + 1 \in T
    <3> SUFFICES ASSUME (m + 1) + 1 <= n PROVE g[(m + 1) + 1] = w[(m + 1) + 1]
      OBVIOUS
    <3>1. (m + 1) + 1 \in 1..n /\ (m + 1) + 1 # 1 /\ ((m + 1) + 1) - 1 = m + 1
      OBVIOUS
    <3>2. g[m + 1] = w[m + 1]
      BY <2>7
    <3>3. w[(m + 1) + 1] = w[m + 1] \o s[(m + 1) + 1]
      BY <3>1 DEF Joins
    <3>4. g[(m + 1) + 1] = g[m + 1] \o s[(m + 1) + 1]
      BY <2>5, <3>1
    <3> QED
      BY <3>2, <3>3, <3>4
  <2>8. n - 1 \in T
    <3> HIDE DEF T
    <3>1. n - 1 \in Nat
      BY <1>2
    <3>2. Nat \subseteq T
      BY <2>6, <2>7, Induction
    <3> QED
      BY <3>1, <3>2
  <2>9. (n - 1) + 1 = n /\ n <= n
    OBVIOUS
  <2> QED
    BY <2>1, <2>8, <2>9
<1> QED
  BY <1>1, <1>2

LEMMA JoinsExist ==
    ASSUME NEW S, NEW s \in Seq(Seq(S)), NEW n \in Nat, n = Len(s)
    PROVE  \E w : Joins(w, s, n, S)
<1> DEFINE F == [q \in Seq(S) \X (0..n) |-> q[1] \o s[q[2]]]
           W == [k \in 0..n |-> Seq(S)]
<1>1. PICK w : Runs(w, n, <<>>, F)
  BY Recursion
<1>2. w[0] = <<>> /\ \A k \in 1..n : w[k] = F[<<w[k - 1], k>>]
  <2> HIDE DEF F
  <2> QED
    BY <1>1 DEF Runs
<1>3. ASSUME NEW k \in 1..n, w[k - 1] \in Seq(S) PROVE w[k] = w[k - 1] \o s[k] /\ w[k] \in Seq(S)
  <2>1. F[<<w[k - 1], k>>] = w[k - 1] \o s[k]
    <3>1. <<w[k - 1], k>> \in Seq(S) \X (0..n)
      BY <1>3
    <3> QED
      BY <3>1
  <2>2. s[k] \in Seq(S)
    OBVIOUS
  <2>3. w[k - 1] \o s[k] \in Seq(S)
    BY <1>3, <2>2, ConcatProperties
  <2> HIDE DEF F
  <2> QED
    BY <1>2, <2>1, <2>3
<1> HIDE DEF F
<1>4. \A k \in 0..n : w[k] \in W[k]
  <2>0. <<>> \in Seq(S) /\ w[0] = <<>> /\ \A k \in 0..n : W[k] = Seq(S)
    BY <1>2
  <2> HIDE DEF W
  <2>1. w[0] \in W[0]
    <3>1. 0 \in 0..n
      OBVIOUS
    <3> QED
      BY <2>0, <3>1
  <2>2. ASSUME NEW k \in 1..n, w[k - 1] \in W[k - 1] PROVE w[k] \in W[k]
    <3>1. W[k - 1] = Seq(S) /\ W[k] = Seq(S)
      BY <2>0
    <3> QED
      BY <1>3, <2>2, <3>1
  <2> HIDE DEF W
  <2> QED
    BY <2>1, <2>2, Walk
<1>5. w \in [0..n -> Seq(S)]
  BY <1>1, <1>4 DEF Runs
<1>6. ASSUME NEW k \in 1..n PROVE w[k] = w[k - 1] \o s[k]
  <2>1. k - 1 \in 0..n
    OBVIOUS
  <2>2. w[k - 1] \in Seq(S)
    BY <1>4, <2>1
  <2> QED
    BY <1>3, <2>2
<1> QED
  BY <1>2, <1>5, <1>6 DEF Joins

LEMMA FlatSeq ==
    ASSUME NEW S, NEW s \in Seq(Seq(S))
    PROVE  FlattenSeq(s) \in Seq(S)
<1> DEFINE n == Len(s)
<1>1. n \in Nat
  OBVIOUS
<1>2. PICK w : Joins(w, s, n, S)
  BY <1>1, JoinsExist
<1>3. FlattenSeq(s) = w[n]
  BY <1>1, <1>2, FlatIs
<1>4. w[n] \in Seq(S)
  BY <1>1, <1>2 DEF Joins
<1> QED
  BY <1>3, <1>4

LEMMA FlatEmpty == FlattenSeq(<<>>) = <<>>
BY DEF FlattenSeq

Regroups(a, b, c) == (a \o b) \o c = a \o (b \o c)

LEMMA Regrouped ==
    ASSUME NEW S, NEW a \in Seq(S), NEW b \in Seq(S), NEW c \in Seq(S)
    PROVE  Regroups(a, b, c)
BY ConcatAssociative DEF Regroups

LEMMA FlatConcat ==
    ASSUME NEW S, NEW s \in Seq(Seq(S)), NEW t \in Seq(Seq(S))
    PROVE  FlattenSeq(s \o t) = FlattenSeq(s) \o FlattenSeq(t)
<1> DEFINE m == Len(s)
           n == Len(t)
<1>0. m \in Nat /\ n \in Nat /\ m + n \in Nat
  OBVIOUS
<1>1. PICK u : Joins(u, s, m, S)
  BY <1>0, JoinsExist
<1>2. PICK v : Joins(v, t, n, S)
  BY <1>0, JoinsExist
<1>3. /\ s \o t \in Seq(Seq(S)) /\ Len(s \o t) = m + n
      /\ \A i \in 1..(m + n) : (s \o t)[i] = IF i <= m THEN s[i] ELSE t[i - m]
  BY ConcatProperties
<1>4. FlattenSeq(s) = u[m] /\ FlattenSeq(t) = v[n]
  BY <1>0, <1>1, <1>2, FlatIs
<1> HIDE DEF m, n
<1> DEFINE w == [k \in 0..(m + n) |-> IF k <= m THEN u[k] ELSE u[m] \o v[k - m]]
<1>5. /\ u \in [0..m -> Seq(S)] /\ u[0] = <<>> /\ \A k \in 1..m : u[k] = u[k - 1] \o s[k]
      /\ v \in [0..n -> Seq(S)] /\ v[0] = <<>> /\ \A k \in 1..n : v[k] = v[k - 1] \o t[k]
  BY <1>1, <1>2 DEF Joins
<1>6. \A k \in 0..(m + n) : k > m => k - m \in 1..n
  BY <1>0
<1>7. ASSUME NEW k \in 0..(m + n) PROVE w[k] \in Seq(S)
  <2>1. CASE k <= m
    BY <1>0, <1>5, <2>1
  <2>2. CASE k > m
    <3>1. u[m] \in Seq(S) /\ v[k - m] \in Seq(S)
      BY <1>0, <1>5, <1>6, <2>2
    <3>2. u[m] \o v[k - m] \in Seq(S)
      BY <3>1, ConcatProperties
    <3> QED
      BY <1>0, <2>2, <3>2
  <2> QED
    BY <1>0, <2>1, <2>2
<1>8. ASSUME NEW k \in 1..(m + n) PROVE w[k] = w[k - 1] \o (s \o t)[k]
  <2>0. k - 1 \in 0..(m + n) /\ k \in 0..(m + n)
    BY <1>0
  <2>1. CASE k <= m
    <3>1. w[k] = u[k] /\ w[k - 1] = u[k - 1] /\ (s \o t)[k] = s[k] /\ k \in 1..m
      BY <1>0, <1>3, <2>0, <2>1
    <3> QED
      BY <1>5, <3>1
  <2>2. CASE k > m
    <3>0. ~(k <= m) /\ k - m \in 1..n
      BY <1>0, <1>6, <2>0, <2>2
    <3>1. w[k] = u[m] \o v[k - m] /\ (s \o t)[k] = t[k - m] /\ k - m \in 1..n
      BY <1>3, <2>0, <3>0
    <3>2. v[k - m] = v[(k - m) - 1] \o t[k - m]
      BY <1>5, <3>1
    <3>3. (k - m) - 1 \in 0..n /\ m \in 0..m
      BY <1>0, <3>1
    <3>4. u[m] \in Seq(S) /\ v[(k - m) - 1] \in Seq(S) /\ t[k - m] \in Seq(S)
      <4>1. t[k - m] \in Seq(S)
        BY <3>1 DEF n
      <4> QED
        BY <1>5, <3>3, <4>1
    <3>5. w[k - 1] = u[m] \o v[(k - m) - 1]
      <4>1. CASE k - 1 = m
        <5>1. w[k - 1] = u[m] /\ v[(k - m) - 1] = <<>>
          BY <1>0, <1>5, <2>0, <4>1
        <5> QED
          BY <3>4, <5>1, ConcatEmptySeq
      <4>2. CASE k - 1 # m
        <5>1. ~(k - 1 <= m) /\ (k - 1) - m = (k - m) - 1
          BY <1>0, <2>2, <4>2
        <5> QED
          BY <2>0, <5>1
      <4> QED
        BY <4>1, <4>2
    <3> HIDE DEF w
    <3>6. (u[m] \o v[(k - m) - 1]) \o t[k - m] = u[m] \o (v[(k - m) - 1] \o t[k - m])
      <4>1. Regroups(u[m], v[(k - m) - 1], t[k - m])
        BY <3>4, Regrouped, Zenon
      <4> QED
        BY <4>1 DEF Regroups
    <3> QED
      BY <3>1, <3>2, <3>5, <3>6
  <2>3. k <= m \/ k > m
    BY <1>0
  <2> QED
    BY <2>1, <2>2, <2>3
<1>9. Joins(w, s \o t, m + n, S)
  <2>1. w[0] = <<>>
    BY <1>0, <1>5
  <2>2. w \in [0..(m + n) -> Seq(S)]
    BY <1>7
  <2> HIDE DEF w
  <2> QED
    BY <1>8, <2>1, <2>2 DEF Joins
<1>10. FlattenSeq(s \o t) = w[m + n]
  <2> HIDE DEF w
  <2> QED
    BY <1>0, <1>3, <1>9, FlatIs
<1>11. w[m + n] = u[m] \o v[n]
  <2>1. CASE n = 0
    <3>1. w[m + n] = u[m] /\ v[n] = <<>> /\ u[m] \in Seq(S)
      BY <1>0, <1>5, <2>1
    <3> QED
      BY <3>1, ConcatEmptySeq
  <2>2. CASE n # 0
    <3>1. m + n \in 0..(m + n) /\ ~(m + n <= m) /\ (m + n) - m = n
      BY <1>0, <2>2
    <3> QED
      BY <3>1
  <2> QED
    BY <2>1, <2>2
<1> QED
  BY <1>4, <1>10, <1>11

LEMMA FlatOne ==
    ASSUME NEW S, NEW e \in Seq(S)
    PROVE  FlattenSeq(<<e>>) = e
<1> DEFINE w == [k \in 0..1 |-> IF k = 0 THEN <<>> ELSE e]
<1>1. Joins(w, <<e>>, 1, S)
  <2>1. w \in [0..1 -> Seq(S)] /\ w[0] = <<>> /\ w[1] = e
    OBVIOUS
  <2>2. <<>> \o e = e
    BY ConcatEmptySeq
  <2> HIDE DEF w
  <2>3. ASSUME NEW k \in 1..1 PROVE w[k] = w[k - 1] \o <<e>>[k]
    <3>1. k = 1 /\ k - 1 = 0
      OBVIOUS
    <3> QED
      BY <2>1, <2>2, <3>1
  <2> QED
    BY <2>1, <2>3 DEF Joins
<1>2. <<e>> \in Seq(Seq(S)) /\ Len(<<e>>) = 1
  OBVIOUS
<1>3. FlattenSeq(<<e>>) = w[1]
  <2> HIDE DEF w
  <2> QED
    BY <1>1, <1>2, FlatIs
<1> QED
  BY <1>3

-----------------------------------------------------------------------------
(* The aggregates of segments.                                             *)

LEMMA MetricsOf ==
    ASSUME NEW c \in Seq(Segments)
    PROVE  /\ [i \in DOMAIN c |-> c[i].metrics] \in Seq(Seq(Aggregates))
           /\ Ledger(c) \in Seq(Aggregates)
<1>1. ASSUME NEW i \in DOMAIN c PROVE c[i].metrics \in Seq(Aggregates)
  <2>1. c[i] \in Segments
    OBVIOUS
  <2> QED
    BY <2>1 DEF Segments
<1>2. [i \in DOMAIN c |-> c[i].metrics] \in Seq(Seq(Aggregates))
  <2>1. DOMAIN c = 1..Len(c) /\ Len(c) \in Nat
    OBVIOUS
  <2> QED
    BY <1>1, <2>1
<1> QED
  BY <1>2, FlatSeq DEF Ledger

LEMMA LedgerConcat ==
    ASSUME NEW c \in Seq(Segments), NEW d \in Seq(Segments)
    PROVE  Ledger(c \o d) = Ledger(c) \o Ledger(d)
<1> DEFINE M(e) == [i \in DOMAIN e |-> e[i].metrics]
<1>1. M(c) \in Seq(Seq(Aggregates)) /\ M(d) \in Seq(Seq(Aggregates))
  BY MetricsOf
<1>2. c \o d \in Seq(Segments) /\ M(c \o d) \in Seq(Seq(Aggregates))
  <2>1. c \o d \in Seq(Segments)
    BY ConcatProperties
  <2> QED
    BY <2>1, MetricsOf
<1>3. M(c \o d) = M(c) \o M(d)
  <2>1. Len(M(c)) = Len(c) /\ Len(M(d)) = Len(d) /\ Len(M(c \o d)) = Len(c \o d)
    OBVIOUS
  <2>2. Len(c) \in Nat /\ Len(d) \in Nat /\ Len(c \o d) = Len(c) + Len(d)
    BY ConcatProperties
  <2>3. M(c) \o M(d) \in Seq(Seq(Aggregates)) /\ Len(M(c) \o M(d)) = Len(c) + Len(d)
    <3>1. M(c) \o M(d) \in Seq(Seq(Aggregates)) /\ Len(M(c) \o M(d)) = Len(M(c)) + Len(M(d))
      <4> HIDE DEF M
      <4> QED
        BY <1>1, ConcatProperties
    <3> QED
      BY <2>1, <3>1
  <2>4. ASSUME NEW i \in 1..(Len(c) + Len(d)) PROVE M(c \o d)[i] = (M(c) \o M(d))[i]
    <3>1. (c \o d)[i] = IF i <= Len(c) THEN c[i] ELSE d[i - Len(c)]
      BY ConcatProperties
    <3>2. (M(c) \o M(d))[i] = IF i <= Len(c) THEN M(c)[i] ELSE M(d)[i - Len(c)]
      <4> HIDE DEF M
      <4> QED
        BY <1>1, <2>1, ConcatProperties
    <3>3. M(c \o d)[i] = (c \o d)[i].metrics
      BY <2>2
    <3>4. CASE i <= Len(c)
      <4>1. M(c)[i] = c[i].metrics
        BY <2>2, <3>4
      <4> HIDE DEF M
      <4> QED
        BY <3>1, <3>2, <3>3, <3>4, <4>1
    <3>5. CASE ~(i <= Len(c))
      <4>1. i - Len(c) \in 1..Len(d)
        BY <2>2, <3>5
      <4>2. M(d)[i - Len(c)] = d[i - Len(c)].metrics
        BY <2>2, <4>1
      <4> HIDE DEF M
      <4> QED
        BY <3>1, <3>2, <3>3, <3>5, <4>2
    <3> QED
      BY <3>4, <3>5
  <2> HIDE DEF M
  <2> QED
    BY <1>2, <2>1, <2>2, <2>3, <2>4, SeqEqual
<1> HIDE DEF M
<1>4. FlattenSeq(M(c \o d)) = FlattenSeq(M(c)) \o FlattenSeq(M(d))
  BY <1>1, <1>3, FlatConcat
<1> QED
  BY <1>4 DEF Ledger, M

LEMMA LedgerOne ==
    ASSUME NEW s \in Segments
    PROVE  Ledger(<<s>>) = s.metrics /\ s.metrics \in Seq(Aggregates)
<1>1. s.metrics \in Seq(Aggregates)
  BY DEF Segments
<1>2. [i \in DOMAIN <<s>> |-> <<s>>[i].metrics] = <<s.metrics>>
  OBVIOUS
<1>3. FlattenSeq(<<s.metrics>>) = s.metrics
  BY <1>1, FlatOne
<1> QED
  BY <1>1, <1>2, <1>3 DEF Ledger

LEMMA LedgerEmpty == Ledger(<<>>) = <<>>
<1>1. [i \in DOMAIN <<>> |-> <<>>[i].metrics] = <<>>
  OBVIOUS
<1> QED
  BY <1>1, FlatEmpty DEF Ledger

LEMMA LedgerAppend ==
    ASSUME NEW c \in Seq(Segments), NEW s \in Segments
    PROVE  Ledger(Append(c, s)) = Ledger(c) \o s.metrics
<1>1. Append(c, s) = c \o <<s>> /\ <<s>> \in Seq(Segments)
  OBVIOUS
<1> QED
  BY <1>1, LedgerConcat, LedgerOne

LEMMA LedgerTail ==
    ASSUME NEW c \in Seq(Segments), c # <<>>
    PROVE  Ledger(c) = Head(c).metrics \o Ledger(Tail(c))
<1>1. c = <<Head(c)>> \o Tail(c) /\ <<Head(c)>> \in Seq(Segments) /\ Tail(c) \in Seq(Segments)
      /\ Head(c) \in Segments
  OBVIOUS
<1>2. Ledger(<<Head(c)>> \o Tail(c)) = Ledger(<<Head(c)>>) \o Ledger(Tail(c))
  BY <1>1, LedgerConcat
<1>3. Ledger(<<Head(c)>>) = Head(c).metrics
  BY <1>1, LedgerOne
<1> QED
  BY <1>1, <1>2, <1>3

-----------------------------------------------------------------------------
(* What dropping, merging and appending aggregates does to a chronicle.    *)

LEMMA AggregateFields ==
    ASSUME NEW c \in Seq(Aggregates), NEW i \in DOMAIN c
    PROVE  /\ c[i] \in Aggregates /\ c[i].family \in Families
           /\ c[i].start \in Nat /\ c[i].end \in Nat /\ c[i].count \in Nat
<1>1. c[i] \in Aggregates
  OBVIOUS
<1> QED
  BY <1>1 DEF Aggregates

LEMMA DeltaFields ==
    ASSUME NEW d, DeltasOK(d), NEW a \in d
    PROVE  a.family \in Families /\ a.start \in Nat /\ a.end \in Nat /\ a.start < a.end
BY DEF DeltasOK

(* c is what is left of e without its first m aggregates.                  *)
Rest(c, e, m) == Len(e) = m + Len(c) /\ \A i \in DOMAIN c : c[i] = e[m + i]

LEMMA RestRecorded ==
    ASSUME NEW c \in Seq(Aggregates), NEW e \in Seq(Aggregates), NEW m \in Nat, Rest(c, e, m),
           NEW d, NEW q, NEW on, Recorded(e, d, q, on)
    PROVE  Recorded(c, d, q, on)
<1> DEFINE n == Len(c)
<1>1. n \in Nat /\ DOMAIN c = 1..n /\ DOMAIN e = 1..(m + n)
  BY DEF Rest
<1>2. \A i \in 1..n : m + i \in 1..(m + n) /\ c[i] = e[m + i]
  BY <1>1 DEF Rest
<1>3. Ordered(c)
  <2>1. \A i \in DOMAIN c : c[i].start < c[i].end
    BY <1>1, <1>2 DEF Recorded, Ordered
  <2>2. ASSUME NEW i \in DOMAIN c, NEW j \in DOMAIN c, i < j, c[i].family = c[j].family
        PROVE  c[i].end <= c[j].start
    <3>1. m + i < m + j
      BY <1>1, <2>2
    <3> QED
      BY <1>1, <1>2, <2>2, <3>1 DEF Recorded, Ordered
  <2> QED
    BY <2>1, <2>2 DEF Ordered
<1>4. Counted(c, d)
  BY <1>1, <1>2 DEF Recorded, Counted
<1>5. Aligned(c, d)
  BY <1>1, <1>2 DEF Recorded, Aligned
<1>6. Reached(c, d, q)
  BY <1>1, <1>2 DEF Recorded, Reached
<1>7. ASSUME NEW i \in DOMAIN c, Loose(c, i) PROVE Loose(e, m + i)
  <2> SUFFICES ASSUME NEW j \in DOMAIN e, e[j].family = e[m + i].family, e[j].start = e[m + i].end
               PROVE  FALSE
    BY DEF Loose
  <2>1. CASE j > m
    <3>1. j - m \in DOMAIN c /\ m + (j - m) = j
      BY <1>1, <2>1
    <3>2. c[j - m] = e[j] /\ c[i] = e[m + i]
      BY <3>1 DEF Rest
    <3> QED
      BY <1>7, <3>1, <3>2 DEF Loose
  <2>2. CASE j <= m
    <3>1. m + i \in DOMAIN e /\ j < m + i
      BY <1>1, <1>2, <2>2
    <3>2. e[j].end <= e[m + i].start /\ e[j].start < e[j].end /\ e[m + i].start < e[m + i].end
      BY <3>1 DEF Recorded, Ordered
    <3>3. e[j].start \in Nat /\ e[j].end \in Nat /\ e[m + i].start \in Nat /\ e[m + i].end \in Nat
      BY <3>1, AggregateFields
    <3> QED
      BY <3>2, <3>3
  <2>3. j \in Int
    BY <1>1
  <2> QED
    BY <2>1, <2>2, <2>3
<1>8. Unbroken(c, q, on)
  <2>1. Unbroken(e, q, on)
    BY DEF Recorded
  <2>2. \A i \in DOMAIN c : m + i \in DOMAIN e /\ c[i] = e[m + i] /\ (Loose(c, i) => Loose(e, m + i))
    BY <1>1, <1>2, <1>7
  <2>3. ASSUME NEW i \in DOMAIN c, NEW j \in DOMAIN c, NEW k \in DOMAIN c,
               Loose(c, i), Loose(c, j), Loose(c, k),
               c[i].family = c[j].family, c[j].family = c[k].family
        PROVE  c[i].end = c[j].end \/ c[j].end = c[k].end \/ c[i].end = c[k].end
    <3>1. Loose(e, m + i) /\ Loose(e, m + j) /\ Loose(e, m + k)
          /\ m + i \in DOMAIN e /\ m + j \in DOMAIN e /\ m + k \in DOMAIN e
          /\ c[i] = e[m + i] /\ c[j] = e[m + j] /\ c[k] = e[m + k]
      BY <2>2, <2>3
    <3> QED
      BY <2>1, <2>3, <3>1, SMTT(30) DEF Unbroken
  <2>4. ASSUME NEW i \in DOMAIN c, NEW j \in DOMAIN c, Loose(c, i), Loose(c, j),
               c[i].family = c[j].family, c[i].family \in on
        PROVE  c[i].end = c[j].end \/ c[i].end = q[c[i].family] \/ c[j].end = q[c[i].family]
    <3>1. Loose(e, m + i) /\ Loose(e, m + j) /\ m + i \in DOMAIN e /\ m + j \in DOMAIN e
          /\ c[i] = e[m + i] /\ c[j] = e[m + j]
      BY <2>2, <2>4
    <3> QED
      BY <2>1, <2>4, <3>1, ZenonT(30) DEF Unbroken
  <2> QED
    BY <2>3, <2>4 DEF Unbroken
<1> QED
  BY <1>3, <1>4, <1>5, <1>6, <1>8 DEF Recorded

LEMMA RestComplete ==
    ASSUME NEW c \in Seq(Aggregates), NEW e \in Seq(Aggregates), NEW m \in Nat, Rest(c, e, m),
           NEW d, DeltasOK(d), NEW t \in Nat, NEW u \in Nat, u <= t, Complete(e, d, u),
           \A i \in 1..m : t - e[i].end >= History, RecorderAssumption
    PROVE  Complete(c, d, t)
<1> SUFFICES ASSUME NEW a \in d, t - a.end < History PROVE \E i \in DOMAIN c : Covers(c[i], a)
  BY DEF Complete
<1>0. a.end \in Nat /\ History \in Nat
  BY DeltaFields DEF RecorderAssumption
<1>1. u - a.end < History
  BY <1>0
<1>2. PICK j \in DOMAIN e : Covers(e[j], a)
  BY <1>1 DEF Complete
<1>3. e[j].end \in Nat /\ a.end <= e[j].end
  BY <1>2, AggregateFields DEF Covers
<1>4. DOMAIN e = 1..(m + Len(c)) /\ DOMAIN c = 1..Len(c) /\ Len(c) \in Nat
  BY DEF Rest
<1>5. j > m
  <2> SUFFICES ASSUME ~(j > m) PROVE FALSE
    OBVIOUS
  <2>1. j \in 1..m
    BY <1>4
  <2> QED
    BY <1>0, <1>3, <2>1
<1>6. j - m \in DOMAIN c /\ m + (j - m) = j
  BY <1>4, <1>5
<1>7. c[j - m] = e[j]
  BY <1>6 DEF Rest
<1> QED
  BY <1>2, <1>6, <1>7

(* In c, the aggregate i of e extends over its continuation k, which is    *)
(* gone.                                                                   *)
Joined(c, e, i, k) ==
    /\ i \in DOMAIN e /\ k \in DOMAIN e /\ i < k
    /\ e[i].family = e[k].family /\ e[i].end = e[k].start
    /\ Len(e) = Len(c) + 1
    /\ c[i] = Lengthening(e[i], e[k])
    /\ \A h \in 1..(k - 1) : h # i => c[h] = e[h]
    /\ \A h \in k..Len(c) : c[h] = e[h + 1]

\* Where an aggregate of c was.
Was(h, k) == IF h < k THEN h ELSE h + 1

Merging(c, e, i, k) ==
    /\ i \in Nat /\ k \in Nat /\ i < k /\ i \in DOMAIN c /\ i \in DOMAIN e /\ k \in DOMAIN e
    /\ DOMAIN c \subseteq Nat /\ DOMAIN e \subseteq Nat
    /\ c[i].family = e[i].family /\ c[i].start = e[i].start /\ c[i].end = e[k].end
    /\ c[i].count = e[i].count + e[k].count
    /\ e[i].family = e[k].family /\ e[i].end = e[k].start

Moving(c, e, i, k) ==
    /\ \A h \in DOMAIN c : /\ Was(h, k) \in DOMAIN e /\ Was(h, k) # k
                           /\ h # i => c[h] = e[Was(h, k)] /\ Was(h, k) # i
    /\ \A j \in DOMAIN e : j # k => \E h \in DOMAIN c : j = Was(h, k)
    /\ \A h, j \in DOMAIN c : h < j => Was(h, k) < Was(j, k)
    /\ Was(i, k) = i

LEMMA JoinedFields ==
    ASSUME NEW c \in Seq(Aggregates), NEW e \in Seq(Aggregates), NEW i, NEW k, Joined(c, e, i, k)
    PROVE  Merging(c, e, i, k) /\ Moving(c, e, i, k)
<1>1. Len(c) \in Nat /\ DOMAIN c = 1..Len(c) /\ DOMAIN e = 1..(Len(c) + 1)
  BY DEF Joined
<1>2. i \in 1..(Len(c) + 1) /\ k \in 1..(Len(c) + 1) /\ i < k
  BY <1>1 DEF Joined
<1>3. i \in DOMAIN c
  BY <1>1, <1>2
<1>4. c[i].family = e[i].family /\ c[i].start = e[i].start /\ c[i].end = e[k].end
      /\ c[i].count = e[i].count + e[k].count
  <2>1. e[i] \in Aggregates
    BY <1>1, <1>2
  <2> QED
    BY <2>1 DEF Joined, Aggregates, Lengthening
<1>5. ASSUME NEW h \in DOMAIN c
      PROVE  /\ Was(h, k) \in DOMAIN e /\ Was(h, k) # k
             /\ h # i => c[h] = e[Was(h, k)] /\ Was(h, k) # i
  <2>1. CASE h < k
    <3>1. h \in 1..(k - 1)
      BY <1>1, <1>2, <2>1
    <3> QED
      BY <1>1, <1>2, <2>1, <3>1 DEF Was, Joined
  <2>2. CASE ~(h < k)
    <3>1. h \in k..Len(c)
      BY <1>1, <1>2, <2>2
    <3> QED
      BY <1>1, <1>2, <2>2, <3>1 DEF Was, Joined
  <2> QED
    BY <2>1, <2>2
<1>6. ASSUME NEW j \in DOMAIN e, j # k PROVE \E h \in DOMAIN c : j = Was(h, k)
  <2>1. CASE j < k
    <3>1. j \in DOMAIN c /\ Was(j, k) = j
      BY <1>1, <1>2, <2>1 DEF Was
    <3> QED
      BY <3>1
  <2>2. CASE j > k
    <3>1. j - 1 \in DOMAIN c /\ Was(j - 1, k) = j
      BY <1>1, <1>2, <2>2 DEF Was
    <3> QED
      BY <3>1
  <2> QED
    BY <1>1, <1>2, <1>6, <2>1, <2>2
<1>7. \A h, j \in DOMAIN c : h < j => Was(h, k) < Was(j, k)
  BY <1>1, <1>2 DEF Was
<1>8. Was(i, k) = i
  BY <1>2 DEF Was
<1>9. DOMAIN c \subseteq Nat /\ DOMAIN e \subseteq Nat /\ i \in Nat /\ k \in Nat /\ i \in DOMAIN e /\ k \in DOMAIN e
  BY <1>1, <1>2
<1>10. Moving(c, e, i, k)
  BY <1>5, <1>6, <1>7, <1>8 DEF Moving
<1>11. Merging(c, e, i, k)
  BY <1>2, <1>3, <1>4, <1>9 DEF Merging, Joined
<1> QED
  BY <1>10, <1>11

LEMMA JoinedOrdered ==
    ASSUME NEW c \in Seq(Aggregates), NEW e \in Seq(Aggregates), NEW i, NEW k, Joined(c, e, i, k),
           Ordered(e)
    PROVE  Ordered(c)
<1>0. Merging(c, e, i, k) /\ Moving(c, e, i, k)
  BY JoinedFields, Zenon
<1>1. /\ i \in Nat /\ k \in Nat /\ i < k /\ i \in DOMAIN c /\ i \in DOMAIN e /\ k \in DOMAIN e
      /\ DOMAIN c \subseteq Nat /\ DOMAIN e \subseteq Nat
      /\ c[i].family = e[i].family /\ c[i].start = e[i].start /\ c[i].end = e[k].end
      /\ e[i].family = e[k].family /\ e[i].end = e[k].start
  BY <1>0 DEF Merging
<1>2. \A h \in DOMAIN c : /\ Was(h, k) \in DOMAIN e /\ Was(h, k) # k
                          /\ h # i => c[h] = e[Was(h, k)] /\ Was(h, k) # i
  BY <1>0 DEF Moving
<1>3. (\A h, j \in DOMAIN c : h < j => Was(h, k) < Was(j, k)) /\ Was(i, k) = i
  BY <1>0 DEF Moving
<1>4. \A h \in DOMAIN e : e[h].start \in Nat /\ e[h].end \in Nat /\ e[h].start < e[h].end
  BY AggregateFields DEF Ordered
<1>5. \A h, j \in DOMAIN e : h < j /\ e[h].family = e[j].family => e[h].end <= e[j].start
  BY DEF Ordered
<1>6. ASSUME NEW h \in DOMAIN c PROVE c[h].start < c[h].end
  <2>1. CASE h = i
    <3>1. e[i].start < e[i].end /\ e[k].start < e[k].end
      BY <1>1, <1>4
    <3>2. e[i].start \in Nat /\ e[i].end \in Nat /\ e[k].end \in Nat
      BY <1>1, <1>4
    <3> QED
      BY <1>1, <2>1, <3>1, <3>2
  <2>2. CASE h # i
    BY <1>2, <1>4, <2>2
  <2> QED
    BY <2>1, <2>2
<1>7. ASSUME NEW h \in DOMAIN c, NEW j \in DOMAIN c, h < j, c[h].family = c[j].family
      PROVE  c[h].end <= c[j].start
  <2>1. Was(h, k) < Was(j, k) /\ Was(h, k) \in DOMAIN e /\ Was(j, k) \in DOMAIN e
    BY <1>2, <1>3, <1>7
  <2>2. CASE h # i /\ j # i
    BY <1>2, <1>5, <1>7, <2>1, <2>2
  <2>3. CASE j = i
    <3>1. h # i /\ c[h] = e[Was(h, k)] /\ Was(j, k) = i
      BY <1>1, <1>2, <1>3, <1>7, <2>3
    <3> QED
      BY <1>1, <1>5, <1>7, <2>1, <2>3, <3>1
  <2>4. CASE h = i
    <3> DEFINE g == Was(j, k)
    <3>1. j # i /\ c[j] = e[g] /\ i < g /\ g # k /\ g \in DOMAIN e
      BY <1>1, <1>2, <1>3, <1>7, <2>1, <2>4
    <3> HIDE DEF g
    <3>2. e[g].family = e[k].family /\ e[g].family = e[i].family
      BY <1>1, <1>7, <2>4, <3>1
    <3>3. ~(g < k)
      <4> SUFFICES ASSUME g < k PROVE FALSE
        OBVIOUS
      <4>1. e[i].end <= e[g].start /\ e[g].end <= e[k].start
        BY <1>1, <1>5, <3>1, <3>2
      <4>2. e[g].start < e[g].end /\ e[g].start \in Nat /\ e[g].end \in Nat /\ e[k].start \in Nat
        BY <1>1, <1>4, <3>1
      <4> QED
        BY <1>1, <4>1, <4>2
    <3>4. k < g
      BY <1>1, <3>1, <3>3
    <3>5. e[k].end <= e[g].start
      BY <1>1, <1>5, <3>1, <3>2, <3>4
    <3> QED
      BY <1>1, <2>4, <3>1, <3>5
  <2> QED
    BY <2>2, <2>3, <2>4
<1> QED
  BY <1>6, <1>7 DEF Ordered

LEMMA JoinedCounted ==
    ASSUME NEW c \in Seq(Aggregates), NEW e \in Seq(Aggregates), NEW i, NEW k, Joined(c, e, i, k),
           Ordered(e), NEW d, DeltasOK(d), Counted(e, d), Aligned(e, d)
    PROVE  Counted(c, d) /\ Aligned(c, d)
<1>0. Merging(c, e, i, k) /\ Moving(c, e, i, k)
  BY JoinedFields, Zenon
<1>1. /\ i \in Nat /\ k \in Nat /\ i < k /\ i \in DOMAIN c /\ i \in DOMAIN e /\ k \in DOMAIN e
      /\ c[i].family = e[i].family /\ c[i].start = e[i].start /\ c[i].end = e[k].end
      /\ c[i].count = e[i].count + e[k].count
      /\ e[i].family = e[k].family /\ e[i].end = e[k].start
  BY <1>0 DEF Merging
<1>2. \A h \in DOMAIN c : /\ Was(h, k) \in DOMAIN e
                          /\ h # i => c[h] = e[Was(h, k)]
  BY <1>0 DEF Moving
<1>3. \A h \in DOMAIN e : e[h].start \in Nat /\ e[h].end \in Nat /\ e[h].start < e[h].end
  BY AggregateFields DEF Ordered
<1>4. \A a \in d : a.start \in Nat /\ a.end \in Nat /\ a.start < a.end
  BY DeltaFields
<1>5. ASSUME NEW a \in d
      PROVE  /\ Covers(c[i], a) <=> Covers(e[i], a) \/ Covers(e[k], a)
             /\ ~(Covers(e[i], a) /\ Covers(e[k], a))
             /\ a.family = c[i].family => a.end <= c[i].start \/ c[i].end <= a.start \/ Covers(c[i], a)
  <2>1. a.start \in Nat /\ a.end \in Nat /\ a.start < a.end
    BY <1>4
  <2>2. /\ e[i].start \in Nat /\ e[i].end \in Nat /\ e[i].start < e[i].end
        /\ e[k].start \in Nat /\ e[k].end \in Nat /\ e[k].start < e[k].end
    BY <1>1, <1>3
  <2>3. /\ a.family = e[i].family => a.end <= e[i].start \/ e[i].end <= a.start \/ Covers(e[i], a)
        /\ a.family = e[k].family => a.end <= e[k].start \/ e[k].end <= a.start \/ Covers(e[k], a)
    BY <1>1 DEF Aligned
  <2> QED
    BY <1>1, <2>1, <2>2, <2>3 DEF Covers
<1>6. Aligned(c, d)
  <2> SUFFICES ASSUME NEW h \in DOMAIN c, NEW a \in d, a.family = c[h].family
               PROVE  a.end <= c[h].start \/ c[h].end <= a.start \/ Covers(c[h], a)
    BY DEF Aligned
  <2>1. CASE h = i
    BY <1>5, <2>1
  <2>2. CASE h # i
    BY <1>2, <2>2 DEF Aligned
  <2> QED
    BY <2>1, <2>2
<1>7. Counted(c, d)
  <2> SUFFICES ASSUME NEW h \in DOMAIN c
               PROVE  c[h].count = Cardinality({a \in d : Covers(c[h], a)})
    BY DEF Counted
  <2>1. CASE h # i
    BY <1>2, <2>1 DEF Counted
  <2>2. CASE h = i
    <3> DEFINE P == {a \in d : Covers(e[i], a)}
               Q == {a \in d : Covers(e[k], a)}
               R == {a \in d : Covers(c[i], a)}
    <3>1. R = P \cup Q /\ P \cap Q = {}
      BY <1>5
    <3>2. IsFiniteSet(P) /\ IsFiniteSet(Q)
      <4>1. IsFiniteSet(d) /\ P \subseteq d /\ Q \subseteq d
        BY DEF DeltasOK
      <4> HIDE DEF P, Q
      <4> QED
        BY <4>1, FS_Subset
    <3>3. e[i].count = Cardinality(P) /\ e[k].count = Cardinality(Q)
      BY <1>1 DEF Counted
    <3> HIDE DEF P, Q, R
    <3>4. Cardinality(P \cup Q) = Cardinality(P) + Cardinality(Q) - Cardinality(P \cap Q)
      BY <3>2, FS_Union
    <3>5. Cardinality(P \cap Q) = 0
      BY <3>1, FS_EmptySet
    <3>6. Cardinality(P) \in Nat /\ Cardinality(Q) \in Nat
      BY <3>2, FS_CardinalityType
    <3>7. Cardinality(R) = e[i].count + e[k].count
      BY <3>1, <3>3, <3>4, <3>5, <3>6
    <3> QED
      BY <1>1, <2>2, <3>7 DEF R
  <2> QED
    BY <2>1, <2>2
<1> QED
  BY <1>6, <1>7

LEMMA JoinedRecorded ==
    ASSUME NEW c \in Seq(Aggregates), NEW e \in Seq(Aggregates), NEW i, NEW k, Joined(c, e, i, k),
           NEW d, DeltasOK(d), NEW q, NEW on, Recorded(e, d, q, on)
    PROVE  Recorded(c, d, q, on)
<1>0. Merging(c, e, i, k) /\ Moving(c, e, i, k)
  BY JoinedFields, Zenon
<1>1. /\ i \in Nat /\ k \in Nat /\ i < k /\ i \in DOMAIN c /\ i \in DOMAIN e /\ k \in DOMAIN e
      /\ DOMAIN c \subseteq Nat /\ DOMAIN e \subseteq Nat
      /\ c[i].family = e[i].family /\ c[i].start = e[i].start /\ c[i].end = e[k].end
      /\ e[i].family = e[k].family /\ e[i].end = e[k].start
  BY <1>0 DEF Merging
<1>2. \A h \in DOMAIN c : /\ Was(h, k) \in DOMAIN e
                          /\ h # i => c[h] = e[Was(h, k)]
  BY <1>0 DEF Moving
<1>3. (\A j \in DOMAIN e : j # k => \E h \in DOMAIN c : j = Was(h, k)) /\ Was(i, k) = i
  BY <1>0 DEF Moving
<1>4. Ordered(e) /\ Counted(e, d) /\ Aligned(e, d) /\ Reached(e, d, q) /\ Unbroken(e, q, on)
  BY DEF Recorded
<1>5. Ordered(c)
  BY <1>4, JoinedOrdered
<1>6. Counted(c, d) /\ Aligned(c, d)
  BY <1>4, JoinedCounted
<1>7. Reached(c, d, q)
  <2> SUFFICES ASSUME NEW h \in DOMAIN c PROVE c[h].end <= q[c[h].family]
    BY <1>4 DEF Reached
  <2>1. CASE h = i
    BY <1>1, <1>4, <2>1 DEF Reached
  <2>2. CASE h # i
    BY <1>2, <1>4, <2>2 DEF Reached
  <2> QED
    BY <2>1, <2>2
<1> DEFINE Old(h) == IF h = i THEN k ELSE Was(h, k)
<1>8. ASSUME NEW h \in DOMAIN c
      PROVE  /\ Old(h) \in DOMAIN e
             /\ c[h].family = e[Old(h)].family /\ c[h].end = e[Old(h)].end
  BY <1>1, <1>2
<1>9. ASSUME NEW h \in DOMAIN c, Loose(c, h) PROVE Loose(e, Old(h))
  <2> SUFFICES ASSUME NEW j \in DOMAIN e, e[j].family = e[Old(h)].family, e[j].start = e[Old(h)].end
               PROVE  FALSE
    BY DEF Loose
  <2> HIDE DEF Old
  <2>1. CASE j # k
    <3>1. PICK g \in DOMAIN c : j = Was(g, k)
      BY <1>3, <2>1
    <3>2. c[g].family = e[j].family /\ c[g].start = e[j].start
      <4>1. CASE g = i
        BY <1>1, <1>3, <3>1, <4>1
      <4>2. CASE g # i
        BY <1>2, <3>1, <4>2
      <4> QED
        BY <4>1, <4>2
    <3> QED
      BY <1>8, <1>9, <3>2 DEF Loose
  <2>2. CASE j = k
    <3>0. e[Old(h)].family = e[i].family /\ e[Old(h)].end = e[i].end
      BY <1>1, <2>2
    <3>1. Old(h) = i
      <4>1. Old(h) \in DOMAIN e /\ Old(h) \in Nat
        BY <1>1, <1>8
      <4>2. /\ e[i].start \in Nat /\ e[i].end \in Nat /\ e[i].start < e[i].end
            /\ e[Old(h)].start \in Nat /\ e[Old(h)].end \in Nat /\ e[Old(h)].start < e[Old(h)].end
        BY <1>1, <1>4, <4>1, AggregateFields DEF Ordered
      <4>3. ~(Old(h) < i) /\ ~(i < Old(h))
        <5>1. Old(h) < i => e[Old(h)].end <= e[i].start
          BY <1>1, <1>4, <3>0, <4>1 DEF Ordered
        <5>2. i < Old(h) => e[i].end <= e[Old(h)].start
          BY <1>1, <1>4, <3>0, <4>1 DEF Ordered
        <5> QED
          BY <3>0, <4>2, <5>1, <5>2
      <4> QED
        BY <1>1, <4>1, <4>3
    <3>2. CASE h = i
      BY <1>1, <3>1, <3>2 DEF Old
    <3>3. CASE h # i
      <4>1. Was(h, k) # i
        BY <1>0, <3>3 DEF Moving
      <4> QED
        BY <3>1, <3>3, <4>1 DEF Old
    <3> QED
      BY <3>2, <3>3
  <2> QED
    BY <2>1, <2>2
<1> HIDE DEF Old
<1>10. Unbroken(c, q, on)
  <2>1. ASSUME NEW x \in DOMAIN c, NEW y \in DOMAIN c, NEW z \in DOMAIN c,
               Loose(c, x), Loose(c, y), Loose(c, z),
               c[x].family = c[y].family, c[y].family = c[z].family
        PROVE  c[x].end = c[y].end \/ c[y].end = c[z].end \/ c[x].end = c[z].end
    <3>1. Loose(e, Old(x)) /\ Loose(e, Old(y)) /\ Loose(e, Old(z))
      BY <1>9, <2>1
    <3> QED
      BY <1>4, <1>8, <2>1, <3>1 DEF Unbroken
  <2>2. ASSUME NEW x \in DOMAIN c, NEW y \in DOMAIN c, Loose(c, x), Loose(c, y),
               c[x].family = c[y].family, c[x].family \in on
        PROVE  c[x].end = c[y].end \/ c[x].end = q[c[x].family] \/ c[y].end = q[c[x].family]
    <3>1. Loose(e, Old(x)) /\ Loose(e, Old(y))
      BY <1>9, <2>2
    <3> QED
      BY <1>4, <1>8, <2>2, <3>1, SMTT(30) DEF Unbroken
  <2> QED
    BY <2>1, <2>2 DEF Unbroken
<1> QED
  BY <1>5, <1>6, <1>7, <1>10 DEF Recorded

LEMMA JoinedComplete ==
    ASSUME NEW c \in Seq(Aggregates), NEW e \in Seq(Aggregates), NEW i, NEW k, Joined(c, e, i, k),
           NEW d, DeltasOK(d), Ordered(e), NEW t, Complete(e, d, t)
    PROVE  Complete(c, d, t)
<1> SUFFICES ASSUME NEW a \in d, t - a.end < History PROVE \E h \in DOMAIN c : Covers(c[h], a)
  BY DEF Complete
<1>0. Merging(c, e, i, k) /\ Moving(c, e, i, k)
  BY JoinedFields, Zenon
<1>1. PICK j \in DOMAIN e : Covers(e[j], a)
  BY DEF Complete
<1>2. /\ i \in DOMAIN c /\ i \in DOMAIN e /\ k \in DOMAIN e
      /\ c[i].family = e[i].family /\ c[i].start = e[i].start /\ c[i].end = e[k].end
      /\ e[i].family = e[k].family /\ e[i].end = e[k].start
  BY <1>0 DEF Merging
<1>3. a.start \in Nat /\ a.end \in Nat
  BY DeltaFields
<1>4. /\ e[i].start \in Nat /\ e[i].end \in Nat /\ e[i].start < e[i].end
      /\ e[k].start \in Nat /\ e[k].end \in Nat /\ e[k].start < e[k].end
  BY <1>2, AggregateFields DEF Ordered
<1>5. CASE j = i \/ j = k
  <2>1. Covers(c[i], a)
    BY <1>1, <1>2, <1>3, <1>4, <1>5 DEF Covers
  <2> QED
    BY <1>2, <2>1
<1>6. CASE j # i /\ j # k
  <2>1. PICK h \in DOMAIN c : j = Was(h, k)
    BY <1>0, <1>6 DEF Moving
  <2>2. Was(i, k) = i
    BY <1>0 DEF Moving
  <2>3. h # i
    BY <1>6, <2>1, <2>2
  <2>4. c[h] = e[j]
    BY <1>0, <2>1, <2>3 DEF Moving
  <2> QED
    BY <1>1, <2>4
<1> QED
  BY <1>5, <1>6

-----------------------------------------------------------------------------
(* Collections: the frontier of the sensors moves.                         *)

\* m is a collection of its sensor that starts where the last one ended.
Fresh(m, q) ==
    /\ m \in Aggregates /\ m.count = 1 /\ m.start = q[m.family] /\ m.start < m.end /\ 1 <= m.start

Moved(q, m) == [q EXCEPT ![m.family] = m.end]

LEMMA FreshFields ==
    ASSUME NEW m, NEW q, Fresh(m, q)
    PROVE  m \in Aggregates /\ m.family \in Families /\ m.start \in Nat /\ m.end \in Nat /\ m.count = 1
           /\ m.start = q[m.family] /\ m.start < m.end /\ 1 <= m.start
BY DEF Fresh, Aggregates

LEMMA FreshOK ==
    ASSUME NEW m, NEW q, Fresh(m, q), NEW d, DeltasOK(d)
    PROVE  DeltasOK(d \cup {m})
<1>1. m \in [family : Families, start : Nat, end : Nat, count : {1}] /\ m.start < m.end
  BY DEF Fresh, Aggregates
<1>2. IsFiniteSet(d \cup {m})
  BY FS_AddElement DEF DeltasOK
<1> QED
  BY <1>1, <1>2 DEF DeltasOK

LEMMA AppendFields ==
    ASSUME NEW c \in Seq(Aggregates), NEW m \in Aggregates
    PROVE  /\ Append(c, m) \in Seq(Aggregates) /\ Len(c) \in Nat
           /\ DOMAIN c = 1..Len(c) /\ DOMAIN Append(c, m) = 1..(Len(c) + 1)
           /\ Append(c, m)[Len(c) + 1] = m
           /\ \A i \in DOMAIN c : i \in DOMAIN Append(c, m) /\ Append(c, m)[i] = c[i] /\ i < Len(c) + 1
           /\ \A i \in DOMAIN Append(c, m) : i \in DOMAIN c \/ i = Len(c) + 1
OBVIOUS

\* The facts of a collection m taken over a chronicle c.
Taking(c, d, q, m) ==
    /\ \A i \in DOMAIN c : /\ c[i].start \in Nat /\ c[i].end \in Nat /\ c[i].start < c[i].end
                           /\ c[i].family = m.family => c[i].end <= m.start
    /\ \A a \in d : /\ a.start \in Nat /\ a.end \in Nat /\ a.start < a.end
                    /\ a.family = m.family => a.end <= m.start

LEMMA FreshTaking ==
    ASSUME NEW c \in Seq(Aggregates), NEW d, DeltasOK(d), NEW q, NEW on, Recorded(c, d, q, on),
           NEW m, Fresh(m, q)
    PROVE  Taking(c, d, q, m)
<1>1. \A i \in DOMAIN c : c[i].start \in Nat /\ c[i].end \in Nat /\ c[i].start < c[i].end
  BY AggregateFields DEF Recorded, Ordered
<1>2. \A a \in d : a.start \in Nat /\ a.end \in Nat /\ a.start < a.end
  BY DeltaFields
<1>3. \A i \in DOMAIN c : c[i].family = m.family => c[i].end <= m.start
  BY FreshFields DEF Recorded, Reached
<1>4. \A a \in d : a.family = m.family => a.end <= m.start
  BY FreshFields DEF Recorded, Reached
<1> QED
  BY <1>1, <1>2, <1>3, <1>4 DEF Taking

LEMMA FreshOrdered ==
    ASSUME NEW c \in Seq(Aggregates), NEW d, NEW q, NEW m, Fresh(m, q), Taking(c, d, q, m), Ordered(c)
    PROVE  Ordered(Append(c, m))
<1> DEFINE e == Append(c, m)
           n == Len(c) + 1
<1>0. m \in Aggregates
  BY FreshFields
<1>1. /\ e[n] = m /\ \A i \in DOMAIN c : i \in DOMAIN e /\ e[i] = c[i] /\ i < n
      /\ \A i \in DOMAIN e : i \in DOMAIN c \/ i = n
  BY <1>0, AppendFields
<1>2. m.start < m.end
  BY FreshFields
<1>3. n \in Nat /\ DOMAIN e = 1..n
  BY <1>0, AppendFields
<1> HIDE DEF e, n
<1>4. ASSUME NEW i \in DOMAIN e PROVE e[i].start < e[i].end
  BY <1>1, <1>2 DEF Ordered
<1>5. ASSUME NEW i \in DOMAIN e, NEW j \in DOMAIN e, i < j, e[i].family = e[j].family
      PROVE  e[i].end <= e[j].start
  <2>1. i \in DOMAIN c
    BY <1>1, <1>3, <1>5
  <2>2. CASE j = n
    BY <1>1, <1>5, <2>1, <2>2 DEF Taking
  <2>3. CASE j \in DOMAIN c
    BY <1>1, <1>5, <2>1, <2>3 DEF Ordered
  <2> QED
    BY <1>1, <2>2, <2>3
<1> QED
  BY <1>4, <1>5 DEF Ordered, e

LEMMA FreshCounted ==
    ASSUME NEW c \in Seq(Aggregates), NEW d, DeltasOK(d), NEW q, NEW m, Fresh(m, q),
           Taking(c, d, q, m), Counted(c, d), Aligned(c, d)
    PROVE  Counted(Append(c, m), d \cup {m}) /\ Aligned(Append(c, m), d \cup {m})
<1> DEFINE e == Append(c, m)
           n == Len(c) + 1
<1>0. m \in Aggregates /\ m.start \in Nat /\ m.end \in Nat /\ m.start < m.end /\ m.count = 1
  BY FreshFields
<1>1. /\ e[n] = m /\ \A i \in DOMAIN c : i \in DOMAIN e /\ e[i] = c[i]
      /\ \A i \in DOMAIN e : i \in DOMAIN c \/ i = n
  BY <1>0, AppendFields
<1> HIDE DEF e, n
<1>2. \A i \in DOMAIN c : ~Covers(c[i], m)
  BY <1>0 DEF Taking, Covers
<1>3. \A a \in d : ~Covers(m, a)
  BY <1>0 DEF Taking, Covers
<1>4. Covers(m, m)
  BY <1>0 DEF Covers
<1>5. ASSUME NEW i \in DOMAIN e PROVE e[i].count = Cardinality({a \in d \cup {m} : Covers(e[i], a)})
  <2>1. CASE i \in DOMAIN c
    <3>1. {a \in d \cup {m} : Covers(e[i], a)} = {a \in d : Covers(c[i], a)}
      BY <1>1, <1>2, <2>1
    <3> QED
      BY <1>1, <2>1, <3>1 DEF Counted
  <2>2. CASE i = n
    <3>1. {a \in d \cup {m} : Covers(e[i], a)} = {m}
      BY <1>1, <1>3, <1>4, <2>2
    <3>2. Cardinality({m}) = 1
      BY FS_Singleton
    <3> QED
      BY <1>0, <1>1, <2>2, <3>1, <3>2
  <2> QED
    BY <1>1, <2>1, <2>2
<1>6. ASSUME NEW i \in DOMAIN e, NEW a \in d \cup {m}, a.family = e[i].family
      PROVE  a.end <= e[i].start \/ e[i].end <= a.start \/ Covers(e[i], a)
  <2>1. CASE i \in DOMAIN c /\ a \in d
    BY <1>1, <1>6, <2>1 DEF Aligned
  <2>2. CASE i = n
    BY <1>1, <1>4, <1>6, <2>2 DEF Taking
  <2>3. CASE i \in DOMAIN c /\ a = m
    BY <1>1, <1>6, <2>3 DEF Taking
  <2> QED
    BY <1>1, <2>1, <2>2, <2>3
<1> QED
  BY <1>5, <1>6 DEF Counted, Aligned, e

LEMMA FreshReached ==
    ASSUME NEW c \in Seq(Aggregates), NEW d, DeltasOK(d), NEW q \in [Families -> Nat], NEW m, Fresh(m, q),
           Taking(c, d, q, m), Reached(c, d, q)
    PROVE  Reached(Append(c, m), d \cup {m}, Moved(q, m))
<1> DEFINE e == Append(c, m)
           n == Len(c) + 1
           p == Moved(q, m)
<1>0. m \in Aggregates /\ m.family \in Families /\ m.start \in Nat /\ m.end \in Nat /\ m.start < m.end
  BY FreshFields
<1>1. /\ e[n] = m /\ \A i \in DOMAIN c : i \in DOMAIN e /\ e[i] = c[i]
      /\ \A i \in DOMAIN e : i \in DOMAIN c \/ i = n
  BY <1>0, AppendFields
<1>2. p[m.family] = m.end /\ \A f \in Families : f # m.family => p[f] = q[f]
  BY <1>0 DEF Moved
<1> HIDE DEF e, n, p
<1>3. ASSUME NEW i \in DOMAIN e PROVE e[i].end <= p[e[i].family]
  <2>1. CASE i = n
    BY <1>0, <1>1, <1>2, <2>1
  <2>2. CASE i \in DOMAIN c /\ c[i].family = m.family
    <3>1. c[i].end <= m.start /\ c[i].end \in Nat
      BY <2>2 DEF Taking
    <3> QED
      BY <1>0, <1>1, <1>2, <2>2, <3>1
  <2>3. CASE i \in DOMAIN c /\ c[i].family # m.family
    <3>1. c[i].family \in Families
      BY <2>3, AggregateFields
    <3> QED
      BY <1>1, <1>2, <2>3, <3>1 DEF Reached
  <2> QED
    BY <1>1, <2>1, <2>2, <2>3
<1>4. ASSUME NEW a \in d \cup {m} PROVE a.end <= p[a.family]
  <2>1. CASE a = m
    BY <1>0, <1>2, <2>1
  <2>2. CASE a \in d /\ a.family = m.family
    <3>1. a.end <= m.start /\ a.end \in Nat
      BY <2>2 DEF Taking
    <3> QED
      BY <1>0, <1>2, <2>2, <3>1
  <2>3. CASE a \in d /\ a.family # m.family
    <3>1. a.family \in Families
      BY <2>3, DeltaFields
    <3> QED
      BY <1>2, <2>3, <3>1 DEF Reached
  <2> QED
    BY <2>1, <2>2, <2>3
<1> QED
  BY <1>3, <1>4 DEF Reached, e, p

LEMMA FreshLoose ==
    ASSUME NEW c \in Seq(Aggregates), NEW m \in Aggregates, NEW i \in DOMAIN c, Loose(Append(c, m), i)
    PROVE  Loose(c, i) /\ (c[i].family = m.family => c[i].end # m.start)
<1>1. /\ Append(c, m)[Len(c) + 1] = m /\ Len(c) + 1 \in DOMAIN Append(c, m)
      /\ \A j \in DOMAIN c : j \in DOMAIN Append(c, m) /\ Append(c, m)[j] = c[j]
  BY AppendFields
<1> QED
  BY <1>1 DEF Loose

LEMMA FreshUnbroken ==
    ASSUME NEW c \in Seq(Aggregates), NEW d, NEW q \in [Families -> Nat], NEW on, NEW m, Fresh(m, q),
           m.family \in on, Unbroken(c, q, on)
    PROVE  Unbroken(Append(c, m), Moved(q, m), on)
<1> DEFINE e == Append(c, m)
           n == Len(c) + 1
           p == Moved(q, m)
           f == m.family
<1>0. m \in Aggregates /\ f \in Families /\ m.start = q[f]
  BY FreshFields
<1>1. /\ e[n] = m /\ \A i \in DOMAIN c : i \in DOMAIN e /\ e[i] = c[i]
      /\ \A i \in DOMAIN e : i \in DOMAIN c \/ i = n
  BY <1>0, AppendFields
<1>2. p[f] = m.end /\ \A g \in Families : g # f => p[g] = q[g]
  BY <1>0 DEF Moved
<1>3. \A i \in DOMAIN c : Loose(e, i) => Loose(c, i) /\ (c[i].family = f => c[i].end # m.start)
  BY <1>0, FreshLoose
<1>4. \A i \in DOMAIN c : c[i].family \in Families
  BY AggregateFields
<1> HIDE DEF e, n, p, f
<1>5. ASSUME NEW i \in DOMAIN c, NEW j \in DOMAIN c, Loose(e, i), Loose(e, j),
             c[i].family = f, c[j].family = f
      PROVE  c[i].end = c[j].end
  BY <1>0, <1>3, <1>5 DEF Unbroken, f
<1>6. ASSUME NEW i \in DOMAIN e, NEW j \in DOMAIN e, NEW k \in DOMAIN e,
             Loose(e, i), Loose(e, j), Loose(e, k),
             e[i].family = e[j].family, e[j].family = e[k].family
      PROVE  e[i].end = e[j].end \/ e[j].end = e[k].end \/ e[i].end = e[k].end
  <2>1. CASE i = n \/ j = n \/ k = n
    <3>1. e[i].family = f /\ e[j].family = f /\ e[k].family = f
      BY <1>1, <1>6, <2>1 DEF f
    <3> QED
      BY <1>1, <1>5, <1>6, <2>1, <3>1
  <2>2. CASE i # n /\ j # n /\ k # n
    <3>1. i \in DOMAIN c /\ j \in DOMAIN c /\ k \in DOMAIN c
      BY <1>1, <2>2
    <3>2. e[i] = c[i] /\ e[j] = c[j] /\ e[k] = c[k] /\ Loose(c, i) /\ Loose(c, j) /\ Loose(c, k)
      BY <1>1, <1>3, <1>6, <3>1
    <3> QED
      BY <1>6, <3>1, <3>2 DEF Unbroken
  <2> QED
    BY <2>1, <2>2
<1>7. ASSUME NEW i \in DOMAIN e, NEW j \in DOMAIN e, Loose(e, i), Loose(e, j),
             e[i].family = e[j].family, e[i].family \in on
      PROVE  e[i].end = e[j].end \/ e[i].end = p[e[i].family] \/ e[j].end = p[e[i].family]
  <2>1. CASE i = n \/ j = n
    <3>1. e[i].family = f /\ p[f] = m.end
      BY <1>1, <1>2, <1>7, <2>1 DEF f
    <3> QED
      BY <1>1, <2>1, <3>1
  <2>2. CASE i # n /\ j # n
    <3>1. i \in DOMAIN c /\ j \in DOMAIN c /\ e[i] = c[i] /\ e[j] = c[j]
      BY <1>1, <2>2
    <3>2. CASE c[i].family = f
      BY <1>5, <1>7, <3>1, <3>2
    <3>3. CASE c[i].family # f
      <4>1. p[c[i].family] = q[c[i].family] /\ Loose(c, i) /\ Loose(c, j)
        BY <1>2, <1>3, <1>4, <1>7, <3>1, <3>3
      <4> QED
        BY <1>7, <3>1, <4>1 DEF Unbroken
    <3> QED
      BY <3>2, <3>3
  <2> QED
    BY <2>1, <2>2
<1> QED
  BY <1>6, <1>7, SMTT(30) DEF Unbroken, e, p

LEMMA FreshRecorded ==
    ASSUME NEW c \in Seq(Aggregates), NEW d, DeltasOK(d), NEW q \in [Families -> Nat], NEW on,
           Recorded(c, d, q, on), NEW m, Fresh(m, q), m.family \in on
    PROVE  Recorded(Append(c, m), d \cup {m}, Moved(q, m), on)
<1>1. Taking(c, d, q, m)
  BY FreshTaking
<1>2. Ordered(c) /\ Counted(c, d) /\ Aligned(c, d) /\ Reached(c, d, q) /\ Unbroken(c, q, on)
  BY DEF Recorded
<1>3. Ordered(Append(c, m))
  BY <1>1, <1>2, FreshOrdered
<1>4. Counted(Append(c, m), d \cup {m}) /\ Aligned(Append(c, m), d \cup {m})
  BY <1>1, <1>2, FreshCounted
<1>5. Reached(Append(c, m), d \cup {m}, Moved(q, m))
  BY <1>1, <1>2, FreshReached
<1>6. Unbroken(Append(c, m), Moved(q, m), on)
  BY <1>2, FreshUnbroken
<1> QED
  BY <1>3, <1>4, <1>5, <1>6 DEF Recorded

LEMMA FreshComplete ==
    ASSUME NEW c \in Seq(Aggregates), NEW d, NEW q, NEW m, Fresh(m, q), NEW t, Complete(c, d, t)
    PROVE  Complete(Append(c, m), d \cup {m}, t)
<1> SUFFICES ASSUME NEW a \in d \cup {m}, t - a.end < History
             PROVE  \E i \in DOMAIN Append(c, m) : Covers(Append(c, m)[i], a)
  BY DEF Complete
<1>0. m \in Aggregates /\ m.start \in Nat /\ m.end \in Nat
  BY FreshFields
<1>1. /\ Append(c, m)[Len(c) + 1] = m /\ Len(c) + 1 \in DOMAIN Append(c, m)
      /\ \A j \in DOMAIN c : j \in DOMAIN Append(c, m) /\ Append(c, m)[j] = c[j]
  BY <1>0, AppendFields
<1>2. CASE a = m
  <2>1. Covers(m, m)
    BY <1>0 DEF Covers
  <2> QED
    BY <1>1, <1>2, <2>1
<1>3. CASE a \in d
  <2>1. PICK i \in DOMAIN c : Covers(c[i], a)
    BY <1>3 DEF Complete
  <2> QED
    BY <1>1, <2>1
<1> QED
  BY <1>2, <1>3

\* p is a later frontier than q that differs only for sensors out of on.
Later(p, q, on) ==
    /\ \A f \in Families : p[f] \in Nat /\ q[f] \in Nat /\ q[f] <= p[f]
    /\ \A f \in on : p[f] = q[f]

LEMMA LaterRecorded ==
    ASSUME NEW c \in Seq(Aggregates), NEW d, DeltasOK(d), NEW q, NEW on, Recorded(c, d, q, on),
           NEW p, NEW some, some \subseteq on, Later(p, q, some)
    PROVE  Recorded(c, d, p, some)
<1>1. Reached(c, d, p)
  <2>1. ASSUME NEW i \in DOMAIN c PROVE c[i].end <= p[c[i].family]
    <3>1. c[i].family \in Families /\ c[i].end \in Nat /\ c[i].end <= q[c[i].family]
      BY AggregateFields DEF Recorded, Reached
    <3> QED
      BY <3>1 DEF Later
  <2>2. ASSUME NEW a \in d PROVE a.end <= p[a.family]
    <3>1. a.family \in Families /\ a.end \in Nat /\ a.end <= q[a.family]
      BY DeltaFields DEF Recorded, Reached
    <3> QED
      BY <3>1 DEF Later
  <2> QED
    BY <2>1, <2>2 DEF Reached
<1>2. Unbroken(c, p, some)
  <2>1. Unbroken(c, q, on)
    BY DEF Recorded
  <2> QED
    BY <2>1 DEF Unbroken, Later
<1> QED
  BY <1>1, <1>2 DEF Recorded

LEMMA LaterContiguous ==
    ASSUME NEW s, NEW q, NEW on, Contiguous(s, q, on),
           NEW p, NEW some, some \subseteq on, Later(p, q, some)
    PROVE  Contiguous(s, p, some)
BY DEF Contiguous, Later
-----------------------------------------------------------------------------
(* The books through the operations that drop a segment.                   *)

LEMMA SegmentFields ==
    ASSUME NEW s \in Segments
    PROVE  /\ s.start \in Nat /\ s.end \in Nat /\ s.min \in Nat /\ s.max \in Nat /\ s.bytes \in Int
           /\ s.events \in Seq(Nat) /\ s.ecap \in Nat /\ s.metrics \in Seq(Aggregates) /\ s.mcap \in Nat
BY DEF Segments

LEMMA RecorderFields ==
    ASSUME NEW r \in Recorders
    PROVE  /\ r.bytes \in Int /\ r.rollups \in Seq(Segments)
           /\ r.rollupActive # NoRollup => r.rollupActive \in Segments
           /\ r.sealed \in Seq(Segments) /\ r.active \in Segments
           /\ r.aggregateEvictions \in Nat /\ r.rollupBucket \in Int
           /\ r.drops \in Nat /\ r.evictions \in Nat
BY DEF Recorders

\* The rest of a sequence.
Shifted(c) ==
    /\ Head(c) = c[1] /\ 1 \in DOMAIN c /\ Len(Tail(c)) = Len(c) - 1
    /\ \A i \in DOMAIN Tail(c) : i + 1 \in DOMAIN c /\ Tail(c)[i] = c[i + 1] /\ i \in Nat

LEMMA TailFields ==
    ASSUME NEW S, NEW c \in Seq(S), c # <<>>
    PROVE  Shifted(c) /\ Tail(c) \in Seq(S) /\ Head(c) \in S
BY DEF Shifted

LEMMA AppendedFields ==
    ASSUME NEW S, NEW c \in Seq(S), NEW s \in S
    PROVE  /\ Append(c, s) \in Seq(S) /\ Len(c) \in Nat /\ Append(c, s)[Len(c) + 1] = s
           /\ \A i \in DOMAIN c : Append(c, s)[i] = c[i] /\ i < Len(c) + 1
           /\ \A i \in DOMAIN Append(c, s) : i \in Nat /\ (i \in DOMAIN c \/ i = Len(c) + 1)
OBVIOUS

\* z is r without its oldest sealed segment.
Unsealed(r, z) ==
    /\ z \in Recorders /\ z.bytes = r.bytes - Head(r.sealed).bytes /\ z.sealed = Tail(r.sealed)
    /\ z.rollups = r.rollups /\ z.rollupActive = r.rollupActive /\ z.rollupBucket = r.rollupBucket
    /\ z.active = r.active /\ z.aggregateEvictions = r.aggregateEvictions /\ z.drops = r.drops

LEMMA DropRawFields ==
    ASSUME NEW r \in Recorders, r.sealed # <<>>, NEW b \in BOOLEAN
    PROVE  Unsealed(r, dropRaw(r, b))
<1> DEFINE z == dropRaw(r, b)
           n == IF b THEN r.evictions + 1 ELSE r.evictions
<1>1. r.sealed \in Seq(Segments) /\ r.bytes \in Int /\ r.evictions \in Nat
  BY RecorderFields
<1>2. Head(r.sealed) \in Segments /\ Tail(r.sealed) \in Seq(Segments)
  BY <1>1, TailFields
<1>3. Head(r.sealed).bytes \in Int
  BY <1>2, SegmentFields
<1>4. r.bytes - Head(r.sealed).bytes \in Int /\ n \in Nat
  <2> DEFINE x == Head(r.sealed).bytes
  <2>1. x \in Int
    BY <1>3
  <2> HIDE DEF x
  <2>2. r.bytes - x \in Int
    BY <1>1, <2>1
  <2>3. n \in Nat
    <3>1. r.evictions + 1 \in Nat
      BY <1>1
    <3> QED
      BY <1>1, <3>1, Zenon
  <2> QED
    BY <2>2, <2>3 DEF x
<1>5. z = [r EXCEPT !.bytes = r.bytes - Head(r.sealed).bytes, !.sealed = Tail(r.sealed), !.evictions = n]
  BY Zenon DEF dropRaw
<1> HIDE DEF z, n
<1>6. z \in Recorders
  BY <1>2, <1>4, <1>5 DEF Recorders
<1>7. /\ z.bytes = r.bytes - Head(r.sealed).bytes /\ z.sealed = Tail(r.sealed)
      /\ z.rollups = r.rollups /\ z.rollupActive = r.rollupActive /\ z.rollupBucket = r.rollupBucket
      /\ z.active = r.active /\ z.aggregateEvictions = r.aggregateEvictions /\ z.drops = r.drops
  BY <1>5 DEF Recorders
<1> QED
  BY <1>6, <1>7 DEF Unsealed, z

LEMMA UnsealedBooks ==
    ASSUME NEW r, Books(r), r.sealed # <<>>, NEW z, Unsealed(r, z)
    PROVE  Books(z)
<1>0. r \in Recorders /\ z \in Recorders
  BY DEF Books, Unsealed
<1>1. /\ r.bytes \in Int /\ r.sealed \in Seq(Segments) /\ r.active \in Segments
      /\ r.rollups \in Seq(Segments)
      /\ (r.rollupActive # NoRollup => r.rollupActive \in Segments)
  BY <1>0, RecorderFields
<1>2. /\ z.bytes = r.bytes - Head(r.sealed).bytes /\ z.sealed = Tail(r.sealed)
      /\ z.rollups = r.rollups /\ z.rollupActive = r.rollupActive /\ z.active = r.active
  BY DEF Unsealed
<1>3. \A i \in DOMAIN z.sealed : i + 1 \in DOMAIN r.sealed /\ z.sealed[i] = r.sealed[i + 1] /\ i \in Nat
  BY <1>1, <1>2, TailFields DEF Shifted
<1>4. Accounted(z)
  <2>1. Total(z.sealed) = Total(r.sealed) - Head(r.sealed).bytes /\ Total(r.sealed) \in Int
        /\ Total(r.rollups) \in Int
    BY <1>1, <1>2, TotalTail, TotalInt
  <2>2. Head(r.sealed).bytes \in Int /\ r.active.bytes \in Int
    BY <1>1, TailFields, SegmentFields
  <2>3. Rolled(r) \in Int /\ Rolled(z) = Rolled(r)
    <3>1. r.rollupActive # NoRollup => r.rollupActive.bytes \in Int
      BY <1>1, SegmentFields
    <3> QED
      BY <1>2, <3>1 DEF Rolled
  <2>4. r.bytes = Total(r.rollups) + Rolled(r) + Total(r.sealed) + r.active.bytes
    BY DEF Books, Accounted
  <2>5. z.bytes = Total(r.rollups) + Rolled(z) + Total(z.sealed) + r.active.bytes
    <3> DEFINE x == Head(r.sealed).bytes
    <3>1. x \in Int /\ z.bytes = r.bytes - x /\ Total(z.sealed) = Total(r.sealed) - x
      BY <1>2, <2>1, <2>2
    <3> HIDE DEF x
    <3>2. Total(r.sealed) \in Int /\ Total(r.rollups) \in Int /\ r.active.bytes \in Int
      BY <2>1, <2>2
    <3> QED
      BY <2>3, <2>4, <3>1, <3>2
  <2> QED
    BY <1>2, <2>5 DEF Accounted
<1>5. Following(z)
  <2>1. Following(r)
    BY DEF Books
  <2>2. ASSUME NEW i \in DOMAIN z.sealed, NEW j \in DOMAIN z.sealed, i < j
        PROVE  z.sealed[i].end <= z.sealed[j].end
    <3>1. i + 1 < j + 1 /\ i + 1 \in DOMAIN r.sealed /\ j + 1 \in DOMAIN r.sealed
      BY <1>3, <2>2
    <3> QED
      BY <1>3, <2>1, <3>1 DEF Following
  <2>3. ASSUME NEW i \in DOMAIN z.sealed
        PROVE  /\ z.sealed[i].end <= z.active.start
               /\ \A j \in DOMAIN z.rollups : z.rollups[j].end <= z.sealed[i].end
               /\ z.rollupActive # NoRollup => z.rollupActive.end <= z.sealed[i].end
    BY <1>2, <1>3, <2>1 DEF Following
  <2>4. /\ \A i, j \in DOMAIN z.rollups : i < j => z.rollups[i].end <= z.rollups[j].end
        /\ \A i \in DOMAIN z.rollups : z.rollups[i].end <= z.active.start
        /\ z.rollupActive # NoRollup =>
             /\ z.rollupActive.end <= z.active.start
             /\ \A i \in DOMAIN z.rollups : z.rollups[i].end <= z.rollupActive.end
    BY <1>2, <2>1 DEF Following
  <2> QED
    BY <2>2, <2>3, <2>4 DEF Following
<1>6. \A i \in DOMAIN z.sealed : RawOK(z.sealed[i])
  BY <1>3 DEF Books
<1>7. /\ \A i \in DOMAIN z.rollups : RollupOK(z.rollups[i])
      /\ z.rollupActive # NoRollup => RollupOK(z.rollupActive)
      /\ RawOK(z.active) /\ z.active.end <= z.active.start + SegmentInterval
  BY <1>2 DEF Books
<1> QED
  BY <1>0, <1>4, <1>5, <1>6, <1>7 DEF Books

\* z is r without its oldest roll-up.
Unrolled(r, z) ==
    /\ z \in Recorders /\ z.sealed = r.sealed /\ z.active = r.active /\ z.drops = r.drops
    /\ \/ /\ r.rollups # <<>> /\ z.rollups = Tail(r.rollups) /\ z.rollupActive = r.rollupActive
          /\ z.bytes = r.bytes - Head(r.rollups).bytes
       \/ /\ r.rollups = <<>> /\ r.rollupActive # NoRollup
          /\ z.rollups = <<>> /\ z.rollupActive = NoRollup
          /\ z.bytes = r.bytes - r.rollupActive.bytes

LEMMA DropRollupFields ==
    ASSUME NEW r \in Recorders, hasRollup(r), NEW b \in BOOLEAN
    PROVE  /\ Unrolled(r, dropRollup(r, b))
           /\ dropRollup(r, b).aggregateEvictions = IF b THEN r.aggregateEvictions + 1 ELSE r.aggregateEvictions
<1> DEFINE z == dropRollup(r, b)
           n == IF b THEN r.aggregateEvictions + 1 ELSE r.aggregateEvictions
<1>1. r.rollups \in Seq(Segments) /\ r.bytes \in Int /\ r.aggregateEvictions \in Nat
      /\ (r.rollupActive # NoRollup => r.rollupActive \in Segments)
  BY RecorderFields
<1>2. n \in Nat
  BY <1>1
<1>3. CASE r.rollups # <<>>
  <2>1. Head(r.rollups) \in Segments /\ Tail(r.rollups) \in Seq(Segments)
    BY <1>1, <1>3, TailFields
  <2>2. Head(r.rollups).bytes \in Int
    BY <2>1, SegmentFields
  <2>3. r.bytes - Head(r.rollups).bytes \in Int
    BY <1>1, <2>2
  <2>4. z = [r EXCEPT !.aggregateEvictions = n, !.bytes = r.bytes - Head(r.rollups).bytes,
                      !.rollups = Tail(r.rollups)]
    BY <1>3 DEF dropRollup, Recorders
  <2> HIDE DEF z, n
  <2>5. z \in Recorders
    BY <1>2, <2>1, <2>3, <2>4 DEF Recorders
  <2>6. /\ z.bytes = r.bytes - Head(r.rollups).bytes /\ z.sealed = r.sealed
        /\ z.rollups = Tail(r.rollups) /\ z.rollupActive = r.rollupActive
        /\ z.active = r.active /\ z.aggregateEvictions = n /\ z.drops = r.drops
    BY <2>4 DEF Recorders
  <2> QED
    BY <1>3, <2>5, <2>6 DEF Unrolled, z, n
<1>4. CASE r.rollups = <<>>
  <2>1. r.rollupActive # NoRollup /\ r.rollupActive \in Segments
    BY <1>1, <1>4 DEF hasRollup
  <2>2. r.rollupActive.bytes \in Int
    BY <2>1, SegmentFields
  <2>3. r.bytes - r.rollupActive.bytes \in Int
    BY <1>1, <2>2
  <2>4. z = [r EXCEPT !.aggregateEvictions = n, !.bytes = r.bytes - r.rollupActive.bytes,
                      !.rollupActive = NoRollup]
    BY <1>4 DEF dropRollup, Recorders
  <2> HIDE DEF z, n
  <2>5. z \in Recorders
    BY <1>2, <2>3, <2>4 DEF Recorders
  <2>6. /\ z.bytes = r.bytes - r.rollupActive.bytes /\ z.sealed = r.sealed
        /\ z.rollups = r.rollups /\ z.rollupActive = NoRollup
        /\ z.active = r.active /\ z.aggregateEvictions = n /\ z.drops = r.drops
    BY <2>4 DEF Recorders
  <2> QED
    BY <1>4, <2>1, <2>5, <2>6 DEF Unrolled, z, n
<1> QED
  BY <1>3, <1>4

LEMMA UnrolledBooks ==
    ASSUME NEW r, Books(r), NEW z, Unrolled(r, z)
    PROVE  Books(z)
<1>0. r \in Recorders /\ z \in Recorders
  BY DEF Books, Unrolled
<1>1. /\ r.bytes \in Int /\ r.sealed \in Seq(Segments) /\ r.active \in Segments
      /\ r.rollups \in Seq(Segments)
      /\ (r.rollupActive # NoRollup => r.rollupActive \in Segments)
  BY <1>0, RecorderFields
<1>2. z.sealed = r.sealed /\ z.active = r.active
  BY DEF Unrolled
<1>3. Following(r) /\ Accounted(r)
  BY DEF Books
<1>4. Total(r.sealed) \in Int /\ Total(r.rollups) \in Int /\ r.active.bytes \in Int
      /\ (r.rollupActive # NoRollup => r.rollupActive.bytes \in Int)
  BY <1>1, TotalInt, SegmentFields
<1>5. (\A i \in DOMAIN z.sealed : RawOK(z.sealed[i])) /\ RawOK(z.active)
      /\ z.active.end <= z.active.start + SegmentInterval
  BY <1>2 DEF Books
<1>6. CASE r.rollups # <<>>
  <2>1. z.rollups = Tail(r.rollups) /\ z.rollupActive = r.rollupActive
        /\ z.bytes = r.bytes - Head(r.rollups).bytes
    BY <1>6 DEF Unrolled
  <2>2. \A i \in DOMAIN z.rollups : i + 1 \in DOMAIN r.rollups /\ z.rollups[i] = r.rollups[i + 1] /\ i \in Nat
    BY <1>1, <1>6, <2>1, TailFields DEF Shifted
  <2>3. Accounted(z)
    <3>1. Total(z.rollups) = Total(r.rollups) - Head(r.rollups).bytes /\ Head(r.rollups).bytes \in Int
      BY <1>1, <1>6, <2>1, TotalTail, TailFields, SegmentFields
    <3>2. Rolled(r) \in Int /\ Rolled(z) = Rolled(r)
      BY <1>4, <2>1 DEF Rolled
    <3>3. r.bytes = Total(r.rollups) + Rolled(r) + Total(r.sealed) + r.active.bytes
      BY <1>3 DEF Accounted
    <3>4. z.bytes = Total(z.rollups) + Rolled(z) + Total(r.sealed) + r.active.bytes
      <4> DEFINE x == Head(r.rollups).bytes
      <4>1. x \in Int /\ z.bytes = r.bytes - x /\ Total(z.rollups) = Total(r.rollups) - x
        BY <2>1, <3>1
      <4> HIDE DEF x
      <4>2. Total(r.sealed) \in Int /\ Total(r.rollups) \in Int /\ r.active.bytes \in Int
        BY <1>4
      <4> QED
        BY <3>2, <3>3, <4>1, <4>2
    <3> QED
      BY <1>2, <3>4 DEF Accounted
  <2>4. Following(z)
    <3>1. ASSUME NEW i \in DOMAIN z.rollups, NEW j \in DOMAIN z.rollups, i < j
          PROVE  z.rollups[i].end <= z.rollups[j].end
      <4>1. i + 1 < j + 1 /\ i + 1 \in DOMAIN r.rollups /\ j + 1 \in DOMAIN r.rollups
        BY <2>2, <3>1
      <4> QED
        BY <1>3, <2>2, <4>1 DEF Following
    <3> QED
      BY <1>2, <1>3, <2>1, <2>2, <3>1 DEF Following
  <2>5. /\ \A i \in DOMAIN z.rollups : RollupOK(z.rollups[i])
        /\ z.rollupActive # NoRollup => RollupOK(z.rollupActive)
    BY <2>1, <2>2 DEF Books
  <2> QED
    BY <1>0, <1>5, <2>3, <2>4, <2>5 DEF Books
<1>7. CASE r.rollups = <<>>
  <2>1. z.rollups = <<>> /\ z.rollupActive = NoRollup /\ z.bytes = r.bytes - r.rollupActive.bytes
        /\ r.rollupActive # NoRollup
    BY <1>7 DEF Unrolled
  <2>2. Accounted(z)
    <3>1. r.bytes = Total(r.rollups) + r.rollupActive.bytes + Total(r.sealed) + r.active.bytes
      BY <1>3, <2>1 DEF Accounted, Rolled
    <3>2. z.bytes = Total(r.rollups) + 0 + Total(r.sealed) + r.active.bytes
      <4>1. Total(r.sealed) \in Int /\ Total(r.rollups) \in Int /\ r.active.bytes \in Int
            /\ r.rollupActive.bytes \in Int
        BY <1>4, <2>1
      <4>2. z.bytes = r.bytes - r.rollupActive.bytes
        BY <2>1
      <4> QED
        BY <3>1, <4>1, <4>2
    <3> QED
      BY <1>2, <1>7, <2>1, <3>2 DEF Accounted, Rolled
  <2>3. Following(z)
    BY <1>2, <1>3, <2>1 DEF Following
  <2>4. /\ \A i \in DOMAIN z.rollups : RollupOK(z.rollups[i])
        /\ z.rollupActive # NoRollup => RollupOK(z.rollupActive)
    BY <2>1
  <2> QED
    BY <1>0, <1>5, <2>2, <2>3, <2>4 DEF Books
<1> QED
  BY <1>6, <1>7
-----------------------------------------------------------------------------
(* Folding a segment: its aggregates are in flight between the segment and *)
(* the active roll-up.                                                     *)

LEMMA ChronicleFields ==
    ASSUME NEW r \in Recorders, NEW fl \in Seq(Aggregates)
    PROVE  /\ Rollups(r) \in Seq(Segments) /\ Append(r.sealed, r.active) \in Seq(Segments)
           /\ Ledger(Rollups(r)) \in Seq(Aggregates)
           /\ Ledger(Append(r.sealed, r.active)) \in Seq(Aggregates)
           /\ Raws(r, fl) \in Seq(Aggregates) /\ Chronicle(r, fl) \in Seq(Aggregates)
<1>1. Rollups(r) \in Seq(Segments)
  BY RecorderFields, AppendedFields DEF Rollups
<1>2. Append(r.sealed, r.active) \in Seq(Segments)
  BY RecorderFields, AppendedFields
<1>3. Ledger(Rollups(r)) \in Seq(Aggregates) /\ Ledger(Append(r.sealed, r.active)) \in Seq(Aggregates)
  BY <1>1, <1>2, MetricsOf
<1>4. Raws(r, fl) \in Seq(Aggregates)
  BY <1>3, ConcatProperties DEF Raws
<1>5. Chronicle(r, fl) \in Seq(Aggregates)
  BY <1>3, <1>4, ConcatProperties DEF Chronicle
<1> QED
  BY <1>1, <1>2, <1>3, <1>4, <1>5

\* The segments around a fold: what is rolled up ended before x, like what
\* is in flight, and the raw segments end after it.
Beneath(r, fl, x) ==
    /\ x \in Nat /\ fl \in Seq(Aggregates)
    /\ \A i \in DOMAIN r.rollups : r.rollups[i].end <= x
    /\ r.rollupActive # NoRollup => r.rollupActive.end <= x
    /\ \A i \in DOMAIN r.sealed : x <= r.sealed[i].end
    /\ x <= r.active.start
    /\ \A i \in DOMAIN fl : fl[i].end <= x /\ 1 <= fl[i].start

\* A fold leaves the raw segments alone.
SameRaw(r, z) ==
    /\ z.sealed = r.sealed /\ z.active = r.active
    /\ z.aggregateEvictions = r.aggregateEvictions /\ z.drops = r.drops

LEMMA UnsealedRaws ==
    ASSUME NEW r \in Recorders, r.sealed # <<>>, NEW z, Unsealed(r, z)
    PROVE  Raws(z, Head(r.sealed).metrics) = Raws(r, <<>>)
<1> DEFINE old == Head(r.sealed)
           all == Append(r.sealed, r.active)
<1>1. z.sealed = Tail(r.sealed) /\ z.active = r.active
  BY DEF Unsealed
<1>2. r.sealed \in Seq(Segments) /\ r.active \in Segments
  BY RecorderFields
<1>3. all \in Seq(Segments) /\ all # <<>> /\ Head(all) = old /\ Tail(all) = Append(Tail(r.sealed), r.active)
  BY <1>2
<1> HIDE DEF all, old
<1>4. Ledger(all) = old.metrics \o Ledger(Append(Tail(r.sealed), r.active))
  BY <1>3, LedgerTail
<1>5. Ledger(all) \in Seq(Aggregates)
  BY <1>3, MetricsOf
<1>6. <<>> \o Ledger(all) = Ledger(all)
  BY <1>5, ConcatEmptySeq
<1> QED
  BY <1>1, <1>4, <1>6 DEF Raws, all, old

LEMMA LiftedSound ==
    ASSUME NEW r, NEW d, NEW q, NEW on, NEW t, Sound(r, <<>>, d, q, on, t), r.sealed # <<>>,
           NEW z, Unsealed(r, z)
    PROVE  /\ Sound(z, Head(r.sealed).metrics, d, q, on, t)
           /\ Beneath(z, Head(r.sealed).metrics, Head(r.sealed).end)
<1> DEFINE old == Head(r.sealed)
<1>0. Books(r) /\ r \in Recorders /\ z \in Recorders /\ Advancing(r, <<>>) /\ Roomy(r)
      /\ Truthful(Chronicle(r, <<>>), r.aggregateEvictions, d, q, on, t)
      /\ Contiguous(r.active, q, on)
  BY DEF Sound, Books, Unsealed
<1>1. /\ z.sealed = Tail(r.sealed) /\ z.rollups = r.rollups /\ z.rollupActive = r.rollupActive
      /\ z.active = r.active /\ z.aggregateEvictions = r.aggregateEvictions
  BY DEF Unsealed
<1>2. r.sealed \in Seq(Segments) /\ r.active \in Segments
  BY <1>0, RecorderFields
<1>3. old \in Segments /\ Shifted(r.sealed) /\ Tail(r.sealed) \in Seq(Segments)
  BY <1>2, TailFields
<1>4. old.metrics \in Seq(Aggregates) /\ old.end \in Nat /\ old = r.sealed[1] /\ 1 \in DOMAIN r.sealed
  BY <1>3, SegmentFields DEF Shifted
<1>5. Raws(z, old.metrics) = Raws(r, <<>>)
  BY <1>0, UnsealedRaws
<1>6. Rollups(z) = Rollups(r)
  BY <1>1 DEF Rollups
<1>7. Chronicle(z, old.metrics) = Chronicle(r, <<>>)
  BY <1>5, <1>6 DEF Chronicle
<1>8. Books(z)
  BY <1>0, UnsealedBooks
<1>9. Advancing(z, old.metrics)
  BY <1>0, <1>1, <1>5 DEF Advancing
<1>10. Sound(z, old.metrics, d, q, on, t)
  BY <1>0, <1>1, <1>7, <1>8, <1>9 DEF Sound, Roomy
<1>11. Beneath(z, old.metrics, old.end)
  <2>1. Following(r) /\ RawOK(old)
    BY <1>0, <1>4 DEF Books
  <2>2. \A i \in DOMAIN old.metrics : old.metrics[i].end <= old.end /\ 1 <= old.metrics[i].start
    BY <2>1 DEF RawOK, Within
  <2>3. \A i \in DOMAIN r.rollups : r.rollups[i].end <= old.end
    BY <1>4, <2>1 DEF Following
  <2>4. r.rollupActive # NoRollup => r.rollupActive.end <= old.end
    BY <1>4, <2>1 DEF Following
  <2>5. ASSUME NEW i \in DOMAIN z.sealed PROVE old.end <= z.sealed[i].end
    <3>1. i + 1 \in DOMAIN r.sealed /\ z.sealed[i] = r.sealed[i + 1] /\ 1 < i + 1
      <4>1. i \in DOMAIN Tail(r.sealed)
        BY <1>1
      <4>2. i + 1 \in DOMAIN r.sealed /\ z.sealed[i] = r.sealed[i + 1] /\ i \in 1..Len(Tail(r.sealed))
        BY <1>1, <1>3, <4>1 DEF Shifted
      <4> QED
        BY <4>2
    <3> QED
      BY <1>4, <2>1, <3>1 DEF Following
  <2>6. old.end <= z.active.start
    BY <1>1, <1>4, <2>1 DEF Following
  <2> HIDE DEF old
  <2> QED
    BY <1>1, <1>4, <2>2, <2>3, <2>4, <2>5, <2>6 DEF Beneath
<1> QED
  BY <1>10, <1>11

LEMMA ClosedSound ==
    ASSUME NEW r, NEW fl, NEW d, NEW q, NEW on, NEW t, Sound(r, fl, d, q, on, t),
           NEW x, Beneath(r, fl, x), NEW b
    PROVE  /\ Sound(RollupSealed(r, b), fl, d, q, on, t) /\ Beneath(RollupSealed(r, b), fl, x)
           /\ SameRaw(r, RollupSealed(r, b)) /\ RollupSealed(r, b).bytes = r.bytes
           /\ RollupSealed(r, b).rollupActive \in {r.rollupActive, NoRollup}
<1> DEFINE z == RollupSealed(r, b)
<1>1. CASE ~(r.rollupActive # NoRollup /\ b # r.rollupBucket)
  <2>1. z = r
    BY <1>1 DEF RollupSealed
  <2> QED
    BY <2>1 DEF SameRaw
<1>2. CASE r.rollupActive # NoRollup /\ b # r.rollupBucket
  <2> DEFINE a == r.rollupActive
  <2>0. Books(r) /\ r \in Recorders /\ Advancing(r, fl) /\ Following(r) /\ Accounted(r)
        /\ Truthful(Chronicle(r, fl), r.aggregateEvictions, d, q, on, t)
        /\ Contiguous(r.active, q, on)
    BY DEF Sound, Books
  <2>1. a \in Segments /\ r.rollups \in Seq(Segments) /\ r.sealed \in Seq(Segments)
    BY <1>2, <2>0, RecorderFields
  <2>2. z = [r EXCEPT !.rollups = Append(r.rollups, a), !.rollupActive = NoRollup]
    BY <1>2 DEF RollupSealed, Recorders
  <2>3. Append(r.rollups, a) \in Seq(Segments)
    BY <2>1, AppendedFields
  <2> HIDE DEF z, a
  <2>4. z \in Recorders
    BY <2>0, <2>2, <2>3 DEF Recorders
  <2>5. /\ z.rollups = Append(r.rollups, a) /\ z.rollupActive = NoRollup /\ z.bytes = r.bytes
        /\ z.sealed = r.sealed /\ z.active = r.active /\ z.drops = r.drops
        /\ z.aggregateEvictions = r.aggregateEvictions
    BY <2>0, <2>2 DEF Recorders
  <2>6. Rollups(z) = Rollups(r)
    BY <1>2, <2>5 DEF Rollups, a
  <2>7. Raws(z, fl) = Raws(r, fl)
    BY <2>5 DEF Raws
  <2>8. Chronicle(z, fl) = Chronicle(r, fl)
    BY <2>6, <2>7 DEF Chronicle
  <2>9. /\ \A i \in DOMAIN r.rollups : z.rollups[i] = r.rollups[i] /\ i < Len(r.rollups) + 1
        /\ \A i \in DOMAIN z.rollups : i \in Nat /\ (i \in DOMAIN r.rollups \/ i = Len(r.rollups) + 1)
        /\ z.rollups[Len(r.rollups) + 1] = a /\ Len(r.rollups) \in Nat
    BY <2>1, <2>5, AppendedFields
  <2>10. \A i \in DOMAIN z.rollups : z.rollups[i] = a \/ \E j \in DOMAIN r.rollups : z.rollups[i] = r.rollups[j]
    BY <2>9
  <2>11. Accounted(z)
    <3>1. Total(z.rollups) = Total(r.rollups) + a.bytes /\ Total(r.rollups) \in Int /\ a.bytes \in Int
      BY <2>1, <2>5, TotalAppend, TotalInt, SegmentFields
    <3>2. r.bytes = Total(r.rollups) + a.bytes + Total(r.sealed) + r.active.bytes
      BY <1>2, <2>0 DEF Accounted, Rolled, a
    <3>3. z.bytes = Total(z.rollups) + 0 + Total(z.sealed) + z.active.bytes
      <4>1. Total(r.sealed) \in Int /\ r.active.bytes \in Int
        BY <2>0, <2>1, TotalInt, RecorderFields, SegmentFields
      <4> QED
        BY <2>5, <3>1, <3>2, <4>1
    <3> QED
      BY <2>5, <3>3 DEF Accounted, Rolled
  <2>12. Following(z)
    <3>1. ASSUME NEW i \in DOMAIN z.rollups, NEW j \in DOMAIN z.rollups, i < j
          PROVE  z.rollups[i].end <= z.rollups[j].end
      <4>1. i \in DOMAIN r.rollups
        BY <2>9, <3>1
      <4>2. CASE j \in DOMAIN r.rollups
        BY <2>0, <2>9, <3>1, <4>1, <4>2 DEF Following
      <4>3. CASE j = Len(r.rollups) + 1
        BY <1>2, <2>0, <2>9, <4>1, <4>3 DEF Following, a
      <4> QED
        BY <2>9, <4>2, <4>3
    <3>2. \A i \in DOMAIN z.rollups : z.rollups[i].end <= z.active.start
      BY <1>2, <2>0, <2>5, <2>10 DEF Following, a
    <3>3. \A i \in DOMAIN z.sealed : \A j \in DOMAIN z.rollups : z.rollups[j].end <= z.sealed[i].end
      BY <1>2, <2>0, <2>5, <2>10 DEF Following, a
    <3>4. /\ \A i, j \in DOMAIN z.sealed : i < j => z.sealed[i].end <= z.sealed[j].end
          /\ \A i \in DOMAIN z.sealed : z.sealed[i].end <= z.active.start
      BY <2>0, <2>5 DEF Following
    <3> QED
      BY <2>5, <3>1, <3>2, <3>3, <3>4 DEF Following
  <2>13. Books(z)
    <3>1. \A i \in DOMAIN z.rollups : RollupOK(z.rollups[i])
      BY <1>2, <2>0, <2>10 DEF Books, a
    <3>2. (\A i \in DOMAIN z.sealed : RawOK(z.sealed[i])) /\ RawOK(z.active)
          /\ z.active.end <= z.active.start + SegmentInterval
      BY <2>0, <2>5 DEF Books
    <3> QED
      BY <2>4, <2>5, <2>11, <2>12, <3>1, <3>2 DEF Books
  <2>14. Advancing(z, fl)
    BY <1>2, <2>0, <2>5, <2>7, <2>10 DEF Advancing, a
  <2>15. Sound(z, fl, d, q, on, t)
    BY <2>0, <2>5, <2>8, <2>13, <2>14 DEF Sound, Roomy
  <2>16. Beneath(z, fl, x)
    BY <1>2, <2>5, <2>10 DEF Beneath, a
  <2> QED
    BY <2>5, <2>15, <2>16 DEF SameRaw, z
<1> QED
  BY <1>1, <1>2
-----------------------------------------------------------------------------
(* A roll-up holds at most two aggregates of a family: one up to the gap in*)
(* the recording and one from there on.                                    *)

\* c is a and b, one after the other.
Spliced(c, a, b) ==
    /\ Len(c) = Len(a) + Len(b) /\ Len(a) \in Nat /\ Len(b) \in Nat
    /\ DOMAIN a = 1..Len(a) /\ DOMAIN b = 1..Len(b) /\ DOMAIN c = 1..(Len(a) + Len(b))
    /\ \A i \in DOMAIN a : i \in DOMAIN c /\ c[i] = a[i]
    /\ \A j \in DOMAIN b : Len(a) + j \in DOMAIN c /\ c[Len(a) + j] = b[j]

LEMMA ConcatFields ==
    ASSUME NEW S, NEW a \in Seq(S), NEW b \in Seq(S)
    PROVE  a \o b \in Seq(S) /\ Spliced(a \o b, a, b)
<1>1. /\ a \o b \in Seq(S) /\ Len(a \o b) = Len(a) + Len(b)
      /\ \A i \in 1..(Len(a) + Len(b)) : (a \o b)[i] = IF i <= Len(a) THEN a[i] ELSE b[i - Len(a)]
  BY ConcatProperties
<1>2. Len(a) \in Nat /\ Len(b) \in Nat /\ DOMAIN a = 1..Len(a) /\ DOMAIN b = 1..Len(b)
  OBVIOUS
<1>3. DOMAIN (a \o b) = 1..(Len(a) + Len(b))
  BY <1>1
<1> DEFINE c == a \o b
<1> HIDE DEF c
<1>4. \A i \in 1..(Len(a) + Len(b)) : c[i] = IF i <= Len(a) THEN a[i] ELSE b[i - Len(a)]
  BY <1>1 DEF c
<1>5. \A i \in DOMAIN a : i \in 1..(Len(a) + Len(b)) /\ c[i] = a[i]
  BY <1>2, <1>4
<1>6. ASSUME NEW j \in DOMAIN b PROVE Len(a) + j \in 1..(Len(a) + Len(b)) /\ c[Len(a) + j] = b[j]
  <2>1. Len(a) + j \in 1..(Len(a) + Len(b)) /\ ~(Len(a) + j <= Len(a)) /\ (Len(a) + j) - Len(a) = j
    BY <1>2
  <2> QED
    BY <1>4, <2>1
<1> QED
  BY <1>1, <1>2, <1>3, <1>5, <1>6 DEF Spliced, c

\* Where the aggregates M are in c, after n others.
Inside(c, M, n) ==
    /\ n \in Nat
    /\ \A i \in DOMAIN M : n + i \in DOMAIN c /\ c[n + i] = M[i] /\ i \in Nat
    /\ \A i, j \in DOMAIN M : \A k \in n + i..n + j : k - n \in DOMAIN M

LEMMA SplicedInside ==
    ASSUME NEW L \in Seq(Aggregates), NEW M \in Seq(Aggregates), NEW Q \in Seq(Aggregates)
    PROVE  Inside((L \o M) \o Q, M, Len(L))
<1> DEFINE P == L \o M
           c == P \o Q
<1>1. P \in Seq(Aggregates) /\ Spliced(P, L, M)
  BY ConcatFields
<1>2. Spliced(c, P, Q)
  <2> HIDE DEF P
  <2> QED
    BY <1>1, ConcatFields
<1> HIDE DEF P, c
<1>3. Len(L) \in Nat /\ Len(M) \in Nat /\ DOMAIN M = 1..Len(M)
  BY <1>1 DEF Spliced
<1>4. ASSUME NEW i \in DOMAIN M PROVE Len(L) + i \in DOMAIN c /\ c[Len(L) + i] = M[i] /\ i \in Nat
  <2>1. Len(L) + i \in DOMAIN P /\ P[Len(L) + i] = M[i]
    BY <1>1 DEF Spliced
  <2> QED
    BY <1>2, <1>3, <2>1 DEF Spliced
<1>5. \A i, j \in DOMAIN M : \A k \in Len(L) + i..Len(L) + j : k - Len(L) \in DOMAIN M
  BY <1>3
<1> QED
  BY <1>3, <1>4, <1>5 DEF Inside, c, P

LEMMA OrderedTimes ==
    ASSUME NEW c \in Seq(Aggregates), Ordered(c)
    PROVE  /\ \A i \in DOMAIN c : i \in Nat /\ c[i].start \in Nat /\ c[i].end \in Nat /\ c[i].start < c[i].end
           /\ \A i, j \in DOMAIN c : i < j /\ c[i].family = c[j].family => c[i].end <= c[j].start
BY AggregateFields DEF Ordered

\* The last aggregate of a family.
LEMMA LastLoose ==
    ASSUME NEW c \in Seq(Aggregates), Ordered(c), NEW k \in DOMAIN c
    PROVE  \E z \in DOMAIN c : c[z].family = c[k].family /\ k <= z /\ Loose(c, z)
<1> DEFINE D == {x \in DOMAIN c : c[x].family = c[k].family}
           T == {n \in Nat : \E x \in D : n = Len(c) - x}
<1>0. DOMAIN c = 1..Len(c) /\ Len(c) \in Nat
  OBVIOUS
<1>1. Len(c) - k \in T
  BY <1>0
<1>2. PICK n \in T : \A o \in T : n <= o
  <2> HIDE DEF T
  <2>1. T \in SUBSET Nat /\ T # {}
    BY <1>1 DEF T
  <2> QED
    BY <2>1, Least
<1>3. PICK z \in D : n = Len(c) - z
  BY <1>2
<1>4. ASSUME NEW x \in D PROVE x <= z
  <2>1. Len(c) - x \in T
    BY <1>0
  <2>2. Len(c) - z <= Len(c) - x
    BY <1>2, <1>3, <2>1
  <2> QED
    BY <1>0, <1>3, <2>2
<1>5. Loose(c, z)
  <2> SUFFICES ASSUME NEW x \in DOMAIN c, c[x].family = c[z].family, c[x].start = c[z].end PROVE FALSE
    BY DEF Loose
  <2>1. x <= z
    BY <1>4
  <2> HIDE DEF D, T
  <2>2. z \in DOMAIN c
    BY <1>3 DEF D
  <2>3. /\ c[x].start \in Nat /\ c[x].end \in Nat /\ c[x].start < c[x].end
        /\ c[z].start \in Nat /\ c[z].end \in Nat /\ c[z].start < c[z].end
        /\ (x < z => c[x].end <= c[z].start)
    BY <2>2, OrderedTimes
  <2>4. x < z \/ x = z
    BY <1>0, <2>1, <2>2
  <2> QED
    BY <2>3, <2>4
<1>6. k <= z /\ c[z].family = c[k].family /\ z \in DOMAIN c
  BY <1>3, <1>4
<1> QED
  BY <1>5, <1>6

LEMMA LooseInside ==
    ASSUME NEW c \in Seq(Aggregates), Ordered(c), NEW M, NEW n, Inside(c, M, n),
           \A i, j \in DOMAIN M : M[i].family = M[j].family => M[i].end # M[j].start,
           NEW i \in DOMAIN M, NEW j \in DOMAIN M, i < j, M[i].family = M[j].family
    PROVE  Loose(c, n + i)
<1> SUFFICES ASSUME NEW x \in DOMAIN c, c[x].family = c[n + i].family, c[x].start = c[n + i].end
             PROVE  FALSE
  BY DEF Loose
<1>1. /\ n \in Nat /\ i \in Nat /\ j \in Nat /\ n + i \in DOMAIN c /\ n + j \in DOMAIN c
      /\ c[n + i] = M[i] /\ c[n + j] = M[j]
  BY DEF Inside
<1>2. DOMAIN c \subseteq Nat
  OBVIOUS
<1>3. /\ c[x].start \in Nat /\ c[x].end \in Nat /\ c[x].start < c[x].end
      /\ c[n + i].start \in Nat /\ c[n + i].end \in Nat /\ c[n + i].start < c[n + i].end
      /\ c[n + j].start \in Nat /\ c[n + j].end \in Nat /\ c[n + j].start < c[n + j].end
  BY <1>1, OrderedTimes
<1>4. ~(x <= n + i)
  <2>1. x < n + i => c[x].end <= c[n + i].start
    BY <1>1, OrderedTimes
  <2>2. x = n + i \/ x < n + i \/ ~(x <= n + i)
    BY <1>1, <1>2
  <2> QED
    BY <1>3, <2>1, <2>2
<1>5. ~(n + j < x)
  <2>0. c[n + j].family = c[x].family
    BY <1>1
  <2>1. n + j < x => c[n + j].end <= c[x].start
    <3>1. PICK y : y = n + j
      OBVIOUS
    <3>2. y \in DOMAIN c /\ c[y].family = c[x].family
      BY <1>1, <2>0, <3>1
    <3>3. y < x => c[y].end <= c[x].start
      BY <3>2, OrderedTimes
    <3> QED
      BY <3>1, <3>3
  <2>2. c[n + i].end <= c[n + j].start
    <3>1. PICK y : y = n + j
      OBVIOUS
    <3>2. PICK w : w = n + i
      OBVIOUS
    <3>3. w \in DOMAIN c /\ y \in DOMAIN c /\ w < y /\ c[w].family = c[y].family
      BY <1>1, <3>1, <3>2
    <3>4. c[w].end <= c[y].start
      BY <3>3, OrderedTimes
    <3> QED
      BY <3>1, <3>2, <3>4
  <2> QED
    BY <1>3, <2>1, <2>2
<1>6. x \in n + i..n + j
  BY <1>1, <1>2, <1>4, <1>5
<1>7. x - n \in DOMAIN M /\ n + (x - n) = x
  BY <1>1, <1>2, <1>6 DEF Inside
<1>8. c[x] = M[x - n]
  BY <1>7 DEF Inside
<1> QED
  BY <1>1, <1>7, <1>8

LEMMA PairsOnly ==
    ASSUME NEW c \in Seq(Aggregates), Ordered(c), NEW q, NEW on, Unbroken(c, q, on),
           NEW M, NEW n, Inside(c, M, n),
           \A i, j \in DOMAIN M : M[i].family = M[j].family => M[i].end # M[j].start,
           NEW i \in DOMAIN M, NEW j \in DOMAIN M, NEW k \in DOMAIN M, i < j, j < k,
           M[i].family = M[j].family, M[j].family = M[k].family
    PROVE  FALSE
<1>1. Loose(c, n + i) /\ Loose(c, n + j)
  <2>1. i \in Nat /\ j \in Nat /\ k \in Nat
    BY DEF Inside
  <2> QED
    BY <2>1, LooseInside
<1>2. /\ n \in Nat /\ i \in Nat /\ j \in Nat /\ k \in Nat
      /\ n + i \in DOMAIN c /\ n + j \in DOMAIN c /\ n + k \in DOMAIN c
      /\ c[n + i] = M[i] /\ c[n + j] = M[j] /\ c[n + k] = M[k]
  BY DEF Inside
<1>3. PICK z \in DOMAIN c : c[z].family = c[n + k].family /\ n + k <= z /\ Loose(c, z)
  BY <1>2, LastLoose
<1>4. n + i < n + j /\ n + j < z /\ z \in Nat
  <2>1. z \in Nat
    OBVIOUS
  <2> QED
    BY <1>2, <1>3, <2>1
<1>5. c[n + i].end <= c[n + j].start /\ c[n + j].end <= c[z].start
  BY <1>2, <1>3, <1>4, OrderedTimes
<1>6. /\ c[n + i].start \in Nat /\ c[n + i].end \in Nat
      /\ c[n + j].start \in Nat /\ c[n + j].end \in Nat /\ c[n + j].start < c[n + j].end
      /\ c[z].start \in Nat /\ c[z].end \in Nat /\ c[z].start < c[z].end
  BY <1>2, <1>3, OrderedTimes
<1>7. c[n + i].end # c[n + j].end /\ c[n + j].end # c[z].end /\ c[n + i].end # c[z].end
  BY <1>5, <1>6
<1> QED
  BY <1>1, <1>2, <1>3, <1>7 DEF Unbroken

LEMMA PairsBound ==
    ASSUME NEW c \in Seq(Aggregates), Ordered(c), NEW q, NEW on, Unbroken(c, q, on),
           NEW M \in Seq(Aggregates), NEW n, Inside(c, M, n),
           \A i, j \in DOMAIN M : M[i].family = M[j].family => M[i].end # M[j].start,
           RecorderAssumption
    PROVE  Len(M) <= 2 * NumFamilies
<1> DEFINE k == Len(M)
           S == 1..k
           T == Families \X {0, 1}
           Second(i) == \E h \in S : h < i /\ M[h].family = M[i].family
           g == [i \in S |-> <<M[i].family, IF Second(i) THEN 1 ELSE 0>>]
<1>1. k \in Nat /\ S = DOMAIN M
  OBVIOUS
<1>2. g \in [S -> T]
  <2>1. \A i \in S : M[i].family \in Families
    BY <1>1, AggregateFields
  <2> QED
    BY <2>1
<1>3. ASSUME NEW i \in S, NEW j \in S, i < j, g[i] = g[j] PROVE FALSE
  <2>1. M[i].family = M[j].family /\ Second(j)
    BY <1>3
  <2>2. Second(i)
    BY <1>3, <2>1
  <2>3. PICK h \in S : h < i /\ M[h].family = M[i].family
    BY <2>2
  <2> HIDE DEF g
  <2> QED
    BY <1>1, <1>3, <2>1, <2>3, PairsOnly
<1>4. ASSUME NEW i \in S, NEW j \in S, g[i] = g[j] PROVE i = j
  <2>1. i < j \/ j < i \/ i = j
    OBVIOUS
  <2> HIDE DEF g
  <2> QED
    BY <1>3, <1>4, <2>1
<1>5. g \in Injection(S, T)
  <2> HIDE DEF g, S, T
  <2> QED
    BY <1>2, <1>4 DEF Injection, IsInjective
<1>6. IsFiniteSet(Families) /\ Cardinality(Families) = NumFamilies
  <2>1. NumFamilies \in Nat
    BY DEF RecorderAssumption
  <2>2. IsFiniteSet(1..NumFamilies)
        /\ Cardinality(1..NumFamilies) = IF 1 > NumFamilies THEN 0 ELSE NumFamilies - 1 + 1
    BY <2>1, FS_Interval
  <2> QED
    BY <2>1, <2>2 DEF Families
<1>7. IsFiniteSet({0, 1}) /\ Cardinality({0, 1}) = 2
  <2>1. IsFiniteSet({1}) /\ Cardinality({1}) = 1
    BY FS_Singleton, Zenon
  <2>2. 0 \notin {1}
    OBVIOUS
  <2>3. IsFiniteSet({1} \cup {0}) /\ Cardinality({1} \cup {0}) = Cardinality({1}) + 1
    BY <2>1, <2>2, FS_AddElement
  <2>4. {1} \cup {0} = {0, 1} /\ 1 + 1 = 2
    OBVIOUS
  <2> QED
    BY <2>1, <2>3, <2>4, Zenon
<1>8. IsFiniteSet(T) /\ Cardinality(T) = NumFamilies * 2
  BY <1>6, <1>7, FS_Product
<1>9. Cardinality(S) <= Cardinality(T)
  <2> HIDE DEF S, T, g
  <2> QED
    BY <1>5, <1>8, FS_Injection
<1>10. Cardinality(S) = k
  <2> HIDE DEF k, g
  <2>1. Cardinality(1..k) = IF 1 > k THEN 0 ELSE k - 1 + 1
    BY <1>1, FS_Interval
  <2> QED
    BY <1>1, <2>1
<1> QED
  <2>1. NumFamilies \in Nat
    BY DEF RecorderAssumption
  <2> QED
    BY <1>1, <1>8, <1>9, <1>10, <2>1
-----------------------------------------------------------------------------
(* Opening a roll-up for the first aggregate in flight.                    *)

\* Facts of the first aggregate in flight.
Leading(r, fl, m) ==
    /\ m \in Aggregates /\ m.family \in Families /\ m.start \in Nat /\ m.end \in Nat /\ m.count \in Nat
    /\ m.start < m.end
    /\ \A j \in DOMAIN Raws(r, fl) : m.end <= Raws(r, fl)[j].end
    /\ \A i \in DOMAIN r.rollups : r.rollups[i].end <= m.end
    /\ r.rollupActive # NoRollup => r.rollupActive.end <= m.end

LEMMA FirstInFlight ==
    ASSUME NEW r \in Recorders, NEW fl \in Seq(Aggregates), fl # <<>>,
           Advancing(r, fl), Ordered(Chronicle(r, fl))
    PROVE  /\ Leading(r, fl, Head(fl)) /\ Head(fl) = Raws(r, fl)[1] /\ 1 \in DOMAIN Raws(r, fl)
           /\ Len(Ledger(Rollups(r))) + 1 \in DOMAIN Chronicle(r, fl)
           /\ Chronicle(r, fl)[Len(Ledger(Rollups(r))) + 1] = Head(fl)
<1> DEFINE m == Head(fl)
           raw == Raws(r, fl)
           B == Ledger(Append(r.sealed, r.active))
           P == Ledger(Rollups(r))
           n == Len(P)
<1>1. m \in Aggregates /\ 1 \in DOMAIN fl /\ m = fl[1]
  BY TailFields DEF Shifted
<1>2. B \in Seq(Aggregates) /\ P \in Seq(Aggregates) /\ raw \in Seq(Aggregates)
  BY ChronicleFields
<1>3. Spliced(raw, fl, B) /\ Spliced(Chronicle(r, fl), P, raw)
  <2> HIDE DEF B, P
  <2>1. Spliced(fl \o B, fl, B)
    BY <1>2, ConcatFields
  <2>2. Spliced(P \o raw, P, raw)
    BY <1>2, ConcatFields
  <2> QED
    BY <2>1, <2>2 DEF Raws, Chronicle, B, P
<1> HIDE DEF m, raw, B, P
<1>4. 1 \in DOMAIN raw /\ raw[1] = m
  BY <1>1, <1>3 DEF Spliced
<1>5. n + 1 \in DOMAIN Chronicle(r, fl) /\ Chronicle(r, fl)[n + 1] = m
  BY <1>3, <1>4 DEF Spliced
<1>6. Chronicle(r, fl) \in Seq(Aggregates)
  BY ChronicleFields
<1>7. m.family \in Families /\ m.start \in Nat /\ m.end \in Nat /\ m.count \in Nat
  BY <1>1 DEF Aggregates
<1>8. m.start < m.end
  BY <1>5 DEF Ordered
<1>9. ASSUME NEW j \in DOMAIN raw PROVE m.end <= raw[j].end
  <2>1. j = 1 \/ 1 < j
    BY <1>2
  <2>2. 1 < j => raw[1].end <= raw[j].end
    BY <1>4 DEF Advancing, raw
  <2> QED
    BY <1>4, <1>7, <2>1, <2>2
<1>10. (\A i \in DOMAIN r.rollups : r.rollups[i].end <= m.end)
       /\ (r.rollupActive # NoRollup => r.rollupActive.end <= m.end)
  BY <1>4 DEF Advancing, raw
<1> QED
  BY <1>1, <1>4, <1>5, <1>7, <1>8, <1>9, <1>10 DEF Leading, m, raw, P

\* z is r with a as its new active roll-up.
Started(r, z, a, m) ==
    /\ z \in Recorders /\ SameRaw(r, z) /\ z.rollups = r.rollups /\ z.bytes = r.bytes + SegmentCost
    /\ z.rollupActive = a /\ a \in Segments /\ a # NoRollup
    /\ a.start = m.start /\ a.min = m.start /\ a.end = m.end /\ a.max = m.end
    /\ a.bytes = SegmentCost /\ a.events = <<>> /\ a.ecap = 0 /\ a.metrics = <<>> /\ a.mcap = 0

LEMMA OpenedFields ==
    ASSUME NEW r \in Recorders, r.rollupActive = NoRollup, NEW m \in Aggregates, NEW b \in Int,
           RecorderAssumption
    PROVE  Started(r, RollupOpened(r, b, m), RollupOpened(r, b, m).rollupActive, m)
<1> DEFINE z == RollupOpened(r, b, m)
           a == [Retained(m.start) EXCEPT !.end = m.end, !.max = m.end]
<1>1. r.bytes \in Int /\ SegmentCost \in Nat /\ NoRollup \notin Segments
  BY RecorderFields DEF RecorderAssumption
<1>2. r.bytes + SegmentCost \in Int
  BY <1>1
<1>3. m.start \in Nat /\ m.end \in Nat
  BY DEF Aggregates
<1> DEFINE new == Retained(m.start)
<1>4. /\ new \in Segments /\ new.start = m.start /\ new.min = m.start /\ new.bytes = SegmentCost
      /\ new.events = <<>> /\ new.ecap = 0 /\ new.metrics = <<>> /\ new.mcap = 0
  BY <1>1, <1>3 DEF Segments, Retained
<1>5. z = [r EXCEPT !.rollupBucket = b, !.bytes = r.bytes + SegmentCost, !.rollupActive = a]
  BY DEF RollupOpened, Recorders
<1> HIDE DEF z, new
<1>6. a \in Segments
  BY <1>1, <1>3, <1>4 DEF Segments, new
<1>7. /\ a.start = m.start /\ a.min = m.start /\ a.end = m.end /\ a.max = m.end
      /\ a.bytes = SegmentCost /\ a.events = <<>> /\ a.ecap = 0 /\ a.metrics = <<>> /\ a.mcap = 0
  BY <1>4 DEF Segments, new
<1> HIDE DEF a
<1>8. z \in Recorders
  BY <1>2, <1>5, <1>6 DEF Recorders
<1>9. /\ z.rollupActive = a /\ z.rollups = r.rollups /\ z.bytes = r.bytes + SegmentCost
      /\ z.sealed = r.sealed /\ z.active = r.active /\ z.drops = r.drops
      /\ z.aggregateEvictions = r.aggregateEvictions
  BY <1>5 DEF Recorders
<1> QED
  BY <1>1, <1>6, <1>7, <1>8, <1>9 DEF Started, SameRaw, z

LEMMA StartedSound ==
    ASSUME NEW r, NEW fl, fl # <<>>, NEW d, NEW q, NEW on, NEW t, Sound(r, fl, d, q, on, t),
           NEW x, Beneath(r, fl, x), r.rollupActive = NoRollup,
           NEW z, NEW a, Started(r, z, a, Head(fl)), RecorderAssumption
    PROVE  Sound(z, fl, d, q, on, t) /\ Beneath(z, fl, x)
<1> DEFINE m == Head(fl)
<1>0. /\ Books(r) /\ r \in Recorders /\ z \in Recorders /\ Advancing(r, fl) /\ Following(r) /\ Accounted(r)
      /\ Truthful(Chronicle(r, fl), r.aggregateEvictions, d, q, on, t)
      /\ Contiguous(r.active, q, on) /\ fl \in Seq(Aggregates)
  BY DEF Sound, Books, Started, Beneath
<1>1. /\ z.sealed = r.sealed /\ z.active = r.active /\ z.aggregateEvictions = r.aggregateEvictions
      /\ z.rollups = r.rollups /\ z.bytes = r.bytes + SegmentCost /\ z.rollupActive = a /\ a # NoRollup
  BY DEF Started, SameRaw
<1>2. /\ a \in Segments /\ a.start = m.start /\ a.min = m.start /\ a.end = m.end /\ a.max = m.end
      /\ a.bytes = SegmentCost /\ a.events = <<>> /\ a.ecap = 0 /\ a.metrics = <<>> /\ a.mcap = 0
  BY DEF Started
<1>3. Leading(r, fl, m)
  BY <1>0, FirstInFlight DEF Truthful, Recorded
<1>4. m.end <= x /\ x \in Nat /\ 1 <= m.start
  BY <1>0, TailFields DEF Beneath, Shifted
<1> HIDE DEF m
<1>5. Raws(z, fl) = Raws(r, fl)
  BY <1>1 DEF Raws
<1>6. Ledger(Rollups(z)) = Ledger(Rollups(r))
  <2>1. Rollups(z) = Append(r.rollups, a) /\ Rollups(r) = r.rollups /\ r.rollups \in Seq(Segments)
    BY <1>0, <1>1, RecorderFields DEF Rollups
  <2>2. Ledger(Append(r.rollups, a)) = Ledger(r.rollups) \o <<>> /\ Ledger(r.rollups) \in Seq(Aggregates)
    BY <1>2, <2>1, LedgerAppend, MetricsOf
  <2> QED
    BY <2>1, <2>2, ConcatEmptySeq
<1>7. Chronicle(z, fl) = Chronicle(r, fl)
  BY <1>5, <1>6 DEF Chronicle
<1>8. Advancing(z, fl)
  BY <1>0, <1>1, <1>2, <1>3, <1>5 DEF Advancing, Leading
<1>9. m.start \in Nat /\ m.end \in Nat /\ m.start < m.end
  BY <1>3 DEF Leading
<1>10. RollupOK(a)
  <2>1. Within(a)
    BY <1>2, <1>4, <1>9 DEF Within
  <2>2. Held(a, 0) = SegmentCost
    BY <1>2 DEF Held, RecorderAssumption
  <2> QED
    BY <1>2, <1>4, <2>1, <2>2 DEF RollupOK
<1>11. Accounted(z)
  <2>1. r.bytes = Total(r.rollups) + 0 + Total(r.sealed) + r.active.bytes
    BY <1>0 DEF Accounted, Rolled
  <2>2. Total(r.rollups) \in Int /\ Total(r.sealed) \in Int /\ r.active.bytes \in Int /\ SegmentCost \in Nat
    BY <1>0, TotalInt, RecorderFields, SegmentFields DEF RecorderAssumption
  <2>3. z.bytes = Total(r.rollups) + SegmentCost + Total(r.sealed) + r.active.bytes
    BY <1>1, <2>1, <2>2
  <2> QED
    BY <1>1, <1>2, <2>3 DEF Accounted, Rolled
<1>12. Following(z)
  <2>1. m.end <= z.active.start
    <3>1. r.active.start \in Nat /\ x <= r.active.start
      BY <1>0, RecorderFields, SegmentFields DEF Beneath
    <3> QED
      BY <1>1, <1>4, <1>9, <3>1
  <2>2. ASSUME NEW i \in DOMAIN z.sealed PROVE m.end <= z.sealed[i].end
    <3>1. r.sealed[i] \in Segments
      BY <1>0, <1>1, RecorderFields
    <3>2. r.sealed[i].end \in Nat /\ x <= r.sealed[i].end
      BY <1>1, <3>1, SegmentFields DEF Beneath
    <3> QED
      BY <1>1, <1>4, <1>9, <3>2
  <2>3. \A i \in DOMAIN z.rollups : z.rollups[i].end <= m.end
    BY <1>1, <1>3 DEF Leading
  <2> QED
    BY <1>0, <1>1, <1>2, <2>1, <2>2, <2>3 DEF Following
<1>13. Books(z)
  BY <1>0, <1>1, <1>10, <1>11, <1>12 DEF Books
<1>14. Roomy(z)
  BY <1>1, <1>2 DEF Roomy, RollupRoom, Merged
<1>15. Beneath(z, fl, x)
  BY <1>1, <1>2, <1>4 DEF Beneath
<1> QED
  BY <1>0, <1>1, <1>7, <1>8, <1>13, <1>14, <1>15 DEF Sound
-----------------------------------------------------------------------------
(* Adding the first aggregate in flight to the active roll-up.             *)

\* s is a, extended to span m.
Spans(s, a, m) ==
    /\ s \in Segments /\ s # NoRollup
    /\ s.end \in {a.end, m.end} /\ a.end <= s.end /\ m.end <= s.end
    /\ s.min \in {a.min, m.start}
    /\ s.start <= a.start /\ s.min <= a.min /\ s.min <= m.start /\ a.max <= s.max /\ m.end <= s.max
    /\ s.events = a.events /\ s.ecap = a.ecap

LEMMA SpanningFields ==
    ASSUME NEW a \in Segments, NEW m \in Aggregates, RecorderAssumption
    PROVE  /\ Spans(Spanning(a, m), a, m) /\ Spanning(a, m).bytes = a.bytes
           /\ Spanning(a, m).metrics = a.metrics /\ Spanning(a, m).mcap = a.mcap
<1> DEFINE s == Spanning(a, m)
           low == IF m.start < a.min THEN m.start ELSE a.min
           high == IF m.end > a.max THEN m.end ELSE a.max
           first == IF m.start < a.start THEN m.start ELSE a.start
           last == IF m.end > a.end THEN m.end ELSE a.end
<1>1. m.start \in Nat /\ m.end \in Nat
  BY DEF Aggregates
<1>2. a.start \in Nat /\ a.end \in Nat /\ a.min \in Nat /\ a.max \in Nat
  BY SegmentFields
<1>3. low \in Nat /\ low \in {a.min, m.start} /\ low <= a.min /\ low <= m.start /\ high \in Nat /\ a.max <= high /\ m.end <= high
  BY <1>1, <1>2
<1>4. first \in Nat /\ first <= a.start /\ last \in Nat /\ a.end <= last /\ m.end <= last /\ last \in {a.end, m.end}
  BY <1>1, <1>2
<1>5. s = [a EXCEPT !.min = low, !.max = high, !.start = first, !.end = last]
  BY DEF Spanning, Observed, Segments
<1> HIDE DEF s, low, high, first, last
<1>6. s \in Segments
  BY <1>3, <1>4, <1>5 DEF Segments
<1>7. /\ s.min = low /\ s.max = high /\ s.start = first /\ s.end = last /\ s.bytes = a.bytes
      /\ s.events = a.events /\ s.ecap = a.ecap /\ s.metrics = a.metrics /\ s.mcap = a.mcap
  BY <1>5 DEF Segments
<1>8. s # NoRollup
  BY <1>6 DEF RecorderAssumption
<1> QED
  BY <1>3, <1>4, <1>6, <1>7, <1>8 DEF Spans, s

\* z is r with an active roll-up that spans m as well.
Enlarged(r, z, m) ==
    /\ z \in Recorders /\ SameRaw(r, z) /\ z.rollups = r.rollups
    /\ Spans(z.rollupActive, r.rollupActive, m)

\* Metric i of the roll-up a is extended by m.
Extended(s, a, i, m) ==
    /\ s.bytes = a.bytes /\ s.mcap = a.mcap /\ Len(s.metrics) = Len(a.metrics)
    /\ s.metrics[i] = Lengthening(a.metrics[i], m)
    /\ \A h \in DOMAIN a.metrics : h # i => s.metrics[h] = a.metrics[h]

\* m is appended to the roll-up a.
Lengthened(s, a, m) ==
    /\ s.bytes = a.bytes + MetricGrowth(a) /\ s.metrics = Append(a.metrics, m)
    /\ s.mcap = Grown(Len(a.metrics), a.mcap, MetricCapacity)

LEMMA GrownFields ==
    ASSUME NEW a \in Segments, RecorderAssumption
    PROVE  /\ Grown(Len(a.metrics), a.mcap, MetricCapacity) \in Nat
           /\ MetricGrowth(a) \in Int /\ Len(a.metrics) \in Nat
           /\ a.mcap \in Nat /\ MetricCapacity \in Nat /\ MetricCapacity > 0 /\ MetricSize \in Nat
<1>1. a.mcap \in Nat /\ a.metrics \in Seq(Aggregates)
  BY SegmentFields
<1>2. Len(a.metrics) \in Nat
  BY <1>1
<1>3. MetricCapacity \in Nat /\ MetricCapacity > 0 /\ MetricSize \in Nat
  BY DEF RecorderAssumption
<1>4. Grown(Len(a.metrics), a.mcap, MetricCapacity) \in Nat
  BY <1>1, <1>2, <1>3 DEF Grown
<1>5. (Grown(Len(a.metrics), a.mcap, MetricCapacity) - a.mcap) * MetricSize \in Int
  BY <1>1, <1>3, <1>4
<1> QED
  BY <1>1, <1>2, <1>3, <1>4, <1>5 DEF MetricGrowth

LEMMA ContinuedLeast ==
    ASSUME NEW a \in Segments, NEW m, Continued(a, m) # {}
    PROVE  Min(Continued(a, m)) \in Continued(a, m)
<1>1. a.metrics \in Seq(Aggregates)
  BY SegmentFields
<1>2. Continued(a, m) \in SUBSET Nat
  BY <1>1 DEF Continued
<1>3. \E i \in Continued(a, m) : \A j \in Continued(a, m) : i <= j
  BY <1>2, Least
<1> QED
  BY <1>3 DEF Min

LEMMA ExtendedFields ==
    ASSUME NEW r \in Recorders, r.rollupActive # NoRollup, NEW m \in Aggregates,
           Continued(r.rollupActive, m) # {}, RecorderAssumption
    PROVE  \E i \in Continued(r.rollupActive, m) :
              /\ Enlarged(r, addRollupMetric(r, m), m)
              /\ Extended(addRollupMetric(r, m).rollupActive, r.rollupActive, i, m)
              /\ addRollupMetric(r, m).bytes = r.bytes
<1> DEFINE a == r.rollupActive
           z == addRollupMetric(r, m)
           i == Min(Continued(a, m))
           s == Spanning(a, m)
           e == Lengthening(s.metrics[i], m)
           v == [s EXCEPT !.metrics[i] = e]
<1>1. a \in Segments
  BY RecorderFields
<1>2. i \in Continued(a, m)
  BY <1>1, ContinuedLeast
<1>3. Spans(s, a, m) /\ s.bytes = a.bytes /\ s.metrics = a.metrics /\ s.mcap = a.mcap
  BY <1>1, SpanningFields
<1>4. a.metrics \in Seq(Aggregates) /\ i \in DOMAIN a.metrics
  BY <1>1, <1>2, SegmentFields DEF Continued
<1>5. z = [r EXCEPT !.rollupActive = [s EXCEPT !.metrics[i] = Lengthening(@, m)]]
  BY Zenon DEF addRollupMetric
<1> HIDE DEF a, z, i, s
<1>6. e \in Aggregates
  <2> DEFINE y == s.metrics[i]
  <2>1. y \in Aggregates
    BY <1>3, <1>4
  <2> HIDE DEF y
  <2>2. m.end \in Nat /\ m.count \in Nat /\ y.count \in Nat
    BY <2>1 DEF Aggregates
  <2>3. y.count + m.count \in Nat
    BY <2>2
  <2>4. [y EXCEPT !.end = m.end, !.count = y.count + m.count] \in Aggregates
    BY <2>1, <2>2, <2>3 DEF Aggregates
  <2> QED
    BY <2>4 DEF y, Lengthening
<1>7. s \in Segments
  BY <1>3 DEF Spans
<1>8. [s EXCEPT !.metrics[i] = Lengthening(@, m)] = v
  BY Zenon
<1>9. z = [r EXCEPT !.rollupActive = v]
  BY <1>5, <1>8
<1> DEFINE M == [a.metrics EXCEPT ![i] = e]
<1>10. M \in Seq(Aggregates) /\ Len(M) = Len(a.metrics) /\ M[i] = e
       /\ \A h \in DOMAIN a.metrics : h # i => M[h] = a.metrics[h]
  <2> HIDE DEF e
  <2> QED
    BY <1>4, <1>6
<1>11. v = [s EXCEPT !.metrics = M]
  BY <1>3, <1>7 DEF Segments
<1> HIDE DEF v, M, e
<1>12. v \in Segments
  BY <1>7, <1>10, <1>11 DEF Segments
<1>13. /\ v.metrics = M /\ v.start = s.start /\ v.end = s.end /\ v.min = s.min /\ v.max = s.max
       /\ v.bytes = s.bytes /\ v.events = s.events /\ v.ecap = s.ecap /\ v.mcap = s.mcap
  BY <1>7, <1>11 DEF Segments
<1>14. v # NoRollup
  BY <1>12 DEF RecorderAssumption
<1>15. z \in Recorders
  BY <1>9, <1>12 DEF Recorders
<1>16. /\ z.rollupActive = v /\ z.rollups = r.rollups /\ z.bytes = r.bytes
       /\ z.sealed = r.sealed /\ z.active = r.active /\ z.drops = r.drops
       /\ z.aggregateEvictions = r.aggregateEvictions
  BY <1>9 DEF Recorders
<1>17. Spans(v, a, m)
  BY <1>3, <1>12, <1>13, <1>14 DEF Spans
<1>18. Enlarged(r, z, m)
  BY <1>15, <1>16, <1>17 DEF Enlarged, SameRaw, a
<1>19. Extended(v, a, i, m)
  <2>1. M[i] = Lengthening(a.metrics[i], m)
    BY <1>3, <1>10 DEF e
  <2> QED
    BY <1>3, <1>10, <1>13, <2>1 DEF Extended
<1> QED
  BY <1>2, <1>16, <1>18, <1>19 DEF a, z

LEMMA LengthenedFields ==
    ASSUME NEW r \in Recorders, r.rollupActive # NoRollup, NEW m \in Aggregates,
           Continued(r.rollupActive, m) = {}, RecorderAssumption
    PROVE  /\ Enlarged(r, addRollupMetric(r, m), m)
           /\ Lengthened(addRollupMetric(r, m).rollupActive, r.rollupActive, m)
           /\ addRollupMetric(r, m).bytes = r.bytes + MetricGrowth(r.rollupActive)
<1> DEFINE a == r.rollupActive
           z == addRollupMetric(r, m)
           s == Spanning(a, m)
           g == MetricGrowth(a)
           n == Grown(Len(a.metrics), a.mcap, MetricCapacity)
           v == [WithMetric(s, m) EXCEPT !.bytes = @ + g]
<1>1. a \in Segments /\ r.bytes \in Int
  BY RecorderFields
<1>2. Spans(s, a, m) /\ s.bytes = a.bytes /\ s.metrics = a.metrics /\ s.mcap = a.mcap
  BY <1>1, SpanningFields
<1>3. a.metrics \in Seq(Aggregates) /\ a.bytes \in Int
  BY <1>1, SegmentFields
<1>4. g \in Int /\ n \in Nat
  BY <1>1, GrownFields
<1>5. z = [r EXCEPT !.bytes = r.bytes + g, !.rollupActive = v]
  BY Zenon DEF addRollupMetric
<1> HIDE DEF a, z, s, g
<1>6. s \in Segments
  BY <1>2 DEF Spans
<1>7. v = [s EXCEPT !.metrics = Append(a.metrics, m), !.mcap = n, !.bytes = a.bytes + g]
  BY <1>2, <1>6 DEF Segments, WithMetric
<1> HIDE DEF v, n
<1>8. Append(a.metrics, m) \in Seq(Aggregates) /\ a.bytes + g \in Int /\ r.bytes + g \in Int
  BY <1>1, <1>3, <1>4, AppendedFields
<1>9. v \in Segments
  BY <1>4, <1>6, <1>7, <1>8 DEF Segments
<1>10. /\ v.metrics = Append(a.metrics, m) /\ v.mcap = n /\ v.bytes = a.bytes + g
       /\ v.start = s.start /\ v.end = s.end /\ v.min = s.min /\ v.max = s.max
       /\ v.events = s.events /\ v.ecap = s.ecap
  BY <1>6, <1>7 DEF Segments
<1>11. v # NoRollup
  BY <1>9 DEF RecorderAssumption
<1>12. z \in Recorders
  BY <1>5, <1>8, <1>9 DEF Recorders
<1>13. /\ z.rollupActive = v /\ z.rollups = r.rollups /\ z.bytes = r.bytes + g
       /\ z.sealed = r.sealed /\ z.active = r.active /\ z.drops = r.drops
       /\ z.aggregateEvictions = r.aggregateEvictions
  BY <1>5 DEF Recorders
<1>14. Spans(v, a, m)
  BY <1>2, <1>9, <1>10, <1>11 DEF Spans
<1>15. Enlarged(r, z, m)
  BY <1>12, <1>13, <1>14 DEF Enlarged, SameRaw, a
<1>16. Lengthened(v, a, m)
  BY <1>10 DEF Lengthened, g, n
<1> QED
  BY <1>13, <1>15, <1>16 DEF a, z, g
LEMMA FlightRest ==
    ASSUME NEW fl \in Seq(Aggregates), fl # <<>>, NEW B \in Seq(Aggregates)
    PROVE  Rest(Tail(fl) \o B, fl \o B, 1) /\ (fl \o B)[1] = Head(fl)
<1> DEFINE g == Tail(fl)
           c == g \o B
           e == fl \o B
<1>1. g \in Seq(Aggregates) /\ Len(g) = Len(fl) - 1 /\ Head(fl) = fl[1] /\ 1 \in DOMAIN fl
      /\ \A i \in DOMAIN g : i + 1 \in DOMAIN fl /\ g[i] = fl[i + 1] /\ i \in Nat
  BY TailFields DEF Shifted
<1> HIDE DEF g
<1>2. Spliced(c, g, B) /\ Spliced(e, fl, B)
  BY <1>1, ConcatFields
<1> HIDE DEF c, e
<1>3. Len(e) = 1 + Len(c) /\ DOMAIN c = 1..(Len(g) + Len(B)) /\ Len(fl) \in Nat /\ Len(B) \in Nat /\ Len(g) \in Nat
  BY <1>1, <1>2 DEF Spliced
<1>4. ASSUME NEW i \in DOMAIN c PROVE c[i] = e[1 + i]
  <2>1. CASE i <= Len(g)
    <3>1. i \in DOMAIN g /\ c[i] = g[i]
      BY <1>2, <1>3, <2>1 DEF Spliced
    <3>2. 1 + i = i + 1
      BY <1>3
    <3> QED
      BY <1>1, <1>2, <3>1, <3>2 DEF Spliced
  <2>2. CASE ~(i <= Len(g))
    <3>1. PICK j : j = i - Len(g)
      OBVIOUS
    <3>2. j \in DOMAIN B /\ i = Len(g) + j /\ 1 + i = Len(fl) + j
      BY <1>1, <1>2, <1>3, <2>2, <3>1 DEF Spliced
    <3> QED
      BY <1>2, <3>2 DEF Spliced
  <2> QED
    BY <2>1, <2>2
<1>5. e[1] = fl[1]
  BY <1>1, <1>2 DEF Spliced
<1> QED
  BY <1>1, <1>3, <1>4, <1>5 DEF Rest, c, e, g

\* The step from r to z takes the first aggregate in flight into the roll-up.
Takes(r, fl, z, x, d, q, on, t) ==
    /\ Sound(r, fl, d, q, on, t) /\ Beneath(r, fl, x) /\ fl # <<>> /\ r.rollupActive # NoRollup
    /\ Enlarged(r, z, Head(fl))

LEMMA TakesFields ==
    ASSUME NEW r, NEW fl, NEW z, NEW x, NEW d, NEW q, NEW on, NEW t, Takes(r, fl, z, x, d, q, on, t)
    PROVE  /\ Books(r) /\ r \in Recorders /\ z \in Recorders /\ Advancing(r, fl) /\ Following(r)
           /\ Accounted(r) /\ Truthful(Chronicle(r, fl), r.aggregateEvictions, d, q, on, t)
           /\ Recorded(Chronicle(r, fl), d, q, on) /\ Ordered(Chronicle(r, fl))
           /\ Contiguous(r.active, q, on) /\ Roomy(r)
           /\ fl \in Seq(Aggregates) /\ fl # <<>> /\ Tail(fl) \in Seq(Aggregates)
           /\ Leading(r, fl, Head(fl)) /\ Head(fl).end <= x /\ x \in Nat /\ 1 <= Head(fl).start
           /\ r.rollupActive \in Segments /\ r.rollupActive # NoRollup
<1>1. /\ Books(r) /\ r \in Recorders /\ z \in Recorders /\ Advancing(r, fl) /\ Following(r)
      /\ Accounted(r) /\ Truthful(Chronicle(r, fl), r.aggregateEvictions, d, q, on, t)
      /\ Contiguous(r.active, q, on) /\ Roomy(r) /\ fl \in Seq(Aggregates) /\ fl # <<>>
      /\ r.rollupActive # NoRollup
  BY DEF Takes, Sound, Books, Beneath, Enlarged
<1>2. Recorded(Chronicle(r, fl), d, q, on) /\ Ordered(Chronicle(r, fl))
  BY <1>1 DEF Truthful, Recorded
<1>3. Tail(fl) \in Seq(Aggregates) /\ Head(fl) = fl[1] /\ 1 \in DOMAIN fl
  BY <1>1, TailFields DEF Shifted
<1>4. Head(fl).end <= x /\ x \in Nat /\ 1 <= Head(fl).start
  BY <1>3 DEF Takes, Beneath
<1>5. Leading(r, fl, Head(fl))
  BY <1>1, <1>2, FirstInFlight
<1>6. r.rollupActive \in Segments
  BY <1>1, RecorderFields
<1> QED
  BY <1>1, <1>2, <1>3, <1>4, <1>5, <1>6

LEMMA TakesFollowing ==
    ASSUME NEW r, NEW fl, NEW z, NEW x, NEW d, NEW q, NEW on, NEW t, Takes(r, fl, z, x, d, q, on, t)
    PROVE  Following(z) /\ Advancing(z, Tail(fl)) /\ Beneath(z, Tail(fl), x)
<1> DEFINE m == Head(fl)
           a == r.rollupActive
           s == z.rollupActive
           B == Ledger(Append(r.sealed, r.active))
           raw == Raws(r, fl)
           next == Raws(z, Tail(fl))
<1>1. /\ r \in Recorders /\ z \in Recorders /\ Advancing(r, fl) /\ Following(r)
      /\ fl \in Seq(Aggregates) /\ fl # <<>> /\ Tail(fl) \in Seq(Aggregates)
      /\ Leading(r, fl, m) /\ m.end <= x /\ x \in Nat /\ a # NoRollup
  BY TakesFields, Zenon
<1>2. /\ z.sealed = r.sealed /\ z.active = r.active /\ z.rollups = r.rollups
      /\ s # NoRollup /\ s.end \in {a.end, m.end} /\ a.end <= s.end /\ m.end <= s.end
  BY DEF Takes, Enlarged, SameRaw, Spans
<1>3. Beneath(r, fl, x)
  BY DEF Takes
<1> HIDE DEF m, a, s
<1>4. s.end <= x /\ a.end <= x
  BY <1>1, <1>2, <1>3 DEF Beneath, a
<1>5. Rest(next, raw, 1) /\ raw[1] = m
  BY <1>1, <1>2, ChronicleFields, FlightRest DEF Raws, m
<1>6. raw \in Seq(Aggregates) /\ next \in Seq(Aggregates)
  BY <1>1, ChronicleFields
<1> HIDE DEF raw, next, B
<1>7. \A j \in DOMAIN next : 1 + j \in DOMAIN raw /\ next[j] = raw[1 + j] /\ j \in Nat
  BY <1>5, <1>6 DEF Rest
<1>8. Advancing(z, Tail(fl))
  <2>1. ASSUME NEW i \in DOMAIN next, NEW j \in DOMAIN next, i < j
        PROVE  next[i].end <= next[j].end
    <3>1. 1 + i < 1 + j
      BY <1>7, <2>1
    <3> QED
      BY <1>1, <1>7, <3>1 DEF Advancing, raw
  <2>2. ASSUME NEW j \in DOMAIN next
        PROVE  /\ \A i \in DOMAIN z.rollups : z.rollups[i].end <= next[j].end
               /\ s.end <= next[j].end
    <3>1. /\ \A i \in DOMAIN r.rollups : r.rollups[i].end <= raw[1 + j].end
          /\ a.end <= raw[1 + j].end
      BY <1>1, <1>7 DEF Advancing, raw, a
    <3>2. m.end <= raw[1 + j].end
      BY <1>1, <1>7 DEF Leading, raw
    <3> QED
      BY <1>2, <1>7, <3>1, <3>2
  <2> QED
    BY <2>1, <2>2 DEF Advancing, next, s
<1>9. Beneath(z, Tail(fl), x)
  <2>1. \A i \in DOMAIN Tail(fl) : i + 1 \in DOMAIN fl /\ Tail(fl)[i] = fl[i + 1]
    BY <1>1, TailFields DEF Shifted
  <2> QED
    BY <1>1, <1>2, <1>3, <1>4, <2>1 DEF Beneath, s
<1>10. Following(z)
  <2>1. s.end <= z.active.start
    <3>1. r.active.start \in Nat /\ x <= r.active.start /\ a.end <= r.active.start
      BY <1>1, <1>3, RecorderFields, SegmentFields DEF Beneath, Following, a
    <3>2. m.end \in Nat
      BY <1>1 DEF Leading
    <3> QED
      BY <1>1, <1>2, <3>1, <3>2
  <2>2. ASSUME NEW i \in DOMAIN z.sealed PROVE s.end <= z.sealed[i].end
    <3>1. r.sealed[i] \in Segments
      BY <1>1, <1>2, RecorderFields
    <3>2. r.sealed[i].end \in Nat /\ x <= r.sealed[i].end /\ a.end <= r.sealed[i].end
      BY <1>1, <1>2, <1>3, <3>1, SegmentFields DEF Beneath, Following, a
    <3>3. m.end \in Nat
      BY <1>1 DEF Leading
    <3> QED
      BY <1>1, <1>2, <3>2, <3>3
  <2>3. ASSUME NEW i \in DOMAIN z.rollups PROVE z.rollups[i].end <= s.end
    BY <1>1, <1>2 DEF Following, a, Leading
  <2>4. /\ \A i, j \in DOMAIN z.rollups : i < j => z.rollups[i].end <= z.rollups[j].end
        /\ \A i \in DOMAIN z.rollups : z.rollups[i].end <= z.active.start
        /\ \A i, j \in DOMAIN z.sealed : i < j => z.sealed[i].end <= z.sealed[j].end
        /\ \A i \in DOMAIN z.sealed :
              /\ z.sealed[i].end <= z.active.start
              /\ \A j \in DOMAIN z.rollups : z.rollups[j].end <= z.sealed[i].end
    BY <1>1, <1>2 DEF Following
  <2> QED
    BY <2>1, <2>2, <2>3, <2>4 DEF Following, s
<1> QED
  BY <1>8, <1>9, <1>10

\* The chronicle of a recorder with an active roll-up.
LEMMA RolledChronicle ==
    ASSUME NEW r \in Recorders, r.rollupActive # NoRollup, NEW fl \in Seq(Aggregates)
    PROVE  /\ Chronicle(r, fl) = (Ledger(r.rollups) \o r.rollupActive.metrics) \o Raws(r, fl)
           /\ Ledger(r.rollups) \in Seq(Aggregates) /\ r.rollupActive.metrics \in Seq(Aggregates)
           /\ Raws(r, fl) \in Seq(Aggregates) /\ Chronicle(r, fl) \in Seq(Aggregates)
<1>1. r.rollupActive \in Segments /\ r.rollups \in Seq(Segments) /\ Rollups(r) = Append(r.rollups, r.rollupActive)
  BY RecorderFields DEF Rollups
<1>2. Ledger(Rollups(r)) = Ledger(r.rollups) \o r.rollupActive.metrics
  BY <1>1, LedgerAppend
<1>3. Ledger(r.rollups) \in Seq(Aggregates) /\ r.rollupActive.metrics \in Seq(Aggregates)
  BY <1>1, MetricsOf, SegmentFields
<1>4. Raws(r, fl) \in Seq(Aggregates) /\ Chronicle(r, fl) \in Seq(Aggregates)
  BY ChronicleFields
<1> QED
  BY <1>2, <1>3, <1>4 DEF Chronicle

LEMMA ConcatJoined ==
    ASSUME NEW L \in Seq(Aggregates), NEW M \in Seq(Aggregates), NEW N \in Seq(Aggregates),
           NEW Q \in Seq(Aggregates), NEW R \in Seq(Aggregates), Rest(R, Q, 1),
           NEW i \in DOMAIN M, Len(N) = Len(M), N[i] = Lengthening(M[i], Q[1]),
           \A h \in DOMAIN M : h # i => N[h] = M[h],
           M[i].family = Q[1].family, M[i].end = Q[1].start
    PROVE  Joined((L \o N) \o R, (L \o M) \o Q, Len(L) + i, Len(L) + Len(M) + 1)
<1> DEFINE P == L \o M
           O == L \o N
           e == P \o Q
           c == O \o R
           l == Len(L)
           n == Len(M)
<1>1. P \in Seq(Aggregates) /\ O \in Seq(Aggregates) /\ Spliced(P, L, M) /\ Spliced(O, L, N)
  BY ConcatFields
<1>2. Spliced(e, P, Q) /\ Spliced(c, O, R)
  <2> HIDE DEF P, O
  <2> QED
    BY <1>1, ConcatFields
<1> HIDE DEF P, O, e, c, l, n
<1>3. l \in Nat /\ n \in Nat /\ DOMAIN M = 1..n /\ DOMAIN N = 1..n /\ Len(P) = l + n /\ Len(O) = l + n
      /\ Len(Q) \in Nat /\ Len(R) \in Nat /\ Len(Q) = 1 + Len(R)
  BY <1>1, <1>2 DEF Spliced, Rest, l, n
<1>4. Len(e) = Len(c) + 1
  BY <1>2, <1>3 DEF Spliced
<1>5. DOMAIN P = 1..(l + n) /\ DOMAIN O = 1..(l + n) /\ DOMAIN Q = 1..Len(Q) /\ DOMAIN R = 1..Len(R)
      /\ DOMAIN e = 1..Len(e)
  BY <1>1, <1>2, <1>3 DEF Spliced, l, n
<1>6. /\ \A h \in 1..(l + n) : h \in DOMAIN e /\ e[h] = P[h] /\ c[h] = O[h]
      /\ \A j \in 1..Len(Q) : l + n + j \in DOMAIN e /\ e[l + n + j] = Q[j]
      /\ \A j \in 1..Len(R) : c[l + n + j] = R[j]
  BY <1>2, <1>3, <1>5 DEF Spliced
<1>7. ASSUME NEW h \in 1..(l + n), h # l + i PROVE O[h] = P[h]
  <2>1. CASE h <= l
    <3>1. h \in DOMAIN L
      BY <1>1, <2>1 DEF Spliced, l
    <3> QED
      BY <1>1, <3>1 DEF Spliced
  <2>2. CASE ~(h <= l)
    <3>1. PICK j : j = h - l
      OBVIOUS
    <3>2. j \in DOMAIN M /\ j \in DOMAIN N /\ h = l + j /\ j # i
      BY <1>3, <1>7, <2>2, <3>1
    <3>3. O[h] = N[j] /\ P[h] = M[j]
      BY <1>1, <3>2 DEF Spliced, l
    <3> QED
      BY <3>2, <3>3
  <2> QED
    BY <2>1, <2>2
<1>8. l + i \in 1..(l + n) /\ O[l + i] = N[i] /\ P[l + i] = M[i]
  BY <1>1, <1>3 DEF Spliced, l
<1>9. 1 \in 1..Len(Q) /\ e[l + n + 1] = Q[1] /\ l + n + 1 \in DOMAIN e
  BY <1>3, <1>6
<1>10. ASSUME NEW h \in (l + n + 1)..Len(c) PROVE c[h] = e[h + 1]
  <2>1. PICK j : j = h - (l + n)
    OBVIOUS
  <2>2. Len(c) = l + n + Len(R)
    BY <1>2, <1>3 DEF Spliced
  <2>3. j \in 1..Len(R) /\ h = l + n + j /\ 1 + j \in 1..Len(Q) /\ h + 1 = l + n + (1 + j)
    BY <1>3, <2>1, <2>2
  <2>4. R[j] = Q[1 + j]
    BY <1>5, <2>3 DEF Rest
  <2> QED
    BY <1>6, <2>3, <2>4
<1>11. \A h \in 1..((l + n + 1) - 1) : h # l + i => c[h] = e[h]
  BY <1>3, <1>6, <1>7
<1>12. c[l + i] = Lengthening(e[l + i], e[l + n + 1])
  BY <1>6, <1>8, <1>9
<1>13. /\ l + i \in DOMAIN e /\ l + n + 1 \in DOMAIN e /\ l + i < l + n + 1
       /\ e[l + i].family = e[l + n + 1].family /\ e[l + i].end = e[l + n + 1].start
  BY <1>3, <1>6, <1>8, <1>9
<1> QED
  BY <1>4, <1>10, <1>11, <1>12, <1>13 DEF Joined, c, e, l, n, O, P

LEMMA TakesExtended ==
    ASSUME NEW r, NEW fl, NEW z, NEW x, NEW d, DeltasOK(d), NEW q, NEW on, NEW t,
           Takes(r, fl, z, x, d, q, on, t),
           NEW i \in Continued(r.rollupActive, Head(fl)),
           Extended(z.rollupActive, r.rollupActive, i, Head(fl))
    PROVE  Truthful(Chronicle(z, Tail(fl)), z.aggregateEvictions, d, q, on, t)
<1> DEFINE L == Ledger(r.rollups)
           M == r.rollupActive.metrics
           N == z.rollupActive.metrics
           Q == Raws(r, fl)
           R == Raws(z, Tail(fl))
           e == Chronicle(r, fl)
           c == Chronicle(z, Tail(fl))
<1>1. /\ r \in Recorders /\ z \in Recorders /\ Advancing(r, fl) /\ Ordered(e)
      /\ Truthful(e, r.aggregateEvictions, d, q, on, t) /\ Recorded(e, d, q, on)
      /\ fl \in Seq(Aggregates) /\ fl # <<>> /\ Tail(fl) \in Seq(Aggregates) /\ r.rollupActive # NoRollup
  BY TakesFields, Zenon
<1>2. z.rollups = r.rollups /\ z.sealed = r.sealed /\ z.active = r.active /\ z.rollupActive # NoRollup
      /\ z.aggregateEvictions = r.aggregateEvictions
  BY DEF Takes, Enlarged, SameRaw, Spans
<1>3. /\ e = (L \o M) \o Q /\ c = (L \o N) \o R
      /\ L \in Seq(Aggregates) /\ M \in Seq(Aggregates) /\ N \in Seq(Aggregates)
      /\ Q \in Seq(Aggregates) /\ R \in Seq(Aggregates)
      /\ c \in Seq(Aggregates) /\ e \in Seq(Aggregates)
  BY <1>1, <1>2, RolledChronicle
<1>4. Rest(R, Q, 1) /\ Q[1] = Head(fl)
  BY <1>1, <1>2, ChronicleFields, FlightRest DEF Raws
<1>5. i \in DOMAIN M /\ M[i].family = Head(fl).family /\ M[i].end = Head(fl).start
  BY DEF Continued
<1>6. Len(N) = Len(M) /\ N[i] = Lengthening(M[i], Head(fl))
      /\ \A h \in DOMAIN M : h # i => N[h] = M[h]
  BY DEF Extended
<1> HIDE DEF L, M, N, Q, R, c, e
<1>7. Joined((L \o N) \o R, (L \o M) \o Q, Len(L) + i, Len(L) + Len(M) + 1)
  BY <1>3, <1>4, <1>5, <1>6, ConcatJoined
<1>8. Joined(c, e, Len(L) + i, Len(L) + Len(M) + 1)
  BY <1>3, <1>7
<1>9. Recorded(c, d, q, on)
  <2>1. Recorded(e, d, q, on) /\ DeltasOK(d) /\ c \in Seq(Aggregates) /\ e \in Seq(Aggregates)
    BY <1>1, <1>3
  <2> QED
    BY <1>8, <2>1, JoinedRecorded, Zenon
<1>10. z.aggregateEvictions = 0 => Complete(c, d, t)
  <2> SUFFICES ASSUME z.aggregateEvictions = 0 PROVE Complete(c, d, t)
    OBVIOUS
  <2>1. Complete(e, d, t)
    BY <1>1, <1>2 DEF Truthful
  <2> QED
    BY <1>1, <1>3, <1>8, <2>1, JoinedComplete, Zenon
<1> QED
  BY <1>9, <1>10 DEF Truthful, c

LEMMA TakesLengthened ==
    ASSUME NEW r, NEW fl, NEW z, NEW x, NEW d, NEW q, NEW on, NEW t,
           Takes(r, fl, z, x, d, q, on, t),
           Lengthened(z.rollupActive, r.rollupActive, Head(fl))
    PROVE  Chronicle(z, Tail(fl)) = Chronicle(r, fl)
<1> DEFINE L == Ledger(r.rollups)
           M == r.rollupActive.metrics
           B == Ledger(Append(r.sealed, r.active))
           m == Head(fl)
           g == Tail(fl)
           P == L \o M
<1>1. /\ r \in Recorders /\ z \in Recorders
      /\ fl \in Seq(Aggregates) /\ fl # <<>> /\ g \in Seq(Aggregates) /\ r.rollupActive # NoRollup
  BY TakesFields, Zenon
<1>2. z.rollups = r.rollups /\ z.sealed = r.sealed /\ z.active = r.active /\ z.rollupActive # NoRollup
      /\ z.rollupActive.metrics = Append(M, m)
  BY DEF Takes, Enlarged, SameRaw, Spans, Lengthened
<1>3. /\ Chronicle(r, fl) = (L \o M) \o Raws(r, fl)
      /\ Chronicle(z, g) = (L \o Append(M, m)) \o Raws(z, g)
      /\ L \in Seq(Aggregates) /\ M \in Seq(Aggregates) /\ B \in Seq(Aggregates)
  BY <1>1, <1>2, RolledChronicle, ChronicleFields
<1>4. Raws(r, fl) = fl \o B /\ Raws(z, g) = g \o B
  BY <1>2 DEF Raws
<1>5. <<m>> \in Seq(Aggregates) /\ fl = <<m>> \o g /\ Append(M, m) = M \o <<m>>
  BY <1>1, <1>3, SMTT(30)
<1> HIDE DEF L, M, B, m, g
<1>6. P \in Seq(Aggregates)
  BY <1>3, ConcatProperties
<1>7. (<<m>> \o g) \o B = <<m>> \o (g \o B)
  <2>1. Regroups(<<m>>, g, B)
    BY <1>1, <1>3, <1>5, Regrouped, Zenon
  <2> QED
    BY <2>1 DEF Regroups
<1>8. (L \o M) \o <<m>> = L \o (M \o <<m>>)
  <2>1. Regroups(L, M, <<m>>)
    BY <1>3, <1>5, Regrouped, Zenon
  <2> QED
    BY <2>1 DEF Regroups
<1>9. (P \o <<m>>) \o (g \o B) = P \o (<<m>> \o (g \o B))
  <2>1. g \o B \in Seq(Aggregates)
    BY <1>1, <1>3, ConcatProperties
  <2>2. Regroups(P, <<m>>, g \o B)
    BY <1>5, <1>6, <2>1, Regrouped, Zenon
  <2> QED
    BY <2>2 DEF Regroups
<1> QED
  BY <1>3, <1>4, <1>5, <1>7, <1>8, <1>9 DEF g
\* What the roll-up of r holds of the family of m ended before m.
LEMMA RolledBefore ==
    ASSUME NEW r \in Recorders, r.rollupActive # NoRollup, NEW fl \in Seq(Aggregates), fl # <<>>,
           Advancing(r, fl), Ordered(Chronicle(r, fl)),
           NEW h \in DOMAIN r.rollupActive.metrics,
           r.rollupActive.metrics[h].family = Head(fl).family
    PROVE  r.rollupActive.metrics[h].end <= Head(fl).start
<1> DEFINE L == Ledger(r.rollups)
           M == r.rollupActive.metrics
           Q == Raws(r, fl)
           c == Chronicle(r, fl)
           m == Head(fl)
<1>1. c = (L \o M) \o Q /\ L \in Seq(Aggregates) /\ M \in Seq(Aggregates) /\ Q \in Seq(Aggregates)
      /\ c \in Seq(Aggregates)
  BY RolledChronicle
<1>2. Q[1] = m /\ 1 \in DOMAIN Q
  BY FirstInFlight
<1> HIDE DEF L, M, Q, c, m
<1>3. L \o M \in Seq(Aggregates) /\ Spliced(L \o M, L, M)
  BY <1>1, ConcatFields
<1>4. Spliced(c, L \o M, Q)
  BY <1>1, <1>3, ConcatFields
<1>5. PICK y : y = Len(L) + h
  OBVIOUS
<1>6. PICK w : w = Len(L \o M) + 1
  OBVIOUS
<1>7. y \in DOMAIN (L \o M) /\ (L \o M)[y] = M[h] /\ DOMAIN (L \o M) = 1..Len(L \o M) /\ Len(L \o M) \in Nat
  BY <1>3, <1>4, <1>5 DEF Spliced, M
<1>8. y \in DOMAIN c /\ c[y] = M[h] /\ w \in DOMAIN c /\ c[w] = m
  BY <1>2, <1>4, <1>6, <1>7 DEF Spliced
<1>9. y < w
  BY <1>6, <1>7
<1>10. c[y].family = c[w].family
  BY <1>8 DEF M, m
<1>11. c[y].end <= c[w].start
  BY <1>8, <1>9, <1>10 DEF Ordered, c
<1> QED
  BY <1>8, <1>11 DEF M, m

\* The roll-up of a recorder has no more than two aggregates of a family.
LEMMA RollupBound ==
    ASSUME NEW r \in Recorders, r.rollupActive # NoRollup, NEW fl \in Seq(Aggregates),
           NEW d, NEW q, NEW on, Recorded(Chronicle(r, fl), d, q, on), Merged(r.rollupActive),
           RecorderAssumption
    PROVE  Len(r.rollupActive.metrics) <= 2 * MetricCapacity
<1> DEFINE L == Ledger(r.rollups)
           M == r.rollupActive.metrics
           c == Chronicle(r, fl)
<1>1. c = (L \o M) \o Raws(r, fl) /\ L \in Seq(Aggregates) /\ M \in Seq(Aggregates)
      /\ Raws(r, fl) \in Seq(Aggregates) /\ c \in Seq(Aggregates)
  BY RolledChronicle
<1>2. Ordered(c) /\ Unbroken(c, q, on)
  BY DEF Recorded
<1>3. \A i, j \in DOMAIN M : M[i].family = M[j].family => M[i].end # M[j].start
  BY DEF Merged
<1> HIDE DEF L, M, c
<1>4. Inside(c, M, Len(L))
  BY <1>1, SplicedInside
<1>5. Len(M) <= 2 * NumFamilies
  BY <1>1, <1>2, <1>3, <1>4, PairsBound
<1>6. NumFamilies \in Nat /\ MetricCapacity \in Nat /\ NumFamilies <= MetricCapacity /\ Len(M) \in Nat
  BY <1>1 DEF RecorderAssumption
<1> QED
  BY <1>5, <1>6 DEF M

\* Taking one aggregate into the roll-up lengthens it by at most one, and is
\* charged the growth of its slice.
Grows(r, z) ==
    /\ z.bytes = r.bytes + (z.rollupActive.mcap - r.rollupActive.mcap) * MetricSize
    /\ z.rollupActive # NoRollup
    /\ Len(z.rollupActive.metrics) <= Len(r.rollupActive.metrics) + 1

LEMMA ExtendedBooks ==
    ASSUME NEW r, NEW fl, NEW z, NEW x, NEW d, NEW q, NEW on, NEW t,
           Takes(r, fl, z, x, d, q, on, t), z.bytes = r.bytes,
           NEW i \in Continued(r.rollupActive, Head(fl)),
           Extended(z.rollupActive, r.rollupActive, i, Head(fl)), RecorderAssumption
    PROVE  RollupOK(z.rollupActive) /\ Accounted(z) /\ RollupRoom(z.rollupActive) /\ Grows(r, z)
<1> DEFINE a == r.rollupActive
           s == z.rollupActive
           m == Head(fl)
           M == a.metrics
           N == s.metrics
<1>1. /\ Books(r) /\ r \in Recorders /\ z \in Recorders /\ Advancing(r, fl)
      /\ Accounted(r) /\ Ordered(Chronicle(r, fl)) /\ Roomy(r)
      /\ fl \in Seq(Aggregates) /\ fl # <<>> /\ Leading(r, fl, m) /\ a \in Segments /\ a # NoRollup
      /\ 1 <= m.start
  BY TakesFields, Zenon
<1>2. /\ z.rollups = r.rollups /\ z.sealed = r.sealed /\ z.active = r.active /\ Spans(s, a, m)
  BY DEF Takes, Enlarged, SameRaw
<1>3. /\ s.bytes = a.bytes /\ s.mcap = a.mcap /\ Len(N) = Len(M) /\ N[i] = Lengthening(M[i], m)
      /\ \A h \in DOMAIN M : h # i => N[h] = M[h]
  BY DEF Extended
<1>4. i \in DOMAIN M /\ M[i].family = m.family /\ M[i].end = m.start
  BY DEF Continued
<1>5. s \in Segments /\ s # NoRollup
  BY <1>2 DEF Spans
<1>6. M \in Seq(Aggregates) /\ N \in Seq(Aggregates)
  BY <1>1, <1>5, SegmentFields
<1>7. DOMAIN N = DOMAIN M /\ Len(M) \in Nat
  BY <1>3, <1>6
<1>8. RollupOK(a) /\ RollupRoom(a)
  BY <1>1 DEF Books, Roomy
<1>9. \A h \in DOMAIN M : h \in Nat /\ M[h].family = m.family => M[h].end <= m.start
  BY <1>1, RolledBefore
<1>10. m.start \in Nat /\ m.end \in Nat /\ m.start < m.end
  BY <1>1 DEF Leading
<1> HIDE DEF m
<1>11. N[i].family = M[i].family /\ N[i].start = M[i].start /\ N[i].end = m.end
  <2>1. M[i] \in Aggregates
    BY <1>4, <1>6
  <2> QED
    BY <1>3, <2>1 DEF Lengthening, Aggregates
<1>12. \A h \in DOMAIN M : M[h].start \in Nat /\ M[h].end \in Nat /\ M[h].start < M[h].end
  BY <1>6, <1>8, AggregateFields DEF RollupOK, Within
<1>13. /\ s.start \in Nat /\ s.end \in Nat /\ s.min \in Nat /\ s.max \in Nat
       /\ a.start \in Nat /\ a.end \in Nat /\ a.min \in Nat /\ a.max \in Nat
  BY <1>1, <1>5, SegmentFields
<1>14. Within(s)
  <2>1. s.min <= s.max /\ s.start <= s.end
    <3>1. a.min <= a.max /\ a.start <= a.end
      BY <1>8 DEF RollupOK, Within
    <3>2. s.min <= a.min /\ a.max <= s.max /\ s.start <= a.start /\ a.end <= s.end
      BY <1>2 DEF Spans
    <3> QED
      BY <1>13, <3>1, <3>2
  <2>2. ASSUME NEW h \in DOMAIN N
        PROVE  /\ 1 <= N[h].start /\ s.min <= N[h].start /\ N[h].start < N[h].end
               /\ N[h].end <= s.max /\ N[h].end <= s.end
    <3>1. /\ a.min <= M[h].start /\ M[h].start < M[h].end /\ M[h].end <= a.max /\ M[h].end <= a.end
          /\ M[h].start \in Nat /\ M[h].end \in Nat /\ 1 <= M[h].start
      BY <1>7, <1>8, <1>12 DEF RollupOK, Within
    <3>2. /\ s.min <= a.min /\ a.max <= s.max /\ a.end <= s.end /\ m.end <= s.max /\ m.end <= s.end
      BY <1>2 DEF Spans
    <3>3. CASE h = i
      BY <1>4, <1>10, <1>11, <1>13, <3>1, <3>2, <3>3
    <3>4. CASE h # i
      <4>1. N[h] = M[h]
        BY <1>3, <1>7, <3>4
      <4> HIDE DEF M, N
      <4> QED
        BY <1>13, <3>1, <3>2, <4>1
    <3> QED
      BY <3>3, <3>4
  <2>3. s.events = <<>>
    BY <1>2, <1>8 DEF RollupOK, Spans
  <2> QED
    BY <2>1, <2>2, <2>3 DEF Within
<1>15. RollupOK(s)
  <2>1. s.events = a.events /\ s.ecap = a.ecap
    BY <1>2 DEF Spans
  <2>2. Held(s, 0) = Held(a, 0)
    BY <1>3, <2>1 DEF Held
  <2>3. 1 <= s.min
    BY <1>1, <1>2, <1>8 DEF Spans, RollupOK
  <2> QED
    BY <1>3, <1>8, <1>14, <2>1, <2>2, <2>3 DEF RollupOK
<1>16. Accounted(z)
  BY <1>1, <1>2, <1>3, <1>5 DEF Accounted, Rolled
<1>17. Merged(s)
  <2> SUFFICES ASSUME NEW h \in DOMAIN N, NEW j \in DOMAIN N, N[h].family = N[j].family,
                      N[h].end = N[j].start
               PROVE  FALSE
    BY DEF Merged
  <2>1. h \in DOMAIN M /\ j \in DOMAIN M
    BY <1>7
  <2>2. M[h].start \in Nat /\ M[h].end \in Nat /\ M[j].start \in Nat /\ M[j].end \in Nat
        /\ M[h].start < M[h].end /\ M[j].start < M[j].end
    BY <1>12, <2>1
  <2>3. N[j].start = M[j].start /\ N[j].family = M[j].family /\ N[h].family = M[h].family
    BY <1>3, <1>11, <2>1
  <2>4. CASE h = i
    <3>1. M[j].end <= m.start /\ M[j].start = m.end
      <4>1. M[j].family = m.family
        BY <1>4, <2>3, <2>4
      <4>2. j \in Nat
        BY <1>6
      <4> QED
        BY <1>9, <1>11, <2>1, <2>3, <2>4, <4>1, <4>2
    <3> QED
      BY <1>10, <2>2, <3>1
  <2>5. CASE h # i
    <3>1. N[h] = M[h]
      BY <1>3, <2>1, <2>5
    <3> QED
      BY <1>8, <2>1, <2>3, <3>1 DEF RollupRoom, Merged
  <2> QED
    BY <2>4, <2>5
<1>18. RollupRoom(s)
  BY <1>3, <1>8, <1>17 DEF RollupRoom
<1>19. Grows(r, z)
  <2>1. r.bytes \in Int /\ a.mcap \in Nat /\ MetricSize \in Nat
    BY <1>1, RecorderFields, SegmentFields DEF RecorderAssumption
  <2>2. (s.mcap - a.mcap) * MetricSize = 0
    <3>1. s.mcap - a.mcap = 0
      BY <1>3, <2>1
    <3> QED
      BY <2>1, <3>1
  <2>3. z.bytes = r.bytes + 0
    BY <2>1
  <2> QED
    BY <1>3, <1>5, <1>7, <2>2, <2>3 DEF Grows
<1> QED
  BY <1>15, <1>16, <1>18, <1>19
LEMMA LengthenedRoom ==
    ASSUME NEW a \in Segments, RollupRoom(a), NEW s \in Segments, NEW m, Lengthened(s, a, m),
           Merged(s), Len(s.metrics) = Len(a.metrics) + 1,
           Len(s.metrics) <= 2 * MetricCapacity, RecorderAssumption
    PROVE  RollupRoom(s)
<1>1. a.mcap \in Nat /\ Len(a.metrics) \in Nat /\ MetricCapacity \in Nat /\ MetricCapacity > 0
  BY GrownFields
<1>2. s.mcap = IF Len(a.metrics) < a.mcap THEN a.mcap
               ELSE IF a.mcap = 0 THEN MetricCapacity ELSE 2 * a.mcap
  BY DEF Lengthened, Grown
<1>3. /\ Len(a.metrics) <= a.mcap
      /\ a.mcap = 0 \/ a.mcap = MetricCapacity \/ (a.mcap = 2 * MetricCapacity /\ Len(a.metrics) > MetricCapacity)
  BY DEF RollupRoom
<1>4. CASE Len(a.metrics) < a.mcap
  <2>1. s.mcap = a.mcap /\ Len(s.metrics) <= s.mcap
    BY <1>1, <1>2, <1>4
  <2>2. Len(s.metrics) > Len(a.metrics)
    BY <1>1
  <2>3. s.mcap = MetricCapacity \/ (s.mcap = 2 * MetricCapacity /\ Len(s.metrics) > MetricCapacity)
    BY <1>1, <1>3, <1>4, <2>1
  <2> QED
    BY <2>1, <2>3 DEF RollupRoom
<1>5. CASE ~(Len(a.metrics) < a.mcap)
  <2>1. Len(a.metrics) = a.mcap
    BY <1>1, <1>3, <1>5
  <2>2. CASE a.mcap = 0
    <3>1. s.mcap = MetricCapacity /\ Len(s.metrics) = 1
      BY <1>2, <1>5, <2>1, <2>2
    <3>2. 1 <= MetricCapacity
      BY <1>1
    <3>3. Len(s.metrics) <= s.mcap
      BY <3>1, <3>2, Zenon
    <3> QED
      BY <3>1, <3>3 DEF RollupRoom
  <2>3. CASE a.mcap = MetricCapacity
    <3>1. s.mcap = 2 * MetricCapacity /\ Len(s.metrics) = MetricCapacity + 1
      BY <1>1, <1>2, <1>5, <2>1, <2>3
    <3>2. Len(s.metrics) <= s.mcap /\ Len(s.metrics) > MetricCapacity
      BY <1>1, <3>1
    <3> QED
      BY <3>1, <3>2 DEF RollupRoom
  <2>4. CASE a.mcap = 2 * MetricCapacity
    BY <1>1, <2>1, <2>4
  <2> QED
    BY <1>3, <2>2, <2>3, <2>4
<1> QED
  BY <1>4, <1>5

LEMMA LengthenedBooks ==
    ASSUME NEW r, NEW fl, NEW z, NEW x, NEW d, NEW q, NEW on, NEW t,
           Takes(r, fl, z, x, d, q, on, t), z.bytes = r.bytes + MetricGrowth(r.rollupActive),
           Continued(r.rollupActive, Head(fl)) = {},
           Lengthened(z.rollupActive, r.rollupActive, Head(fl)), RecorderAssumption
    PROVE  RollupOK(z.rollupActive) /\ Accounted(z) /\ RollupRoom(z.rollupActive) /\ Grows(r, z)
<1> DEFINE a == r.rollupActive
           s == z.rollupActive
           m == Head(fl)
           M == a.metrics
           N == s.metrics
           g == MetricGrowth(a)
<1>1. /\ Books(r) /\ r \in Recorders /\ z \in Recorders /\ Advancing(r, fl)
      /\ Accounted(r) /\ Recorded(Chronicle(r, fl), d, q, on) /\ Ordered(Chronicle(r, fl)) /\ Roomy(r)
      /\ fl \in Seq(Aggregates) /\ fl # <<>> /\ Tail(fl) \in Seq(Aggregates)
      /\ Leading(r, fl, m) /\ a \in Segments /\ a # NoRollup /\ 1 <= m.start
  BY TakesFields, Zenon
<1>2. /\ z.rollups = r.rollups /\ z.sealed = r.sealed /\ z.active = r.active /\ Spans(s, a, m)
  BY DEF Takes, Enlarged, SameRaw
<1>3. s.bytes = a.bytes + g /\ N = Append(M, m) /\ s.mcap = Grown(Len(M), a.mcap, MetricCapacity)
  BY DEF Lengthened
<1>4. s \in Segments /\ s # NoRollup
  BY <1>2 DEF Spans
<1>5. M \in Seq(Aggregates) /\ N \in Seq(Aggregates) /\ m \in Aggregates
  BY <1>1, <1>4, SegmentFields DEF Leading
<1>6. /\ Len(M) \in Nat /\ DOMAIN M = 1..Len(M) /\ Len(N) = Len(M) + 1
      /\ N[Len(M) + 1] = m /\ \A h \in DOMAIN M : N[h] = M[h]
      /\ \A h \in DOMAIN N : h \in DOMAIN M \/ h = Len(M) + 1
  BY <1>3, <1>5, AppendFields
<1>7. RollupOK(a) /\ RollupRoom(a)
  BY <1>1 DEF Books, Roomy
<1>8. \A h \in DOMAIN M : M[h].family = m.family => M[h].end <= m.start
  BY <1>1, RolledBefore
<1>9. \A h \in DOMAIN M : M[h].family = m.family => M[h].end # m.start
  BY DEF Continued
<1>10. m.start \in Nat /\ m.end \in Nat /\ m.start < m.end
  BY <1>1 DEF Leading
<1>11. s.mcap \in Nat /\ g \in Int /\ a.mcap \in Nat /\ MetricSize \in Nat
  BY <1>1, <1>4, GrownFields, SegmentFields
<1>12. g = (s.mcap - a.mcap) * MetricSize
  BY <1>3 DEF MetricGrowth
<1> HIDE DEF m, M, N, g
<1>13. \A h \in DOMAIN M : M[h].start \in Nat /\ M[h].end \in Nat /\ M[h].start < M[h].end
  BY <1>5, <1>7, AggregateFields DEF RollupOK, Within, M
<1>14. /\ s.start \in Nat /\ s.end \in Nat /\ s.min \in Nat /\ s.max \in Nat
       /\ a.start \in Nat /\ a.end \in Nat /\ a.min \in Nat /\ a.max \in Nat
       /\ s.bytes \in Int /\ a.bytes \in Int /\ a.ecap \in Nat
  BY <1>1, <1>4, SegmentFields
<1>15. Within(s)
  <2>1. s.min <= s.max /\ s.start <= s.end
    <3>1. a.min <= a.max /\ a.start <= a.end
      BY <1>7 DEF RollupOK, Within
    <3>2. s.min <= a.min /\ a.max <= s.max /\ s.start <= a.start /\ a.end <= s.end
      BY <1>2 DEF Spans
    <3> QED
      BY <1>14, <3>1, <3>2
  <2>2. ASSUME NEW h \in DOMAIN N
        PROVE  /\ 1 <= N[h].start /\ s.min <= N[h].start /\ N[h].start < N[h].end
               /\ N[h].end <= s.max /\ N[h].end <= s.end
    <3>1. /\ s.min <= a.min /\ a.max <= s.max /\ a.end <= s.end /\ s.min <= m.start
          /\ m.end <= s.max /\ m.end <= s.end
      BY <1>2 DEF Spans
    <3>2. CASE h = Len(M) + 1
      BY <1>1, <1>6, <1>10, <3>1, <3>2
    <3>3. CASE h \in DOMAIN M
      <4>1. /\ a.min <= M[h].start /\ M[h].start < M[h].end /\ M[h].end <= a.max /\ M[h].end <= a.end
            /\ M[h].start \in Nat /\ M[h].end \in Nat /\ 1 <= M[h].start
        BY <1>7, <1>13, <3>3 DEF RollupOK, Within, M
      <4>2. N[h] = M[h]
        BY <1>6, <3>3
      <4> QED
        BY <1>14, <3>1, <4>1, <4>2
    <3> QED
      BY <1>6, <3>2, <3>3
  <2>3. s.events = <<>>
    BY <1>2, <1>7 DEF RollupOK, Spans
  <2> QED
    BY <2>1, <2>2, <2>3 DEF Within, N
<1>16. RollupOK(s)
  <2>1. s.events = <<>> /\ s.ecap = 0
    BY <1>2, <1>7 DEF Spans, RollupOK
  <2>2. a.bytes = SegmentCost + a.mcap * MetricSize
    <3>1. a.bytes = SegmentCost + 0 * EventSize + Len(<<>>) * EventText + a.mcap * MetricSize + Len(a.metrics) * 0
      BY <1>7 DEF RollupOK, Held
    <3>2. SegmentCost \in Nat /\ EventSize \in Nat /\ EventText \in Nat /\ Len(a.metrics) \in Nat
          /\ a.mcap * MetricSize \in Nat
      BY <1>6, <1>11 DEF RecorderAssumption, M
    <3> QED
      BY <3>1, <3>2
  <2>3. s.bytes = SegmentCost + s.mcap * MetricSize
    <3>1. (s.mcap - a.mcap) * MetricSize = s.mcap * MetricSize - a.mcap * MetricSize
      BY <1>11
    <3>2. SegmentCost \in Nat /\ a.mcap * MetricSize \in Nat /\ s.mcap * MetricSize \in Nat
      BY <1>11 DEF RecorderAssumption
    <3> QED
      BY <1>3, <1>12, <2>2, <3>1, <3>2
  <2>4. Held(s, 0) = SegmentCost + s.mcap * MetricSize
    <3>1. Held(s, 0) = SegmentCost + 0 * EventSize + Len(<<>>) * EventText + s.mcap * MetricSize + Len(s.metrics) * 0
      BY <2>1 DEF Held
    <3>2. SegmentCost \in Nat /\ EventSize \in Nat /\ EventText \in Nat /\ Len(s.metrics) \in Nat
          /\ s.mcap * MetricSize \in Nat
      BY <1>6, <1>11 DEF RecorderAssumption, N
    <3> QED
      BY <3>1, <3>2
  <2>5. 1 <= s.min
    BY <1>1, <1>2, <1>7 DEF Spans, RollupOK
  <2> QED
    BY <1>15, <2>1, <2>3, <2>4, <2>5 DEF RollupOK
<1>17. Accounted(z)
  <2>1. r.bytes = Total(r.rollups) + a.bytes + Total(r.sealed) + r.active.bytes
    BY <1>1 DEF Accounted, Rolled
  <2>2. Total(r.rollups) \in Int /\ Total(r.sealed) \in Int /\ r.active.bytes \in Int
    BY <1>1, TotalInt, RecorderFields, SegmentFields
  <2>3. z.bytes = r.bytes + g
    BY DEF g
  <2>4. z.bytes = Total(r.rollups) + s.bytes + Total(r.sealed) + r.active.bytes
    <3>1. s.bytes = a.bytes + g /\ a.bytes \in Int /\ g \in Int
      BY <1>3, <1>11, <1>14
    <3> DEFINE T == Total(r.rollups)
               U == Total(r.sealed)
               V == r.active.bytes
               W == a.bytes
               Y == s.bytes
    <3>2. T \in Int /\ U \in Int /\ V \in Int /\ W \in Int /\ z.bytes = (T + W + U + V) + g /\ Y = W + g
      BY <2>1, <2>2, <2>3, <3>1
    <3> HIDE DEF T, U, V, W, Y
    <3>3. z.bytes = T + Y + U + V
      BY <3>1, <3>2
    <3> QED
      BY <3>3 DEF T, U, V, Y
  <2> QED
    BY <1>2, <1>4, <2>4 DEF Accounted, Rolled
<1>18. Merged(s)
  <2> SUFFICES ASSUME NEW h \in DOMAIN N, NEW j \in DOMAIN N, N[h].family = N[j].family,
                      N[h].end = N[j].start
               PROVE  FALSE
    BY DEF Merged, N
  <2>1. CASE h = Len(M) + 1 /\ j = Len(M) + 1
    BY <1>6, <1>10, <2>1
  <2>2. CASE h = Len(M) + 1 /\ j \in DOMAIN M
    <3>1. M[j].family = m.family /\ M[j].start = m.end
      BY <1>6, <2>2
    <3>2. M[j].end <= m.start
      BY <1>8, <2>2, <3>1
    <3>3. M[j].start \in Nat /\ M[j].end \in Nat /\ M[j].start < M[j].end
      BY <1>13, <2>2
    <3> QED
      BY <1>10, <3>1, <3>2, <3>3
  <2>3. CASE h \in DOMAIN M /\ j = Len(M) + 1
    BY <1>6, <1>9, <2>3
  <2>4. CASE h \in DOMAIN M /\ j \in DOMAIN M
    BY <1>6, <1>7, <2>4 DEF RollupRoom, Merged, M
  <2> QED
    BY <1>6, <2>1, <2>2, <2>3, <2>4
<1>19. RollupRoom(s)
  <2>1. Chronicle(z, Tail(fl)) = Chronicle(r, fl)
    BY TakesLengthened, Zenon
  <2>2. Len(N) <= 2 * MetricCapacity
    BY <1>1, <1>4, <1>18, <2>1, RollupBound DEF N
  <2>3. Len(s.metrics) = Len(a.metrics) + 1 /\ Len(s.metrics) <= 2 * MetricCapacity
    BY <1>6, <2>2 DEF M, N
  <2>4. Lengthened(s, a, m)
    BY DEF m
  <2> HIDE DEF a, s
  <2> QED
    BY <1>1, <1>4, <1>7, <1>18, <2>3, <2>4, LengthenedRoom
<1>20. Grows(r, z)
  <2>1. z.bytes = r.bytes + (s.mcap - a.mcap) * MetricSize
    BY <1>12 DEF g
  <2>2. Len(s.metrics) <= Len(a.metrics) + 1
    BY <1>6 DEF M, N
  <2> QED
    BY <1>4, <2>1, <2>2 DEF Grows
<1> QED
  BY <1>16, <1>17, <1>19, <1>20

LEMMA AddedSound ==
    ASSUME NEW r, NEW fl, NEW x, NEW d, DeltasOK(d), NEW q, NEW on, NEW t, Sound(r, fl, d, q, on, t),
           Beneath(r, fl, x), fl # <<>>, r.rollupActive # NoRollup, RecorderAssumption
    PROVE  /\ Sound(addRollupMetric(r, Head(fl)), Tail(fl), d, q, on, t)
           /\ Beneath(addRollupMetric(r, Head(fl)), Tail(fl), x)
           /\ SameRaw(r, addRollupMetric(r, Head(fl))) /\ Grows(r, addRollupMetric(r, Head(fl)))
<1> DEFINE m == Head(fl)
           z == addRollupMetric(r, m)
<1>1. r \in Recorders /\ fl \in Seq(Aggregates)
  BY DEF Sound, Books, Beneath
<1>2. m \in Aggregates
  BY <1>1, TailFields
<1> HIDE DEF z
<1>3. /\ Takes(r, fl, z, x, d, q, on, t)
      /\ Truthful(Chronicle(z, Tail(fl)), z.aggregateEvictions, d, q, on, t)
      /\ RollupOK(z.rollupActive) /\ Accounted(z) /\ RollupRoom(z.rollupActive) /\ Grows(r, z)
  <2>1. CASE Continued(r.rollupActive, m) # {}
    <3>1. PICK i \in Continued(r.rollupActive, m) :
             Enlarged(r, z, m) /\ Extended(z.rollupActive, r.rollupActive, i, m) /\ z.bytes = r.bytes
      BY <1>1, <1>2, <2>1, ExtendedFields DEF z
    <3>2. Takes(r, fl, z, x, d, q, on, t)
      BY <3>1 DEF Takes
    <3>3. Truthful(Chronicle(z, Tail(fl)), z.aggregateEvictions, d, q, on, t)
      BY <3>1, <3>2, TakesExtended, Zenon
    <3>4. RollupOK(z.rollupActive) /\ Accounted(z) /\ RollupRoom(z.rollupActive) /\ Grows(r, z)
      BY <3>1, <3>2, ExtendedBooks, Zenon
    <3> QED
      BY <3>2, <3>3, <3>4
  <2>2. CASE Continued(r.rollupActive, m) = {}
    <3>1. /\ Enlarged(r, z, m) /\ Lengthened(z.rollupActive, r.rollupActive, m)
          /\ z.bytes = r.bytes + MetricGrowth(r.rollupActive)
      BY <1>1, <1>2, <2>2, LengthenedFields DEF z
    <3>2. Takes(r, fl, z, x, d, q, on, t)
      BY <3>1 DEF Takes
    <3>3. Chronicle(z, Tail(fl)) = Chronicle(r, fl)
      BY <3>1, <3>2, TakesLengthened, Zenon
    <3>4. RollupOK(z.rollupActive) /\ Accounted(z) /\ RollupRoom(z.rollupActive) /\ Grows(r, z)
      BY <2>2, <3>1, <3>2, LengthenedBooks, Zenon
    <3>5. Truthful(Chronicle(z, Tail(fl)), z.aggregateEvictions, d, q, on, t)
      BY <3>1, <3>3 DEF Sound, Enlarged, SameRaw
    <3> QED
      BY <3>2, <3>4, <3>5
  <2> QED
    BY <2>1, <2>2
<1>4. Following(z) /\ Advancing(z, Tail(fl)) /\ Beneath(z, Tail(fl), x)
  BY <1>3, TakesFollowing, Zenon
<1>5. SameRaw(r, z) /\ z \in Recorders /\ z.rollups = r.rollups /\ z.sealed = r.sealed /\ z.active = r.active
  BY <1>3 DEF Takes, Enlarged, SameRaw
<1>6. Books(z)
  <2>1. Books(r)
    BY DEF Sound
  <2> QED
    BY <1>3, <1>4, <1>5, <2>1 DEF Books
<1>7. Roomy(z) /\ Contiguous(z.active, q, on)
  BY <1>3, <1>5 DEF Sound, Roomy
<1>8. Sound(z, Tail(fl), d, q, on, t)
  BY <1>3, <1>4, <1>6, <1>7 DEF Sound
<1> QED
  BY <1>3, <1>4, <1>5, <1>8 DEF z
LEMMA SliceFields ==
    ASSUME NEW S, NEW c \in Seq(S), NEW k \in 1..(Len(c) + 1)
    PROVE  /\ SubSeq(c, k, Len(c)) \in Seq(S) /\ Len(SubSeq(c, k, Len(c))) = Len(c) - k + 1
           /\ \A i \in 1..(Len(c) - k + 1) : SubSeq(c, k, Len(c))[i] = c[k + i - 1]
<1>1. Len(c) \in Nat /\ k \in Nat /\ DOMAIN c = 1..Len(c) /\ 1 <= k /\ k <= Len(c) + 1
  OBVIOUS
<1>2. ASSUME NEW i \in k..Len(c) PROVE c[i] \in S
  <2>1. i \in 1..Len(c)
    BY <1>1
  <2> QED
    BY <2>1, ElementOfSeq
<1> PICK n : n = Len(c)
  OBVIOUS
<1>3. k \in Int /\ n \in Int /\ \A i \in k..n : c[i] \in S
  BY <1>1, <1>2
<1>4. /\ SubSeq(c, k, n) \in Seq(S)
      /\ Len(SubSeq(c, k, n)) = IF k <= n THEN n - k + 1 ELSE 0
      /\ \A i \in 1..n - k + 1 : SubSeq(c, k, n)[i] = c[k + i - 1]
  BY <1>3, SubSeqProperties
<1> QED
  BY <1>1, <1>4

LEMMA Tails ==
    ASSUME NEW S, NEW c \in Seq(S), NEW k \in 1..Len(c)
    PROVE  /\ SubSeq(c, k, Len(c)) # <<>> /\ Head(SubSeq(c, k, Len(c))) = c[k]
           /\ Tail(SubSeq(c, k, Len(c))) = SubSeq(c, k + 1, Len(c))
<1> DEFINE u == SubSeq(c, k, Len(c))
           v == SubSeq(c, k + 1, Len(c))
<1>1. Len(c) \in Nat /\ k \in Nat /\ DOMAIN c = 1..Len(c)
  OBVIOUS
<1>2. \A i \in k..Len(c) : c[i] \in S
  <2> SUFFICES ASSUME NEW i \in k..Len(c) PROVE c[i] \in S
    OBVIOUS
  <2>1. i \in 1..Len(c)
    BY <1>1
  <2> QED
    BY <2>1, ElementOfSeq
<1>3. u \in Seq(S) /\ Len(u) = Len(c) - k + 1 /\ \A i \in 1..(Len(c) - k + 1) : u[i] = c[k + i - 1]
  BY <1>1, <1>2, SliceFields
<1>4. v \in Seq(S) /\ Len(v) = Len(c) - k /\ \A i \in 1..(Len(c) - k) : v[i] = c[k + 1 + i - 1]
  <2>1. k + 1 \in 1..(Len(c) + 1) /\ Len(c) - (k + 1) + 1 = Len(c) - k
    BY <1>1
  <2> QED
    BY <2>1, SliceFields
<1> HIDE DEF u, v
<1>5. u # <<>>
  BY <1>1, <1>3
<1>6. Shifted(u) /\ Tail(u) \in Seq(S)
  BY <1>3, <1>5, TailFields
<1>7. Head(u) = c[k]
  BY <1>1, <1>3, <1>6 DEF Shifted
<1>8. Len(Tail(u)) = Len(v)
  BY <1>1, <1>3, <1>4, <1>6 DEF Shifted
<1>9. ASSUME NEW i \in 1..Len(v) PROVE Tail(u)[i] = v[i]
  <2>1. Tail(u)[i] = u[i + 1]
    BY <1>6, <1>8 DEF Shifted
  <2>2. u[i + 1] = c[k + (i + 1) - 1] /\ v[i] = c[k + 1 + i - 1]
    BY <1>1, <1>3, <1>4
  <2>3. k + (i + 1) - 1 = k + 1 + i - 1
    BY <1>1
  <2> QED
    BY <2>1, <2>2, <2>3
<1>10. Tail(u) = v
  BY <1>4, <1>6, <1>8, <1>9, SeqEqual
<1> QED
  BY <1>5, <1>7, <1>10 DEF u, v

\* s is r after n of the aggregates in flight were taken, left are to come.
Folding(r, s, left, n, x, d, q, on, t) ==
    /\ Sound(s, left, d, q, on, t) /\ Beneath(s, left, x) /\ SameRaw(r, s)
    /\ s.rollupActive # NoRollup
    /\ s.bytes = r.bytes + (s.rollupActive.mcap - r.rollupActive.mcap) * MetricSize
    /\ Len(s.rollupActive.metrics) <= Len(r.rollupActive.metrics) + n

LEMMA FoldStep ==
    ASSUME NEW r \in Recorders, r.rollupActive # NoRollup, NEW s, NEW left, left # <<>>, NEW n \in Nat,
           NEW x, NEW d, DeltasOK(d), NEW q, NEW on, NEW t,
           Folding(r, s, left, n, x, d, q, on, t), RecorderAssumption
    PROVE  Folding(r, addRollupMetric(s, Head(left)), Tail(left), n + 1, x, d, q, on, t)
<1> DEFINE z == addRollupMetric(s, Head(left))
<1>1. /\ Sound(s, left, d, q, on, t) /\ Beneath(s, left, x) /\ SameRaw(r, s)
      /\ s.rollupActive # NoRollup
      /\ s.bytes = r.bytes + (s.rollupActive.mcap - r.rollupActive.mcap) * MetricSize
      /\ Len(s.rollupActive.metrics) <= Len(r.rollupActive.metrics) + n
  BY DEF Folding
<1>2. /\ Sound(z, Tail(left), d, q, on, t) /\ Beneath(z, Tail(left), x)
      /\ SameRaw(s, z) /\ Grows(s, z)
  BY <1>1, AddedSound, Zenon
<1> HIDE DEF z
<1>3. SameRaw(r, z) /\ z.rollupActive # NoRollup
  BY <1>1, <1>2 DEF SameRaw, Grows
<1>4. s \in Recorders /\ z \in Recorders
  BY <1>1, <1>2 DEF Sound, Books
<1> DEFINE a == r.rollupActive
           b == s.rollupActive
           c == z.rollupActive
<1>5. a \in Segments /\ b \in Segments /\ c \in Segments
  BY <1>1, <1>3, <1>4, RecorderFields
<1>6. /\ a.mcap \in Nat /\ b.mcap \in Nat /\ c.mcap \in Nat
      /\ Len(a.metrics) \in Nat /\ Len(b.metrics) \in Nat /\ Len(c.metrics) \in Nat
  BY <1>5, SegmentFields, LenProperties
<1>7. r.bytes \in Int /\ MetricSize \in Nat
  BY RecorderFields DEF RecorderAssumption
<1>8. z.bytes = s.bytes + (c.mcap - b.mcap) * MetricSize /\ Len(c.metrics) <= Len(b.metrics) + 1
  BY <1>2 DEF Grows
<1>9. z.bytes = r.bytes + (c.mcap - a.mcap) * MetricSize
  <2>1. s.bytes = r.bytes + (b.mcap - a.mcap) * MetricSize
    BY <1>1
  <2> DEFINE A == a.mcap
             B == b.mcap
             C == c.mcap
             R == r.bytes
             Y == s.bytes
             Z == z.bytes
             M == MetricSize
  <2>2. A \in Nat /\ B \in Nat /\ C \in Nat /\ R \in Int /\ M \in Nat
        /\ Y = R + (B - A) * M /\ Z = Y + (C - B) * M
    BY <1>6, <1>7, <1>8, <2>1
  <2> HIDE DEF A, B, C, R, Y, Z, M
  <2>3. (B - A) * M + (C - B) * M = (C - A) * M
    BY <2>2
  <2>4. (B - A) * M \in Int /\ (C - B) * M \in Int
    BY <2>2
  <2>5. Z = R + (C - A) * M
    BY <2>2, <2>3, <2>4
  <2> QED
    BY <2>5 DEF A, C, R, Z, M
<1>10. Len(c.metrics) <= Len(a.metrics) + (n + 1)
  <2> DEFINE A == Len(a.metrics)
             B == Len(b.metrics)
             C == Len(c.metrics)
  <2>1. B <= A + n /\ C <= B + 1 /\ A \in Nat /\ B \in Nat /\ C \in Nat
    BY <1>1, <1>6, <1>8
  <2> HIDE DEF A, B, C
  <2>2. C <= A + (n + 1)
    BY <2>1
  <2> QED
    BY <2>2 DEF A, C
<1>11. Folding(r, z, Tail(left), n + 1, x, d, q, on, t)
  BY <1>2, <1>3, <1>9, <1>10 DEF Folding
<1> QED
  BY <1>11 DEF z

LEMMA AllAddedSound ==
    ASSUME NEW r, NEW fl, NEW x, NEW d, DeltasOK(d), NEW q, NEW on, NEW t, Sound(r, fl, d, q, on, t),
           Beneath(r, fl, x), r.rollupActive # NoRollup, RecorderAssumption
    PROVE  Folding(r, AllAdded(r, fl), <<>>, Len(fl), x, d, q, on, t)
<1>1. r \in Recorders /\ fl \in Seq(Aggregates)
  BY DEF Sound, Books, Beneath
<1>2. PICK n \in Nat : n = Len(fl)
  BY <1>1, LenProperties
<1> DEFINE Left(k) == SubSeq(fl, k + 1, n)
           S == [k \in 0..n |-> {s \in Recorders : Folding(r, s, Left(k), k, x, d, q, on, t)}]
<1>3. Left(0) = fl /\ Left(n) = <<>>
  BY <1>1, <1>2
<1>4. \A k \in 0..n : S[k] = {s \in Recorders : Folding(r, s, Left(k), k, x, d, q, on, t)}
  OBVIOUS
<1> HIDE DEF S
<1>5. r \in S[0]
  <2>1. r.bytes = r.bytes + (r.rollupActive.mcap - r.rollupActive.mcap) * MetricSize
    <3>1. r.bytes \in Int /\ MetricSize \in Nat /\ r.rollupActive.mcap \in Nat
      BY <1>1, RecorderFields, SegmentFields DEF RecorderAssumption
    <3>2. (r.rollupActive.mcap - r.rollupActive.mcap) * MetricSize = 0
      BY <3>1
    <3> QED
      BY <3>1, <3>2
  <2>2. Len(r.rollupActive.metrics) <= Len(r.rollupActive.metrics) + 0
    <3>1. Len(r.rollupActive.metrics) \in Nat
      BY <1>1, RecorderFields, SegmentFields, LenProperties
    <3> QED
      BY <3>1
  <2>3. SameRaw(r, r)
    BY DEF SameRaw
  <2>4. Folding(r, r, fl, 0, x, d, q, on, t)
    BY <2>1, <2>2, <2>3 DEF Folding
  <2> HIDE DEF Left
  <2> QED
    BY <1>1, <1>2, <1>3, <1>4, <2>4
<1>6. ASSUME NEW k \in 1..n, NEW s \in S[k - 1] PROVE addRollupMetric(s, fl[k]) \in S[k]
  <2>1. k - 1 \in 0..n /\ k \in 0..n /\ k - 1 \in Nat /\ (k - 1) + 1 = k
    BY <1>2
  <2>2. Folding(r, s, Left(k - 1), k - 1, x, d, q, on, t)
    BY <1>4, <2>1
  <2>3. Left(k - 1) = SubSeq(fl, k, Len(fl)) /\ Left(k) = SubSeq(fl, k + 1, Len(fl))
    BY <1>2, <2>1
  <2>4. Left(k - 1) # <<>> /\ Head(Left(k - 1)) = fl[k] /\ Tail(Left(k - 1)) = Left(k)
    BY <1>1, <1>2, <2>3, Tails
  <2> HIDE DEF Left
  <2>5. Folding(r, addRollupMetric(s, Head(Left(k - 1))), Tail(Left(k - 1)), (k - 1) + 1, x, d, q, on, t)
    BY <1>1, <2>1, <2>2, <2>4, FoldStep
  <2>6. Folding(r, addRollupMetric(s, fl[k]), Left(k), k, x, d, q, on, t)
    BY <2>1, <2>4, <2>5
  <2>7. addRollupMetric(s, fl[k]) \in Recorders
    BY <2>6 DEF Folding, Sound, Books
  <2> QED
    BY <1>4, <2>1, <2>6, <2>7
<1>7. AllAdded(r, fl) \in S[n]
  BY <1>2, <1>5, <1>6, FoldEnds
<1>8. Folding(r, AllAdded(r, fl), Left(n), n, x, d, q, on, t)
  BY <1>2, <1>4, <1>7
<1> QED
  BY <1>2, <1>3, <1>8

LEMMA LessTimes ==
    ASSUME NEW g \in Int, NEW m \in Int, g <= m, NEW w \in Nat
    PROVE  g * w <= m * w /\ g * w \in Int /\ m * w \in Int
<1>1. PICK k \in Nat : m = g + k
  <2>1. m - g \in Nat /\ m = g + (m - g)
    OBVIOUS
  <2> QED
    BY <2>1
<1>2. (g + k) * w = g * w + k * w /\ k * w \in Nat /\ g * w \in Int
  BY <1>1
<1> QED
  BY <1>1, <1>2

\* Where the roll-up was when the aggregates ms start to be added to it.
LEMMA FoldGrowth ==
    ASSUME NEW r, NEW s, NEW ms \in Seq(Aggregates), ms # <<>>, NEW x, NEW d, NEW q, NEW on, NEW t,
           r.rollupActive \in Segments, RollupRoom(r.rollupActive),
           Folding(r, s, <<>>, Len(ms), x, d, q, on, t),
           NEW old \in Segments, RawOK(old), old.metrics = ms, RecorderAssumption
    PROVE  /\ s.rollupActive.mcap - r.rollupActive.mcap <= old.mcap
           /\ s.rollupActive.mcap \in Nat /\ r.rollupActive.mcap \in Nat /\ old.mcap \in Nat
<1> DEFINE A == r.rollupActive.mcap
           B == s.rollupActive.mcap
           O == old.mcap
           a == Len(r.rollupActive.metrics)
           b == Len(s.rollupActive.metrics)
           o == Len(ms)
<1>1. s.rollupActive \in Segments /\ RollupRoom(s.rollupActive)
  <2>1. s \in Recorders /\ s.rollupActive # NoRollup /\ Roomy(s)
    BY DEF Folding, Sound, Books
  <2> QED
    BY <2>1, RecorderFields DEF Roomy
<1>2. A \in Nat /\ B \in Nat /\ O \in Nat /\ a \in Nat /\ b \in Nat /\ o \in Nat /\ o # 0
  <2>1. A \in Nat /\ B \in Nat /\ O \in Nat /\ a \in Nat /\ b \in Nat
    BY <1>1, SegmentFields, LenProperties
  <2> QED
    BY <2>1, EmptySeq
<1>3. b <= a + o
  BY DEF Folding
<1>4. /\ a <= A /\ b <= B
      /\ A = 0 \/ A = MetricCapacity \/ (A = 2 * MetricCapacity /\ a > MetricCapacity)
      /\ B = 0 \/ B = MetricCapacity \/ (B = 2 * MetricCapacity /\ b > MetricCapacity)
  BY <1>1 DEF RollupRoom
<1>5. o <= O /\ (O = 0 \/ O = MetricCapacity \/ O >= 2 * MetricCapacity)
  BY DEF RawOK
<1>6. MetricCapacity \in Nat /\ MetricCapacity > 0
  BY DEF RecorderAssumption
<1> HIDE DEF A, B, O, a, b, o
<1>7. B - A <= O
  <2>1. CASE A = 0
    <3>1. b <= o
      BY <1>2, <1>3, <1>4, <2>1
    <3>2. B <= O
      BY <1>2, <1>4, <1>5, <1>6, <3>1
    <3> QED
      BY <1>2, <2>1, <3>2
  <2>2. CASE A # 0
    <3>1. A >= MetricCapacity /\ B <= 2 * MetricCapacity
      BY <1>4, <1>6, <2>2
    <3>2. O >= MetricCapacity
      BY <1>2, <1>5, <1>6
    <3> QED
      BY <1>2, <1>6, <3>1, <3>2
  <2> QED
    BY <2>1, <2>2
<1> QED
  BY <1>2, <1>7 DEF A, B, O

\* What a raw segment is charged for its metrics.
LEMMA RawCharge ==
    ASSUME NEW s \in Segments, RawOK(s), RecorderAssumption
    PROVE  s.bytes >= SegmentCost + s.mcap * MetricSize /\ s.bytes \in Nat
<1>1. /\ s.bytes = SegmentCost + s.ecap * EventSize + Len(s.events) * EventText
                   + s.mcap * MetricSize + Len(s.metrics) * FamilyText
  BY DEF RawOK, Held
<1>2. /\ s.ecap \in Nat /\ s.mcap \in Nat /\ Len(s.events) \in Nat /\ Len(s.metrics) \in Nat
  BY SegmentFields, LenProperties
<1>3. /\ SegmentCost \in Nat /\ EventSize \in Nat /\ EventText \in Nat /\ MetricSize \in Nat
      /\ FamilyText \in Nat
  BY DEF RecorderAssumption
<1>4. /\ s.ecap * EventSize \in Nat /\ Len(s.events) * EventText \in Nat
      /\ s.mcap * MetricSize \in Nat /\ Len(s.metrics) * FamilyText \in Nat
  BY <1>2, <1>3
<1> DEFINE B == s.bytes
           a == s.ecap * EventSize
           b == Len(s.events) * EventText
           c == s.mcap * MetricSize
           e == Len(s.metrics) * FamilyText
<1>5. B = SegmentCost + a + b + c + e /\ SegmentCost \in Nat /\ a \in Nat /\ b \in Nat /\ c \in Nat /\ e \in Nat
  BY <1>1, <1>3, <1>4
<1> HIDE DEF B, a, b, c, e
<1>6. B >= SegmentCost + c /\ B \in Nat
  BY <1>5
<1> QED
  BY <1>6 DEF B, c

LEMMA RollupCharge ==
    ASSUME NEW s \in Segments, RollupOK(s), RecorderAssumption
    PROVE  s.bytes \in Nat
<1>1. s.bytes = SegmentCost + 0 * EventSize + Len(<<>>) * EventText + s.mcap * MetricSize + Len(s.metrics) * 0
  BY DEF RollupOK, Held
<1>2. /\ s.mcap \in Nat /\ Len(s.metrics) \in Nat
      /\ SegmentCost \in Nat /\ EventSize \in Nat /\ EventText \in Nat /\ MetricSize \in Nat
  BY SegmentFields, LenProperties DEF RecorderAssumption
<1>3. s.mcap * MetricSize \in Nat
  BY <1>2
<1> QED
  BY <1>1, <1>2, <1>3

\* The fold of the segment old, which r no longer has.
LEMMA FoldedSound ==
    ASSUME NEW r, NEW old \in Segments, RawOK(old), NEW d, DeltasOK(d), NEW q, NEW on, NEW t,
           Sound(r, old.metrics, d, q, on, t), Beneath(r, old.metrics, old.end),
           NEW bucket \in Int, RecorderAssumption
    PROVE  /\ Sound(Folded(r, old, bucket), <<>>, d, q, on, t) /\ SameRaw(r, Folded(r, old, bucket))
           /\ Folded(r, old, bucket).bytes <= r.bytes + old.bytes
<1> DEFINE ms == old.metrics
           u == RollupSealed(r, bucket)
           v == RollupOpened(u, bucket, Head(ms))
           z == AllAdded(v, ms)
           x == old.end
<1>1. r \in Recorders /\ r.bytes \in Int /\ ms \in Seq(Aggregates)
  BY RecorderFields, SegmentFields DEF Sound, Books
<1>2. old.bytes >= SegmentCost + old.mcap * MetricSize /\ old.bytes \in Nat /\ old.mcap \in Nat
      /\ SegmentCost \in Nat /\ MetricSize \in Nat
  BY RawCharge, SegmentFields DEF RecorderAssumption
<1>3. CASE ms = <<>>
  <2>1. Folded(r, old, bucket) = r
    BY <1>3 DEF Folded
  <2> QED
    BY <1>1, <1>2, <1>3, <2>1 DEF SameRaw
<1>4. CASE ms # <<>>
  <2>1. Folded(r, old, bucket) = z
    BY <1>4, Zenon DEF Folded
  <2>2. /\ Sound(u, ms, d, q, on, t) /\ Beneath(u, ms, x) /\ SameRaw(r, u) /\ u.bytes = r.bytes
    BY ClosedSound, Zenon
  <2>3. Head(ms) \in Aggregates
    BY <1>1, <1>4, TailFields
  <2> HIDE DEF u
  <2>4. u \in Recorders
    BY <2>2 DEF Sound, Books
  <2>5. /\ Sound(v, ms, d, q, on, t) /\ Beneath(v, ms, x) /\ SameRaw(r, v) /\ v.rollupActive # NoRollup
        /\ v.bytes = r.bytes \/ (v.bytes = r.bytes + SegmentCost /\ v.rollupActive.mcap = 0)
    <3>1. CASE u.rollupActive # NoRollup
      <4>1. v = u
        BY <3>1 DEF RollupOpened
      <4> QED
        BY <2>2, <3>1, <4>1
    <3>2. CASE u.rollupActive = NoRollup
      <4>1. Started(u, v, v.rollupActive, Head(ms))
        BY <2>3, <2>4, <3>2, OpenedFields
      <4> HIDE DEF v
      <4>2. Sound(v, ms, d, q, on, t) /\ Beneath(v, ms, x)
        BY <1>4, <2>2, <3>2, <4>1, StartedSound, Zenon
      <4> QED
        BY <2>2, <4>1, <4>2 DEF Started, SameRaw
    <3> QED
      BY <3>1, <3>2
  <2> HIDE DEF v
  <2>6. Folding(v, z, <<>>, Len(ms), x, d, q, on, t)
    BY <2>5, AllAddedSound, Zenon
  <2> HIDE DEF z
  <2>7. v \in Recorders /\ v.rollupActive \in Segments /\ RollupRoom(v.rollupActive)
    <3>1. v \in Recorders /\ Roomy(v)
      BY <2>5 DEF Sound, Books
    <3> QED
      BY <2>5, <3>1, RecorderFields DEF Roomy
  <2> DEFINE A == v.rollupActive.mcap
             B == z.rollupActive.mcap
             O == old.mcap
  <2>8. B - A <= O /\ A \in Nat /\ B \in Nat /\ O \in Nat
    BY <1>1, <1>4, <2>6, <2>7, FoldGrowth
  <2>9. z.bytes = v.bytes + (B - A) * MetricSize /\ Sound(z, <<>>, d, q, on, t) /\ SameRaw(v, z)
    BY <2>6 DEF Folding
  <2> HIDE DEF ms, x
  <2>10. z.bytes <= r.bytes + old.bytes
    <3> DEFINE R == r.bytes
               V == v.bytes
               Z == z.bytes
               D == old.bytes
               g == (B - A) * MetricSize
               h == O * MetricSize
    <3>1. g <= h /\ g \in Int /\ h \in Int
      <4>1. B - A \in Int /\ O \in Int
        BY <2>8
      <4> HIDE DEF A, B, O
      <4> QED
        BY <1>2, <2>8, <4>1, LessTimes
    <3>2. R \in Int /\ D >= SegmentCost + h /\ D \in Nat /\ SegmentCost \in Nat /\ Z = V + g
          /\ (V = R \/ V = R + SegmentCost)
      BY <1>1, <1>2, <2>5, <2>9
    <3> HIDE DEF R, V, Z, D, g, h
    <3>3. Z <= R + D
      BY <3>1, <3>2
    <3> QED
      BY <3>3 DEF Z, R, D
  <2>11. SameRaw(r, z)
    BY <2>5, <2>9 DEF SameRaw
  <2> QED
    BY <2>1, <2>9, <2>10, <2>11
<1> QED
  BY <1>3, <1>4

\* compactOldest loses nothing that is retained and takes no more room.
LEMMA FoldingOldest ==
    ASSUME NEW r, NEW d, DeltasOK(d), NEW q, NEW on, NEW t, Sound(r, <<>>, d, q, on, t),
           r.sealed # <<>>, RecorderAssumption
    PROVE  /\ Sound(compactOldest(r), <<>>, d, q, on, t)
           /\ compactOldest(r).sealed = Tail(r.sealed) /\ compactOldest(r).active = r.active
           /\ compactOldest(r).aggregateEvictions = r.aggregateEvictions
           /\ compactOldest(r).drops = r.drops
           /\ compactOldest(r).bytes <= r.bytes
<1> DEFINE old == Head(r.sealed)
           bucket == old.start \div RollupInterval
           z == dropRaw(r, TRUE)
           f == Folded(z, old, bucket)
<1>1. r \in Recorders /\ \A i \in DOMAIN r.sealed : RawOK(r.sealed[i])
  BY DEF Sound, Books
<1>2. r.sealed \in Seq(Segments) /\ r.bytes \in Int
  BY <1>1, RecorderFields
<1>3. old \in Segments /\ RawOK(old)
  <2>1. Shifted(r.sealed) /\ old \in Segments
    BY <1>2, TailFields
  <2> QED
    BY <1>1, <2>1 DEF Shifted
<1>4. bucket \in Int
  <2>1. old.start \in Nat /\ RollupInterval \in Nat /\ RollupInterval > 0
    BY <1>3, SegmentFields DEF RecorderAssumption
  <2> QED
    BY <2>1
<1>5. compactOldest(r) = f
  BY Zenon DEF compactOldest
<1>6. Unsealed(r, z)
  BY <1>1, DropRawFields
<1> HIDE DEF z, bucket
<1>7. Sound(z, old.metrics, d, q, on, t) /\ Beneath(z, old.metrics, old.end)
  BY <1>6, LiftedSound, Zenon
<1> HIDE DEF old
<1>8. /\ Sound(f, <<>>, d, q, on, t) /\ SameRaw(z, f) /\ f.bytes <= z.bytes + old.bytes
  BY <1>3, <1>4, <1>7, FoldedSound, Zenon
<1> HIDE DEF f
<1>9. z.bytes = r.bytes - old.bytes /\ z.sealed = Tail(r.sealed) /\ z.active = r.active
      /\ z.aggregateEvictions = r.aggregateEvictions /\ z.drops = r.drops
  BY <1>6 DEF Unsealed, old
<1>10. f.bytes <= r.bytes
  <2>1. old.bytes \in Int /\ f.bytes \in Int
    BY <1>3, <1>8, SegmentFields, RecorderFields DEF Sound, Books
  <2>2. z.bytes + old.bytes = r.bytes
    BY <1>2, <1>9, <2>1
  <2> QED
    BY <1>8, <2>2
<1> QED
  BY <1>5, <1>8, <1>9, <1>10 DEF SameRaw

-----------------------------------------------------------------------------
(* Making room.                                                            *)

LEMMA ConcatRest ==
    ASSUME NEW a \in Seq(Aggregates), NEW b \in Seq(Aggregates)
    PROVE  /\ Rest(b, a \o b, Len(a)) /\ Len(a) \in Nat /\ a \o b \in Seq(Aggregates)
           /\ \A i \in 1..Len(a) : i \in DOMAIN a /\ (a \o b)[i] = a[i]
<1>1. a \o b \in Seq(Aggregates) /\ Spliced(a \o b, a, b)
  BY ConcatFields
<1>2. Len(a \o b) = Len(a) + Len(b) /\ \A i \in DOMAIN b : (a \o b)[Len(a) + i] = b[i]
  BY <1>1 DEF Spliced
<1>3. \A i \in 1..Len(a) : i \in DOMAIN a /\ (a \o b)[i] = a[i]
  BY <1>1 DEF Spliced
<1> QED
  BY <1>1, <1>2, <1>3 DEF Rest, Spliced

\* A chronicle stays truthful when its oldest aggregates go, unless they are
\* younger than the history and no eviction is recorded.
LEMMA RestTruthful ==
    ASSUME NEW c \in Seq(Aggregates), NEW e \in Seq(Aggregates), NEW m \in Nat, Rest(c, e, m),
           NEW d, DeltasOK(d), NEW q, NEW on, NEW t \in Nat, NEW u \in Nat, u <= t,
           NEW n \in Nat, NEW o \in Nat, n <= o, Truthful(e, n, d, q, on, u),
           o = 0 => \A i \in 1..m : t - e[i].end >= History, RecorderAssumption
    PROVE  Truthful(c, o, d, q, on, t)
<1>1. Recorded(e, d, q, on) /\ (n = 0 => Complete(e, d, u))
  BY DEF Truthful
<1>2. Recorded(c, d, q, on)
  BY <1>1, RestRecorded, Zenon
<1>3. ASSUME o = 0 PROVE Complete(c, d, t)
  <2>1. n = 0
    BY <1>3
  <2>2. Complete(e, d, u)
    BY <1>1, <2>1
  <2> QED
    BY <1>3, <2>2, RestComplete
<1> QED
  BY <1>2, <1>3 DEF Truthful

LEMMA SoundLater ==
    ASSUME NEW r, NEW fl \in Seq(Aggregates), NEW d, DeltasOK(d), NEW q, NEW on,
           NEW t \in Nat, NEW u \in Nat, u <= t, Sound(r, fl, d, q, on, u), RecorderAssumption
    PROVE  Sound(r, fl, d, q, on, t)
<1> DEFINE c == Chronicle(r, fl)
           n == r.aggregateEvictions
<1>1. c \in Seq(Aggregates) /\ n \in Nat
  BY ChronicleFields, RecorderFields DEF Sound, Books
<1>2. Truthful(c, n, d, q, on, u)
  BY DEF Sound
<1> HIDE DEF c, n
<1>3. Rest(c, c, 0)
  BY <1>1 DEF Rest
<1>4. Truthful(c, n, d, q, on, t)
  <2>1. n = 0 => \A i \in 1..0 : t - c[i].end >= History
    OBVIOUS
  <2>2. 0 \in Nat /\ n <= n
    BY <1>1
  <2> QED
    BY <1>1, <1>2, <1>3, <2>1, <2>2, RestTruthful
<1> QED
  BY <1>4 DEF Sound, c, n

Oldest(r) == IF r.rollups # <<>> THEN Head(r.rollups) ELSE r.rollupActive

\* Dropping a roll-up drops the oldest of the chronicle.
LEMMA UnrolledRest ==
    ASSUME NEW r, Books(r), hasRollup(r), NEW z, Unrolled(r, z)
    PROVE  \E m \in Nat : /\ Rest(Chronicle(z, <<>>), Chronicle(r, <<>>), m)
                          /\ \A i \in 1..m : Chronicle(r, <<>>)[i].end <= Oldest(r).end
<1>0. r \in Recorders /\ z \in Recorders /\ <<>> \in Seq(Aggregates)
  BY EmptySeq DEF Books, Unrolled
<1> DEFINE R == Raws(r, <<>>)
           A == Rollups(r)
           B == Rollups(z)
           s == Oldest(r)
<1>1. A \in Seq(Segments) /\ B \in Seq(Segments) /\ R \in Seq(Aggregates)
      /\ r.rollups \in Seq(Segments) /\ (r.rollupActive # NoRollup => r.rollupActive \in Segments)
  BY <1>0, ChronicleFields, RecorderFields
<1>2. Raws(z, <<>>) = R
  BY DEF Raws, Unrolled
<1>3. A # <<>> /\ Head(A) = s /\ Tail(A) = B /\ s \in Segments /\ RollupOK(s)
  <2>1. CASE r.rollups # <<>>
    <3>1. z.rollups = Tail(r.rollups) /\ z.rollupActive = r.rollupActive /\ s = Head(r.rollups)
      BY <2>1 DEF Unrolled, Oldest
    <3>2. Shifted(r.rollups) /\ s \in Segments
      BY <1>1, <2>1, <3>1, TailFields
    <3>3. RollupOK(s)
      BY <3>1, <3>2 DEF Books, Shifted
    <3>4. A # <<>> /\ Head(A) = s /\ Tail(A) = B
      <4>1. CASE r.rollupActive = NoRollup
        BY <2>1, <3>1, <4>1 DEF Rollups
      <4>2. CASE r.rollupActive # NoRollup
        <5>1. A = Append(r.rollups, r.rollupActive) /\ B = Append(Tail(r.rollups), r.rollupActive)
          BY <3>1, <4>2 DEF Rollups
        <5>2. r.rollupActive \in Segments /\ r.rollups \in Seq(Segments) /\ r.rollups # <<>> /\ s = Head(r.rollups)
          BY <1>1, <2>1, <3>1, <4>2
        <5> HIDE DEF A, B, s
        <5> QED
          BY <5>1, <5>2
      <4> QED
        BY <4>1, <4>2
    <3> QED
      BY <3>2, <3>3, <3>4
  <2>2. CASE r.rollups = <<>>
    <3>1. z.rollups = <<>> /\ z.rollupActive = NoRollup /\ s = r.rollupActive /\ r.rollupActive # NoRollup
      BY <2>2 DEF Unrolled, Oldest
    <3>2. A = <<s>> /\ B = <<>>
      BY <2>2, <3>1 DEF Rollups
    <3> QED
      BY <1>1, <3>1, <3>2 DEF Books
  <2> QED
    BY <2>1, <2>2
<1> HIDE DEF R, A, B, s
<1> DEFINE M == s.metrics
           L == Ledger(B)
<1>4. Ledger(A) = M \o L /\ M \in Seq(Aggregates) /\ L \in Seq(Aggregates)
  BY <1>1, <1>3, LedgerTail, SegmentFields, MetricsOf
<1>5. Chronicle(r, <<>>) = (M \o L) \o R /\ Chronicle(z, <<>>) = L \o R
  BY <1>2, <1>4 DEF Chronicle, A, B, R
<1>6. \A i \in DOMAIN M : M[i].end <= s.end
  BY <1>3 DEF RollupOK, Within
<1> HIDE DEF M, L
<1>7. (M \o L) \o R = M \o (L \o R)
  <2>1. Regroups(M, L, R)
    BY <1>1, <1>4, Regrouped, Zenon
  <2> QED
    BY <2>1 DEF Regroups
<1>8. L \o R \in Seq(Aggregates)
  BY <1>1, <1>4, ConcatProperties
<1>9. /\ Rest(L \o R, M \o (L \o R), Len(M)) /\ Len(M) \in Nat
      /\ \A i \in 1..Len(M) : i \in DOMAIN M /\ (M \o (L \o R))[i] = M[i]
  BY <1>4, <1>8, ConcatRest
<1> DEFINE c == Chronicle(r, <<>>)
           e == Chronicle(z, <<>>)
<1>10. c = M \o (L \o R) /\ e = L \o R
  BY <1>5, <1>7, Zenon
<1> HIDE DEF c, e
<1>11. Rest(e, c, Len(M)) /\ \A i \in 1..Len(M) : c[i].end <= s.end
  BY <1>6, <1>9, <1>10
<1> QED
  BY <1>9, <1>11 DEF c, e, s

LEMMA UnrolledAdvancing ==
    ASSUME NEW r, r \in Recorders, Advancing(r, <<>>), NEW z, Unrolled(r, z)
    PROVE  Advancing(z, <<>>)
<1>1. Raws(z, <<>>) = Raws(r, <<>>)
  BY DEF Raws, Unrolled
<1>2. r.rollups \in Seq(Segments)
  BY RecorderFields
<1>3. \A i \in DOMAIN z.rollups : \E j \in DOMAIN r.rollups : z.rollups[i] = r.rollups[j]
  <2>1. CASE r.rollups # <<>>
    <3>1. z.rollups = Tail(r.rollups)
      BY <2>1 DEF Unrolled
    <3>2. Shifted(r.rollups)
      BY <1>2, <2>1, TailFields, Zenon
    <3> QED
      BY <3>1, <3>2 DEF Shifted
  <2>2. CASE r.rollups = <<>>
    BY <2>2 DEF Unrolled
  <2> QED
    BY <2>1, <2>2
<1>4. z.rollupActive # NoRollup => z.rollupActive = r.rollupActive
  BY DEF Unrolled
<1> HIDE DEF Raws
<1> QED
  BY <1>1, <1>3, <1>4 DEF Advancing

\* Dropping a roll-up keeps the recorder sound if the eviction is recorded or
\* the roll-up older than the history.
LEMMA DropRollupSound ==
    ASSUME NEW r, NEW d, DeltasOK(d), NEW q, NEW on, NEW t \in Nat, Sound(r, <<>>, d, q, on, t),
           hasRollup(r), NEW memory \in BOOLEAN, memory \/ t - Oldest(r).end >= History,
           RecorderAssumption
    PROVE  /\ Sound(dropRollup(r, memory), <<>>, d, q, on, t)
           /\ Unrolled(r, dropRollup(r, memory))
           /\ dropRollup(r, memory).aggregateEvictions =
                  IF memory THEN r.aggregateEvictions + 1 ELSE r.aggregateEvictions
<1> DEFINE z == dropRollup(r, memory)
           n == r.aggregateEvictions
           o == z.aggregateEvictions
<1>0. Books(r) /\ r \in Recorders /\ <<>> \in Seq(Aggregates) /\ n \in Nat
      /\ Truthful(Chronicle(r, <<>>), n, d, q, on, t) /\ Advancing(r, <<>>)
      /\ Contiguous(r.active, q, on) /\ Roomy(r)
  BY EmptySeq, RecorderFields DEF Sound, Books
<1>1. Unrolled(r, z) /\ o = IF memory THEN n + 1 ELSE n
  BY <1>0, DropRollupFields
<1> HIDE DEF z
<1>2. Books(z) /\ z \in Recorders
  BY <1>0, <1>1, UnrolledBooks DEF Books
<1>3. PICK m \in Nat : /\ Rest(Chronicle(z, <<>>), Chronicle(r, <<>>), m)
                       /\ \A i \in 1..m : Chronicle(r, <<>>)[i].end <= Oldest(r).end
  BY <1>0, <1>1, UnrolledRest
<1>4. Truthful(Chronicle(z, <<>>), o, d, q, on, t)
  <2> DEFINE c == Chronicle(z, <<>>)
             e == Chronicle(r, <<>>)
  <2>1. c \in Seq(Aggregates) /\ e \in Seq(Aggregates)
    BY <1>0, <1>2, ChronicleFields
  <2>2. o \in Nat /\ n <= o /\ t <= t
    BY <1>0, <1>1
  <2>3. ASSUME o = 0, NEW i \in 1..m PROVE t - e[i].end >= History
    <3>1. t - Oldest(r).end >= History
      BY <1>0, <1>1, <2>3
    <3>2. e[i].end <= Oldest(r).end
      BY <1>3
    <3>3. e[i].end \in Nat
      <4>1. Len(e) = m + Len(c) /\ Len(c) \in Nat
        BY <1>3, <2>1, LenProperties DEF Rest
      <4>2. i \in 1..Len(e)
        BY <4>1
      <4>3. i \in DOMAIN e
        BY <2>1, <4>2, LenProperties
      <4> HIDE DEF e
      <4> QED
        BY <2>1, <4>3, AggregateFields
    <3>4. Oldest(r).end \in Nat
      <4>1. r.rollups \in Seq(Segments) /\ (r.rollupActive # NoRollup => r.rollupActive \in Segments)
        BY <1>0, RecorderFields
      <4>2. Oldest(r) \in Segments
        BY <4>1, TailFields DEF Oldest, hasRollup
      <4> QED
        BY <4>2, SegmentFields
    <3>5. History \in Nat
      BY DEF RecorderAssumption
    <3> HIDE DEF e
    <3> QED
      BY <3>1, <3>2, <3>3, <3>4, <3>5
  <2>4. Truthful(e, n, d, q, on, t) /\ Rest(c, e, m)
    BY <1>0, <1>3
  <2> HIDE DEF c, e, n, o
  <2>5. Truthful(c, o, d, q, on, t)
    BY <1>0, <2>1, <2>2, <2>3, <2>4, RestTruthful
  <2> QED
    BY <2>5 DEF c
<1>5. Advancing(z, <<>>)
  BY <1>0, <1>1, UnrolledAdvancing, Zenon
<1>6. Roomy(z) /\ Contiguous(z.active, q, on)
  BY <1>0, <1>1 DEF Roomy, Unrolled
<1>7. Sound(z, <<>>, d, q, on, t)
  BY <1>2, <1>4, <1>5, <1>6 DEF Sound
<1> QED
  BY <1>1, <1>7 DEF z

\* What making room leaves: as much detail and as few evictions as before.
Eased(r, z) ==
    /\ z.active = r.active /\ z.drops = r.drops /\ z.bytes <= r.bytes
    /\ r.aggregateEvictions <= z.aggregateEvictions
    /\ z.aggregateEvictions > r.aggregateEvictions => z.sealed = <<>>
    /\ r.sealed = <<>> => z.sealed = <<>>

LEMMA EasedTwice ==
    ASSUME NEW r \in Recorders, NEW y \in Recorders, NEW z \in Recorders, Eased(r, y), Eased(y, z)
    PROVE  Eased(r, z)
<1>1. /\ r.bytes \in Int /\ y.bytes \in Int /\ z.bytes \in Int
      /\ r.aggregateEvictions \in Nat /\ y.aggregateEvictions \in Nat /\ z.aggregateEvictions \in Nat
  BY RecorderFields
<1> QED
  BY <1>1 DEF Eased

\* After k rounds of the loop over the sealed segments.
Compacting(r, s, k, cost, d, q, on, t) ==
    /\ Sound(s, <<>>, d, q, on, t) /\ Eased(r, s)
    /\ s.aggregateEvictions = r.aggregateEvictions
    /\ \/ s.bytes + cost <= MaxBytes
       \/ s.sealed = <<>>
       \/ Len(s.sealed) + k <= Len(r.sealed)

LEMMA CompactingStep ==
    ASSUME NEW r \in Recorders, NEW s, NEW k \in Nat, NEW cost \in Int,
           NEW d, DeltasOK(d), NEW q, NEW on, NEW t,
           Compacting(r, s, k, cost, d, q, on, t), RecorderAssumption
    PROVE  Compacting(r, IF s.bytes + cost > MaxBytes /\ s.sealed # <<>> THEN compactOldest(s) ELSE s,
                      k + 1, cost, d, q, on, t)
<1>1. /\ Sound(s, <<>>, d, q, on, t) /\ Eased(r, s)
      /\ s.aggregateEvictions = r.aggregateEvictions
  BY DEF Compacting
<1>2. s \in Recorders
  BY <1>1 DEF Sound, Books
<1>3. s.bytes \in Int /\ MaxBytes \in Nat /\ s.sealed \in Seq(Segments) /\ r.aggregateEvictions \in Nat
  BY <1>2, RecorderFields DEF RecorderAssumption
<1>4. CASE s.bytes + cost > MaxBytes /\ s.sealed # <<>>
  <2> DEFINE z == compactOldest(s)
  <2>1. /\ Sound(z, <<>>, d, q, on, t)
        /\ z.sealed = Tail(s.sealed) /\ z.active = s.active
        /\ z.aggregateEvictions = s.aggregateEvictions
        /\ z.drops = s.drops /\ z.bytes <= s.bytes
    BY <1>1, <1>4, FoldingOldest, Zenon
  <2> HIDE DEF z
  <2>2. z \in Recorders
    BY <2>1 DEF Sound, Books
  <2>3. Eased(s, z)
    BY <1>1, <1>3, <1>4, <2>1 DEF Eased
  <2>4. Eased(r, z)
    BY <1>1, <1>2, <2>2, <2>3, EasedTwice
  <2>5. Len(z.sealed) + (k + 1) <= Len(r.sealed)
    <3>1. Len(s.sealed) + k <= Len(r.sealed)
      BY <1>3, <1>4 DEF Compacting
    <3>2. Len(z.sealed) = Len(s.sealed) - 1
      BY <1>3, <1>4, <2>1, HeadTailProperties
    <3>3. Len(s.sealed) \in Nat /\ Len(r.sealed) \in Nat
      BY <1>3, RecorderFields, LenProperties
    <3> DEFINE A == Len(s.sealed)
               B == Len(r.sealed)
               C == Len(z.sealed)
    <3>4. A \in Nat /\ B \in Nat /\ C = A - 1 /\ A + k <= B
      BY <3>1, <3>2, <3>3
    <3> HIDE DEF A, B, C
    <3>5. C + (k + 1) <= B
      BY <3>4
    <3> QED
      BY <3>5 DEF B, C
  <2>6. Compacting(r, z, k + 1, cost, d, q, on, t)
    BY <1>1, <2>1, <2>4, <2>5 DEF Compacting
  <2> QED
    BY <1>4, <2>6 DEF z
<1>5. CASE ~(s.bytes + cost > MaxBytes /\ s.sealed # <<>>)
  <2>1. s.bytes + cost <= MaxBytes \/ s.sealed = <<>>
    BY <1>3, <1>5
  <2>2. Compacting(r, s, k + 1, cost, d, q, on, t)
    BY <1>1, <2>1 DEF Compacting
  <2> QED
    BY <1>5, <2>2, Zenon
<1> QED
  BY <1>4, <1>5

LEMMA CompactedSound ==
    ASSUME NEW r, NEW cost \in Int, NEW d, DeltasOK(d), NEW q, NEW on, NEW t,
           Sound(r, <<>>, d, q, on, t), RecorderAssumption
    PROVE  /\ Sound(Compacted(r, cost), <<>>, d, q, on, t) /\ Eased(r, Compacted(r, cost))
           /\ Compacted(r, cost).aggregateEvictions = r.aggregateEvictions
           /\ Compacted(r, cost).bytes + cost <= MaxBytes \/ Compacted(r, cost).sealed = <<>>
<1>1. r \in Recorders
  BY DEF Sound, Books
<1>2. PICK n \in Nat : n = Len(r.sealed)
  BY <1>1, RecorderFields, LenProperties
<1> DEFINE S == [k \in 0..n |-> {s \in Recorders : Compacting(r, s, k, cost, d, q, on, t)}]
<1>3. \A k \in 0..n : S[k] = {s \in Recorders : Compacting(r, s, k, cost, d, q, on, t)}
  OBVIOUS
<1> HIDE DEF S
<1>4. r \in S[0]
  <2>1. r.bytes \in Int /\ r.aggregateEvictions \in Nat /\ Len(r.sealed) \in Nat
    BY <1>1, <1>2, RecorderFields
  <2>2. Eased(r, r) /\ Len(r.sealed) + 0 <= Len(r.sealed)
    BY <2>1 DEF Eased
  <2>3. Compacting(r, r, 0, cost, d, q, on, t)
    BY <2>2 DEF Compacting
  <2> QED
    BY <1>1, <1>2, <1>3, <2>3
<1>5. ASSUME NEW k \in 1..n, NEW s \in S[k - 1]
      PROVE  (IF s.bytes + cost > MaxBytes /\ s.sealed # <<>> THEN compactOldest(s) ELSE s) \in S[k]
  <2>1. k - 1 \in 0..n /\ k \in 0..n /\ k - 1 \in Nat /\ (k - 1) + 1 = k
    BY <1>2
  <2>2. Compacting(r, s, k - 1, cost, d, q, on, t)
    BY <1>3, <2>1
  <2> DEFINE z == IF s.bytes + cost > MaxBytes /\ s.sealed # <<>> THEN compactOldest(s) ELSE s
  <2>3. Compacting(r, z, (k - 1) + 1, cost, d, q, on, t)
    BY <1>1, <2>1, <2>2, CompactingStep, Zenon
  <2> HIDE DEF z
  <2>4. Compacting(r, z, k, cost, d, q, on, t)
    BY <2>1, <2>3
  <2>5. z \in Recorders
    BY <2>4 DEF Compacting, Sound, Books
  <2>6. z \in S[k]
    BY <1>3, <2>1, <2>4, <2>5
  <2> QED
    BY <2>6 DEF z
<1>6. Compacted(r, cost) \in S[n]
  BY <1>2, <1>4, <1>5, CompactedEnds
<1> DEFINE z == Compacted(r, cost)
<1>7. Compacting(r, z, n, cost, d, q, on, t) /\ z \in Recorders
  BY <1>2, <1>3, <1>6
<1> HIDE DEF z
<1>8. z.bytes + cost <= MaxBytes \/ z.sealed = <<>>
  <2>1. z.sealed \in Seq(Segments)
    BY <1>7, RecorderFields
  <2>2. Len(z.sealed) + n <= n => z.sealed = <<>>
    <3> PICK l : l = Len(z.sealed)
      OBVIOUS
    <3>1. l \in Nat
      BY <2>1, LenProperties
    <3>2. z.sealed # <<>> => l # 0
      BY <2>1, EmptySeq
    <3>3. l + n <= n => l = 0
      <4>1. n \in Nat
        OBVIOUS
      <4> QED
        BY <3>1, <4>1
    <3> QED
      BY <3>2, <3>3
  <2> QED
    BY <1>2, <1>7, <2>2 DEF Compacting
<1> QED
  BY <1>7, <1>8 DEF Compacting, z

\* After k rounds of the loop over the roll-ups.
Relieving(r, s, n, k, cost, d, q, on, t) ==
    /\ Sound(s, <<>>, d, q, on, t) /\ Eased(r, s) /\ s.sealed = r.sealed
    /\ s.bytes + cost <= MaxBytes \/ ~hasRollup(s) \/ Len(s.rollups) + k < n

LEMMA RelievingStep ==
    ASSUME NEW r \in Recorders, NEW s, NEW n \in Nat, NEW k \in Nat, NEW cost \in Int,
           NEW d, DeltasOK(d), NEW q, NEW on, NEW t \in Nat,
           r.bytes + cost <= MaxBytes \/ r.sealed = <<>>,
           Relieving(r, s, n, k, cost, d, q, on, t), RecorderAssumption
    PROVE  Relieving(r, IF s.bytes + cost > MaxBytes /\ hasRollup(s) THEN dropRollup(s, TRUE) ELSE s,
                     n, k + 1, cost, d, q, on, t)
<1>1. Sound(s, <<>>, d, q, on, t) /\ Eased(r, s) /\ s.sealed = r.sealed
  BY DEF Relieving
<1>2. s \in Recorders
  BY <1>1 DEF Sound, Books
<1>3. s.bytes \in Int /\ MaxBytes \in Nat /\ s.rollups \in Seq(Segments) /\ s.aggregateEvictions \in Nat
      /\ r.bytes \in Int
  BY <1>2, RecorderFields DEF RecorderAssumption
<1>4. CASE s.bytes + cost > MaxBytes /\ hasRollup(s)
  <2> DEFINE z == dropRollup(s, TRUE)
  <2>1. /\ Sound(z, <<>>, d, q, on, t) /\ Unrolled(s, z)
        /\ z.aggregateEvictions = s.aggregateEvictions + 1
    BY <1>1, <1>4, DropRollupSound
  <2> HIDE DEF z
  <2>2. z \in Recorders
    BY <2>1 DEF Sound, Books
  <2>3. s.sealed = <<>>
    <3>1. ~(r.bytes + cost <= MaxBytes)
      <4>1. s.bytes <= r.bytes
        BY <1>1 DEF Eased
      <4> QED
        BY <1>3, <1>4, <4>1
    <3> QED
      BY <1>1, <3>1
  <2>4. z.bytes <= s.bytes
    <3>1. CASE s.rollups # <<>>
      <4>1. Shifted(s.rollups) /\ Head(s.rollups) \in Segments
        BY <1>3, <3>1, TailFields
      <4>2. RollupOK(Head(s.rollups))
        BY <1>1, <4>1 DEF Sound, Books, Shifted
      <4>3. Head(s.rollups).bytes \in Nat
        BY <4>1, <4>2, RollupCharge
      <4>4. z.bytes = s.bytes - Head(s.rollups).bytes
        BY <2>1, <3>1 DEF Unrolled
      <4> DEFINE x == Head(s.rollups).bytes
      <4>5. x \in Nat /\ z.bytes = s.bytes - x
        BY <4>3, <4>4
      <4> HIDE DEF x
      <4> QED
        BY <1>3, <4>5
    <3>2. CASE s.rollups = <<>>
      <4>1. z.bytes = s.bytes - s.rollupActive.bytes /\ s.rollupActive # NoRollup
        BY <2>1, <3>2 DEF Unrolled
      <4>2. RollupOK(s.rollupActive) /\ s.rollupActive \in Segments
        BY <1>1, <1>2, <4>1, RecorderFields DEF Sound, Books
      <4>3. s.rollupActive.bytes \in Nat
        BY <4>2, RollupCharge
      <4> QED
        BY <1>3, <4>1, <4>3
    <3> QED
      BY <3>1, <3>2
  <2>5. Eased(s, z) /\ z.sealed = r.sealed
    BY <1>1, <1>3, <2>1, <2>3, <2>4 DEF Eased, Unrolled
  <2>6. Eased(r, z)
    BY <1>1, <1>2, <2>2, <2>5, EasedTwice
  <2>7. ~hasRollup(z) \/ Len(z.rollups) + (k + 1) < n
    <3>1. CASE s.rollups # <<>>
      <4>1. Len(s.rollups) + k < n
        BY <1>3, <1>4 DEF Relieving
      <4>2. z.rollups = Tail(s.rollups)
        BY <2>1, <3>1 DEF Unrolled
      <4>3. Len(z.rollups) = Len(s.rollups) - 1 /\ Len(s.rollups) \in Nat
        BY <1>3, <3>1, <4>2, HeadTailProperties, LenProperties
      <4> DEFINE A == Len(s.rollups)
                 C == Len(z.rollups)
      <4>4. A \in Nat /\ C = A - 1 /\ A + k < n
        BY <4>1, <4>3
      <4> HIDE DEF A, C
      <4>5. C + (k + 1) < n
        BY <4>4
      <4> QED
        BY <4>5 DEF C
    <3>2. CASE s.rollups = <<>>
      BY <2>1, <3>2 DEF Unrolled, hasRollup
    <3> QED
      BY <3>1, <3>2
  <2>8. Relieving(r, z, n, k + 1, cost, d, q, on, t)
    BY <2>1, <2>5, <2>6, <2>7 DEF Relieving
  <2> QED
    BY <1>4, <2>8 DEF z
<1>5. CASE ~(s.bytes + cost > MaxBytes /\ hasRollup(s))
  <2>1. s.bytes + cost <= MaxBytes \/ ~hasRollup(s)
    BY <1>3, <1>5
  <2>2. Relieving(r, s, n, k + 1, cost, d, q, on, t)
    BY <1>1, <2>1 DEF Relieving
  <2> QED
    BY <1>5, <2>2, Zenon
<1> QED
  BY <1>4, <1>5

LEMMA RelievedSound ==
    ASSUME NEW r, NEW cost \in Int, NEW d, DeltasOK(d), NEW q, NEW on, NEW t \in Nat,
           Sound(r, <<>>, d, q, on, t), r.bytes + cost <= MaxBytes \/ r.sealed = <<>>,
           RecorderAssumption
    PROVE  /\ Sound(Relieved(r, cost), <<>>, d, q, on, t) /\ Eased(r, Relieved(r, cost))
           /\ \/ Relieved(r, cost).bytes + cost <= MaxBytes
              \/ Relieved(r, cost).sealed = <<>> /\ ~hasRollup(Relieved(r, cost))
<1>1. r \in Recorders
  BY DEF Sound, Books
<1>2. Len(r.rollups) \in Nat
  BY <1>1, RecorderFields, LenProperties
<1>3. PICK n \in Nat : n = Len(r.rollups) + 1
  BY <1>2
<1> DEFINE S == [k \in 0..n |-> {s \in Recorders : Relieving(r, s, n, k, cost, d, q, on, t)}]
<1>4. \A k \in 0..n : S[k] = {s \in Recorders : Relieving(r, s, n, k, cost, d, q, on, t)}
  OBVIOUS
<1> HIDE DEF S
<1>5. r \in S[0]
  <2>1. r.bytes \in Int /\ r.aggregateEvictions \in Nat
    BY <1>1, RecorderFields
  <2>2. Eased(r, r) /\ Len(r.rollups) + 0 < n
    BY <1>2, <1>3, <2>1 DEF Eased
  <2>3. Relieving(r, r, n, 0, cost, d, q, on, t)
    BY <2>2 DEF Relieving
  <2> QED
    BY <1>1, <1>3, <1>4, <2>3
<1>6. ASSUME NEW k \in 1..n, NEW s \in S[k - 1]
      PROVE  (IF s.bytes + cost > MaxBytes /\ hasRollup(s) THEN dropRollup(s, TRUE) ELSE s) \in S[k]
  <2>1. k - 1 \in 0..n /\ k \in 0..n /\ k - 1 \in Nat /\ (k - 1) + 1 = k
    BY <1>3
  <2>2. Relieving(r, s, n, k - 1, cost, d, q, on, t)
    BY <1>4, <2>1
  <2> DEFINE z == IF s.bytes + cost > MaxBytes /\ hasRollup(s) THEN dropRollup(s, TRUE) ELSE s
  <2>3. Relieving(r, z, n, (k - 1) + 1, cost, d, q, on, t)
    BY <1>1, <2>1, <2>2, RelievingStep, Zenon
  <2> HIDE DEF z
  <2>4. Relieving(r, z, n, k, cost, d, q, on, t)
    BY <2>1, <2>3
  <2>5. z \in Recorders
    BY <2>4 DEF Relieving, Sound, Books
  <2>6. z \in S[k]
    BY <1>4, <2>1, <2>4, <2>5
  <2> QED
    BY <2>6 DEF z
<1>7. Relieved(r, cost) \in S[n]
  BY <1>3, <1>5, <1>6, RelievedEnds
<1> DEFINE z == Relieved(r, cost)
<1>8. Relieving(r, z, n, n, cost, d, q, on, t) /\ z \in Recorders
  BY <1>3, <1>4, <1>7
<1> HIDE DEF z
<1>9. z.bytes + cost <= MaxBytes \/ ~hasRollup(z)
  <2>1. Len(z.rollups) \in Nat
    BY <1>8, RecorderFields, LenProperties
  <2>2. ~(Len(z.rollups) + n < n)
    BY <2>1
  <2> QED
    BY <1>8, <2>2 DEF Relieving
<1>10. z.bytes + cost <= MaxBytes \/ z.sealed = <<>>
  <2>1. z.bytes <= r.bytes /\ z.sealed = r.sealed /\ z.bytes \in Int /\ r.bytes \in Int /\ MaxBytes \in Nat
    BY <1>1, <1>8, RecorderFields DEF Relieving, Eased, RecorderAssumption
  <2> QED
    BY <2>1
<1> QED
  BY <1>8, <1>9, <1>10 DEF Relieving, z

\* room keeps the recorder sound; if its cost does not fit, then nothing but
\* the active segment is left, or no metric asked for it.
LEMMA RoomSound ==
    ASSUME NEW r, NEW cost \in Int, NEW d, DeltasOK(d), NEW q, NEW on, NEW t \in Nat,
           Sound(r, <<>>, d, q, on, t), NEW metric \in BOOLEAN, RecorderAssumption
    PROVE  /\ Sound(room(r, cost, metric), <<>>, d, q, on, t) /\ Eased(r, room(r, cost, metric))
           /\ metric => \/ room(r, cost, metric).bytes + cost <= MaxBytes
                        \/ /\ room(r, cost, metric).sealed = <<>>
                           /\ ~hasRollup(room(r, cost, metric))
<1> DEFINE y == Compacted(r, cost)
<1>1. /\ Sound(y, <<>>, d, q, on, t) /\ Eased(r, y)
      /\ y.bytes + cost <= MaxBytes \/ y.sealed = <<>>
  BY CompactedSound, Zenon
<1>2. CASE metric
  <2> DEFINE z == Relieved(y, cost)
  <2>1. room(r, cost, metric) = z
    BY <1>2 DEF room
  <2> HIDE DEF y
  <2>2. /\ Sound(z, <<>>, d, q, on, t) /\ Eased(y, z)
        /\ z.bytes + cost <= MaxBytes \/ (z.sealed = <<>> /\ ~hasRollup(z))
    BY <1>1, RelievedSound, Zenon
  <2> HIDE DEF z
  <2>3. r \in Recorders /\ y \in Recorders /\ z \in Recorders
    BY <1>1, <2>2 DEF Sound, Books
  <2>4. Eased(r, z)
    BY <1>1, <2>2, <2>3, EasedTwice
  <2> QED
    BY <2>1, <2>2, <2>4
<1>3. CASE ~metric
  <2>1. room(r, cost, metric) = y
    BY <1>3 DEF room
  <2> QED
    BY <1>1, <1>3, <2>1
<1> QED
  BY <1>2, <1>3

-----------------------------------------------------------------------------
(* Aging: the past goes from the oldest, though the code drops the raw     *)
(* segments first.                                                         *)

\* The aggregates of segments that ended by x end by x.
LEMMA LedgerEnds ==
    ASSUME NEW c \in Seq(Segments), NEW x \in Nat,
           \A i \in DOMAIN c : Within(c[i]) /\ c[i].end <= x
    PROVE  \A j \in DOMAIN Ledger(c) : Ledger(c)[j].end <= x
<1> DEFINE T == {m \in Aggregates : m.end <= x}
           s == [i \in DOMAIN c |-> c[i].metrics]
<1>1. ASSUME NEW i \in DOMAIN c PROVE c[i].metrics \in Seq(T)
  <2>1. c[i] \in Segments /\ c[i].metrics \in Seq(Aggregates)
    <3>1. c[i] \in Segments
      OBVIOUS
    <3> QED
      BY <3>1, SegmentFields
  <2> DEFINE M == c[i].metrics
  <2>2. ASSUME NEW j \in 1..Len(M) PROVE M[j] \in T
    <3>1. M[j] \in Aggregates /\ M[j].end \in Nat /\ j \in DOMAIN M
      BY <2>1, AggregateFields, LenProperties
    <3>2. M[j].end <= c[i].end /\ c[i].end <= x /\ c[i].end \in Nat
      BY <2>1, <3>1, SegmentFields DEF Within
    <3>3. M[j].end <= x
      BY <3>1, <3>2
    <3> QED
      BY <3>1, <3>3
  <2>3. Len(M) \in Nat /\ M \in [1..Len(M) -> T]
    <3>1. M \in [1..Len(M) -> Aggregates] /\ Len(M) \in Nat
      BY <2>1, LenProperties
    <3> HIDE DEF M, T
    <3> QED
      BY <2>2, <3>1
  <2> HIDE DEF T, M
  <2>4. M \in Seq(T)
    BY <2>3
  <2> QED
    BY <2>4 DEF M
<1> HIDE DEF T
<1>2. s \in Seq(Seq(T))
  <2>1. DOMAIN c = 1..Len(c) /\ Len(c) \in Nat
    BY LenProperties
  <2>2. s \in [1..Len(c) -> Seq(T)]
    BY <1>1, <2>1
  <2> HIDE DEF s
  <2> QED
    BY <2>1, <2>2
<1>3. Ledger(c) = FlattenSeq(s)
  BY DEF Ledger
<1> HIDE DEF s
<1>4. Ledger(c) \in Seq(T)
  BY <1>2, <1>3, FlatSeq
<1> SUFFICES ASSUME NEW j \in DOMAIN Ledger(c) PROVE Ledger(c)[j].end <= x
  OBVIOUS
<1>5. Ledger(c)[j] \in T
  BY <1>4
<1> QED
  BY <1>5 DEF T

AllExpired(r, t) ==
    /\ \A i \in DOMAIN r.rollups : Expired(r.rollups[i], t)
    /\ r.rollupActive # NoRollup => Expired(r.rollupActive, t)

\* While r is aged to s: either the whole chronicle is truthful, or all the
\* roll-ups are due to go and the rest is.
Aging(r, s, d, q, on, t) ==
    /\ Books(s) /\ Advancing(s, <<>>) /\ Roomy(s) /\ Contiguous(s.active, q, on)
    /\ s.active = r.active /\ s.drops = r.drops
    /\ s.aggregateEvictions = r.aggregateEvictions
    /\ r.sealed = <<>> => s.sealed = <<>>
    /\ \/ Truthful(Chronicle(s, <<>>), s.aggregateEvictions, d, q, on, t)
       \/ AllExpired(s, t) /\ Truthful(Raws(s, <<>>), s.aggregateEvictions, d, q, on, t)

\* Once the oldest raw segment has expired, so have the roll-ups.
LEMMA RawExpired ==
    ASSUME NEW r, NEW s, NEW d, DeltasOK(d), NEW q, NEW on, NEW t \in Nat, Aging(r, s, d, q, on, t),
           s.sealed # <<>>, Expired(Head(s.sealed), t), RecorderAssumption
    PROVE  AllExpired(s, t) /\ Truthful(Raws(s, <<>>), s.aggregateEvictions, d, q, on, t)
<1> DEFINE old == Head(s.sealed)
<1>1. s \in Recorders /\ Books(s) /\ Following(s) /\ <<>> \in Seq(Aggregates)
  BY EmptySeq DEF Aging, Books
<1>2. /\ s.sealed \in Seq(Segments) /\ s.rollups \in Seq(Segments) /\ s.aggregateEvictions \in Nat
      /\ (s.rollupActive # NoRollup => s.rollupActive \in Segments)
  BY <1>1, RecorderFields
<1>3. old \in Segments /\ old = s.sealed[1] /\ 1 \in DOMAIN s.sealed
  BY <1>2, TailFields DEF Shifted
<1>4. /\ \A i \in DOMAIN s.rollups : s.rollups[i].end <= old.end /\ s.rollups[i] \in Segments
      /\ s.rollupActive # NoRollup => s.rollupActive.end <= old.end
  <2>1. \A i \in DOMAIN s.rollups : s.rollups[i] \in Segments
    BY <1>2
  <2> QED
    BY <1>1, <1>3, <2>1 DEF Following
<1>5. old.end \in Nat /\ t >= old.end /\ t - old.end >= History /\ History \in Nat
  BY <1>3, SegmentFields DEF Expired, RecorderAssumption
<1> HIDE DEF old
<1>6. AllExpired(s, t)
  <2>1. ASSUME NEW i \in DOMAIN s.rollups PROVE Expired(s.rollups[i], t)
    <3>1. s.rollups[i].end \in Nat /\ s.rollups[i].end <= old.end
      BY <1>4, SegmentFields
    <3> QED
      BY <1>5, <3>1 DEF Expired
  <2>2. ASSUME s.rollupActive # NoRollup PROVE Expired(s.rollupActive, t)
    <3>1. s.rollupActive.end \in Nat /\ s.rollupActive.end <= old.end
      BY <1>2, <1>4, <2>2, SegmentFields
    <3> QED
      BY <1>5, <3>1 DEF Expired
  <2> QED
    BY <2>1, <2>2 DEF AllExpired
<1>7. CASE Truthful(Chronicle(s, <<>>), s.aggregateEvictions, d, q, on, t)
  <2> DEFINE A == Rollups(s)
             L == Ledger(A)
             R == Raws(s, <<>>)
             n == s.aggregateEvictions
  <2>1. A \in Seq(Segments) /\ L \in Seq(Aggregates) /\ R \in Seq(Aggregates) /\ Chronicle(s, <<>>) = L \o R
    BY <1>1, ChronicleFields DEF Chronicle
  <2>2. ASSUME NEW i \in DOMAIN A PROVE Within(A[i]) /\ A[i].end <= old.end
    <3>1. A[i] \in {s.rollups[j] : j \in DOMAIN s.rollups} \/ (s.rollupActive # NoRollup /\ A[i] = s.rollupActive)
      BY <1>2, AppendedFields DEF Rollups
    <3>2. CASE A[i] \in {s.rollups[j] : j \in DOMAIN s.rollups}
      <4>1. PICK j \in DOMAIN s.rollups : A[i] = s.rollups[j]
        BY <3>2
      <4>2. RollupOK(s.rollups[j])
        BY <1>1 DEF Books
      <4> HIDE DEF A
      <4> QED
        BY <1>4, <4>1, <4>2 DEF RollupOK
    <3>3. CASE s.rollupActive # NoRollup /\ A[i] = s.rollupActive
      <4>1. RollupOK(s.rollupActive)
        BY <1>1, <3>3 DEF Books
      <4> HIDE DEF A
      <4> QED
        BY <1>4, <3>3, <4>1 DEF RollupOK
    <3> QED
      BY <3>1, <3>2, <3>3
  <2> HIDE DEF A, R
  <2>3. \A j \in DOMAIN L : L[j].end <= old.end /\ L[j].end \in Nat
    <3>1. \A j \in DOMAIN L : L[j].end <= old.end
      BY <1>5, <2>1, <2>2, LedgerEnds
    <3> HIDE DEF L
    <3> QED
      BY <2>1, <3>1, AggregateFields
  <2> HIDE DEF L
  <2>4. /\ Rest(R, L \o R, Len(L)) /\ Len(L) \in Nat /\ L \o R \in Seq(Aggregates)
        /\ \A i \in 1..Len(L) : i \in DOMAIN L /\ (L \o R)[i] = L[i]
    BY <2>1, ConcatRest
  <2>5. \A i \in 1..Len(L) : t - (L \o R)[i].end >= History
    <3> SUFFICES ASSUME NEW i \in 1..Len(L) PROVE t - (L \o R)[i].end >= History
      OBVIOUS
    <3>1. (L \o R)[i] = L[i] /\ L[i].end <= old.end /\ L[i].end \in Nat
      BY <2>3, <2>4
    <3> QED
      BY <1>5, <3>1
  <2>6. Truthful(L \o R, n, d, q, on, t)
    BY <1>7, <2>1
  <2>7. n \in Nat /\ n <= n /\ t <= t
    BY <1>2
  <2> DEFINE C == L \o R
             m == Len(L)
  <2>8. C \in Seq(Aggregates) /\ m \in Nat /\ Rest(R, C, m) /\ R \in Seq(Aggregates)
        /\ (n = 0 => \A i \in 1..m : t - C[i].end >= History) /\ Truthful(C, n, d, q, on, t)
    BY <2>1, <2>4, <2>5, <2>6
  <2> HIDE DEF n, C, m
  <2>9. Truthful(R, n, d, q, on, t)
    BY <2>7, <2>8, RestTruthful
  <2> QED
    BY <1>6, <2>9 DEF R, n
<1>8. CASE AllExpired(s, t) /\ Truthful(Raws(s, <<>>), s.aggregateEvictions, d, q, on, t)
  BY <1>8
<1> QED
  BY <1>7, <1>8 DEF Aging

LEMMA RestFields ==
    ASSUME NEW c \in Seq(Aggregates), NEW e \in Seq(Aggregates), NEW m \in Nat, Rest(c, e, m)
    PROVE  /\ \A i \in DOMAIN c : m + i \in DOMAIN e /\ c[i] = e[m + i]
           /\ \A i, j \in DOMAIN c : i < j => m + i < m + j
<1>1. DOMAIN c = 1..Len(c) /\ DOMAIN e = 1..Len(e) /\ Len(c) \in Nat
  BY LenProperties
<1>2. Len(e) = m + Len(c) /\ \A i \in DOMAIN c : c[i] = e[m + i]
  BY DEF Rest
<1>3. DOMAIN e = 1..(m + Len(c))
  BY <1>1, <1>2
<1>4. \A i \in 1..Len(c) : m + i \in 1..(m + Len(c)) /\ i \in Nat
  BY <1>1
<1> QED
  BY <1>1, <1>2, <1>3, <1>4

LEMMA AgingRaw ==
    ASSUME NEW r, NEW s, NEW d, DeltasOK(d), NEW q, NEW on, NEW t \in Nat, Aging(r, s, d, q, on, t),
           s.sealed # <<>>, Expired(Head(s.sealed), t), RecorderAssumption
    PROVE  Aging(r, dropRaw(s, FALSE), d, q, on, t)
<1> DEFINE z == dropRaw(s, FALSE)
           M == Head(s.sealed).metrics
           n == s.aggregateEvictions
<1>1. AllExpired(s, t) /\ Truthful(Raws(s, <<>>), n, d, q, on, t)
  BY RawExpired, Zenon
<1>2. /\ Books(s) /\ Advancing(s, <<>>) /\ Roomy(s) /\ Contiguous(s.active, q, on)
      /\ s.active = r.active /\ s.drops = r.drops /\ n = r.aggregateEvictions
      /\ s \in Recorders /\ <<>> \in Seq(Aggregates)
  BY EmptySeq DEF Aging, Books
<1>3. Unsealed(s, z)
  BY <1>2, DropRawFields
<1> HIDE DEF z
<1>4. Books(z) /\ z \in Recorders
  BY <1>2, <1>3, UnsealedBooks DEF Books
<1>5. /\ z.sealed = Tail(s.sealed) /\ z.rollups = s.rollups /\ z.rollupActive = s.rollupActive
      /\ z.active = s.active /\ z.aggregateEvictions = n /\ z.drops = s.drops
  BY <1>3 DEF Unsealed
<1>6. s.sealed \in Seq(Segments) /\ n \in Nat
  BY <1>2, RecorderFields
<1>7. Head(s.sealed) \in Segments /\ RawOK(Head(s.sealed))
  <2>1. Shifted(s.sealed) /\ Head(s.sealed) \in Segments
    BY <1>6, TailFields
  <2> QED
    BY <1>2, <2>1 DEF Shifted, Books
<1> DEFINE R == Raws(s, <<>>)
           Q == Raws(z, <<>>)
<1>8. M \in Seq(Aggregates) /\ R \in Seq(Aggregates) /\ Q \in Seq(Aggregates) /\ R = M \o Q
  <2>1. M \in Seq(Aggregates) /\ R \in Seq(Aggregates) /\ Q \in Seq(Aggregates)
    BY <1>2, <1>4, <1>7, SegmentFields, ChronicleFields
  <2>2. Raws(z, M) = R
    BY <1>2, <1>3, UnsealedRaws
  <2>3. Raws(z, M) = M \o Ledger(Append(z.sealed, z.active))
    BY DEF Raws
  <2>4. Q = Ledger(Append(z.sealed, z.active))
    <3>1. Ledger(Append(z.sealed, z.active)) \in Seq(Aggregates)
      BY <1>2, <1>4, ChronicleFields
    <3>2. Q = <<>> \o Ledger(Append(z.sealed, z.active))
      BY DEF Raws
    <3> QED
      BY <3>1, <3>2, ConcatEmptySeq
  <2> QED
    BY <2>1, <2>2, <2>3, <2>4
<1> HIDE DEF R, Q
<1>9. \A j \in DOMAIN M : M[j].end <= Head(s.sealed).end /\ M[j].end \in Nat
  <2>1. \A j \in DOMAIN M : M[j].end <= Head(s.sealed).end
    BY <1>7 DEF RawOK, Within
  <2> HIDE DEF M
  <2> QED
    BY <1>8, <2>1, AggregateFields
<1>10. Head(s.sealed).end \in Nat /\ t - Head(s.sealed).end >= History /\ History \in Nat
  BY <1>7, SegmentFields DEF Expired, RecorderAssumption
<1>11. /\ Rest(Q, R, Len(M)) /\ Len(M) \in Nat
       /\ \A i \in 1..Len(M) : i \in DOMAIN M /\ R[i] = M[i]
  <2> HIDE DEF M
  <2> QED
    BY <1>8, ConcatRest
<1>12. \A i \in 1..Len(M) : t - R[i].end >= History
  <2> SUFFICES ASSUME NEW i \in 1..Len(M) PROVE t - R[i].end >= History
    OBVIOUS
  <2> DEFINE x == Head(s.sealed).end
  <2>1. R[i].end <= x /\ R[i].end \in Nat /\ x \in Nat /\ t - x >= History /\ History \in Nat
    BY <1>9, <1>10, <1>11
  <2> HIDE DEF x
  <2> QED
    BY <2>1
<1>13. Truthful(Q, n, d, q, on, t)
  <2>1. Truthful(R, n, d, q, on, t) /\ n <= n /\ t <= t
    BY <1>1, <1>6 DEF R
  <2> HIDE DEF M, n
  <2> QED
    BY <1>6, <1>8, <1>11, <1>12, <2>1, RestTruthful DEF n
<1>14. Advancing(z, <<>>)
  <2>1. Advancing(s, <<>>)
    BY <1>2
  <2>2. /\ \A i \in DOMAIN Q : Len(M) + i \in DOMAIN R /\ Q[i] = R[Len(M) + i]
        /\ \A i, j \in DOMAIN Q : i < j => Len(M) + i < Len(M) + j
    <3> HIDE DEF M
    <3> QED
      BY <1>8, <1>11, RestFields
  <2>4. ASSUME NEW i \in DOMAIN Q, NEW j \in DOMAIN Q, i < j PROVE Q[i].end <= Q[j].end
    <3>1. Len(M) + i < Len(M) + j
      BY <2>2, <2>4
    <3>2. R[Len(M) + i].end <= R[Len(M) + j].end
      BY <2>1, <2>2, <3>1 DEF Advancing, R
    <3> QED
      BY <2>2, <3>2
  <2>5. ASSUME NEW j \in DOMAIN Q
        PROVE  /\ \A i \in DOMAIN s.rollups : s.rollups[i].end <= Q[j].end
               /\ s.rollupActive # NoRollup => s.rollupActive.end <= Q[j].end
    BY <2>1, <2>2 DEF Advancing, R
  <2> QED
    BY <1>5, <2>4, <2>5 DEF Advancing, Q
<1>15. AllExpired(z, t)
  BY <1>1, <1>5 DEF AllExpired
<1>16. r.sealed = <<>> => z.sealed = <<>>
  BY DEF Aging
<1>17. Aging(r, z, d, q, on, t)
  BY <1>2, <1>4, <1>5, <1>13, <1>14, <1>15, <1>16 DEF Aging, Roomy, Q
<1> QED
  BY <1>17 DEF z

LEMMA AgedRawAging ==
    ASSUME NEW r, NEW d, DeltasOK(d), NEW q, NEW on, NEW t \in Nat, Sound(r, <<>>, d, q, on, t),
           RecorderAssumption
    PROVE  Aging(r, AgedRaw(r, t), d, q, on, t)
<1>1. r \in Recorders
  BY DEF Sound, Books
<1>2. PICK n \in Nat : n = Len(r.sealed)
  BY <1>1, RecorderFields, LenProperties
<1> DEFINE S == [k \in 0..n |-> {s \in Recorders : Aging(r, s, d, q, on, t)}]
<1>3. \A k \in 0..n : S[k] = {s \in Recorders : Aging(r, s, d, q, on, t)}
  OBVIOUS
<1> HIDE DEF S
<1>4. r \in S[0]
  <2>1. Aging(r, r, d, q, on, t)
    BY DEF Aging, Sound
  <2> QED
    BY <1>1, <1>2, <1>3, <2>1
<1>5. ASSUME NEW k \in 1..n, NEW s \in S[k - 1]
      PROVE  (IF s.sealed # <<>> /\ Expired(Head(s.sealed), t) THEN dropRaw(s, FALSE) ELSE s) \in S[k]
  <2>1. k - 1 \in 0..n /\ k \in 0..n
    BY <1>2
  <2>2. Aging(r, s, d, q, on, t)
    BY <1>3, <2>1
  <2> DEFINE z == IF s.sealed # <<>> /\ Expired(Head(s.sealed), t) THEN dropRaw(s, FALSE) ELSE s
  <2>3. Aging(r, z, d, q, on, t)
    <3>1. CASE s.sealed # <<>> /\ Expired(Head(s.sealed), t)
      <4>1. Aging(r, dropRaw(s, FALSE), d, q, on, t)
        BY <2>2, <3>1, AgingRaw, Zenon
      <4> QED
        BY <3>1, <4>1, Zenon
    <3>2. CASE ~(s.sealed # <<>> /\ Expired(Head(s.sealed), t))
      BY <2>2, <3>2, Zenon
    <3> QED
      BY <3>1, <3>2
  <2> HIDE DEF z
  <2>4. z \in Recorders
    BY <2>3 DEF Aging, Books
  <2>5. z \in S[k]
    BY <1>3, <2>1, <2>3, <2>4
  <2> QED
    BY <2>5 DEF z
<1>6. AgedRaw(r, t) \in S[n]
  BY <1>2, <1>4, <1>5, AgedRawEnds
<1> QED
  BY <1>2, <1>3, <1>6

\* One roll-up is dropped, the oldest, which has expired.
LEMMA AgingRollup ==
    ASSUME NEW r, NEW s, NEW d, DeltasOK(d), NEW q, NEW on, NEW t \in Nat, Aging(r, s, d, q, on, t),
           hasRollup(s), Expired(Oldest(s), t), RecorderAssumption
    PROVE  Aging(r, dropRollup(s, FALSE), d, q, on, t) /\ Unrolled(s, dropRollup(s, FALSE))
<1> DEFINE z == dropRollup(s, FALSE)
           n == s.aggregateEvictions
<1>1. /\ Books(s) /\ Advancing(s, <<>>) /\ Roomy(s) /\ Contiguous(s.active, q, on)
      /\ s.active = r.active /\ s.drops = r.drops /\ n = r.aggregateEvictions
      /\ s \in Recorders /\ (r.sealed = <<>> => s.sealed = <<>>)
  BY DEF Aging, Books
<1>2. Unrolled(s, z) /\ z.aggregateEvictions = n
  BY <1>1, DropRollupFields
<1> HIDE DEF z
<1>3. Books(z) /\ z \in Recorders /\ Advancing(z, <<>>)
  BY <1>1, <1>2, UnrolledBooks, UnrolledAdvancing DEF Books
<1>4. z.sealed = s.sealed /\ z.active = s.active /\ z.drops = s.drops
  BY <1>2 DEF Unrolled
<1>5. z.rollupActive # NoRollup => z.rollupActive = s.rollupActive
  BY <1>2 DEF Unrolled
<1>6. CASE Truthful(Chronicle(s, <<>>), n, d, q, on, t)
  <2>1. Sound(s, <<>>, d, q, on, t)
    BY <1>1, <1>6 DEF Sound
  <2>2. t - Oldest(s).end >= History
    BY DEF Expired
  <2>3. Sound(z, <<>>, d, q, on, t)
    BY <2>1, <2>2, DropRollupSound DEF z
  <2>4. Aging(r, z, d, q, on, t)
    BY <1>1, <1>2, <1>4, <2>3 DEF Aging, Sound
  <2> QED
    BY <1>2, <2>4 DEF z
<1>7. CASE AllExpired(s, t) /\ Truthful(Raws(s, <<>>), n, d, q, on, t)
  <2>1. Raws(z, <<>>) = Raws(s, <<>>)
    BY <1>4 DEF Raws
  <2>2. AllExpired(z, t)
    <3>1. s.rollups \in Seq(Segments)
      BY <1>1, RecorderFields
    <3>2. \A i \in DOMAIN z.rollups : \E j \in DOMAIN s.rollups : z.rollups[i] = s.rollups[j]
      <4>1. CASE s.rollups # <<>>
        <5>1. z.rollups = Tail(s.rollups)
          BY <1>2, <4>1 DEF Unrolled
        <5>2. Shifted(s.rollups)
          BY <3>1, <4>1, TailFields, Zenon
        <5> QED
          BY <5>1, <5>2 DEF Shifted
      <4>2. CASE s.rollups = <<>>
        BY <1>2, <4>2 DEF Unrolled
      <4> QED
        BY <4>1, <4>2
    <3> QED
      BY <1>5, <1>7, <3>2 DEF AllExpired
  <2>3. Roomy(z) /\ Contiguous(z.active, q, on)
    BY <1>1, <1>4, <1>5 DEF Roomy
  <2>4. Truthful(Raws(z, <<>>), z.aggregateEvictions, d, q, on, t)
    BY <1>2, <1>7, <2>1
  <2>5. Aging(r, z, d, q, on, t)
    BY <1>1, <1>2, <1>3, <1>4, <2>2, <2>3, <2>4 DEF Aging
  <2> QED
    BY <1>2, <2>5 DEF z
<1> QED
  BY <1>6, <1>7 DEF Aging

\* No sealed roll-up is left to expire.
Unexpired(s, t) == s.rollups = <<>> \/ ~Expired(Head(s.rollups), t)

LEMMA AgedRollupsAging ==
    ASSUME NEW r, NEW o, NEW d, DeltasOK(d), NEW q, NEW on, NEW t \in Nat, Aging(r, o, d, q, on, t),
           RecorderAssumption
    PROVE  Aging(r, AgedRollups(o, t), d, q, on, t) /\ Unexpired(AgedRollups(o, t), t)
<1>1. o \in Recorders
  BY DEF Aging, Books
<1>2. PICK n \in Nat : n = Len(o.rollups)
  BY <1>1, RecorderFields, LenProperties
<1> DEFINE Left(s, k) == Unexpired(s, t) \/ Len(s.rollups) + k <= n
           S == [k \in 0..n |-> {s \in Recorders : Aging(r, s, d, q, on, t) /\ Left(s, k)}]
<1>3. \A k \in 0..n : S[k] = {s \in Recorders : Aging(r, s, d, q, on, t) /\ Left(s, k)}
  OBVIOUS
<1> HIDE DEF S
<1>4. o \in S[0]
  <2>1. Left(o, 0)
    BY <1>2
  <2> QED
    BY <1>1, <1>2, <1>3, <2>1
<1>5. ASSUME NEW k \in 1..n, NEW s \in S[k - 1]
      PROVE  (IF s.rollups # <<>> /\ Expired(Head(s.rollups), t) THEN dropRollup(s, FALSE) ELSE s) \in S[k]
  <2>1. k - 1 \in 0..n /\ k \in 0..n /\ k \in Nat
    BY <1>2
  <2>2. Aging(r, s, d, q, on, t) /\ Left(s, k - 1) /\ s \in Recorders
    BY <1>3, <2>1
  <2> DEFINE z == IF s.rollups # <<>> /\ Expired(Head(s.rollups), t) THEN dropRollup(s, FALSE) ELSE s
  <2>3. Aging(r, z, d, q, on, t) /\ Left(z, k)
    <3>1. CASE s.rollups # <<>> /\ Expired(Head(s.rollups), t)
      <4>1. hasRollup(s) /\ Oldest(s) = Head(s.rollups)
        BY <3>1 DEF hasRollup, Oldest
      <4>2. Aging(r, dropRollup(s, FALSE), d, q, on, t) /\ Unrolled(s, dropRollup(s, FALSE))
        BY <2>2, <3>1, <4>1, AgingRollup
      <4>3. z = dropRollup(s, FALSE)
        BY <3>1, Zenon
      <4>4. Aging(r, z, d, q, on, t) /\ Unrolled(s, z)
        BY <4>2, <4>3, Zenon
      <4> HIDE DEF z
      <4>5. z.rollups = Tail(s.rollups) /\ s.rollups \in Seq(Segments)
        BY <2>2, <3>1, <4>4, RecorderFields DEF Unrolled
      <4>6. Len(z.rollups) = Len(s.rollups) - 1 /\ Len(s.rollups) \in Nat
        BY <3>1, <4>5, HeadTailProperties, LenProperties
      <4>7. Len(s.rollups) + (k - 1) <= n
        BY <2>2, <3>1 DEF Unexpired
      <4> DEFINE A == Len(s.rollups)
                 C == Len(z.rollups)
      <4>8. A \in Nat /\ C = A - 1 /\ A + (k - 1) <= n
        BY <4>6, <4>7
      <4> HIDE DEF A, C
      <4>9. C + k <= n
        BY <2>1, <4>8
      <4> QED
        BY <4>4, <4>9 DEF C
    <3>2. CASE ~(s.rollups # <<>> /\ Expired(Head(s.rollups), t))
      <4>1. z = s
        BY <3>2, Zenon
      <4>2. Unexpired(s, t)
        BY <3>2 DEF Unexpired
      <4> HIDE DEF z
      <4> QED
        BY <2>2, <4>1, <4>2
    <3> QED
      BY <3>1, <3>2
  <2> HIDE DEF z
  <2>4. z \in Recorders
    BY <2>3 DEF Aging, Books
  <2>5. z \in S[k]
    BY <1>3, <2>1, <2>3, <2>4
  <2> QED
    BY <2>5 DEF z
<1>6. AgedRollups(o, t) \in S[n]
  BY <1>2, <1>4, <1>5, AgedRollupsEnds
<1> DEFINE z == AgedRollups(o, t)
<1> HIDE DEF z, Left
<1>7. Aging(r, z, d, q, on, t) /\ Left(z, n) /\ z \in Recorders
  <2>1. z \in S[n] /\ n \in 0..n
    BY <1>2, <1>6 DEF z
  <2> QED
    BY <1>3, <2>1
<1>8. Unexpired(z, t)
  <2>1. z.rollups \in Seq(Segments)
    BY <1>7, RecorderFields
  <2> PICK l : l = Len(z.rollups)
    OBVIOUS
  <2>2. l \in Nat
    BY <2>1, LenProperties
  <2>3. z.rollups # <<>> => l # 0
    BY <2>1, EmptySeq
  <2>4. l + n <= n => l = 0
    <3>1. n \in Nat
      OBVIOUS
    <3> QED
      BY <2>2, <3>1
  <2> QED
    BY <1>7, <2>3, <2>4 DEF Unexpired, Left
<1> QED
  BY <1>7, <1>8 DEF z

LEMMA AgedActiveSound ==
    ASSUME NEW r, NEW s, NEW d, DeltasOK(d), NEW q, NEW on, NEW t \in Nat, Aging(r, s, d, q, on, t),
           Unexpired(s, t), RecorderAssumption
    PROVE  LET z == AgedActive(s, t)
           IN  /\ Sound(z, <<>>, d, q, on, t) /\ z.active = r.active /\ z.drops = r.drops
               /\ z.aggregateEvictions = r.aggregateEvictions
               /\ r.sealed = <<>> => z.sealed = <<>>
<1> DEFINE z == AgedActive(s, t)
<1>1. s \in Recorders /\ Following(s) /\ Books(s)
  BY DEF Aging, Books
<1>2. s.rollups \in Seq(Segments) /\ (s.rollupActive # NoRollup => s.rollupActive \in Segments)
  BY <1>1, RecorderFields
<1>3. s.rollups # <<>> => 1 \in DOMAIN s.rollups /\ Head(s.rollups) = s.rollups[1] /\ s.rollups[1] \in Segments
  <2>1. s.rollups # <<>> => Shifted(s.rollups) /\ Head(s.rollups) \in Segments
    BY <1>2, TailFields
  <2> QED
    BY <2>1 DEF Shifted
<1>4. /\ Aging(r, z, d, q, on, t)
      /\ AllExpired(z, t) => Rollups(z) = <<>>
  <2>1. CASE s.rollupActive # NoRollup /\ Expired(s.rollupActive, t)
    <3>1. z = dropRollup(s, FALSE)
      BY <2>1 DEF AgedActive
    <3>2. s.rollups = <<>>
      <4> SUFFICES ASSUME s.rollups # <<>> PROVE FALSE
        OBVIOUS
      <4>1. s.rollups[1].end <= s.rollupActive.end
        BY <1>1, <1>3, <2>1 DEF Following
      <4>2. s.rollups[1].end \in Nat /\ s.rollupActive.end \in Nat /\ History \in Nat
        BY <1>2, <1>3, <2>1, SegmentFields DEF RecorderAssumption
      <4>3. t >= s.rollupActive.end /\ t - s.rollupActive.end >= History
        BY <2>1 DEF Expired
      <4>4. t >= s.rollups[1].end /\ t - s.rollups[1].end >= History
        BY <4>1, <4>2, <4>3
      <4> QED
        BY <1>3, <4>4 DEF Expired, Unexpired
    <3>3. hasRollup(s) /\ Oldest(s) = s.rollupActive
      BY <2>1, <3>2 DEF hasRollup, Oldest
    <3>4. Aging(r, z, d, q, on, t) /\ Unrolled(s, z)
      BY <2>1, <3>1, <3>3, AgingRollup
    <3>5. Rollups(z) = <<>>
      BY <3>2, <3>4 DEF Unrolled, Rollups
    <3> QED
      BY <3>4, <3>5
  <2>2. CASE ~(s.rollupActive # NoRollup /\ Expired(s.rollupActive, t))
    <3>1. z = s
      BY <2>2 DEF AgedActive
    <3>2. ASSUME AllExpired(s, t) PROVE Rollups(s) = <<>>
      <4>1. s.rollupActive = NoRollup
        BY <2>2, <3>2 DEF AllExpired
      <4>2. s.rollups = <<>>
        BY <1>3, <3>2 DEF AllExpired, Unexpired
      <4> QED
        BY <4>1, <4>2 DEF Rollups
    <3> HIDE DEF z
    <3> QED
      BY <3>1, <3>2
  <2> QED
    BY <2>1, <2>2
<1> HIDE DEF z
<1>5. Truthful(Chronicle(z, <<>>), z.aggregateEvictions, d, q, on, t)
  <2>1. CASE Truthful(Chronicle(z, <<>>), z.aggregateEvictions, d, q, on, t)
    BY <2>1
  <2>2. CASE AllExpired(z, t) /\ Truthful(Raws(z, <<>>), z.aggregateEvictions, d, q, on, t)
    <3>1. Rollups(z) = <<>>
      BY <1>4, <2>2
    <3>2. Chronicle(z, <<>>) = <<>> \o Raws(z, <<>>)
      BY <3>1, LedgerEmpty DEF Chronicle
    <3>3. Raws(z, <<>>) \in Seq(Aggregates)
      <4>1. z \in Recorders /\ <<>> \in Seq(Aggregates)
        BY <1>4, EmptySeq DEF Aging, Books
      <4> QED
        BY <4>1, ChronicleFields
    <3>4. Chronicle(z, <<>>) = Raws(z, <<>>)
      BY <3>2, <3>3, ConcatEmptySeq
    <3> QED
      BY <2>2, <3>4
  <2> QED
    BY <1>4, <2>1, <2>2 DEF Aging
<1>6. /\ Sound(z, <<>>, d, q, on, t) /\ z.active = r.active /\ z.drops = r.drops
      /\ z.aggregateEvictions = r.aggregateEvictions /\ (r.sealed = <<>> => z.sealed = <<>>)
  BY <1>4, <1>5 DEF Aging, Sound
<1> QED
  BY <1>6 DEF z

LEMMA AgedSound ==
    ASSUME NEW r, NEW d, DeltasOK(d), NEW q, NEW on, NEW t \in Nat, Sound(r, <<>>, d, q, on, t),
           RecorderAssumption
    PROVE  /\ Sound(Aged(r, t), <<>>, d, q, on, t)
           /\ Aged(r, t).active = r.active /\ Aged(r, t).drops = r.drops
           /\ Aged(r, t).aggregateEvictions = r.aggregateEvictions
           /\ r.sealed = <<>> => Aged(r, t).sealed = <<>>
<1> DEFINE x == AgedRaw(r, t)
           y == AgedRollups(x, t)
           z == AgedActive(y, t)
<1>1. Aged(r, t) = z
  BY DEF Aged
<1>2. Aging(r, x, d, q, on, t)
  BY AgedRawAging, Zenon
<1> HIDE DEF x
<1>3. Aging(r, y, d, q, on, t) /\ Unexpired(y, t)
  BY <1>2, AgedRollupsAging, Zenon
<1> HIDE DEF y
<1>4. /\ Sound(z, <<>>, d, q, on, t) /\ z.active = r.active /\ z.drops = r.drops
      /\ z.aggregateEvictions = r.aggregateEvictions /\ (r.sealed = <<>> => z.sealed = <<>>)
  BY <1>3, AgedActiveSound, Zenon
<1> HIDE DEF z
<1> QED
  BY <1>1, <1>4

-----------------------------------------------------------------------------
(* Time passing.                                                           *)

\* z is r at time t, with s as its active segment.
SealedTo(r, z, t) ==
    /\ z \in Recorders /\ z.rollups = r.rollups /\ z.rollupActive = r.rollupActive
    /\ z.aggregateEvictions = r.aggregateEvictions /\ z.drops = r.drops
    /\ \/ /\ t - r.active.start >= SegmentInterval /\ z.active = Retained(t)
          /\ z.sealed = Append(r.sealed, [r.active EXCEPT !.end = r.active.start + SegmentInterval])
          /\ z.bytes = r.bytes + SegmentCost
       \/ /\ t - r.active.start < SegmentInterval /\ z.active = [r.active EXCEPT !.end = t]
          /\ z.sealed = r.sealed /\ z.bytes = r.bytes

LEMMA RetainedFields ==
    ASSUME NEW t \in Nat, RecorderAssumption
    PROVE  /\ Retained(t) \in Segments /\ (1 <= t => RawOK(Retained(t))) /\ Retained(t).metrics = <<>>
           /\ Retained(t).start = t /\ Retained(t).end = t /\ Retained(t).bytes = SegmentCost
<1> DEFINE s == Retained(t)
<1>1. SegmentCost \in Nat /\ EventSize \in Nat /\ EventText \in Nat /\ MetricSize \in Nat /\ FamilyText \in Nat
  BY DEF RecorderAssumption
<1>2. s \in Segments
  BY <1>1 DEF Retained, Segments
<1>3. /\ s.start = t /\ s.end = t /\ s.min = t /\ s.max = t /\ s.bytes = SegmentCost
      /\ s.events = <<>> /\ s.ecap = 0 /\ s.metrics = <<>> /\ s.mcap = 0
  BY DEF Retained
<1> HIDE DEF s
<1>4. Held(s, FamilyText) = SegmentCost + 0 * EventSize + Len(<<>>) * EventText + 0 * MetricSize + Len(<<>>) * FamilyText
  BY <1>3 DEF Held
<1>5. Held(s, FamilyText) = SegmentCost
  BY <1>1, <1>4
<1>6. Within(s)
  BY <1>3 DEF Within
<1>7. Len(s.metrics) <= s.mcap /\ \A i \in DOMAIN s.events : s.events[i] <= s.end
  BY <1>3
<1>8. 1 <= t => RawOK(s)
  BY <1>3, <1>5, <1>6, <1>7 DEF RawOK
<1> QED
  BY <1>2, <1>3, <1>8 DEF s

LEMMA SealedFields ==
    ASSUME NEW r \in Recorders, NEW t \in Nat, RecorderAssumption
    PROVE  SealedTo(r, [Sealed(r, t) EXCEPT !.active.end = t], t)
<1> DEFINE z == [Sealed(r, t) EXCEPT !.active.end = t]
           old == [r.active EXCEPT !.end = r.active.start + SegmentInterval]
           a == [r.active EXCEPT !.end = t]
<1>1. /\ r.bytes \in Int /\ r.sealed \in Seq(Segments) /\ r.active \in Segments
      /\ r.active.start \in Nat /\ SegmentInterval \in Nat /\ SegmentCost \in Nat
  BY RecorderFields, SegmentFields DEF RecorderAssumption
<1>2. old \in Segments /\ a \in Segments
  <2> PICK n : n = r.active.start + SegmentInterval
    OBVIOUS
  <2> PICK s : s = r.active
    OBVIOUS
  <2>1. n \in Nat /\ s \in Segments
    BY <1>1
  <2>2. [s EXCEPT !.end = n] \in Segments
    BY <2>1 DEF Segments
  <2>3. [s EXCEPT !.end = t] \in Segments
    BY <2>1 DEF Segments
  <2> QED
    BY <2>2, <2>3
<1>3. Retained(t) \in Segments
  BY RetainedFields
<1>4. [Retained(t) EXCEPT !.end = t] = Retained(t)
  BY DEF Retained
<1>5. CASE t - r.active.start >= SegmentInterval
  <2> DEFINE x == [r EXCEPT !.sealed = Append(r.sealed, old)]
             y == [x EXCEPT !.active = Retained(t), !.bytes = x.bytes + SegmentCost]
             more == Append(r.sealed, old)
             b == r.bytes + SegmentCost
  <2>1. Sealed(r, t) = y
    BY <1>5 DEF Sealed, Open
  <2>2. more \in Seq(Segments) /\ b \in Int
    <3> HIDE DEF old
    <3> QED
      BY <1>1, <1>2, AppendProperties
  <2> HIDE DEF old
  <2>3. y = [r EXCEPT !.sealed = more, !.active = Retained(t), !.bytes = b]
    BY DEF Recorders
  <2>4. y \in Recorders /\ y.active = Retained(t)
    <3> HIDE DEF more, b
    <3> QED
      BY <1>3, <2>2, <2>3 DEF Recorders
  <2>5. z = [y EXCEPT !.active = [Retained(t) EXCEPT !.end = t]]
    <3> HIDE DEF y
    <3> QED
      BY <2>1, <2>4 DEF Recorders
  <2>6. z = y
    <3> HIDE DEF y, z
    <3> QED
      BY <1>4, <2>4, <2>5 DEF Recorders
  <2> HIDE DEF z, y
  <2>7. /\ z \in Recorders /\ z.rollups = r.rollups /\ z.rollupActive = r.rollupActive
        /\ z.aggregateEvictions = r.aggregateEvictions /\ z.drops = r.drops
        /\ z.active = Retained(t) /\ z.sealed = more /\ z.bytes = b
    <3> HIDE DEF more, b
    <3> QED
      BY <2>3, <2>4, <2>6 DEF Recorders
  <2> QED
    BY <1>5, <2>7 DEF SealedTo, z, old
<1>6. CASE t - r.active.start < SegmentInterval
  <2>1. ~(t - r.active.start >= SegmentInterval)
    BY <1>1, <1>6
  <2>2. Sealed(r, t) = r
    BY <2>1 DEF Sealed
  <2>3. z = [r EXCEPT !.active = a]
    BY <2>2 DEF Recorders
  <2> HIDE DEF z, a
  <2>4. /\ z \in Recorders /\ z.rollups = r.rollups /\ z.rollupActive = r.rollupActive
        /\ z.aggregateEvictions = r.aggregateEvictions /\ z.drops = r.drops
        /\ z.active = a /\ z.sealed = r.sealed /\ z.bytes = r.bytes
    BY <1>2, <2>3 DEF Recorders
  <2> QED
    BY <1>6, <2>4 DEF SealedTo, z, a
<1> QED
  BY <1>1, <1>5, <1>6

\* A raw segment whose end is moved.
LEMMA EndMoved ==
    ASSUME NEW s \in Segments, RawOK(s), NEW x \in Nat, s.end <= x
    PROVE  LET e == [s EXCEPT !.end = x]
           IN  /\ e \in Segments /\ RawOK(e) /\ e.end = x /\ e.start = s.start /\ e.bytes = s.bytes
               /\ e.metrics = s.metrics /\ e.events = s.events /\ e.mcap = s.mcap /\ e.ecap = s.ecap
               /\ e.min = s.min /\ e.max = s.max
<1> DEFINE e == [s EXCEPT !.end = x]
<1>1. e \in Segments
  BY DEF Segments
<1>2. /\ e.end = x /\ e.start = s.start /\ e.bytes = s.bytes
      /\ e.metrics = s.metrics /\ e.events = s.events /\ e.mcap = s.mcap /\ e.ecap = s.ecap
      /\ e.min = s.min /\ e.max = s.max
  BY DEF Segments
<1> HIDE DEF e
<1>3. s.start \in Nat /\ s.end \in Nat /\ s.metrics \in Seq(Aggregates) /\ s.events \in Seq(Nat)
  BY SegmentFields
<1>4. Within(s) /\ s.bytes = Held(s, FamilyText) /\ Len(s.metrics) <= s.mcap
      /\ (s.mcap = 0 \/ s.mcap = MetricCapacity \/ s.mcap >= 2 * MetricCapacity)
      /\ \A i \in DOMAIN s.events : s.events[i] <= s.end
  BY DEF RawOK
<1>5. Within(e)
  <2>1. s.start <= x
    BY <1>3, <1>4 DEF Within
  <2>2. ASSUME NEW i \in DOMAIN s.metrics PROVE s.metrics[i].end <= x
    <3>1. s.metrics[i].end <= s.end
      BY <1>4 DEF Within
    <3>2. s.metrics[i].end \in Nat
      BY <1>3, AggregateFields
    <3> QED
      BY <1>3, <3>1, <3>2
  <2> QED
    BY <1>2, <1>4, <2>1, <2>2 DEF Within
<1>6. Held(e, FamilyText) = Held(s, FamilyText)
  BY <1>2 DEF Held
<1>7. ASSUME NEW i \in DOMAIN s.events PROVE s.events[i] <= x
  <2>1. s.events[i] \in Nat /\ s.events[i] <= s.end
    BY <1>3, <1>4
  <2> QED
    BY <1>3, <2>1
<1>8. RawOK(e)
  BY <1>2, <1>4, <1>5, <1>6, <1>7 DEF RawOK
<1> QED
  BY <1>1, <1>2, <1>8 DEF e

LEMMA SealedSound ==
    ASSUME NEW r, NEW d, NEW q, NEW on, NEW t \in Nat, Sound(r, <<>>, d, q, on, t),
           r.active.start <= t, r.active.end <= t, NEW z, SealedTo(r, z, t), RecorderAssumption
    PROVE  Sound(z, <<>>, d, q, on, t)
<1> DEFINE a == r.active
<1>1. /\ r \in Recorders /\ Books(r) /\ Advancing(r, <<>>) /\ Roomy(r)
      /\ Truthful(Chronicle(r, <<>>), r.aggregateEvictions, d, q, on, t)
      /\ Contiguous(a, q, on) /\ RawOK(a) /\ Following(r) /\ Accounted(r)
      /\ a.end <= a.start + SegmentInterval
      /\ \A i \in DOMAIN r.sealed : RawOK(r.sealed[i])
  BY DEF Sound, Books
<1>2. /\ r.bytes \in Int /\ r.sealed \in Seq(Segments) /\ a \in Segments /\ r.rollups \in Seq(Segments)
      /\ a.start \in Nat /\ a.end \in Nat /\ SegmentInterval \in Nat /\ SegmentCost \in Nat /\ a.bytes \in Int
      /\ (r.rollupActive # NoRollup => r.rollupActive \in Segments)
      /\ a.metrics \in Seq(Aggregates)
  BY <1>1, RecorderFields, SegmentFields DEF RecorderAssumption
<1>3. /\ z \in Recorders /\ z.rollups = r.rollups /\ z.rollupActive = r.rollupActive
      /\ z.aggregateEvictions = r.aggregateEvictions
  BY DEF SealedTo
<1>4. Rolled(z) = Rolled(r) /\ Rollups(z) = Rollups(r) /\ Roomy(z) /\ Rolled(r) \in Int
      /\ Total(r.rollups) \in Int /\ Total(r.sealed) \in Int
  <2>1. r.rollupActive # NoRollup => r.rollupActive.bytes \in Int
    BY <1>2, SegmentFields
  <2> QED
    BY <1>1, <1>2, <1>3, <2>1, TotalInt DEF Rolled, Rollups, Roomy
<1>5. r.bytes = Total(r.rollups) + Rolled(r) + Total(r.sealed) + a.bytes
  BY <1>1 DEF Accounted
<1>6. /\ \A i \in DOMAIN r.rollups : r.rollups[i].end \in Nat
      /\ \A i \in DOMAIN r.sealed : r.sealed[i].end \in Nat
      /\ r.rollupActive # NoRollup => r.rollupActive.end \in Nat
  <2>1. \A i \in DOMAIN r.rollups : r.rollups[i] \in Segments
    BY <1>2
  <2>2. \A i \in DOMAIN r.sealed : r.sealed[i] \in Segments
    BY <1>2
  <2> QED
    BY <1>2, <2>1, <2>2, SegmentFields
<1>7. /\ \A i, j \in DOMAIN r.rollups : i < j => r.rollups[i].end <= r.rollups[j].end
      /\ \A i \in DOMAIN r.rollups : r.rollups[i].end <= a.start
      /\ \A i, j \in DOMAIN r.sealed : i < j => r.sealed[i].end <= r.sealed[j].end
      /\ \A i \in DOMAIN r.sealed :
             /\ r.sealed[i].end <= a.start
             /\ \A j \in DOMAIN r.rollups : r.rollups[j].end <= r.sealed[i].end
      /\ r.rollupActive # NoRollup =>
             /\ r.rollupActive.end <= a.start
             /\ \A i \in DOMAIN r.rollups : r.rollups[i].end <= r.rollupActive.end
             /\ \A i \in DOMAIN r.sealed : r.rollupActive.end <= r.sealed[i].end
  BY <1>1 DEF Following
<1>8. /\ Books(z) /\ Ledger(Append(z.sealed, z.active)) = Ledger(Append(r.sealed, a))
      /\ Contiguous(z.active, q, on)
  <2>1. CASE /\ t - a.start >= SegmentInterval /\ z.active = Retained(t)
             /\ z.sealed = Append(r.sealed, [a EXCEPT !.end = a.start + SegmentInterval])
             /\ z.bytes = r.bytes + SegmentCost
    <3> PICK x : x = a.start + SegmentInterval
      OBVIOUS
    <3> DEFINE old == [a EXCEPT !.end = x]
               n == Retained(t)
    <3>1. x \in Nat /\ a.end <= x /\ x <= t /\ a.start <= x /\ 1 <= t
      <4> DEFINE A == a.start
                 E == a.end
      <4>1. A \in Nat /\ E \in Nat /\ SegmentInterval \in Nat /\ t - A >= SegmentInterval
            /\ E <= A + SegmentInterval /\ x = A + SegmentInterval /\ 1 <= A
        BY <1>1, <1>2, <2>1 DEF RawOK
      <4> HIDE DEF A, E
      <4>2. x \in Nat /\ E <= x /\ x <= t /\ A <= x /\ 1 <= t
        BY <4>1
      <4> QED
        BY <4>2 DEF A, E
    <3>2. old \in Segments /\ RawOK(old) /\ old.end = x /\ old.bytes = a.bytes /\ old.metrics = a.metrics
      BY <1>1, <1>2, <3>1, EndMoved, Zenon
    <3>3. n \in Segments /\ RawOK(n) /\ n.metrics = <<>> /\ n.start = t /\ n.end = t /\ n.bytes = SegmentCost
      BY <3>1, RetainedFields
    <3>4. z.active = n /\ z.sealed = Append(r.sealed, old)
      BY <2>1
    <3> HIDE DEF old, n, a
    <3>5. /\ z.sealed \in Seq(Segments) /\ Len(r.sealed) \in Nat /\ z.sealed[Len(r.sealed) + 1] = old
          /\ \A i \in DOMAIN r.sealed : z.sealed[i] = r.sealed[i] /\ i < Len(r.sealed) + 1
          /\ \A i \in DOMAIN z.sealed : i \in Nat /\ (i \in DOMAIN r.sealed \/ i = Len(r.sealed) + 1)
      BY <1>2, <3>2, <3>4, AppendedFields
    <3>6. Accounted(z)
      <4>1. Total(z.sealed) = Total(r.sealed) + a.bytes
        BY <1>2, <3>2, <3>4, TotalAppend
      <4> DEFINE A == Total(r.rollups)
                 B == Rolled(r)
                 C == Total(r.sealed)
                 D == a.bytes
      <4>2. A \in Int /\ B \in Int /\ C \in Int /\ D \in Int /\ SegmentCost \in Int
            /\ z.bytes = (A + B + C + D) + SegmentCost
        BY <1>2, <1>4, <1>5, <2>1
      <4> HIDE DEF A, B, C, D
      <4>3. z.bytes = A + B + (C + D) + SegmentCost
        BY <4>2
      <4> QED
        BY <1>3, <1>4, <3>3, <3>4, <4>1, <4>3 DEF Accounted, A, B, C, D
    <3>7. Following(z)
      <4>1. ASSUME NEW i \in DOMAIN z.sealed, NEW j \in DOMAIN z.sealed, i < j
            PROVE  z.sealed[i].end <= z.sealed[j].end
        <5>1. CASE i \in DOMAIN r.sealed /\ j \in DOMAIN r.sealed
          BY <1>7, <3>5, <4>1, <5>1
        <5>2. CASE i \in DOMAIN r.sealed /\ j = Len(r.sealed) + 1
          <6>1. r.sealed[i].end <= a.start /\ r.sealed[i].end \in Nat
            BY <1>6, <1>7, <5>2
          <6>2. r.sealed[i].end <= x
            BY <1>2, <3>1, <6>1
          <6>3. z.sealed[i] = r.sealed[i] /\ z.sealed[j] = old
            BY <3>5, <5>2
          <6> QED
            BY <3>2, <6>2, <6>3
        <5>3. CASE i = Len(r.sealed) + 1
          <6>1. j \in DOMAIN r.sealed \/ j = Len(r.sealed) + 1
            BY <3>5
          <6>2. j \in DOMAIN r.sealed => j < Len(r.sealed) + 1
            BY <3>5
          <6>3. j \in Nat
            BY <3>5
          <6> QED
            BY <3>5, <4>1, <5>3, <6>1, <6>2, <6>3
        <5> QED
          BY <3>5, <5>1, <5>2, <5>3
      <4>2. ASSUME NEW i \in DOMAIN z.sealed
            PROVE  /\ z.sealed[i].end <= t
                   /\ \A j \in DOMAIN r.rollups : r.rollups[j].end <= z.sealed[i].end
                   /\ r.rollupActive # NoRollup => r.rollupActive.end <= z.sealed[i].end
        <5>1. CASE i \in DOMAIN r.sealed
          <6>1. z.sealed[i] = r.sealed[i] /\ r.sealed[i].end <= a.start /\ r.sealed[i].end \in Nat
            BY <1>6, <1>7, <3>5, <5>1
          <6>2. r.sealed[i].end <= t
            BY <1>2, <6>1 DEF a
          <6> QED
            BY <1>7, <5>1, <6>1, <6>2
        <5>2. CASE i = Len(r.sealed) + 1
          <6>1. z.sealed[i].end = x
            BY <3>2, <3>5, <5>2
          <6>2. \A j \in DOMAIN r.rollups : r.rollups[j].end <= x
            <7> SUFFICES ASSUME NEW j \in DOMAIN r.rollups PROVE r.rollups[j].end <= x
              OBVIOUS
            <7>1. r.rollups[j].end \in Nat /\ r.rollups[j].end <= a.start
              BY <1>6, <1>7
            <7> QED
              BY <1>2, <3>1, <7>1
          <6>3. r.rollupActive # NoRollup => r.rollupActive.end <= x
            BY <1>2, <1>6, <1>7, <3>1
          <6> QED
            BY <3>1, <6>1, <6>2, <6>3
        <5> QED
          BY <3>5, <5>1, <5>2
      <4>3. \A i \in DOMAIN r.rollups : r.rollups[i].end <= t
        <5> SUFFICES ASSUME NEW i \in DOMAIN r.rollups PROVE r.rollups[i].end <= t
          OBVIOUS
        <5>1. r.rollups[i].end \in Nat /\ r.rollups[i].end <= a.start
          BY <1>6, <1>7
        <5> QED
          BY <1>2, <5>1 DEF a
      <4>4. r.rollupActive # NoRollup => r.rollupActive.end <= t
        BY <1>2, <1>6, <1>7 DEF a
      <4> QED
        BY <1>3, <1>7, <3>3, <3>4, <4>1, <4>2, <4>3, <4>4 DEF Following
    <3>8. \A i \in DOMAIN z.sealed : RawOK(z.sealed[i])
      BY <1>1, <3>2, <3>5
    <3>9. Books(z)
      <4>1. z.active.end <= z.active.start + SegmentInterval
        BY <1>2, <3>3, <3>4
      <4> QED
        BY <1>1, <1>3, <3>3, <3>4, <3>6, <3>7, <3>8, <4>1 DEF Books
    <3>10. Ledger(Append(z.sealed, z.active)) = Ledger(Append(r.sealed, a))
      <4>1. Ledger(Append(z.sealed, n)) = Ledger(z.sealed) \o <<>>
        BY <3>3, <3>5, LedgerAppend
      <4>2. Ledger(z.sealed) = Ledger(r.sealed) \o a.metrics
        BY <1>2, <3>2, <3>4, LedgerAppend
      <4>3. Ledger(Append(r.sealed, a)) = Ledger(r.sealed) \o a.metrics
        BY <1>2, LedgerAppend
      <4>4. Ledger(z.sealed) \in Seq(Aggregates)
        BY <3>5, MetricsOf
      <4>5. Ledger(z.sealed) \o <<>> = Ledger(z.sealed)
        BY <4>4, ConcatEmptySeq
      <4> QED
        BY <3>4, <4>1, <4>2, <4>3, <4>5
    <3>11. Contiguous(z.active, q, on)
      BY <3>3, <3>4 DEF Contiguous
    <3> QED
      BY <3>9, <3>10, <3>11
  <2>2. CASE /\ t - a.start < SegmentInterval /\ z.active = [a EXCEPT !.end = t]
             /\ z.sealed = r.sealed /\ z.bytes = r.bytes
    <3> DEFINE n == [a EXCEPT !.end = t]
    <3>1. /\ n \in Segments /\ RawOK(n) /\ n.end = t /\ n.start = a.start /\ n.bytes = a.bytes
          /\ n.metrics = a.metrics /\ n.mcap = a.mcap
      BY <1>1, <1>2, EndMoved, Zenon
    <3>2. z.active = n
      BY <2>2
    <3> HIDE DEF n, a
    <3>3. Accounted(z)
      BY <1>3, <1>4, <1>5, <2>2, <3>1, <3>2 DEF Accounted
    <3>4. Following(z)
      BY <1>3, <1>7, <2>2, <3>1, <3>2 DEF Following
    <3>5. n.end <= n.start + SegmentInterval
      BY <1>2, <2>2, <3>1
    <3>6. Books(z)
      BY <1>1, <1>3, <2>2, <3>1, <3>2, <3>3, <3>4, <3>5 DEF Books
    <3>7. Ledger(Append(r.sealed, n)) = Ledger(Append(r.sealed, a))
      BY <1>2, <3>1, LedgerAppend
    <3>8. Jammed(n) <=> Jammed(a)
      BY <3>1 DEF Jammed, MetricCost, MetricGrowth
    <3>9. Contiguous(n, q, on)
      BY <1>1, <3>1, <3>8 DEF Contiguous
    <3> QED
      BY <2>2, <3>2, <3>6, <3>7, <3>9
  <2> QED
    BY <2>1, <2>2 DEF SealedTo
<1>9. Raws(z, <<>>) = Raws(r, <<>>)
  BY <1>8 DEF Raws
<1>10. Chronicle(z, <<>>) = Chronicle(r, <<>>)
  BY <1>4, <1>9 DEF Chronicle
<1>11. Advancing(z, <<>>)
  BY <1>1, <1>3, <1>9 DEF Advancing
<1> QED
  BY <1>1, <1>3, <1>4, <1>8, <1>10, <1>11 DEF Sound

\* A recorder with nothing but its active segment.
LEMMA BareBytes ==
    ASSUME NEW r, Books(r), r.sealed = <<>>, ~hasRollup(r)
    PROVE  r.bytes = r.active.bytes
<1>1. r.rollups = <<>> /\ r.rollupActive = NoRollup
  BY DEF hasRollup
<1>2. r.bytes = Total(<<>>) + 0 + Total(<<>>) + r.active.bytes
  BY <1>1 DEF Books, Accounted, Rolled
<1>3. Total(<<>>) = 0
  BY TotalInt, EmptySeq
<1>4. r.active.bytes \in Int
  BY RecorderFields, SegmentFields DEF Books
<1> QED
  BY <1>2, <1>3, <1>4

\* The loop's clock does not run behind the active segment.
Timely(r, t) == r.active.start <= t /\ r.active.end <= t

\* What Advance at t leaves.
Advanced(r, z, t) ==
    /\ Timely(z, t) /\ t - z.active.start < SegmentInterval /\ z.active.end = t
    /\ Affordable(z) /\ z.drops = r.drops
    /\ r.aggregateEvictions <= z.aggregateEvictions
    /\ z.aggregateEvictions > r.aggregateEvictions => z.sealed = <<>>
    /\ r.sealed = <<>> /\ t - r.active.start < SegmentInterval => z.sealed = <<>>

LEMMA AdvanceSound ==
    ASSUME NEW r, NEW d, DeltasOK(d), NEW q, NEW on, NEW t \in Nat, NEW u \in Nat, u <= t,
           Sound(r, <<>>, d, q, on, u), Timely(r, t), Affordable(r), RecorderAssumption
    PROVE  Sound(Advance(r, t), <<>>, d, q, on, t) /\ Advanced(r, Advance(r, t), t)
<1> DEFINE x == [Sealed(r, t) EXCEPT !.active.end = t]
           y == Aged(x, t)
           z == room(y, 0, TRUE)
<1>1. r \in Recorders /\ r.active.start \in Nat /\ r.aggregateEvictions \in Nat
      /\ r.active.start <= t /\ r.active.end <= t /\ r.active.bytes <= MaxBytes
      /\ r.active \in Segments
  BY RecorderFields, SegmentFields DEF Sound, Books, Timely, Affordable
<1>2. Advance(r, t) = z
  <2>1. ~(t < r.active.start)
    BY <1>1
  <2> QED
    BY <2>1, Zenon DEF Advance
<1>3. SealedTo(r, x, t)
  BY <1>1, SealedFields
<1> HIDE DEF x
<1>4. Sound(r, <<>>, d, q, on, t)
  BY SoundLater, EmptySeq
<1>5. Sound(x, <<>>, d, q, on, t)
  BY <1>1, <1>3, <1>4, SealedSound
<1>6. /\ x.active \in Segments /\ x.active.start <= t /\ x.active.end = t
      /\ t - x.active.start < SegmentInterval /\ x.active.bytes <= MaxBytes
      /\ x.aggregateEvictions = r.aggregateEvictions /\ x.drops = r.drops
      /\ r.sealed = <<>> /\ t - r.active.start < SegmentInterval => x.sealed = <<>>
  <2>1. SegmentCost <= MaxBytes /\ SegmentInterval \in Nat /\ SegmentInterval > 0
    BY DEF RecorderAssumption
  <2>2. CASE /\ t - r.active.start >= SegmentInterval /\ x.active = Retained(t)
    <3>1. Retained(t) \in Segments /\ Retained(t).start = t /\ Retained(t).end = t /\ Retained(t).bytes = SegmentCost
      BY RetainedFields
    <3>2. ~(t - r.active.start < SegmentInterval)
      BY <1>1, <2>1, <2>2
    <3>3. t <= t /\ t - t < SegmentInterval
      BY <2>1
    <3> QED
      BY <1>3, <2>1, <2>2, <3>1, <3>2, <3>3 DEF SealedTo
  <2>3. CASE /\ t - r.active.start < SegmentInterval /\ x.active = [r.active EXCEPT !.end = t]
             /\ x.sealed = r.sealed
    <3>1. /\ x.active \in Segments /\ x.active.start = r.active.start /\ x.active.end = t
          /\ x.active.bytes = r.active.bytes
      BY <1>1, <2>3 DEF Segments
    <3> QED
      BY <1>1, <1>3, <2>3, <3>1 DEF SealedTo
  <2> QED
    BY <1>3, <2>2, <2>3 DEF SealedTo
<1>7. /\ Sound(y, <<>>, d, q, on, t) /\ y.active = x.active /\ y.drops = x.drops
      /\ y.aggregateEvictions = x.aggregateEvictions /\ (x.sealed = <<>> => y.sealed = <<>>)
  BY <1>5, AgedSound, Zenon
<1> HIDE DEF y
<1>8. /\ Sound(z, <<>>, d, q, on, t) /\ Eased(y, z)
      /\ z.bytes + 0 <= MaxBytes \/ (z.sealed = <<>> /\ ~hasRollup(z))
  <2>1. 0 \in Int
    OBVIOUS
  <2> QED
    BY <1>7, <2>1, RoomSound
<1> HIDE DEF z
<1>9. z.active = x.active /\ z.drops = r.drops
  BY <1>6, <1>7, <1>8 DEF Eased
<1>10. Affordable(z)
  <2>1. Books(z) /\ z \in Recorders /\ z.bytes \in Int /\ MaxBytes \in Nat
    BY <1>8, RecorderFields DEF Sound, Books, RecorderAssumption
  <2>2. CASE z.bytes + 0 <= MaxBytes
    BY <1>6, <1>9, <2>1, <2>2 DEF Affordable
  <2>3. CASE z.sealed = <<>> /\ ~hasRollup(z)
    <3>1. z.bytes = z.active.bytes
      BY <2>1, <2>3, BareBytes
    <3> QED
      BY <1>6, <1>9, <3>1 DEF Affordable
  <2> QED
    BY <1>8, <2>2, <2>3
<1>11. /\ r.aggregateEvictions <= z.aggregateEvictions
       /\ z.aggregateEvictions > r.aggregateEvictions => z.sealed = <<>>
       /\ r.sealed = <<>> /\ t - r.active.start < SegmentInterval => z.sealed = <<>>
  BY <1>6, <1>7, <1>8 DEF Eased
<1>12. Timely(z, t) /\ t - z.active.start < SegmentInterval /\ z.active.end = t
  <2>1. t <= t
    OBVIOUS
  <2> QED
    BY <1>6, <1>9, <2>1 DEF Timely
<1>13. Advanced(r, z, t)
  BY <1>9, <1>10, <1>11, <1>12 DEF Advanced
<1> QED
  BY <1>2, <1>8, <1>13

-----------------------------------------------------------------------------
(* Taking an observation.                                                  *)

\* z is r but for the number of drops.
Alike(r, z) ==
    /\ z \in Recorders /\ z.bytes = r.bytes /\ z.rollups = r.rollups /\ z.rollupActive = r.rollupActive
    /\ z.sealed = r.sealed /\ z.active = r.active /\ z.aggregateEvictions = r.aggregateEvictions

LEMMA DroppedFields ==
    ASSUME NEW r \in Recorders
    PROVE  Alike(r, Dropped(r)) /\ Dropped(r).drops = r.drops + 1
<1> DEFINE z == Dropped(r)
           n == r.drops + 1
<1>1. n \in Nat
  BY RecorderFields
<1>2. z = [r EXCEPT !.drops = n]
  BY DEF Dropped
<1> HIDE DEF z, n
<1>3. Alike(r, z) /\ z.drops = n
  BY <1>1, <1>2 DEF Recorders, Alike
<1> QED
  BY <1>3 DEF z, n

LEMMA AlikeFields ==
    ASSUME NEW r, NEW z, Alike(r, z), Books(r), Advancing(r, <<>>), Roomy(r)
    PROVE  Books(z) /\ Advancing(z, <<>>) /\ Roomy(z) /\ Chronicle(z, <<>>) = Chronicle(r, <<>>)
<1>1. /\ z \in Recorders /\ z.bytes = r.bytes /\ z.rollups = r.rollups /\ z.rollupActive = r.rollupActive
      /\ z.sealed = r.sealed /\ z.active = r.active /\ z.aggregateEvictions = r.aggregateEvictions
  BY DEF Alike
<1>2. Accounted(z) /\ Following(z)
  BY <1>1 DEF Books, Accounted, Following, Rolled
<1>3. Books(z) /\ Roomy(z)
  BY <1>1, <1>2 DEF Books, Roomy
<1>4. Raws(z, <<>>) = Raws(r, <<>>) /\ Rollups(z) = Rollups(r)
  BY <1>1 DEF Raws, Rollups
<1> QED
  BY <1>1, <1>3, <1>4 DEF Advancing, Chronicle

LEMMA DroppedSound ==
    ASSUME NEW r, NEW d, NEW q, NEW on, NEW t, Sound(r, <<>>, d, q, on, t)
    PROVE  Sound(Dropped(r), <<>>, d, q, on, t)
<1> DEFINE z == Dropped(r)
<1>1. Alike(r, z)
  BY DroppedFields DEF Sound, Books
<1> HIDE DEF z
<1>2. Books(z) /\ Advancing(z, <<>>) /\ Roomy(z) /\ Chronicle(z, <<>>) = Chronicle(r, <<>>)
  BY <1>1, AlikeFields DEF Sound
<1>3. Sound(z, <<>>, d, q, on, t)
  BY <1>1, <1>2 DEF Alike, Sound
<1> QED
  BY <1>3 DEF z

\* z is y with s as its active segment, which has taken cost more bytes.
Replaced(y, z, s, cost) ==
    /\ z \in Recorders /\ z.bytes = y.bytes + cost /\ z.rollups = y.rollups
    /\ z.rollupActive = y.rollupActive /\ z.sealed = y.sealed /\ z.drops = y.drops
    /\ z.aggregateEvictions = y.aggregateEvictions
    /\ z.active \in Segments /\ z.active.bytes = s.bytes + cost
    /\ z.active.start = s.start /\ z.active.end = s.end /\ z.active.min = s.min /\ z.active.max = s.max
    /\ z.active.events = s.events /\ z.active.ecap = s.ecap
    /\ z.active.metrics = s.metrics /\ z.active.mcap = s.mcap

LEMMA AdmittedFields ==
    ASSUME NEW y \in Recorders, NEW s \in Segments, NEW cost \in Nat, RecorderAssumption
    PROVE  /\ y.bytes + cost > MaxBytes => Admitted(y, cost, s) = Dropped(y)
           /\ y.bytes + cost <= MaxBytes => Replaced(y, Admitted(y, cost, s), s, cost)
<1> DEFINE z == Admitted(y, cost, s)
<1>1. y.bytes \in Int /\ MaxBytes \in Nat /\ s.bytes \in Int
  BY RecorderFields, SegmentFields DEF RecorderAssumption
<1>2. ASSUME y.bytes + cost > MaxBytes PROVE z = Dropped(y)
  BY <1>2 DEF Admitted
<1>3. ASSUME y.bytes + cost <= MaxBytes PROVE Replaced(y, z, s, cost)
  <2> DEFINE b == y.bytes + cost
             c == s.bytes + cost
             a == [s EXCEPT !.bytes = c]
  <2>1. b \in Int /\ c \in Int /\ ~(b > MaxBytes)
    BY <1>1, <1>3
  <2>2. z = [y EXCEPT !.bytes = b, !.active = a]
    BY <2>1 DEF Admitted
  <2> HIDE DEF b, c, z
  <2>3. a \in Segments /\ a.bytes = c /\ a.start = s.start /\ a.end = s.end /\ a.min = s.min
        /\ a.max = s.max /\ a.events = s.events /\ a.ecap = s.ecap /\ a.metrics = s.metrics
        /\ a.mcap = s.mcap
    BY <2>1 DEF Segments
  <2> HIDE DEF a
  <2>4. /\ z \in Recorders /\ z.bytes = b /\ z.rollups = y.rollups
        /\ z.rollupActive = y.rollupActive /\ z.sealed = y.sealed /\ z.drops = y.drops
        /\ z.aggregateEvictions = y.aggregateEvictions /\ z.active = a
    BY <2>1, <2>2, <2>3 DEF Recorders
  <2> QED
    BY <2>3, <2>4 DEF Replaced, b, c
<1> QED
  BY <1>2, <1>3

LEMMA ReplacedBooks ==
    ASSUME NEW y, Books(y), NEW z, NEW s, NEW cost \in Nat, Replaced(y, z, s, cost),
           s.start = y.active.start, s.end = y.active.end, s.bytes = y.active.bytes, RawOK(z.active)
    PROVE  Books(z)
<1>1. y \in Recorders /\ Accounted(y) /\ Following(y) /\ y.active.end <= y.active.start + SegmentInterval
  BY DEF Books
<1>2. /\ z \in Recorders /\ z.bytes = y.bytes + cost /\ z.rollups = y.rollups
      /\ z.rollupActive = y.rollupActive /\ z.sealed = y.sealed
      /\ z.active.bytes = y.active.bytes + cost
      /\ z.active.start = y.active.start /\ z.active.end = y.active.end
  BY DEF Replaced
<1>3. Accounted(z)
  <2>1. Rolled(y) \in Int /\ Total(y.rollups) \in Int /\ Total(y.sealed) \in Int /\ y.active.bytes \in Int
    <3>1. /\ y.rollups \in Seq(Segments) /\ y.sealed \in Seq(Segments) /\ y.active \in Segments
          /\ (y.rollupActive # NoRollup => y.rollupActive \in Segments)
      BY <1>1, RecorderFields
    <3> QED
      BY <3>1, TotalInt, SegmentFields DEF Rolled
  <2> DEFINE A == Total(y.rollups)
             B == Rolled(y)
             C == Total(y.sealed)
             D == y.active.bytes
  <2>2. A \in Int /\ B \in Int /\ C \in Int /\ D \in Int /\ z.bytes = (A + B + C + D) + cost
    BY <1>1, <1>2, <2>1 DEF Accounted
  <2> HIDE DEF A, B, C, D
  <2>3. z.bytes = A + B + C + (D + cost)
    BY <2>2
  <2>4. Rolled(z) = B
    BY <1>2 DEF Rolled, B
  <2> QED
    BY <1>2, <2>3, <2>4 DEF Accounted, A, C, D
<1>4. Following(z)
  BY <1>1, <1>2 DEF Following
<1> QED
  BY <1>1, <1>2, <1>3, <1>4 DEF Books

\* A slice that takes one more element.
LEMMA GrownCap ==
    ASSUME NEW n \in Nat, NEW cap \in Nat, NEW first \in Nat \ {0}
    PROVE  Grown(n, cap, first) \in Nat /\ cap <= Grown(n, cap, first)
           /\ (n <= cap => n + 1 <= Grown(n, cap, first))
  BY DEF Grown

LEMMA ObservedFields ==
    ASSUME NEW s \in Segments, NEW a \in Nat, NEW b \in Nat
    PROVE  LET o == Observed(s, a, b)
           IN  /\ o \in Segments /\ o.min <= s.min /\ o.min <= a /\ s.max <= o.max /\ b <= o.max
               /\ o.min \in {s.min, a} /\ o.max \in {s.max, b}
               /\ o.start = s.start /\ o.end = s.end /\ o.bytes = s.bytes /\ o.events = s.events
               /\ o.ecap = s.ecap /\ o.metrics = s.metrics /\ o.mcap = s.mcap
<1> DEFINE lo == IF a < s.min THEN a ELSE s.min
           hi == IF b > s.max THEN b ELSE s.max
           o == [s EXCEPT !.min = lo, !.max = hi]
<1>1. s.min \in Nat /\ s.max \in Nat
  BY SegmentFields
<1>2. Observed(s, a, b) = o
  BY DEF Observed
<1>3. lo \in Nat /\ hi \in Nat /\ lo <= s.min /\ lo <= a /\ s.max <= hi /\ b <= hi
      /\ lo \in {s.min, a} /\ hi \in {s.max, b}
  BY <1>1
<1> HIDE DEF lo, hi
<1>4. /\ o \in Segments /\ o.min = lo /\ o.max = hi
      /\ o.start = s.start /\ o.end = s.end /\ o.bytes = s.bytes /\ o.events = s.events
      /\ o.ecap = s.ecap /\ o.metrics = s.metrics /\ o.mcap = s.mcap
  BY <1>3 DEF Segments
<1> HIDE DEF o
<1> QED
  BY <1>2, <1>3, <1>4

LEMMA EventFields ==
    ASSUME NEW a \in Segments, RawOK(a), NEW e \in Nat, e <= a.end, RecorderAssumption
    PROVE  LET s == WithEvent(a, e)
           IN  /\ s \in Segments /\ s.start = a.start /\ s.end = a.end /\ s.bytes = a.bytes
               /\ s.metrics = a.metrics /\ s.mcap = a.mcap
               /\ Within(s) /\ \A i \in DOMAIN s.events : s.events[i] <= s.end
               /\ s.events = Append(a.events, e)
               /\ s.ecap = Grown(Len(a.events), a.ecap, EventCapacity)
               /\ EventCost(a) \in Nat
<1> DEFINE o == Observed(a, e, e)
           g == Grown(Len(a.events), a.ecap, EventCapacity)
           E == Append(a.events, e)
           s == [o EXCEPT !.events = E, !.ecap = g]
<1>1. /\ a.events \in Seq(Nat) /\ a.ecap \in Nat /\ Len(a.events) \in Nat /\ a.metrics \in Seq(Aggregates)
      /\ a.min \in Nat /\ a.max \in Nat /\ a.start \in Nat /\ a.end \in Nat
  BY SegmentFields, LenProperties
<1>2. g \in Nat /\ a.ecap <= g
  BY <1>1, GrownCap DEF RecorderAssumption
<1>3. /\ o \in Segments /\ o.min <= a.min /\ o.min <= e /\ a.max <= o.max /\ e <= o.max
      /\ o.start = a.start /\ o.end = a.end /\ o.bytes = a.bytes /\ o.events = a.events
      /\ o.ecap = a.ecap /\ o.metrics = a.metrics /\ o.mcap = a.mcap
  BY ObservedFields
<1>4. WithEvent(a, e) = s
  BY <1>3 DEF WithEvent
<1>5. /\ E \in Seq(Nat) /\ E[Len(a.events) + 1] = e /\ \A i \in DOMAIN a.events : E[i] = a.events[i]
      /\ \A i \in DOMAIN E : i \in DOMAIN a.events \/ i = Len(a.events) + 1
  BY <1>1, AppendedFields, SMTT(30)
<1>6. EventCost(a) \in Nat
  <2>1. EventCost(a) = EventText + (g - a.ecap) * EventSize
    BY DEF EventCost
  <2>2. g - a.ecap \in Nat /\ EventText \in Nat /\ EventSize \in Nat
    BY <1>1, <1>2 DEF RecorderAssumption
  <2>3. (g - a.ecap) * EventSize \in Nat
    BY <2>2
  <2> QED
    BY <2>1, <2>2, <2>3
<1> HIDE DEF o, g, E
<1>7. /\ s \in Segments /\ s.start = a.start /\ s.end = a.end /\ s.bytes = a.bytes
      /\ s.metrics = a.metrics /\ s.mcap = a.mcap /\ s.events = E /\ s.ecap = g
      /\ s.min = o.min /\ s.max = o.max
  BY <1>2, <1>3, <1>5 DEF Segments
<1> HIDE DEF s
<1>8. s.min \in Nat /\ s.max \in Nat /\ s.min <= a.min /\ a.max <= s.max /\ s.min <= e /\ e <= s.max
  BY <1>3, <1>7, SegmentFields
<1>9. Within(a) /\ \A i \in DOMAIN a.events : a.events[i] <= a.end
  BY DEF RawOK
<1>10. Within(s)
  <2>1. s.min <= s.max /\ s.start <= s.end
    <3>1. a.min <= a.max /\ a.start <= a.end
      BY <1>9 DEF Within
    <3> QED
      BY <1>1, <1>7, <1>8, <3>1
  <2>2. ASSUME NEW i \in DOMAIN s.metrics
        PROVE  /\ 1 <= s.metrics[i].start
               /\ s.min <= s.metrics[i].start /\ s.metrics[i].start < s.metrics[i].end
               /\ s.metrics[i].end <= s.max /\ s.metrics[i].end <= s.end
    <3> DEFINE M == a.metrics
    <3>1. i \in DOMAIN M /\ s.metrics = M
      BY <1>7
    <3>2. /\ 1 <= M[i].start /\ a.min <= M[i].start /\ M[i].start < M[i].end /\ M[i].end <= a.max /\ M[i].end <= a.end
      BY <1>9, <3>1 DEF Within
    <3>3. M[i].start \in Nat /\ M[i].end \in Nat
      BY <1>1, <3>1, AggregateFields
    <3> QED
      BY <1>1, <1>7, <1>8, <3>1, <3>2, <3>3, SMTT(30)
  <2>3. ASSUME NEW i \in DOMAIN s.events PROVE s.min <= s.events[i] /\ s.events[i] <= s.max
    <3>1. CASE i \in DOMAIN a.events
      <4>1. s.events[i] = a.events[i] /\ a.min <= a.events[i] /\ a.events[i] <= a.max /\ a.events[i] \in Nat
        BY <1>1, <1>5, <1>7, <1>9, <3>1, SMTT(30) DEF Within
      <4> QED
        BY <1>1, <1>8, <4>1, SMTT(30)
    <3>2. CASE i = Len(a.events) + 1
      BY <1>5, <1>7, <1>8, <3>2
    <3> QED
      BY <1>5, <1>7, <3>1, <3>2
  <2> QED
    BY <2>1, <2>2, <2>3 DEF Within
<1>11. \A i \in DOMAIN s.events : s.events[i] <= s.end
  BY <1>5, <1>7, <1>9
<1> QED
  BY <1>4, <1>6, <1>7, <1>10, <1>11 DEF E, g

\* Admitting the event e into the active segment.
LEMMA AdmittedEvent ==
    ASSUME NEW y, NEW d, NEW q, NEW on, NEW t, Sound(y, <<>>, d, q, on, t), NEW e \in Nat,
           e <= y.active.end, NEW z,
           Replaced(y, z, WithEvent(y.active, e), EventCost(y.active)), RecorderAssumption
    PROVE  Sound(z, <<>>, d, q, on, t)
<1> DEFINE a == y.active
           n == z.active
           s == WithEvent(a, e)
           cost == EventCost(a)
           g == Grown(Len(a.events), a.ecap, EventCapacity)
<1>1. /\ Books(y) /\ Advancing(y, <<>>) /\ Roomy(y) /\ Contiguous(a, q, on)
      /\ Truthful(Chronicle(y, <<>>), y.aggregateEvictions, d, q, on, t)
      /\ y \in Recorders /\ a \in Segments /\ RawOK(a)
  BY RecorderFields DEF Sound, Books
<1>2. /\ s \in Segments /\ s.start = a.start /\ s.end = a.end /\ s.bytes = a.bytes
      /\ s.metrics = a.metrics /\ s.mcap = a.mcap
      /\ Within(s) /\ \A i \in DOMAIN s.events : s.events[i] <= s.end
      /\ s.events = Append(a.events, e) /\ s.ecap = g /\ cost \in Nat
  BY <1>1, EventFields
<1>3. Replaced(y, z, s, cost)
  OBVIOUS
<1>4. cost = EventText + (g - a.ecap) * EventSize
  BY DEF EventCost
<1> HIDE DEF s, cost, g
<1>5. /\ n \in Segments /\ n.bytes = a.bytes + cost
      /\ n.start = s.start /\ n.end = s.end /\ n.min = s.min /\ n.max = s.max
      /\ n.events = s.events /\ n.ecap = s.ecap /\ n.metrics = s.metrics /\ n.mcap = s.mcap
      /\ z.rollups = y.rollups /\ z.rollupActive = y.rollupActive /\ z.sealed = y.sealed
      /\ z.aggregateEvictions = y.aggregateEvictions
  BY <1>2, <1>3 DEF Replaced
<1>6. Within(n)
  BY <1>2, <1>5 DEF Within
<1>7. n.bytes = Held(n, FamilyText)
  <2>1. a.bytes = SegmentCost + a.ecap * EventSize + Len(a.events) * EventText
                  + a.mcap * MetricSize + Len(a.metrics) * FamilyText
    BY <1>1 DEF RawOK, Held
  <2>2. Held(n, FamilyText) = SegmentCost + g * EventSize + Len(n.events) * EventText
                              + a.mcap * MetricSize + Len(a.metrics) * FamilyText
    BY <1>2, <1>5 DEF Held
  <2>3. Len(n.events) = Len(a.events) + 1 /\ Len(a.events) \in Nat
    BY <1>1, <1>2, <1>5, SegmentFields, AppendProperties, LenProperties
  <2>4. a.ecap \in Nat /\ a.mcap \in Nat /\ Len(a.metrics) \in Nat /\ g \in Nat
    <3>1. a.ecap \in Nat /\ a.mcap \in Nat /\ Len(a.metrics) \in Nat
      BY <1>1, SegmentFields, LenProperties
    <3> QED
      BY <2>3, <3>1, GrownCap DEF g, RecorderAssumption
  <2>5. SegmentCost \in Nat /\ EventSize \in Nat /\ EventText \in Nat /\ MetricSize \in Nat /\ FamilyText \in Nat
    BY DEF RecorderAssumption
  <2> DEFINE A == a.ecap * EventSize
             B == Len(a.events) * EventText
             C == a.mcap * MetricSize
             D == Len(a.metrics) * FamilyText
             G == g * EventSize
  <2>6. A \in Int /\ B \in Int /\ C \in Int /\ D \in Int /\ G \in Int
    <3>1. A \in Int
      BY <2>4, <2>5
    <3>2. B \in Int
      BY <2>3, <2>5
    <3>3. C \in Int
      BY <2>4, <2>5
    <3>4. D \in Int
      BY <2>4, <2>5
    <3>5. G \in Int
      BY <2>4, <2>5
    <3> QED
      BY <3>1, <3>2, <3>3, <3>4, <3>5
  <2>7. (g - a.ecap) * EventSize = G - A
    BY <2>4, <2>5
  <2>8. Len(n.events) * EventText = B + EventText
    <3>1. (Len(a.events) + 1) * EventText = B + EventText
      BY <2>3, <2>5
    <3> QED
      BY <2>3, <3>1
  <2>9. a.bytes = SegmentCost + A + B + C + D
    BY <2>1
  <2>10. Held(n, FamilyText) = SegmentCost + G + (B + EventText) + C + D
    BY <2>2, <2>8
  <2>11. n.bytes = (SegmentCost + A + B + C + D) + (EventText + (G - A))
    BY <1>4, <1>5, <2>7, <2>9
  <2> HIDE DEF A, B, C, D, G
  <2>12. (SegmentCost + A + B + C + D) + (EventText + (G - A)) = SegmentCost + G + (B + EventText) + C + D
    BY <2>5, <2>6
  <2> QED
    BY <2>10, <2>11, <2>12
<1>8. RawOK(n)
  BY <1>1, <1>2, <1>5, <1>6, <1>7 DEF RawOK
<1>9. Books(z)
  BY <1>1, <1>2, <1>3, <1>8, ReplacedBooks
<1>10. Ledger(Append(y.sealed, n)) = Ledger(Append(y.sealed, a))
  BY <1>1, <1>2, <1>5, RecorderFields, LedgerAppend
<1>11. Raws(z, <<>>) = Raws(y, <<>>) /\ Rollups(z) = Rollups(y)
  BY <1>5, <1>10 DEF Raws, Rollups
<1>12. Chronicle(z, <<>>) = Chronicle(y, <<>>)
  BY <1>11 DEF Chronicle
<1>13. Advancing(z, <<>>) /\ Roomy(z)
  BY <1>1, <1>5, <1>11 DEF Advancing, Roomy
<1>14. Contiguous(n, q, on)
  <2>1. Jammed(a) => Jammed(n)
    <3>1. MetricCost(n) = MetricCost(a)
      BY <1>2, <1>5 DEF MetricCost, MetricGrowth
    <3> DEFINE m == MetricCost(a)
               b == a.bytes
    <3>2. m \in Int /\ b \in Int /\ MaxBytes \in Nat
      BY <1>1, GrownFields, SegmentFields DEF MetricCost, RecorderAssumption
    <3>3. n.bytes = b + cost /\ cost \in Nat
      BY <1>2, <1>5
    <3> HIDE DEF m, b
    <3>4. b + m > MaxBytes => n.bytes + m > MaxBytes
      BY <3>2, <3>3
    <3> QED
      BY <3>1, <3>4 DEF Jammed, m, b
  <2> QED
    BY <1>1, <1>2, <1>5, <2>1 DEF Contiguous
<1> QED
  BY <1>1, <1>5, <1>9, <1>12, <1>13, <1>14 DEF Sound

\* The active segment is part of the account.
LEMMA ActiveWithin ==
    ASSUME NEW r, NEW d, NEW q, NEW on, NEW t, Sound(r, <<>>, d, q, on, t), RecorderAssumption
    PROVE  r.active.bytes <= r.bytes /\ r.active.bytes \in Nat
<1>1. /\ r \in Recorders /\ Accounted(r) /\ RawOK(r.active)
      /\ \A i \in DOMAIN r.rollups : RollupOK(r.rollups[i])
      /\ r.rollupActive # NoRollup => RollupOK(r.rollupActive)
      /\ \A i \in DOMAIN r.sealed : RawOK(r.sealed[i])
  BY DEF Sound, Books
<1>2. /\ r.rollups \in Seq(Segments) /\ r.sealed \in Seq(Segments) /\ r.active \in Segments
      /\ (r.rollupActive # NoRollup => r.rollupActive \in Segments)
  BY <1>1, RecorderFields
<1>3. r.active.bytes \in Nat
  BY <1>1, <1>2, RawCharge
<1>4. Total(r.rollups) \in Int /\ Total(r.rollups) >= 0
  <2>1. \A i \in DOMAIN r.rollups : r.rollups[i].bytes >= 0
    <3> SUFFICES ASSUME NEW i \in DOMAIN r.rollups PROVE r.rollups[i].bytes >= 0
      OBVIOUS
    <3>1. r.rollups[i] \in Segments
      BY <1>2
    <3>2. r.rollups[i].bytes \in Nat
      BY <1>1, <3>1, RollupCharge
    <3> QED
      BY <3>2
  <2> QED
    BY <1>2, <2>1, TotalInt, TotalNat
<1>5. Total(r.sealed) \in Int /\ Total(r.sealed) >= 0
  <2>1. \A i \in DOMAIN r.sealed : r.sealed[i].bytes >= 0
    <3> SUFFICES ASSUME NEW i \in DOMAIN r.sealed PROVE r.sealed[i].bytes >= 0
      OBVIOUS
    <3>1. r.sealed[i] \in Segments
      BY <1>2
    <3>2. r.sealed[i].bytes \in Nat
      BY <1>1, <3>1, RawCharge
    <3> QED
      BY <3>2
  <2> QED
    BY <1>2, <2>1, TotalInt, TotalNat
<1>6. Rolled(r) \in Nat
  BY <1>1, <1>2, RollupCharge DEF Rolled
<1>7. r.bytes = Total(r.rollups) + Rolled(r) + Total(r.sealed) + r.active.bytes
  BY <1>1 DEF Accounted
<1> DEFINE A == Total(r.rollups)
           B == Rolled(r)
           C == Total(r.sealed)
           D == r.active.bytes
<1>8. A \in Int /\ A >= 0 /\ B \in Nat /\ C \in Int /\ C >= 0 /\ D \in Nat /\ r.bytes = A + B + C + D
  BY <1>3, <1>4, <1>5, <1>6, <1>7
<1> HIDE DEF A, B, C, D
<1>9. D <= r.bytes
  BY <1>8
<1> QED
  BY <1>3, <1>9 DEF D

\* Evictions after r and up to y leave no sealed segment.
LEMMA Ratchet ==
    ASSUME NEW r, NEW x \in Recorders, NEW t, Advanced(r, x, t), NEW y \in Recorders, Eased(x, y),
           NEW z, z.sealed = y.sealed, z.aggregateEvictions = y.aggregateEvictions
    PROVE  z.aggregateEvictions > r.aggregateEvictions => z.sealed = <<>>
<1>1. CASE y.aggregateEvictions > x.aggregateEvictions
  BY <1>1 DEF Eased
<1>2. CASE ~(y.aggregateEvictions > x.aggregateEvictions)
  <2>1. y.aggregateEvictions = x.aggregateEvictions
    <3>1. x.aggregateEvictions \in Nat /\ y.aggregateEvictions \in Nat
      BY RecorderFields
    <3>2. x.aggregateEvictions <= y.aggregateEvictions
      BY DEF Eased
    <3> QED
      BY <1>2, <3>1, <3>2
  <2> QED
    BY <2>1 DEF Eased, Advanced
<1> QED
  BY <1>1, <1>2

LEMMA EventSound ==
    ASSUME NEW r, NEW d, DeltasOK(d), NEW q, NEW on, NEW t \in Nat, NEW u \in Nat, u <= t,
           Sound(r, <<>>, d, q, on, u), Timely(r, t), Affordable(r), NEW e \in Nat, RecorderAssumption
    PROVE  LET z == Event(r, e, t)
           IN  /\ Sound(z, <<>>, d, q, on, t) /\ Timely(z, t) /\ Affordable(z)
               /\ z.aggregateEvictions > r.aggregateEvictions => z.sealed = <<>>
<1> DEFINE x == Advance(r, t)
           cost == EventCost(x.active)
           y == room(x, cost, FALSE)
           s == WithEvent(x.active, e)
           z == EventAfterAdvance(x, e, t)
<1>0. Event(r, e, t) = z
  BY DEF Event
<1>1. Sound(x, <<>>, d, q, on, t) /\ Advanced(r, x, t)
  BY AdvanceSound, Zenon
<1> HIDE DEF x
<1>2. x \in Recorders /\ x.active \in Segments /\ RawOK(x.active) /\ x.active.end = t
  BY <1>1, RecorderFields DEF Sound, Books, Advanced
<1>3. CASE z = Dropped(x)
  <2>1. Sound(z, <<>>, d, q, on, t)
    BY <1>1, <1>3, DroppedSound
  <2>2. Alike(x, z)
    BY <1>2, <1>3, DroppedFields
  <2> HIDE DEF z
  <2> QED
    BY <1>0, <1>1, <2>1, <2>2 DEF Alike, Advanced, Timely, Affordable
<1>4. CASE z # Dropped(x)
  <2>1. e <= t /\ z = Admitted(y, cost, s)
    <3>1. ~(e > t \/ t - e > History)
      BY <1>4 DEF EventAfterAdvance
    <3>2. z = Admitted(y, cost, s)
      BY <3>1 DEF EventAfterAdvance
    <3> QED
      BY <3>1, <3>2
  <2>2. s \in Segments /\ cost \in Nat /\ s.bytes = x.active.bytes /\ s.start = x.active.start /\ s.end = t
    BY <1>2, <2>1, EventFields
  <2> HIDE DEF z
  <2>3. Sound(y, <<>>, d, q, on, t) /\ Eased(x, y)
    <3>1. cost \in Int
      BY <2>2
    <3> HIDE DEF cost
    <3> QED
      BY <1>1, <3>1, RoomSound
  <2> HIDE DEF y
  <2>4. y \in Recorders /\ y.active = x.active /\ y.bytes <= x.bytes
    BY <2>3 DEF Sound, Books, Eased
  <2>5. x.bytes <= MaxBytes /\ x.active.bytes <= MaxBytes /\ x.bytes \in Int /\ y.bytes \in Int /\ MaxBytes \in Nat
    BY <1>1, <1>2, <2>4, RecorderFields DEF Advanced, Affordable, RecorderAssumption
  <2>6. CASE y.bytes + cost > MaxBytes
    <3>1. z = Dropped(y)
      BY <2>1, <2>2, <2>4, <2>6, AdmittedFields
    <3>2. Sound(z, <<>>, d, q, on, t)
      BY <2>3, <3>1, DroppedSound
    <3>3. Alike(y, z)
      BY <2>4, <3>1, DroppedFields
    <3>4. Affordable(z)
      BY <2>4, <2>5, <3>3 DEF Alike, Affordable
    <3>5. Timely(z, t)
      BY <1>1, <2>4, <3>3 DEF Alike, Timely, Advanced
    <3>6. z.sealed = y.sealed /\ z.aggregateEvictions = y.aggregateEvictions
      BY <3>3 DEF Alike
    <3>7. z.aggregateEvictions > r.aggregateEvictions => z.sealed = <<>>
      BY <1>1, <1>2, <2>3, <2>4, <3>6, Ratchet, Zenon
    <3> QED
      BY <1>0, <3>2, <3>4, <3>5, <3>7
  <2>7. CASE y.bytes + cost <= MaxBytes
    <3>1. Replaced(y, z, s, cost)
      BY <2>1, <2>2, <2>4, <2>7, AdmittedFields
    <3>2. Sound(z, <<>>, d, q, on, t)
      BY <1>2, <2>1, <2>3, <2>4, <3>1, AdmittedEvent
    <3>3. /\ z.bytes = y.bytes + cost /\ z.active.start = x.active.start /\ z.active.end = t
          /\ z.sealed = y.sealed /\ z.aggregateEvictions = y.aggregateEvictions /\ z.active.bytes = x.active.bytes + cost
      BY <2>2, <3>1 DEF Replaced
    <3>4. Affordable(z)
      <4>1. y.active.bytes <= y.bytes /\ y.active.bytes \in Int
        BY <2>3, ActiveWithin
      <4> DEFINE b == x.active.bytes
      <4>2. b <= y.bytes /\ b \in Int /\ z.active.bytes = b + cost
        BY <2>4, <3>3, <4>1
      <4> HIDE DEF b, cost
      <4> QED
        BY <2>2, <2>5, <2>7, <3>3, <4>2 DEF Affordable
    <3>5. Timely(z, t)
      BY <1>1, <3>3 DEF Timely, Advanced
    <3>6. z.aggregateEvictions > r.aggregateEvictions => z.sealed = <<>>
      BY <1>1, <1>2, <2>3, <2>4, <3>3, Ratchet, Zenon
    <3> QED
      BY <1>0, <3>2, <3>4, <3>5, <3>6
  <2> QED
    BY <2>2, <2>5, <2>6, <2>7
<1> QED
  BY <1>3, <1>4

-----------------------------------------------------------------------------
(* Taking a collection.                                                    *)

LEMMA ConcatAppend ==
    ASSUME NEW a \in Seq(Aggregates), NEW b \in Seq(Aggregates), NEW m \in Aggregates
    PROVE  a \o Append(b, m) = Append(a \o b, m)
<1>1. <<m>> \in Seq(Aggregates) /\ Append(b, m) = b \o <<m>>
  OBVIOUS
<1>2. a \o b \in Seq(Aggregates)
  BY ConcatProperties
<1>3. Append(a \o b, m) = (a \o b) \o <<m>>
  BY <1>2
<1>4. Regroups(a, b, <<m>>)
  BY <1>1, Regrouped, Zenon
<1> QED
  BY <1>1, <1>3, <1>4 DEF Regroups

\* The slice of metrics that takes one more.
LEMMA GrownRoom ==
    ASSUME NEW n \in Nat, NEW cap \in Nat, n <= cap,
           cap = 0 \/ cap = MetricCapacity \/ cap >= 2 * MetricCapacity, RecorderAssumption
    PROVE  LET g == Grown(n, cap, MetricCapacity)
           IN  /\ g \in Nat /\ cap <= g /\ n + 1 <= g
               /\ g = MetricCapacity \/ g >= 2 * MetricCapacity
<1>1. MetricCapacity \in Nat \ {0}
  BY DEF RecorderAssumption
<1> QED
  BY <1>1 DEF Grown

LEMMA MetricFields ==
    ASSUME NEW a \in Segments, RawOK(a), NEW m \in Aggregates, m.start < m.end, m.end <= a.end,
           1 <= m.start, RecorderAssumption
    PROVE  LET s == Observed(WithMetric(a, m), m.start, m.end)
           IN  /\ s \in Segments /\ s.start = a.start /\ s.end = a.end /\ s.bytes = a.bytes
               /\ s.events = a.events /\ s.ecap = a.ecap /\ Within(s)
               /\ s.metrics = Append(a.metrics, m)
               /\ s.mcap = Grown(Len(a.metrics), a.mcap, MetricCapacity)
               /\ Len(s.metrics) <= s.mcap
               /\ s.mcap = MetricCapacity \/ s.mcap >= 2 * MetricCapacity
               /\ MetricCost(a) \in Nat
<1> DEFINE g == Grown(Len(a.metrics), a.mcap, MetricCapacity)
           M == Append(a.metrics, m)
           w == [a EXCEPT !.metrics = M, !.mcap = g]
           s == Observed(w, m.start, m.end)
<1>1. /\ a.metrics \in Seq(Aggregates) /\ a.mcap \in Nat /\ Len(a.metrics) \in Nat /\ a.events \in Seq(Nat)
      /\ a.min \in Nat /\ a.max \in Nat /\ a.start \in Nat /\ a.end \in Nat
      /\ m.start \in Nat /\ m.end \in Nat
  BY SegmentFields, LenProperties DEF Aggregates
<1>2. /\ Len(a.metrics) <= a.mcap
      /\ a.mcap = 0 \/ a.mcap = MetricCapacity \/ a.mcap >= 2 * MetricCapacity
  BY DEF RawOK
<1>3. /\ g \in Nat /\ a.mcap <= g /\ Len(a.metrics) + 1 <= g
      /\ g = MetricCapacity \/ g >= 2 * MetricCapacity
  BY <1>1, <1>2, GrownRoom
<1>4. WithMetric(a, m) = w
  BY DEF WithMetric
<1>5. /\ M \in Seq(Aggregates) /\ M[Len(a.metrics) + 1] = m /\ \A i \in DOMAIN a.metrics : M[i] = a.metrics[i]
      /\ \A i \in DOMAIN M : i \in DOMAIN a.metrics \/ i = Len(a.metrics) + 1
  BY <1>1, AppendedFields
<1>6. Len(M) = Len(a.metrics) + 1
  BY <1>1, AppendProperties
<1>7. MetricCost(a) \in Nat
  <2>1. MetricCost(a) = FamilyText + (g - a.mcap) * MetricSize
    BY DEF MetricCost, MetricGrowth
  <2>2. g - a.mcap \in Nat /\ FamilyText \in Nat /\ MetricSize \in Nat
    BY <1>1, <1>3 DEF RecorderAssumption
  <2>3. (g - a.mcap) * MetricSize \in Nat
    BY <2>2
  <2> QED
    BY <2>1, <2>2, <2>3
<1> HIDE DEF g, M
<1>8. /\ w \in Segments /\ w.start = a.start /\ w.end = a.end /\ w.bytes = a.bytes
      /\ w.events = a.events /\ w.ecap = a.ecap /\ w.metrics = M /\ w.mcap = g
      /\ w.min = a.min /\ w.max = a.max
  BY <1>3, <1>5 DEF Segments
<1> HIDE DEF w
<1>9. /\ s \in Segments /\ s.min <= w.min /\ s.min <= m.start /\ w.max <= s.max /\ m.end <= s.max
      /\ s.start = w.start /\ s.end = w.end /\ s.bytes = w.bytes /\ s.events = w.events
      /\ s.ecap = w.ecap /\ s.metrics = w.metrics /\ s.mcap = w.mcap
  <2>1. w \in Segments /\ m.start \in Nat /\ m.end \in Nat
    BY <1>1, <1>8
  <2> QED
    BY <2>1, ObservedFields, Zenon
<1> HIDE DEF s
<1>10. s.min \in Nat /\ s.max \in Nat /\ s.min <= a.min /\ a.max <= s.max
       /\ s.metrics = M /\ s.start = a.start /\ s.end = a.end /\ s.events = a.events
  BY <1>8, <1>9, SegmentFields
<1>11. Within(a)
  BY DEF RawOK
<1>12. Within(s)
  <2>1. s.min <= s.max /\ s.start <= s.end
    <3>1. a.min <= a.max /\ a.start <= a.end
      BY <1>11 DEF Within
    <3> QED
      BY <1>1, <1>10, <3>1
  <2>2. ASSUME NEW i \in DOMAIN s.metrics
        PROVE  /\ 1 <= s.metrics[i].start
               /\ s.min <= s.metrics[i].start /\ s.metrics[i].start < s.metrics[i].end
               /\ s.metrics[i].end <= s.max /\ s.metrics[i].end <= s.end
    <3>1. CASE i \in DOMAIN a.metrics
      <4> DEFINE N == a.metrics
      <4>1. s.metrics[i] = N[i]
        BY <1>5, <1>10, <3>1
      <4>2. /\ 1 <= N[i].start /\ a.min <= N[i].start /\ N[i].start < N[i].end /\ N[i].end <= a.max /\ N[i].end <= a.end
        BY <1>11, <3>1 DEF Within
      <4>3. N[i].start \in Nat /\ N[i].end \in Nat
        BY <1>1, <3>1, AggregateFields
      <4> QED
        BY <1>1, <1>10, <4>1, <4>2, <4>3, SMTT(30)
    <3>2. CASE i = Len(a.metrics) + 1
      <4>1. s.metrics[i] = m
        BY <1>5, <1>10, <3>2
      <4> QED
        BY <1>9, <1>10, <4>1
    <3> QED
      BY <1>5, <1>10, <3>1, <3>2
  <2>3. ASSUME NEW i \in DOMAIN s.events PROVE s.min <= s.events[i] /\ s.events[i] <= s.max
    <3>1. s.events[i] = a.events[i] /\ a.min <= a.events[i] /\ a.events[i] <= a.max /\ a.events[i] \in Nat
      <4> DEFINE N == a.events
      <4>1. s.events = N /\ N \in Seq(Nat)
        BY <1>1, <1>10, Zenon
      <4>2. \A j \in DOMAIN N : a.min <= N[j] /\ N[j] <= a.max
        BY <1>11 DEF Within
      <4> HIDE DEF N
      <4>3. i \in DOMAIN N /\ s.events[i] = N[i]
        BY <4>1, Zenon
      <4>4. N[i] \in Nat
        BY <4>1, <4>3
      <4>5. s.events[i] = N[i] /\ a.min <= N[i] /\ N[i] <= a.max /\ N[i] \in Nat
        BY <4>2, <4>3, <4>4, Zenon
      <4> QED
        BY <4>5 DEF N
    <3> QED
      BY <1>1, <1>10, <3>1, SMTT(30)
  <2> QED
    BY <2>1, <2>2, <2>3 DEF Within
<1> QED
  BY <1>3, <1>4, <1>6, <1>7, <1>8, <1>9, <1>10, <1>12 DEF s, M, g

\* The books of the active segment that has taken m.
LEMMA MetricHeld ==
    ASSUME NEW a \in Segments, RawOK(a), NEW n \in Segments, NEW m,
           n.bytes = a.bytes + MetricCost(a), n.events = a.events, n.ecap = a.ecap,
           n.metrics = Append(a.metrics, m), m \in Aggregates,
           n.mcap = Grown(Len(a.metrics), a.mcap, MetricCapacity), RecorderAssumption
    PROVE  n.bytes = Held(n, FamilyText)
<1> DEFINE g == Grown(Len(a.metrics), a.mcap, MetricCapacity)
<1>1. a.bytes = SegmentCost + a.ecap * EventSize + Len(a.events) * EventText
                + a.mcap * MetricSize + Len(a.metrics) * FamilyText
  BY DEF RawOK, Held
<1>2. Held(n, FamilyText) = SegmentCost + a.ecap * EventSize + Len(a.events) * EventText
                            + g * MetricSize + Len(n.metrics) * FamilyText
  BY DEF Held
<1>3. Len(n.metrics) = Len(a.metrics) + 1 /\ Len(a.metrics) \in Nat /\ Len(a.events) \in Nat
  BY SegmentFields, AppendProperties, LenProperties
<1>4. a.ecap \in Nat /\ a.mcap \in Nat /\ g \in Nat
  BY SegmentFields, GrownFields
<1>5. SegmentCost \in Nat /\ EventSize \in Nat /\ EventText \in Nat /\ MetricSize \in Nat /\ FamilyText \in Nat
  BY DEF RecorderAssumption
<1>6. MetricCost(a) = FamilyText + (g - a.mcap) * MetricSize
  BY DEF MetricCost, MetricGrowth
<1> HIDE DEF g
<1> DEFINE A == a.ecap * EventSize
           B == Len(a.events) * EventText
           C == a.mcap * MetricSize
           D == Len(a.metrics) * FamilyText
           G == g * MetricSize
<1>7. A \in Int /\ B \in Int /\ C \in Int /\ D \in Int /\ G \in Int
  <2>1. A \in Int
    BY <1>4, <1>5
  <2>2. B \in Int
    BY <1>3, <1>5
  <2>3. C \in Int
    BY <1>4, <1>5
  <2>4. D \in Int
    BY <1>3, <1>5
  <2>5. G \in Int
    BY <1>4, <1>5
  <2> QED
    BY <2>1, <2>2, <2>3, <2>4, <2>5
<1>8. (g - a.mcap) * MetricSize = G - C
  BY <1>4, <1>5
<1>9. Len(n.metrics) * FamilyText = D + FamilyText
  <2>1. (Len(a.metrics) + 1) * FamilyText = D + FamilyText
    BY <1>3, <1>5
  <2> QED
    BY <1>3, <2>1
<1>10. a.bytes = SegmentCost + A + B + C + D
  BY <1>1
<1>11. Held(n, FamilyText) = SegmentCost + A + B + G + (D + FamilyText)
  BY <1>2, <1>9
<1>12. n.bytes = (SegmentCost + A + B + C + D) + (FamilyText + (G - C))
  BY <1>6, <1>8, <1>10
<1> HIDE DEF A, B, C, D, G
<1>13. (SegmentCost + A + B + C + D) + (FamilyText + (G - C)) = SegmentCost + A + B + G + (D + FamilyText)
  BY <1>5, <1>7
<1> QED
  BY <1>11, <1>12, <1>13

\* While there is room, no sensor that still runs was interrupted in the
\* active segment, and m continues what it holds of its sensor.
LEMMA MetricContiguous ==
    ASSUME NEW a \in Segments, NEW m, NEW n, n.metrics = Append(a.metrics, m), NEW q \in [Families -> Nat],
           NEW on, Contiguous(a, q, on), ~Jammed(a), Fresh(m, q), m.family \in on
    PROVE  Contiguous(n, Moved(q, m), on)
<1> DEFINE M == a.metrics
           N == Append(M, m)
           p == Moved(q, m)
           k == Len(M) + 1
<1>1. M \in Seq(Aggregates) /\ m \in Aggregates /\ m.family \in Families /\ m.start = q[m.family]
      /\ m.end \in Nat
  BY SegmentFields, FreshFields
<1>2. /\ N[k] = m /\ \A i \in DOMAIN M : N[i] = M[i]
      /\ \A i \in DOMAIN N : i \in DOMAIN M \/ i = k
  BY <1>1, AppendedFields
<1>3. p[m.family] = m.end /\ \A f \in Families : f # m.family => p[f] = q[f]
  BY <1>1 DEF Moved
<1>4. n.metrics = N
  OBVIOUS
<1> HIDE DEF N, p
<1>5. ASSUME NEW i \in DOMAIN M, Loose(N, i)
      PROVE  Loose(M, i) /\ M[i].family # m.family /\ M[i].family \in Families
  <2>1. Loose(M, i) /\ (M[i].family = m.family => M[i].end # m.start)
    BY <1>1, <1>5, FreshLoose DEF N
  <2>2. M[i].family \in on => M[i].end = q[M[i].family]
    BY <2>1 DEF Contiguous
  <2>3. M[i].family \in Families
    BY <1>1, AggregateFields
  <2> QED
    BY <1>1, <2>1, <2>2, <2>3
<1>6. ASSUME NEW i \in DOMAIN N, NEW j \in DOMAIN N, Loose(N, i), Loose(N, j), N[i].family = N[j].family
      PROVE  N[i].end = N[j].end
  <2>1. CASE i \in DOMAIN M /\ j \in DOMAIN M
    BY <1>2, <1>5, <1>6, <2>1 DEF Contiguous
  <2>2. CASE ~(i \in DOMAIN M /\ j \in DOMAIN M)
    <3>1. i = k /\ j = k
      BY <1>2, <1>5, <1>6, <2>2
    <3> QED
      BY <3>1
  <2> QED
    BY <2>1, <2>2
<1>7. ASSUME NEW i \in DOMAIN N, Loose(N, i), N[i].family \in on
      PROVE  N[i].end = p[N[i].family]
  <2>1. CASE i = k
    BY <1>2, <1>3, <2>1
  <2>2. CASE i \in DOMAIN M
    <3>1. Loose(M, i) /\ M[i].family # m.family /\ M[i].family \in Families /\ N[i] = M[i]
      BY <1>2, <1>5, <1>7, <2>2
    <3>2. M[i].end = q[M[i].family]
      BY <1>7, <2>2, <3>1 DEF Contiguous
    <3> QED
      BY <1>3, <3>1, <3>2
  <2> QED
    BY <1>2, <2>1, <2>2
<1>8. \A i, j \in DOMAIN n.metrics :
         Loose(n.metrics, i) /\ Loose(n.metrics, j) /\ n.metrics[i].family = n.metrics[j].family
         => n.metrics[i].end = n.metrics[j].end
  BY <1>4, <1>6, Zenon
<1>9. \A i \in DOMAIN n.metrics :
         Loose(n.metrics, i) /\ n.metrics[i].family \in on
         => n.metrics[i].end = p[n.metrics[i].family]
  BY <1>4, <1>7, Zenon
<1> QED
  BY <1>8, <1>9, Zenon DEF Contiguous, p

\* Admitting the collection m into the active segment.
LEMMA AdmittedMetric ==
    ASSUME NEW y, NEW d, DeltasOK(d), NEW q \in [Families -> Nat], NEW on, NEW t \in Nat,
           Sound(y, <<>>, d, q, on, t), y.active.end = t, ~Jammed(y.active),
           NEW m, Fresh(m, q), m.family \in on, m.end = t,
           NEW z, Replaced(y, z, Observed(WithMetric(y.active, m), m.start, m.end), MetricCost(y.active)),
           RecorderAssumption
    PROVE  Sound(z, <<>>, d \cup {m}, Moved(q, m), on, t)
<1> DEFINE a == y.active
           n == z.active
           s == Observed(WithMetric(a, m), m.start, m.end)
           cost == MetricCost(a)
           g == Grown(Len(a.metrics), a.mcap, MetricCapacity)
           L == Ledger(Rollups(y))
           R == Raws(y, <<>>)
           p == Moved(q, m)
<1>1. /\ Books(y) /\ Advancing(y, <<>>) /\ Roomy(y) /\ Contiguous(a, q, on)
      /\ Truthful(Chronicle(y, <<>>), y.aggregateEvictions, d, q, on, t)
      /\ y \in Recorders /\ a \in Segments /\ RawOK(a)
  BY RecorderFields DEF Sound, Books
<1>2. m \in Aggregates /\ m.start < m.end /\ m.end <= a.end /\ 1 <= m.start
  BY FreshFields
<1>3. /\ s \in Segments /\ s.start = a.start /\ s.end = a.end /\ s.bytes = a.bytes
      /\ s.events = a.events /\ s.ecap = a.ecap /\ Within(s)
      /\ s.metrics = Append(a.metrics, m) /\ s.mcap = g /\ Len(s.metrics) <= s.mcap
      /\ s.mcap = MetricCapacity \/ s.mcap >= 2 * MetricCapacity
      /\ cost \in Nat
  BY <1>1, <1>2, MetricFields, Zenon
<1>4. Replaced(y, z, s, cost)
  OBVIOUS
<1> HIDE DEF s, cost, g
<1>5. /\ n \in Segments /\ n.bytes = a.bytes + cost
      /\ n.start = s.start /\ n.end = s.end /\ n.min = s.min /\ n.max = s.max
      /\ n.events = s.events /\ n.ecap = s.ecap /\ n.metrics = s.metrics /\ n.mcap = s.mcap
      /\ z.rollups = y.rollups /\ z.rollupActive = y.rollupActive /\ z.sealed = y.sealed
      /\ z.aggregateEvictions = y.aggregateEvictions
  BY <1>3, <1>4 DEF Replaced
<1>6. Within(n)
  BY <1>3, <1>5 DEF Within
<1>7. n.bytes = Held(n, FamilyText)
  <2>1. /\ n.bytes = a.bytes + MetricCost(a) /\ n.events = a.events /\ n.ecap = a.ecap
        /\ n.metrics = Append(a.metrics, m)
        /\ n.mcap = Grown(Len(a.metrics), a.mcap, MetricCapacity)
    BY <1>3, <1>5 DEF cost, g
  <2> QED
    BY <1>1, <1>2, <1>5, <2>1, MetricHeld, Zenon
<1>8. \A i \in DOMAIN n.events : n.events[i] <= n.end
  BY <1>1, <1>3, <1>5 DEF RawOK
<1>9. RawOK(n)
  BY <1>1, <1>3, <1>5, <1>6, <1>7, <1>8 DEF RawOK
<1>10. Books(z)
  BY <1>1, <1>3, <1>4, <1>9, ReplacedBooks
<1>11. Rollups(z) = Rollups(y)
  BY <1>5 DEF Rollups
<1>12. y.sealed \in Seq(Segments) /\ Ledger(y.sealed) \in Seq(Aggregates) /\ a.metrics \in Seq(Aggregates)
       /\ <<>> \in Seq(Aggregates)
  <2>1. y.sealed \in Seq(Segments)
    BY <1>1, RecorderFields
  <2>2. Ledger(y.sealed) \in Seq(Aggregates)
    BY <2>1, MetricsOf
  <2>3. a.metrics \in Seq(Aggregates)
    BY <1>1, SegmentFields
  <2> QED
    BY <2>1, <2>2, <2>3
<1>13. L \in Seq(Aggregates) /\ R \in Seq(Aggregates) /\ Chronicle(y, <<>>) = L \o R
  BY <1>1, <1>12, ChronicleFields DEF Chronicle
<1>14. Raws(z, <<>>) = Append(R, m)
  <2>1. Ledger(Append(y.sealed, n)) = Ledger(y.sealed) \o Append(a.metrics, m)
    BY <1>3, <1>5, <1>12, LedgerAppend
  <2>2. Ledger(Append(y.sealed, a)) = Ledger(y.sealed) \o a.metrics
    BY <1>1, <1>12, LedgerAppend
  <2>3. Ledger(y.sealed) \o Append(a.metrics, m) = Append(Ledger(y.sealed) \o a.metrics, m)
    BY <1>2, <1>12, ConcatAppend
  <2>4. Ledger(Append(y.sealed, a)) \in Seq(Aggregates)
    BY <1>12, <2>2, ConcatProperties
  <2> DEFINE A == Ledger(Append(y.sealed, a))
             B == Ledger(Append(y.sealed, n))
  <2>5. B = Append(A, m) /\ A \in Seq(Aggregates)
    BY <2>1, <2>2, <2>3, <2>4
  <2>6. R = <<>> \o A /\ Raws(z, <<>>) = <<>> \o B
    BY <1>5 DEF Raws
  <2> HIDE DEF A, B, R
  <2>7. <<>> \o Append(A, m) = Append(<<>> \o A, m)
    BY <1>2, <1>12, <2>5, ConcatAppend
  <2> QED
    BY <2>5, <2>6, <2>7
<1>15. Chronicle(z, <<>>) = Append(Chronicle(y, <<>>), m)
  <2>1. Chronicle(z, <<>>) = L \o Append(R, m)
    BY <1>11, <1>14 DEF Chronicle
  <2> QED
    BY <1>2, <1>13, <2>1, ConcatAppend
<1>16. Truthful(Chronicle(z, <<>>), z.aggregateEvictions, d \cup {m}, p, on, t)
  <2> DEFINE c == Chronicle(y, <<>>)
  <2>1. c \in Seq(Aggregates)
    BY <1>1, <1>12, ChronicleFields
  <2>2. Recorded(c, d, q, on) /\ (y.aggregateEvictions = 0 => Complete(c, d, t))
    BY <1>1 DEF Truthful
  <2> HIDE DEF c
  <2>3. Recorded(Append(c, m), d \cup {m}, p, on)
    BY <2>1, <2>2, FreshRecorded, Zenon
  <2>4. y.aggregateEvictions = 0 => Complete(Append(c, m), d \cup {m}, t)
    BY <2>1, <2>2, FreshComplete, Zenon
  <2> QED
    BY <1>5, <1>15, <2>3, <2>4 DEF Truthful, c
<1>17. Advancing(z, <<>>)
  <2> DEFINE all == Append(y.sealed, a)
             k == Len(R) + 1
             N == Append(R, m)
  <2>1. all \in Seq(Segments) /\ \A i \in DOMAIN all : Within(all[i]) /\ all[i].end <= t
    <3>1. all \in Seq(Segments) /\ \A i \in DOMAIN all : i \in DOMAIN y.sealed \/ i = Len(y.sealed) + 1
      BY <1>1, <1>12, AppendedFields
    <3>2. all[Len(y.sealed) + 1] = a /\ \A i \in DOMAIN y.sealed : all[i] = y.sealed[i]
      BY <1>1, <1>12, AppendedFields
    <3>3. Within(a) /\ a.start <= t /\ a.start \in Nat
      BY <1>1, SegmentFields DEF RawOK, Within
    <3>4. ASSUME NEW i \in DOMAIN y.sealed PROVE Within(y.sealed[i]) /\ y.sealed[i].end <= t
      <4>1. RawOK(y.sealed[i]) /\ y.sealed[i].end <= a.start
        BY <1>1 DEF Books, Following
      <4>2. y.sealed[i].end \in Nat
        BY <1>12, SegmentFields
      <4> QED
        BY <3>3, <4>1, <4>2 DEF RawOK
    <3> QED
      BY <3>1, <3>2, <3>3, <3>4
  <2>2. \A j \in DOMAIN R : R[j].end <= t
    <3>1. \A j \in DOMAIN Ledger(all) : Ledger(all)[j].end <= t
      BY <2>1, LedgerEnds
    <3>2. R = Ledger(all)
      <4>1. Ledger(all) \in Seq(Aggregates)
        BY <2>1, MetricsOf
      <4> QED
        BY <4>1, ConcatEmptySeq DEF Raws
    <3> QED
      BY <3>1, <3>2
  <2>3. /\ N[k] = m /\ \A i \in DOMAIN R : N[i] = R[i] /\ i < k
        /\ \A i \in DOMAIN N : i \in Nat /\ (i \in DOMAIN R \/ i = k) /\ k \in Nat
    BY <1>2, <1>13, AppendedFields
  <2>4. /\ \A i, j \in DOMAIN R : i < j => R[i].end <= R[j].end
        /\ \A j \in DOMAIN R :
              /\ \A i \in DOMAIN y.rollups : y.rollups[i].end <= R[j].end
              /\ y.rollupActive # NoRollup => y.rollupActive.end <= R[j].end
    BY <1>1 DEF Advancing
  <2>5. /\ \A i \in DOMAIN y.rollups : y.rollups[i].end <= t
        /\ y.rollupActive # NoRollup => y.rollupActive.end <= t
    <3>1. a.start <= t /\ a.start \in Nat
      BY <1>1, SegmentFields DEF RawOK, Within
    <3>2. /\ \A i \in DOMAIN y.rollups : y.rollups[i].end <= a.start
          /\ y.rollupActive # NoRollup => y.rollupActive.end <= a.start
      BY <1>1 DEF Books, Following
    <3>3. /\ \A i \in DOMAIN y.rollups : y.rollups[i].end \in Nat
          /\ y.rollupActive # NoRollup => y.rollupActive.end \in Nat
      BY <1>1, RecorderFields, SegmentFields
    <3> QED
      BY <3>1, <3>2, <3>3
  <2> HIDE DEF R, N, k, all
  <2>6. ASSUME NEW i \in DOMAIN N, NEW j \in DOMAIN N, i < j PROVE N[i].end <= N[j].end
    <3>1. i \in DOMAIN R
      BY <2>3, <2>6
    <3>2. CASE j \in DOMAIN R
      BY <2>3, <2>4, <2>6, <3>1, <3>2
    <3>3. CASE j = k
      BY <2>2, <2>3, <3>1, <3>3
    <3> QED
      BY <2>3, <3>2, <3>3
  <2>7. ASSUME NEW j \in DOMAIN N
        PROVE  /\ \A i \in DOMAIN y.rollups : y.rollups[i].end <= N[j].end
               /\ y.rollupActive # NoRollup => y.rollupActive.end <= N[j].end
    <3>1. CASE j \in DOMAIN R
      BY <2>3, <2>4, <3>1
    <3>2. CASE j = k
      BY <2>3, <2>5, <3>2
    <3> QED
      BY <2>3, <3>1, <3>2
  <2>8. Raws(z, <<>>) = N
    BY <1>14 DEF N
  <2> QED
    BY <1>5, <2>6, <2>7, <2>8 DEF Advancing
<1>18. Roomy(z)
  BY <1>1, <1>5 DEF Roomy
<1>19. Contiguous(n, p, on)
  <2>1. n.metrics = Append(a.metrics, m)
    BY <1>3, <1>5
  <2> QED
    BY <1>1, <2>1, MetricContiguous, Zenon
<1> QED
  BY <1>10, <1>16, <1>17, <1>18, <1>19 DEF Sound

\* A collection that is not admitted leaves a chronicle of the active segment
\* alone, which its sensor has interrupted.
LEMMA RefusedMetric ==
    ASSUME NEW y, NEW d, DeltasOK(d), NEW q \in [Families -> Nat], NEW on, NEW t,
           Sound(y, <<>>, d, q, on, t), y.sealed = <<>>, ~hasRollup(y), Jammed(y.active),
           NEW m, Fresh(m, q)
    PROVE  Sound(Dropped(y), <<>>, d, Moved(q, m), on, t)
<1> DEFINE a == y.active
           M == a.metrics
           p == Moved(q, m)
           z == Dropped(y)
<1>1. /\ Books(y) /\ Advancing(y, <<>>) /\ Roomy(y) /\ Contiguous(a, q, on)
      /\ Truthful(Chronicle(y, <<>>), y.aggregateEvictions, d, q, on, t)
      /\ y \in Recorders /\ a \in Segments
  BY RecorderFields DEF Sound, Books
<1>2. M \in Seq(Aggregates) /\ <<>> \in Seq(Aggregates)
  BY <1>1, SegmentFields
<1>3. Chronicle(y, <<>>) = M
  <2>1. Rollups(y) = <<>>
    BY DEF Rollups, hasRollup
  <2>2. Append(y.sealed, a) = <<a>>
    OBVIOUS
  <2>3. Chronicle(y, <<>>) = <<>> \o (<<>> \o M)
    BY <1>1, <2>1, <2>2, LedgerOne, LedgerEmpty DEF Chronicle, Raws
  <2> QED
    BY <1>2, <2>3
<1>4. /\ \A f \in Families : p[f] \in Nat /\ q[f] \in Nat /\ q[f] <= p[f]
  <2>1. m.family \in Families /\ m.start = q[m.family] /\ m.start < m.end /\ m.start \in Nat /\ m.end \in Nat
    BY FreshFields
  <2> QED
    BY <2>1 DEF Moved
<1>5. Recorded(M, d, p, on)
  <2>1. Ordered(M) /\ Counted(M, d) /\ Aligned(M, d) /\ Reached(M, d, q) /\ Unbroken(M, q, on)
    BY <1>1, <1>3 DEF Truthful, Recorded
  <2>2. Reached(M, d, p)
    <3>1. ASSUME NEW i \in DOMAIN M PROVE M[i].end <= p[M[i].family]
      <4>1. M[i].family \in Families /\ M[i].end \in Nat /\ M[i].end <= q[M[i].family]
        BY <1>2, <2>1, AggregateFields DEF Reached
      <4> HIDE DEF p
      <4> QED
        BY <1>4, <4>1
    <3>2. ASSUME NEW e \in d PROVE e.end <= p[e.family]
      <4>1. e.family \in Families /\ e.end \in Nat /\ e.end <= q[e.family]
        BY <2>1, DeltaFields DEF Reached
      <4> HIDE DEF p
      <4> QED
        BY <1>4, <4>1
    <3> QED
      BY <3>1, <3>2 DEF Reached
  <2>3. Unbroken(M, p, on)
    <3>1. \A i, j \in DOMAIN M :
             /\ Loose(M, i) /\ Loose(M, j) /\ M[i].family = M[j].family /\ M[i].family \in on
             => M[i].end = M[j].end \/ M[i].end = p[M[i].family] \/ M[j].end = p[M[i].family]
      BY <1>1, Zenon DEF Contiguous
    <3> QED
      BY <2>1, <3>1, Zenon DEF Unbroken
  <2> QED
    BY <2>1, <2>2, <2>3 DEF Recorded
<1>6. Alike(y, z)
  BY <1>1, DroppedFields
<1> HIDE DEF z
<1>7. Books(z) /\ Advancing(z, <<>>) /\ Roomy(z) /\ Chronicle(z, <<>>) = M
  BY <1>1, <1>3, <1>6, AlikeFields
<1>8. Truthful(Chronicle(z, <<>>), z.aggregateEvictions, d, p, on, t)
  BY <1>1, <1>3, <1>5, <1>6, <1>7 DEF Truthful, Alike
<1>9. Contiguous(z.active, p, on)
  <2>1. Contiguous(a, p, on)
    BY <1>1 DEF Contiguous
  <2> QED
    BY <1>6, <2>1 DEF Alike
<1> QED
  BY <1>7, <1>8, <1>9 DEF Sound, z

\* What a step of a collection at t leaves of r.
Settled(r, z, t) ==
    /\ Timely(z, t) /\ t - z.active.start < SegmentInterval /\ Affordable(z)
    /\ r.aggregateEvictions <= z.aggregateEvictions
    /\ z.aggregateEvictions > r.aggregateEvictions => z.sealed = <<>>
    /\ r.sealed = <<>> /\ t - r.active.start < SegmentInterval => z.sealed = <<>>

LEMMA SettledTwice ==
    ASSUME NEW r \in Recorders, NEW y \in Recorders, NEW z \in Recorders, NEW t,
           Settled(r, y, t), Settled(y, z, t)
    PROVE  Settled(r, z, t)
<1>1. r.aggregateEvictions \in Nat /\ y.aggregateEvictions \in Nat /\ z.aggregateEvictions \in Nat
  BY RecorderFields
<1>2. r.aggregateEvictions <= y.aggregateEvictions /\ y.aggregateEvictions <= z.aggregateEvictions
  BY DEF Settled
<1>3. z.aggregateEvictions > r.aggregateEvictions => z.sealed = <<>>
  <2>1. CASE z.aggregateEvictions > y.aggregateEvictions
    BY <2>1 DEF Settled
  <2>2. CASE ~(z.aggregateEvictions > y.aggregateEvictions)
    <3>1. z.aggregateEvictions = y.aggregateEvictions
      BY <1>1, <1>2, <2>2
    <3> QED
      BY <3>1 DEF Settled
  <2> QED
    BY <2>1, <2>2
<1>4. r.aggregateEvictions <= z.aggregateEvictions
  BY <1>1, <1>2
<1> QED
  BY <1>3, <1>4 DEF Settled

\* What making room and then taking or dropping leaves.
LEMMA SettledAfter ==
    ASSUME NEW r \in Recorders, NEW x \in Recorders, NEW y \in Recorders, NEW z, NEW t,
           Advanced(r, x, t), Eased(x, y),
           z.sealed = y.sealed, z.aggregateEvictions = y.aggregateEvictions,
           z.active.start = x.active.start, z.active.end = x.active.end, Affordable(z)
    PROVE  Settled(r, z, t)
<1>1. r.aggregateEvictions \in Nat /\ x.aggregateEvictions \in Nat /\ y.aggregateEvictions \in Nat
  BY RecorderFields
<1>2. r.aggregateEvictions <= x.aggregateEvictions /\ x.aggregateEvictions <= y.aggregateEvictions
  BY DEF Advanced, Eased
<1>3. r.aggregateEvictions <= z.aggregateEvictions
  BY <1>1, <1>2
<1>4. z.aggregateEvictions > r.aggregateEvictions => z.sealed = <<>>
  BY Ratchet, Zenon
<1>5. r.sealed = <<>> /\ t - r.active.start < SegmentInterval => z.sealed = <<>>
  BY DEF Advanced, Eased
<1>6. Timely(z, t) /\ t - z.active.start < SegmentInterval
  BY DEF Advanced, Timely
<1> QED
  BY <1>3, <1>4, <1>5, <1>6 DEF Settled

\* The call of Metric takes m, or drops it if it cannot be afforded.
LEMMA MetricSound ==
    ASSUME NEW r, NEW d, DeltasOK(d), NEW q \in [Families -> Nat], NEW on,
           NEW t \in Nat, NEW u \in Nat, u <= t,
           Sound(r, <<>>, d, q, on, u), Timely(r, t), Affordable(r),
           NEW m, Fresh(m, q), m.family \in on, m.end = t, RecorderAssumption
    PROVE  LET z == Metric(r, m, t)
           IN  /\ Sound(z, <<>>, d \cup {e \in {m} : z.drops = r.drops}, Moved(q, m), on, t)
               /\ Settled(r, z, t)
<1> DEFINE x == Advance(r, t)
           a == x.active
           cost == MetricCost(a)
           y == room(x, cost, TRUE)
           s == Observed(WithMetric(a, m), m.start, m.end)
           z == Metric(r, m, t)
           p == Moved(q, m)
<1>1. Sound(x, <<>>, d, q, on, t) /\ Advanced(r, x, t)
  BY AdvanceSound, Zenon
<1>2. z = Admitted(y, cost, s)
  BY DEF Metric, MetricAfterAdvance
<1> HIDE DEF x, z
<1>3. x \in Recorders /\ a \in Segments /\ RawOK(a) /\ a.end = t /\ r \in Recorders
  BY <1>1, RecorderFields DEF Sound, Books, Advanced
<1>4. m \in Aggregates /\ m.start < m.end /\ m.end <= a.end /\ m.end \in Nat /\ 1 <= m.start
  BY <1>3, FreshFields
<1>5. s \in Segments /\ s.start = a.start /\ s.end = a.end /\ s.bytes = a.bytes /\ cost \in Nat
  BY <1>3, <1>4, MetricFields, Zenon
<1> HIDE DEF s, cost
<1>6. /\ Sound(y, <<>>, d, q, on, t) /\ Eased(x, y)
      /\ y.bytes + cost <= MaxBytes \/ (y.sealed = <<>> /\ ~hasRollup(y))
  <2>1. cost \in Int /\ TRUE \in BOOLEAN
    BY <1>5
  <2> QED
    BY <1>1, <2>1, RoomSound, Zenon
<1> HIDE DEF y
<1>7. y \in Recorders /\ y.active = a /\ y.bytes <= x.bytes /\ Books(y) /\ y.drops = x.drops
  BY <1>6 DEF Sound, Books, Eased
<1>8. /\ x.bytes <= MaxBytes /\ a.bytes <= MaxBytes /\ x.bytes \in Int /\ y.bytes \in Int /\ MaxBytes \in Nat
      /\ y.active.bytes <= y.bytes /\ a.bytes \in Nat
  <2>1. x.bytes <= MaxBytes /\ a.bytes <= MaxBytes
    BY <1>1 DEF Advanced, Affordable
  <2>2. x.bytes \in Int /\ y.bytes \in Int /\ MaxBytes \in Nat
    BY <1>3, <1>7, RecorderFields DEF RecorderAssumption
  <2>3. y.active.bytes <= y.bytes /\ y.active.bytes \in Nat
    BY <1>6, ActiveWithin
  <2> QED
    BY <1>7, <2>1, <2>2, <2>3
<1>9. x.drops = r.drops /\ r.drops \in Nat
  BY <1>1, <1>3, RecorderFields DEF Advanced
<1>10. ASSUME y.bytes + cost > MaxBytes
      PROVE  Sound(z, <<>>, d \cup {e \in {m} : z.drops = r.drops}, p, on, t) /\ Settled(r, z, t)
  <2>1. z = Dropped(y)
    BY <1>2, <1>5, <1>7, <1>10, AdmittedFields
  <2>2. Alike(y, z) /\ z.drops = r.drops + 1
    BY <1>7, <1>9, <2>1, DroppedFields
  <2>3. y.sealed = <<>> /\ ~hasRollup(y)
    BY <1>5, <1>6, <1>8, <1>10
  <2>4. Jammed(y.active)
    <3>1. y.bytes = y.active.bytes
      BY <1>7, <2>3, BareBytes
    <3> QED
      BY <1>7, <1>10, <3>1 DEF Jammed, cost
  <2>5. Sound(z, <<>>, d, p, on, t)
    BY <1>6, <2>1, <2>3, <2>4, RefusedMetric, Zenon
  <2>6. {e \in {m} : z.drops = r.drops} = {}
    BY <1>9, <2>2
  <2>7. z.active = a /\ z.bytes = y.bytes /\ z.sealed = y.sealed /\ z.aggregateEvictions = y.aggregateEvictions
    BY <1>7, <2>2 DEF Alike
  <2>8. Affordable(z)
    BY <1>8, <1>7, <2>7 DEF Affordable
  <2>9. Settled(r, z, t)
    BY <1>1, <1>3, <1>6, <1>7, <2>7, <2>8, SettledAfter, Zenon
  <2>10. d \cup {e \in {m} : z.drops = r.drops} = d
    BY <2>6
  <2> QED
    BY <2>5, <2>9, <2>10, Zenon
<1>11. ASSUME y.bytes + cost <= MaxBytes
      PROVE  Sound(z, <<>>, d \cup {e \in {m} : z.drops = r.drops}, p, on, t) /\ Settled(r, z, t)
  <2>1. Replaced(y, z, s, cost)
    BY <1>2, <1>5, <1>7, <1>11, AdmittedFields
  <2>2. /\ z.bytes = y.bytes + cost /\ z.active.start = a.start /\ z.active.end = t /\ z.drops = r.drops
        /\ z.sealed = y.sealed /\ z.aggregateEvictions = y.aggregateEvictions /\ z.active.bytes = a.bytes + cost
    BY <1>3, <1>5, <1>7, <1>9, <2>1 DEF Replaced
  <2>3. ~Jammed(y.active)
    <3> DEFINE b == y.active.bytes
    <3>1. b <= y.bytes /\ b \in Nat
      BY <1>7, <1>8
    <3>2. ~(b + cost > MaxBytes)
      <4> HIDE DEF b
      <4> QED
        BY <1>5, <1>8, <1>11, <3>1
    <3> QED
      BY <1>7, <3>2 DEF Jammed, cost
  <2>4. Replaced(y, z, Observed(WithMetric(y.active, m), m.start, m.end), MetricCost(y.active))
    BY <1>7, <2>1 DEF s, cost
  <2>5. Sound(z, <<>>, d \cup {m}, p, on, t)
    BY <1>3, <1>6, <1>7, <2>3, <2>4, AdmittedMetric, Zenon
  <2>6. d \cup {e \in {m} : z.drops = r.drops} = d \cup {m}
    BY <2>2
  <2>7. Affordable(z)
    <3> DEFINE b == a.bytes
    <3>1. b <= y.bytes /\ b \in Nat /\ z.active.bytes = b + cost
      BY <1>7, <1>8, <2>2
    <3> HIDE DEF b
    <3> QED
      BY <1>5, <1>8, <1>11, <2>2, <3>1 DEF Affordable
  <2>8. z.active.end = a.end
    BY <1>3, <2>2
  <2>9. Settled(r, z, t)
    BY <1>1, <1>3, <1>6, <1>7, <2>2, <2>7, <2>8, SettledAfter, Zenon
  <2> QED
    BY <2>5, <2>6, <2>9, Zenon
<1>12. y.bytes + cost > MaxBytes \/ y.bytes + cost <= MaxBytes
  BY <1>5, <1>8
<1> QED
  BY <1>10, <1>11, <1>12 DEF z

-----------------------------------------------------------------------------
(* A poll: the frontier after the turns of the first k sensors.            *)

Underway(k, readable, t) == [f \in Families |-> IF f \in readable /\ f > k THEN previous ELSE t]

Reading(s, k, readable, t) ==
    /\ Sound(s.rec, <<>>, accepted \cup s.taken, Underway(k, readable, t), readable, t)
    /\ DeltasOK(accepted \cup s.taken) /\ Settled(rec, s.rec, t)

LEMMA LaterSound ==
    ASSUME NEW r, NEW d, DeltasOK(d), NEW q, NEW on, NEW t, Sound(r, <<>>, d, q, on, t),
           NEW p, NEW some, some \subseteq on, Later(p, q, some)
    PROVE  Sound(r, <<>>, d, p, some, t)
<1>1. /\ Books(r) /\ Advancing(r, <<>>) /\ Roomy(r) /\ Contiguous(r.active, q, on)
      /\ Recorded(Chronicle(r, <<>>), d, q, on)
      /\ r.aggregateEvictions = 0 => Complete(Chronicle(r, <<>>), d, t)
      /\ r \in Recorders /\ r.active \in Segments
  BY RecorderFields DEF Sound, Truthful, Books
<1>2. Chronicle(r, <<>>) \in Seq(Aggregates)
  <2>1. <<>> \in Seq(Aggregates)
    OBVIOUS
  <2> QED
    BY <1>1, <2>1, ChronicleFields, Zenon
<1>3. Recorded(Chronicle(r, <<>>), d, p, some)
  BY <1>1, <1>2, LaterRecorded, Zenon
<1>4. Contiguous(r.active, p, some)
  BY <1>1, LaterContiguous, Zenon
<1> QED
  BY <1>1, <1>3, <1>4 DEF Sound, Truthful

LEMMA UnderwayStart ==
    ASSUME NEW readable \in SUBSET Families, NEW t \in Nat, previous \in Nat, previous < t,
           RecorderAssumption
    PROVE  Later(Underway(0, readable, t), Frontier(previous), readable)
<1>1. \A f \in Families : f \in Nat /\ f > 0
  BY DEF RecorderAssumption, Families
<1> QED
  BY <1>1 DEF Later, Underway, Frontier

LEMMA UnderwayEnd ==
    ASSUME NEW readable, NEW t \in Nat, RecorderAssumption
    PROVE  Underway(NumFamilies, readable, t) = Frontier(t)
<1>1. \A f \in Families : ~(f > NumFamilies)
  BY DEF RecorderAssumption, Families
<1> QED
  BY <1>1 DEF Underway, Frontier

LEMMA UnderwayStep ==
    ASSUME NEW readable, NEW t \in Nat, previous \in Nat, 1 <= previous, previous < t, NEW k \in Families,
           RecorderAssumption
    PROVE  /\ k \notin readable => Underway(k - 1, readable, t) = Underway(k, readable, t)
           /\ k \in readable =>
                 /\ Fresh(Delta(k, t), Underway(k - 1, readable, t))
                 /\ Moved(Underway(k - 1, readable, t), Delta(k, t)) = Underway(k, readable, t)
           /\ Underway(k - 1, readable, t) \in [Families -> Nat]
<1> DEFINE q == Underway(k - 1, readable, t)
           p == Underway(k, readable, t)
           m == Delta(k, t)
<1>1. k \in Nat /\ \A f \in Families : f \in Nat
  BY DEF RecorderAssumption, Families
<1>2. \A f \in Families : f # k => (f > k <=> f > k - 1)
  BY <1>1
<1>3. q \in [Families -> Nat] /\ p \in [Families -> Nat]
  BY DEF Underway
<1>4. \A f \in Families : f # k => q[f] = p[f]
  BY <1>2 DEF Underway
<1>5. p[k] = t /\ q[k] = IF k \in readable THEN previous ELSE t
  BY <1>1 DEF Underway
<1>6. m \in Aggregates /\ m.count = 1 /\ m.start = previous /\ m.end = t /\ m.family = k
  BY DEF Delta, Aggregates
<1> HIDE DEF q, p, m
<1>7. k \notin readable => q = p
  BY <1>3, <1>4, <1>5
<1>8. k \in readable => Fresh(m, q)
  BY <1>5, <1>6 DEF Fresh
<1>9. Moved(q, m) = p
  BY <1>3, <1>4, <1>5, <1>6 DEF Moved
<1> QED
  BY <1>3, <1>7, <1>8, <1>9 DEF q, p, m

\* What Metric leaves: m counts as accepted unless it was dropped.
Metered(z, r, d, q, on, t, m) ==
    /\ Sound(z, <<>>, d \cup {e \in {m} : z.drops = r.drops}, Moved(q, m), on, t)
    /\ Settled(r, z, t)

LEMMA MetricTurn ==
    ASSUME NEW r, NEW d, DeltasOK(d), NEW q \in [Families -> Nat], NEW on,
           NEW t \in Nat, Sound(r, <<>>, d, q, on, t), Timely(r, t), Affordable(r),
           NEW m, Fresh(m, q), m.family \in on, m.end = t, RecorderAssumption
    PROVE  Metered(Metric(r, m, t), r, d, q, on, t, m)
<1>1. t <= t
  OBVIOUS
<1> QED
  BY <1>1, MetricSound, ZenonT(30) DEF Metered

\* One turn.
LEMMA TurnSound ==
    ASSUME rec \in Recorders, NEW readable \in SUBSET Families, NEW t \in Nat,
           previous \in Nat, 1 <= previous, previous < t,
           NEW k \in Families, NEW s, Reading(s, k - 1, readable, t), RecorderAssumption
    PROVE  Reading(IF k \in readable THEN Taken(s, Delta(k, t), Metric(s.rec, Delta(k, t), t)) ELSE s,
                   k, readable, t)
<1> DEFINE m == Delta(k, t)
           z == Metric(s.rec, m, t)
           q == Underway(k - 1, readable, t)
           p == Underway(k, readable, t)
           d == accepted \cup s.taken
           more == {e \in {m} : z.drops = s.rec.drops}
<1>1. Sound(s.rec, <<>>, d, q, readable, t) /\ DeltasOK(d) /\ Settled(rec, s.rec, t)
  BY DEF Reading
<1>2. CASE k \notin readable
  <2>1. q = p
    BY <1>2, UnderwayStep
  <2>2. Reading(s, k, readable, t)
    BY <1>1, <2>1 DEF Reading
  <2> QED
    BY <1>2, <2>2
<1>3. CASE k \in readable
  <2>1. Fresh(m, q) /\ Moved(q, m) = p /\ q \in [Families -> Nat]
    BY <1>3, UnderwayStep
  <2>2. m.family = k /\ m.end = t
    BY DEF Delta
  <2>3. Timely(s.rec, t) /\ Affordable(s.rec) /\ t <= t
    BY <1>1 DEF Settled
  <2> HIDE DEF m, q, p, d, z
  <2>4. Sound(z, <<>>, d \cup more, p, readable, t) /\ Settled(s.rec, z, t)
    <3>1. m.family \in readable
      BY <1>3, <2>2
    <3>2. DeltasOK(d) /\ Sound(s.rec, <<>>, d, q, readable, t) /\ Timely(s.rec, t) /\ Affordable(s.rec)
      BY <1>1, <2>3
    <3>3. Metered(Metric(s.rec, m, t), s.rec, d, q, readable, t, m)
      BY <2>1, <2>2, <3>1, <3>2, MetricTurn, Zenon
    <3> QED
      BY <2>1, <3>3, Zenon DEF Metered, z, more
  <2>5. DeltasOK(d \cup more)
    <3>1. more = {m} \/ more = {}
      OBVIOUS
    <3>2. DeltasOK(d \cup {m})
      BY <1>1, <2>1, FreshOK, Zenon
    <3>3. d \cup {} = d
      OBVIOUS
    <3> QED
      BY <1>1, <3>1, <3>2, <3>3
  <2>6. Settled(rec, z, t)
    <3>1. s.rec \in Recorders /\ z \in Recorders
      BY <1>1, <2>4 DEF Sound, Books
    <3> QED
      BY <1>1, <2>4, <3>1, SettledTwice, Zenon
  <2> DEFINE y == Taken(s, m, z)
  <2>7. y.rec = z /\ y.taken = s.taken \cup more
    BY DEF Taken
  <2>8. accepted \cup y.taken = d \cup more
    BY <2>7 DEF d
  <2> HIDE DEF y, more
  <2>9. Reading(y, k, readable, t)
    BY <2>4, <2>5, <2>6, <2>7, <2>8 DEF Reading, p
  <2> QED
    BY <1>3, <2>9 DEF y, m, z
<1> QED
  BY <1>2, <1>3

LEMMA CollectedSound ==
    ASSUME DeltasOK(accepted), Sound(rec, <<>>, accepted, Frontier(previous), alive, now),
           now \in Nat, Timely(rec, now), Affordable(rec), previous \in Nat, 1 <= previous,
           alive \subseteq Families,
           NEW t \in Nat, now <= t, previous < t, NEW readable \in SUBSET alive, RecorderAssumption
    PROVE  LET c == Collected(readable, t)
           IN  /\ Sound(c.rec, <<>>, accepted \cup c.taken, Frontier(t), readable, t)
               /\ DeltasOK(accepted \cup c.taken) /\ Settled(rec, c.rec, t)
               /\ c.taken \subseteq {Delta(f, t) : f \in Families}
<1> DEFINE n == NumFamilies
           D == {Delta(f, t) : f \in Families}
           S == [k \in 0..n |-> {s \in [rec : Recorders, taken : SUBSET D] : Reading(s, k, readable, t)}]
           x == Advance(rec, t)
           s0 == [rec |-> x, taken |-> {}]
<1>1. n \in Nat /\ Families = 1..n /\ readable \in SUBSET Families
  BY DEF RecorderAssumption, Families
<1>2. rec \in Recorders
  BY DEF Sound, Books
<1>3. Timely(rec, t)
  <2>1. rec.active.start \in Nat /\ rec.active.end \in Nat
    BY <1>2, RecorderFields, SegmentFields
  <2> QED
    BY <2>1 DEF Timely
<1>4. Sound(x, <<>>, accepted, Frontier(previous), alive, t) /\ Advanced(rec, x, t)
  BY <1>3, AdvanceSound, Zenon
<1>5. Sound(x, <<>>, accepted, Underway(0, readable, t), readable, t)
  <2>1. Later(Underway(0, readable, t), Frontier(previous), readable)
    BY <1>1, UnderwayStart
  <2>2. readable \subseteq alive
    OBVIOUS
  <2> QED
    BY <1>4, <2>1, <2>2, LaterSound, Zenon
<1>6. Settled(rec, x, t)
  BY <1>4 DEF Settled, Advanced
<1>7. x \in Recorders
  BY <1>5 DEF Sound, Books
<1> HIDE DEF x
<1>8. s0 \in [rec : Recorders, taken : SUBSET D] /\ Reading(s0, 0, readable, t)
  <2>1. s0.rec = x /\ s0.taken = {} /\ s0 \in [rec : Recorders, taken : SUBSET D]
    BY <1>7
  <2> HIDE DEF s0
  <2>2. accepted \cup s0.taken = accepted
    BY <2>1
  <2> QED
    BY <1>5, <1>6, <2>1, <2>2 DEF Reading
<1>9. \A k \in 0..n : S[k] = {s \in [rec : Recorders, taken : SUBSET D] : Reading(s, k, readable, t)}
  OBVIOUS
<1>10. 0 \in 0..n /\ n \in 0..n
  BY <1>1
<1> HIDE DEF S
<1>11. s0 \in S[0]
  BY <1>8, <1>9, <1>10
<1>12. Collecting(S, n, readable, t)
  <2> SUFFICES ASSUME NEW k \in 1..n, NEW s \in S[k - 1]
               PROVE  (IF k \in readable THEN Taken(s, Delta(k, t), Metric(s.rec, Delta(k, t), t)) ELSE s) \in S[k]
    BY DEF Collecting
  <2> DEFINE z == IF k \in readable THEN Taken(s, Delta(k, t), Metric(s.rec, Delta(k, t), t)) ELSE s
  <2>1. k - 1 \in 0..n /\ k \in 0..n /\ k \in Families
    BY <1>1
  <2>2. s \in [rec : Recorders, taken : SUBSET D] /\ Reading(s, k - 1, readable, t)
    BY <1>9, <2>1
  <2>3. Reading(z, k, readable, t)
    BY <1>1, <1>2, <2>1, <2>2, TurnSound, Zenon
  <2>4. z \in [rec : Recorders, taken : SUBSET D]
    <3>1. z.rec \in Recorders
      BY <2>3 DEF Reading, Sound, Books
    <3>2. CASE k \in readable
      <4> DEFINE y == Metric(s.rec, Delta(k, t), t)
      <4>1. z = [rec |-> y, taken |-> s.taken \cup {d \in {Delta(k, t)} : y.drops = s.rec.drops}]
        BY <3>2 DEF Taken
      <4>2. y \in Recorders
        <5> HIDE DEF y, z
        <5> QED
          BY <3>1, <4>1
      <4> HIDE DEF y
      <4>3. {d \in {Delta(k, t)} : y.drops = s.rec.drops} \subseteq D
        BY <2>1
      <4>4. s.taken \subseteq D
        BY <2>2
      <4> HIDE DEF D, z
      <4> QED
        BY <4>1, <4>2, <4>3, <4>4
    <3>3. CASE k \notin readable
      BY <2>2, <3>3
    <3> QED
      BY <3>2, <3>3
  <2> HIDE DEF z
  <2>5. z \in S[k]
    BY <1>9, <2>1, <2>3, <2>4
  <2> QED
    BY <2>5 DEF z
<1>13. Collected(readable, t) \in S[n]
  BY <1>1, <1>11, <1>12, CollectionEnds DEF x
<1> DEFINE c == Collected(readable, t)
<1>14. c \in [rec : Recorders, taken : SUBSET D] /\ Reading(c, n, readable, t)
  BY <1>9, <1>10, <1>13
<1> HIDE DEF c
<1>15. Underway(n, readable, t) = Frontier(t)
  BY UnderwayEnd
<1>16. /\ Sound(c.rec, <<>>, accepted \cup c.taken, Frontier(t), readable, t)
       /\ DeltasOK(accepted \cup c.taken) /\ Settled(rec, c.rec, t)
  BY <1>14, <1>15 DEF Reading
<1>17. c.taken \subseteq D
  BY <1>14
<1> QED
  BY <1>16, <1>17, Zenon DEF c

-----------------------------------------------------------------------------
(* The invariant.                                                          *)

\* Every retained segment, one by one.
LEMMA EverythingFields ==
    ASSUME NEW r, Books(r)
    PROVE  /\ Everything(r) \in Seq(Segments)
           /\ \A s \in ToSet(Everything(r)) : s \in Segments /\ Within(s)
           /\ \A s \in ToSet(Rollups(r)) : s.bytes = Held(s, 0)
           /\ \A s \in ToSet(Append(r.sealed, r.active)) : s.bytes = Held(s, FamilyText)
<1> DEFINE A == Rollups(r)
           B == Append(r.sealed, r.active)
           C == A \o B
<1>1. r \in Recorders /\ r.sealed \in Seq(Segments) /\ r.active \in Segments /\ r.rollups \in Seq(Segments)
      /\ (r.rollupActive # NoRollup => r.rollupActive \in Segments)
  BY RecorderFields DEF Books
<1>2. /\ \A i \in DOMAIN r.rollups : RollupOK(r.rollups[i])
      /\ r.rollupActive # NoRollup => RollupOK(r.rollupActive)
      /\ \A i \in DOMAIN r.sealed : RawOK(r.sealed[i])
      /\ RawOK(r.active)
  BY DEF Books
<1>3. A \in Seq(Segments) /\ \A i \in DOMAIN A : RollupOK(A[i])
  <2>1. CASE r.rollupActive = NoRollup
    BY <1>1, <1>2, <2>1 DEF Rollups
  <2>2. CASE r.rollupActive # NoRollup
    <3> DEFINE c == r.rollups
               s == r.rollupActive
    <3>1. c \in Seq(Segments) /\ s \in Segments /\ RollupOK(s) /\ \A i \in DOMAIN c : RollupOK(c[i])
      BY <1>1, <1>2, <2>2
    <3>2. A = Append(c, s)
      BY <2>2 DEF Rollups
    <3> HIDE DEF c, s, A
    <3>3. /\ Append(c, s) \in Seq(Segments) /\ Append(c, s)[Len(c) + 1] = s
          /\ \A i \in DOMAIN c : Append(c, s)[i] = c[i]
          /\ \A i \in DOMAIN Append(c, s) : i \in DOMAIN c \/ i = Len(c) + 1
      BY <3>1, AppendedFields
    <3> QED
      BY <3>1, <3>2, <3>3
  <2> QED
    BY <2>1, <2>2
<1>4. B \in Seq(Segments) /\ \A i \in DOMAIN B : RawOK(B[i])
  <2>1. /\ B \in Seq(Segments) /\ B[Len(r.sealed) + 1] = r.active
        /\ \A i \in DOMAIN r.sealed : B[i] = r.sealed[i]
        /\ \A i \in DOMAIN B : i \in DOMAIN r.sealed \/ i = Len(r.sealed) + 1
    BY <1>1, AppendedFields
  <2> QED
    BY <1>2, <2>1
<1> HIDE DEF A, B
<1>5. C \in Seq(Segments) /\ \A i \in DOMAIN C : (\E j \in DOMAIN A : C[i] = A[j]) \/ (\E j \in DOMAIN B : C[i] = B[j])
  <2>1. /\ C \in Seq(Segments) /\ Len(C) = Len(A) + Len(B)
        /\ \A i \in 1..(Len(A) + Len(B)) : C[i] = IF i <= Len(A) THEN A[i] ELSE B[i - Len(A)]
    BY <1>3, <1>4, ConcatProperties
  <2>2. /\ DOMAIN C = 1..Len(C) /\ DOMAIN A = 1..Len(A) /\ DOMAIN B = 1..Len(B)
        /\ Len(A) \in Nat /\ Len(B) \in Nat
    BY <1>3, <1>4, <2>1, LenProperties
  <2> HIDE DEF C
  <2>3. ASSUME NEW i \in DOMAIN C
        PROVE  (\E j \in DOMAIN A : C[i] = A[j]) \/ (\E j \in DOMAIN B : C[i] = B[j])
    <3>1. CASE i <= Len(A)
      BY <2>1, <2>2, <3>1
    <3>2. CASE ~(i <= Len(A))
      <4>1. i - Len(A) \in DOMAIN B /\ C[i] = B[i - Len(A)]
        BY <2>1, <2>2, <3>2
      <4> QED
        BY <4>1
    <3> QED
      BY <3>1, <3>2
  <2> QED
    BY <2>1, <2>3
<1>6. Everything(r) = C
  BY DEF Everything, A, B
<1> HIDE DEF C
<1>7. \A s \in ToSet(C) : s \in Segments /\ Within(s)
  <2>1. ASSUME NEW i \in DOMAIN C PROVE C[i] \in Segments /\ Within(C[i])
    <3>1. C[i] \in Segments
      BY <1>5
    <3> QED
      BY <1>3, <1>4, <1>5, <3>1 DEF RawOK, RollupOK
  <2> QED
    BY <2>1 DEF ToSet
<1>8. \A s \in ToSet(A) : s.bytes = Held(s, 0)
  BY <1>3 DEF ToSet, RollupOK
<1>9. \A s \in ToSet(B) : s.bytes = Held(s, FamilyText)
  BY <1>4 DEF ToSet, RawOK
<1> QED
  BY <1>5, <1>6, <1>7, <1>8, <1>9 DEF A, B

\* What is always true of a recorder r with the collections d accepted up to
\* p, the sensors on and the clock t.
Lasting(r, d, p, on, t) ==
    /\ DeltasOK(d) /\ Sound(r, <<>>, d, Frontier(p), on, t) /\ Timely(r, t) /\ Affordable(r)

Times(d) == d \subseteq [family : Families, start : 1..MaxTime, end : 1..MaxTime, count : {1}]

LEMMA LastingTyped ==
    ASSUME NEW r, NEW d, NEW p, NEW on, NEW t, Lasting(r, d, p, on, t), RecorderAssumption
    PROVE  /\ r \in Recorders /\ r.bytes >= 0
           /\ \A s \in ToSet(Everything(r)) : s.min <= s.max /\ s.start <= s.end
<1>1. Sound(r, <<>>, d, Frontier(p), on, t) /\ Books(r)
  BY DEF Lasting, Sound
<1>2. r \in Recorders
  BY <1>1 DEF Books
<1>3. r.active.bytes <= r.bytes /\ r.active.bytes \in Nat
  BY <1>1, ActiveWithin
<1>4. r.bytes >= 0
  <2>1. r.bytes \in Int
    BY <1>2, RecorderFields
  <2> QED
    BY <1>3, <2>1
<1>5. \A s \in ToSet(Everything(r)) : s.min <= s.max /\ s.start <= s.end
  BY <1>1, EverythingFields DEF Within
<1> QED
  BY <1>2, <1>4, <1>5

LEMMA InvFields ==
    ASSUME RecorderInv, RecorderAssumption
    PROVE  /\ now \in Nat /\ previous \in Nat /\ previous <= now /\ now <= MaxTime /\ 1 <= previous
           /\ now \in 1..MaxTime /\ alive \subseteq Families /\ Times(accepted)
           /\ DeltasOK(accepted) /\ Sound(rec, <<>>, accepted, Frontier(previous), alive, now)
           /\ Timely(rec, now) /\ Affordable(rec)
BY SMTT(30) DEF RecorderInv, TypeOK, RecorderAssumption, Timely, Times

\* The next state keeps the invariant.
LEMMA LastingInv ==
    ASSUME Lasting(rec', accepted', previous', alive', now'), now' \in 1..MaxTime,
           previous' \in 1..now', alive' \subseteq Families, Times(accepted'), RecorderAssumption
    PROVE  RecorderInv'
<1>1. TypeOK'
  BY LastingTyped DEF TypeOK, Times
<1> QED
  BY <1>1 DEF RecorderInv, Lasting, Timely

LEMMA QueryInv ==
    ASSUME RecorderInv, Query, RecorderAssumption
    PROVE  RecorderInv' /\ (rec'.aggregateEvictions > rec.aggregateEvictions => rec'.sealed = <<>>)
<1> DEFINE t == now'
           z == Advance(rec, t)
<1>1. /\ rec' = z /\ t \in now..MaxTime /\ previous' = previous /\ alive' = alive /\ accepted' = accepted
  BY DEF Query, ReadClock
<1>2. /\ now \in Nat /\ previous \in Nat /\ previous <= now /\ alive \subseteq Families /\ Times(accepted)
      /\ now \in 1..MaxTime /\ previous \in 1..now
      /\ DeltasOK(accepted) /\ Sound(rec, <<>>, accepted, Frontier(previous), alive, now)
      /\ Timely(rec, now) /\ Affordable(rec)
  BY InvFields
<1>3. t \in Nat /\ now <= t /\ t \in 1..MaxTime /\ previous \in 1..t
  <2>1. MaxTime \in Nat
    BY DEF RecorderAssumption
  <2> HIDE DEF t
  <2> QED
    BY <1>1, <1>2, <2>1
<1>4. Timely(rec, t)
  <2>1. rec.active.start \in Nat /\ rec.active.end \in Nat
    BY <1>2, RecorderFields, SegmentFields DEF Sound, Books
  <2> HIDE DEF t
  <2> QED
    BY <1>2, <1>3, <2>1 DEF Timely
<1>5. Sound(z, <<>>, accepted, Frontier(previous), alive, t) /\ Advanced(rec, z, t)
  <2> HIDE DEF t
  <2> QED
    BY <1>2, <1>3, <1>4, AdvanceSound, Zenon
<1> HIDE DEF z
<1>6. Lasting(rec', accepted', previous', alive', now')
  BY <1>1, <1>2, <1>5 DEF Lasting, Advanced
<1>7. RecorderInv'
  BY <1>1, <1>2, <1>3, <1>6, LastingInv
<1> QED
  BY <1>1, <1>5, <1>7 DEF Advanced

LEMMA DetailInv ==
    ASSUME RecorderInv, Detail, RecorderAssumption
    PROVE  RecorderInv' /\ (rec'.aggregateEvictions > rec.aggregateEvictions => rec'.sealed = <<>>)
<1> DEFINE t == now'
<1>1. PICK e \in Delays : e <= t /\ rec' = Event(rec, t - e, t)
  BY DEF Detail
<1>2. t \in now..MaxTime /\ previous' = previous /\ alive' = alive /\ accepted' = accepted
  BY DEF Detail, ReadClock
<1>3. /\ now \in Nat /\ previous \in Nat /\ previous <= now /\ alive \subseteq Families /\ Times(accepted)
      /\ now \in 1..MaxTime /\ previous \in 1..now
      /\ DeltasOK(accepted) /\ Sound(rec, <<>>, accepted, Frontier(previous), alive, now)
      /\ Timely(rec, now) /\ Affordable(rec)
  BY InvFields
<1> HIDE DEF t
<1>4. t \in Nat /\ now <= t /\ t \in 1..MaxTime /\ previous \in 1..t /\ t - e \in Nat
  BY <1>1, <1>2, <1>3 DEF RecorderAssumption
<1>5. Timely(rec, t)
  <2>1. rec.active.start \in Nat /\ rec.active.end \in Nat
    BY <1>3, RecorderFields, SegmentFields DEF Sound, Books
  <2> QED
    BY <1>3, <1>4, <2>1 DEF Timely
<1> DEFINE v == t - e
           z == Event(rec, v, t)
<1>6. v \in Nat
  BY <1>4
<1> HIDE DEF v
<1>7. /\ Sound(z, <<>>, accepted, Frontier(previous), alive, t) /\ Timely(z, t) /\ Affordable(z)
      /\ z.aggregateEvictions > rec.aggregateEvictions => z.sealed = <<>>
  BY <1>3, <1>4, <1>5, <1>6, EventSound, Zenon
<1>8. rec' = z
  BY <1>1 DEF v
<1> HIDE DEF z
<1>9. Lasting(rec', accepted', previous', alive', now')
  BY <1>2, <1>3, <1>7, <1>8 DEF Lasting, t
<1>10. RecorderInv'
  BY <1>2, <1>3, <1>4, <1>9, LastingInv DEF t
<1> QED
  BY <1>7, <1>8, <1>10

LEMMA PollInv ==
    ASSUME RecorderInv, Poll, RecorderAssumption
    PROVE  RecorderInv' /\ (rec'.aggregateEvictions > rec.aggregateEvictions => rec'.sealed = <<>>)
<1> DEFINE t == now'
<1>1. PICK readable \in SUBSET alive :
         /\ alive' \in SUBSET readable \ {{}}
         /\ Took(Collected(readable, t))
  BY DEF Poll
<1>2. t \in now..MaxTime /\ previous' = t /\ t > previous
  BY DEF Poll, ReadClock
<1>3. /\ now \in Nat /\ previous \in Nat /\ previous <= now /\ alive \subseteq Families /\ Times(accepted)
      /\ now \in 1..MaxTime /\ previous \in 1..now
      /\ DeltasOK(accepted) /\ Sound(rec, <<>>, accepted, Frontier(previous), alive, now)
      /\ Timely(rec, now) /\ Affordable(rec)
  BY InvFields
<1> DEFINE c == Collected(readable, t)
<1>4. rec' = c.rec /\ accepted' = accepted \cup c.taken
  BY <1>1 DEF Took
<1> HIDE DEF t
<1>5. t \in Nat /\ now <= t /\ t \in 1..MaxTime /\ t \in 1..t /\ previous < t /\ previous \in 1..MaxTime /\ 1 <= previous
  BY <1>2, <1>3 DEF RecorderAssumption
<1>6. /\ Sound(c.rec, <<>>, accepted \cup c.taken, Frontier(t), readable, t)
      /\ DeltasOK(accepted \cup c.taken) /\ Settled(rec, c.rec, t)
      /\ c.taken \subseteq {Delta(f, t) : f \in Families}
  BY <1>3, <1>5, CollectedSound, Zenon
<1> HIDE DEF c
<1>7. Sound(c.rec, <<>>, accepted \cup c.taken, Frontier(t), alive', t)
  <2>1. Later(Frontier(t), Frontier(t), alive')
    <3>1. \A f \in Families : Frontier(t)[f] \in Nat /\ Frontier(t)[f] <= Frontier(t)[f]
      BY <1>5 DEF Frontier
    <3> QED
      BY <3>1 DEF Later
  <2>2. alive' \subseteq readable
    BY <1>1
  <2> QED
    BY <1>6, <2>1, <2>2, LaterSound, Zenon
<1>8. Lasting(rec', accepted', previous', alive', now')
  BY <1>2, <1>4, <1>6, <1>7 DEF Lasting, Settled, t
<1>9. Times(accepted')
  <2>1. \A f \in Families : Delta(f, t) \in [family : Families, start : 1..MaxTime, end : 1..MaxTime, count : {1}]
    BY <1>5 DEF Delta
  <2>2. c.taken \subseteq [family : Families, start : 1..MaxTime, end : 1..MaxTime, count : {1}]
    BY <1>6, <2>1
  <2> QED
    BY <1>3, <1>4, <2>2 DEF Times
<1>10. alive' \subseteq Families
  BY <1>1, <1>3
<1>11. RecorderInv'
  BY <1>2, <1>5, <1>8, <1>9, <1>10, LastingInv DEF t
<1> QED
  BY <1>4, <1>6, <1>11 DEF Settled

-----------------------------------------------------------------------------
(* The sum over two sequences, and what the invariant implies.             *)

LEMMA TotalConcat ==
    ASSUME NEW c \in Seq(Segments), NEW e \in Seq(Segments)
    PROVE  Total(c \o e) = Total(c) + Total(e)
<1> DEFINE m == Len(c)
           n == Len(e)
           a == c \o e
<1>1. m \in Nat /\ n \in Nat /\ m + n \in Nat
  BY LenProperties
<1>2. Len(a) = m + n /\ \A k \in 1..(m + n) : a[k] = IF k <= m THEN c[k] ELSE e[k - m]
  BY ConcatProperties
<1>3. PICK u \in [0..m -> Int] : Sums(u, c, m)
  BY <1>1, SumsExist
<1>4. PICK w \in [0..n -> Int] : Sums(w, e, n)
  BY <1>1, SumsExist
<1>5. Total(c) = u[m] /\ Total(e) = w[n]
  BY <1>1, <1>3, <1>4, TotalIs
<1> HIDE DEF a, m, n
<1> DEFINE v == [k \in 0..(m + n) |-> IF k <= m THEN u[k] ELSE u[m] + w[k - m]]
<1>6. \A k \in 0..(m + n) : v[k] = IF k <= m THEN u[k] ELSE u[m] + w[k - m]
  OBVIOUS
<1>7. u[0] = 0 /\ w[0] = 0 /\ \A k \in 0..m : u[k] \in Int /\ \A i \in 0..n : w[i] \in Int
  BY <1>1, <1>3, <1>4 DEF Sums
<1> HIDE DEF v
<1>8. Sums(v, a, m + n)
  <2>1. v[0] = 0
    BY <1>1, <1>6, <1>7
  <2>2. ASSUME NEW k \in 1..(m + n) PROVE v[k] = v[k - 1] + a[k].bytes
    <3>1. k \in Nat /\ k - 1 \in 0..(m + n) /\ k \in 0..(m + n)
      BY <1>1
    <3>2. CASE k <= m
      <4>1. v[k] = u[k] /\ v[k - 1] = u[k - 1] /\ a[k] = c[k] /\ k \in 1..m
        BY <1>1, <1>2, <1>6, <3>1, <3>2
      <4> QED
        BY <1>3, <4>1 DEF Sums
    <3>3. CASE ~(k <= m)
      <4>1. v[k] = u[m] + w[k - m] /\ a[k] = e[k - m]
        BY <1>1, <1>2, <1>6, <3>1, <3>3
      <4>2. PICK i : i = k - m
        OBVIOUS
      <4>3. i \in 1..n /\ i - 1 \in 0..n /\ i \in 0..n
        BY <1>1, <3>1, <3>3, <4>2
      <4>4. w[i] = w[i - 1] + e[i].bytes
        BY <1>4, <4>3 DEF Sums
      <4>5. v[k - 1] = u[m] + w[i - 1]
        <5>1. CASE k - 1 <= m
          <6>1. k - 1 = m /\ i - 1 = 0
            BY <1>1, <3>1, <3>3, <4>2, <5>1
          <6>2. v[k - 1] = u[m]
            BY <1>1, <1>6, <3>1, <6>1
          <6> QED
            BY <1>1, <1>7, <6>1, <6>2
        <5>2. CASE ~(k - 1 <= m)
          <6>1. v[k - 1] = u[m] + w[(k - 1) - m]
            BY <1>6, <3>1, <5>2
          <6>2. (k - 1) - m = i - 1
            BY <1>1, <3>1, <4>2
          <6> QED
            BY <6>1, <6>2
        <5> QED
          BY <5>1, <5>2
      <4>6. e[i].bytes \in Int
        <5>1. e[i] \in Segments
          BY <4>3, ElementOfSeq DEF n
        <5> QED
          BY <5>1, SegmentFields
      <4>7. u[m] \in Int /\ w[i - 1] \in Int
        BY <1>1, <1>7, <4>3
      <4> DEFINE x == e[i].bytes
                 y == w[i - 1]
                 b == u[m]
      <4>8. v[k] = b + (y + x) /\ v[k - 1] = b + y /\ a[k].bytes = x
        BY <4>1, <4>2, <4>4, <4>5
      <4>9. x \in Int /\ y \in Int /\ b \in Int
        BY <4>6, <4>7
      <4> HIDE DEF x, y, b
      <4> QED
        BY <4>8, <4>9
    <3> QED
      BY <3>2, <3>3
  <2> QED
    BY <2>1, <2>2 DEF Sums
<1>9. Total(a) = v[m + n]
  BY <1>1, <1>2, <1>8, TotalIs
<1>10. v[m + n] = u[m] + w[n]
  <2>1. m + n \in 0..(m + n)
    BY <1>1
  <2>2. CASE n = 0
    <3>1. v[m + n] = u[m]
      BY <1>1, <1>6, <2>1, <2>2
    <3> QED
      BY <1>1, <1>7, <2>2, <3>1
  <2>3. CASE n # 0
    <3>1. v[m + n] = u[m] + w[(m + n) - m]
      BY <1>1, <1>6, <2>1, <2>3
    <3>2. (m + n) - m = n
      BY <1>1
    <3> QED
      BY <3>1, <3>2
  <2> QED
    BY <2>2, <2>3
<1> QED
  BY <1>5, <1>9, <1>10 DEF a

LEMMA AccountHolds ==
    ASSUME NEW r, Books(r)
    PROVE  r.bytes = Total(Everything(r))
<1>1. r \in Recorders /\ r.sealed \in Seq(Segments) /\ r.active \in Segments /\ r.rollups \in Seq(Segments)
      /\ (r.rollupActive # NoRollup => r.rollupActive \in Segments) /\ Accounted(r)
  BY RecorderFields DEF Books
<1>2. Rollups(r) \in Seq(Segments) /\ Append(r.sealed, r.active) \in Seq(Segments)
  <2>1. <<>> \in Seq(Aggregates)
    OBVIOUS
  <2> QED
    BY <1>1, <2>1, ChronicleFields, Zenon
<1>3. Total(Rollups(r)) = Total(r.rollups) + Rolled(r)
  <2>1. CASE r.rollupActive = NoRollup
    <3>1. Rollups(r) = r.rollups /\ Rolled(r) = 0
      BY <2>1 DEF Rollups, Rolled
    <3>2. Total(r.rollups) \in Int
      BY <1>1, TotalInt
    <3> QED
      BY <3>1, <3>2
  <2>2. CASE r.rollupActive # NoRollup
    <3>1. Rollups(r) = Append(r.rollups, r.rollupActive) /\ Rolled(r) = r.rollupActive.bytes
      BY <2>2 DEF Rollups, Rolled
    <3> QED
      BY <1>1, <2>2, <3>1, TotalAppend
  <2> QED
    BY <2>1, <2>2
<1>4. Total(Append(r.sealed, r.active)) = Total(r.sealed) + r.active.bytes
  BY <1>1, TotalAppend
<1>5. Total(Everything(r)) = Total(Rollups(r)) + Total(Append(r.sealed, r.active))
  BY <1>2, TotalConcat DEF Everything
<1>6. /\ Total(r.rollups) \in Int /\ Total(r.sealed) \in Int /\ r.active.bytes \in Int
      /\ Rolled(r) \in Int
  BY <1>1, TotalInt, SegmentFields DEF Rolled
<1>7. r.bytes = Total(r.rollups) + Rolled(r) + Total(r.sealed) + r.active.bytes
  BY <1>1 DEF Accounted
<1> DEFINE A == Total(r.rollups)
           B == Rolled(r)
           C == Total(r.sealed)
           D == r.active.bytes
<1>8. /\ A \in Int /\ B \in Int /\ C \in Int /\ D \in Int /\ r.bytes = A + B + C + D
      /\ Total(Everything(r)) = (A + B) + (C + D)
  BY <1>3, <1>4, <1>5, <1>6, <1>7
<1> HIDE DEF A, B, C, D
<1> QED
  BY <1>8

\* A collection is covered at most once.
LEMMA CoveredOnce ==
    ASSUME NEW c \in Seq(Aggregates), Ordered(c), NEW d, DeltasOK(d), NEW a \in d,
           NEW i \in DOMAIN c, Covers(c[i], a)
    PROVE  Cardinality({j \in DOMAIN c : Covers(c[j], a)}) = 1
<1>1. /\ a.family \in Families /\ a.start \in Nat /\ a.end \in Nat /\ a.start < a.end
  BY DeltaFields
<1>2. /\ \A j \in DOMAIN c : j \in Nat /\ c[j].start \in Nat /\ c[j].end \in Nat /\ c[j].start < c[j].end
      /\ \A j, k \in DOMAIN c : j < k /\ c[j].family = c[k].family => c[j].end <= c[k].start
  BY OrderedTimes
<1>3. ASSUME NEW j \in DOMAIN c, NEW k \in DOMAIN c, Covers(c[j], a), Covers(c[k], a), j < k
      PROVE  FALSE
  <2>1. c[j].family = c[k].family /\ a.end <= c[j].end /\ c[k].start <= a.start
    BY <1>3 DEF Covers
  <2>2. c[j].end <= c[k].start /\ c[j].end \in Nat /\ c[k].start \in Nat
    BY <1>2, <1>3, <2>1
  <2> QED
    BY <1>1, <2>1, <2>2
<1>4. \A j \in DOMAIN c : Covers(c[j], a) => j = i
  <2> SUFFICES ASSUME NEW j \in DOMAIN c, Covers(c[j], a), j # i PROVE FALSE
    OBVIOUS
  <2>1. j < i \/ i < j
    BY <1>2
  <2> QED
    BY <1>3, <2>1
<1>5. {j \in DOMAIN c : Covers(c[j], a)} = {i}
  BY <1>4
<1> QED
  BY <1>5, FS_Singleton

LEMMA HistoryHolds ==
    ASSUME RecorderInv, RecorderAssumption
    PROVE  HistorySound
<1>1. /\ DeltasOK(accepted) /\ Books(rec) /\ rec \in Recorders
      /\ Truthful(Chronicle(rec, <<>>), rec.aggregateEvictions, accepted, Frontier(previous), alive, now)
  BY DEF RecorderInv, Sound, Books
<1>2. TypeOK
  BY DEF RecorderInv
<1>3. AccountExact
  BY <1>1, EverythingFields, AccountHolds DEF AccountExact
<1>4. BudgetHeld
  BY DEF RecorderInv, Affordable, BudgetHeld
<1>5. CountsConserved
  <2> DEFINE c == Chronicle(rec, <<>>)
             A == Ledger(Rollups(rec))
             B == Ledger(Append(rec.sealed, rec.active))
  <2>1. <<>> \in Seq(Aggregates)
    OBVIOUS
  <2>2. /\ Rollups(rec) \in Seq(Segments) /\ Append(rec.sealed, rec.active) \in Seq(Segments)
        /\ A \in Seq(Aggregates) /\ B \in Seq(Aggregates) /\ c \in Seq(Aggregates)
    BY <1>1, <2>1, ChronicleFields, Zenon
  <2>3. Ledger(Everything(rec)) = c
    <3>1. Ledger(Everything(rec)) = A \o B
      BY <2>2, LedgerConcat DEF Everything
    <3>2. c = A \o (<<>> \o B)
      BY DEF Chronicle, Raws
    <3>3. <<>> \o B = B
      BY <2>2, ConcatEmptySeq
    <3> QED
      BY <3>1, <3>2, <3>3
  <2>4. Ordered(c) /\ Counted(c, accepted) /\ (rec.aggregateEvictions = 0 => Complete(c, accepted, now))
    BY <1>1 DEF Truthful, Recorded
  <2> HIDE DEF c
  <2>5. ASSUME rec.aggregateEvictions = 0, NEW a \in accepted, now - a.end < History
        PROVE  Cardinality({i \in DOMAIN c : Covers(c[i], a)}) = 1
    <3>1. PICK i \in DOMAIN c : Covers(c[i], a)
      BY <2>4, <2>5 DEF Complete
    <3> QED
      BY <1>1, <2>2, <2>4, <3>1, CoveredOnce, Zenon
  <2>6. \A i \in DOMAIN c : c[i].count = Cardinality({a \in accepted : Covers(c[i], a)})
    BY <2>4, Zenon DEF Counted
  <2> QED
    BY <2>3, <2>5, <2>6, Zenon DEF CountsConserved
<1> QED
  BY <1>2, <1>3, <1>4, <1>5 DEF HistorySound

LEMMA InitInv ==
    ASSUME Init, RecorderAssumption
    PROVE  RecorderInv
<1> DEFINE a == Retained(1)
<1>1. /\ now = 1 /\ previous = 1 /\ alive = Families /\ accepted = {}
      /\ rec = [bytes |-> SegmentCost, rollups |-> <<>>, rollupActive |-> NoRollup,
                rollupBucket |-> 0, sealed |-> <<>>, active |-> a,
                drops |-> 0, evictions |-> 0, aggregateEvictions |-> 0]
  BY DEF Init
<1>2. SegmentCost \in Nat /\ SegmentCost <= MaxBytes /\ MaxBytes \in Nat /\ MaxTime \in Nat \ {0}
      /\ EventSize \in Nat /\ EventText \in Nat /\ MetricSize \in Nat /\ FamilyText \in Nat
      /\ SegmentInterval \in Nat \ {0}
  BY DEF RecorderAssumption
<1>3. /\ a.start = 1 /\ a.end = 1 /\ a.min = 1 /\ a.max = 1 /\ a.bytes = SegmentCost
      /\ a.events = <<>> /\ a.ecap = 0 /\ a.metrics = <<>> /\ a.mcap = 0
  BY DEF Retained
<1>4. a \in Segments
  BY <1>2 DEF Retained, Segments
<1> HIDE DEF a
<1>5. /\ rec \in Recorders /\ rec.bytes = SegmentCost /\ rec.rollups = <<>> /\ rec.rollupActive = NoRollup
      /\ rec.sealed = <<>> /\ rec.active = a /\ rec.aggregateEvictions = 0
  BY <1>1, <1>2, <1>4 DEF Recorders
<1>6. RawOK(a)
  <2>1. Held(a, FamilyText) = SegmentCost + 0 * EventSize + 0 * EventText + 0 * MetricSize + 0 * FamilyText
    BY <1>3 DEF Held
  <2>2. 0 * EventSize = 0 /\ 0 * EventText = 0 /\ 0 * MetricSize = 0 /\ 0 * FamilyText = 0
    BY <1>2
  <2>3. a.bytes = Held(a, FamilyText)
    BY <1>2, <1>3, <2>1, <2>2
  <2>4. Within(a)
    BY <1>3 DEF Within
  <2> QED
    BY <1>3, <2>3, <2>4 DEF RawOK
<1>7. Books(rec)
  <2>1. Accounted(rec)
    <3>1. <<>> \in Seq(Segments)
      OBVIOUS
    <3>2. Total(<<>>) = 0
      BY <3>1, TotalInt
    <3>3. Rolled(rec) = 0
      BY <1>5 DEF Rolled
    <3> QED
      BY <1>2, <1>3, <1>5, <3>2, <3>3 DEF Accounted
  <2>2. Following(rec)
    BY <1>5 DEF Following
  <2>3. a.end <= a.start + SegmentInterval
    BY <1>2, <1>3
  <2> QED
    BY <1>5, <1>6, <2>1, <2>2, <2>3 DEF Books
<1>8. Raws(rec, <<>>) = <<>> /\ Chronicle(rec, <<>>) = <<>>
  <2>1. Rollups(rec) = <<>>
    BY <1>5 DEF Rollups
  <2>2. Append(rec.sealed, rec.active) = <<a>>
    BY <1>5
  <2>3. Ledger(<<a>>) = <<>> /\ Ledger(Rollups(rec)) = <<>>
    BY <1>3, <1>4, <2>1, LedgerOne, LedgerEmpty
  <2>4. <<>> \o <<>> = <<>>
    OBVIOUS
  <2> QED
    BY <2>2, <2>3, <2>4 DEF Raws, Chronicle
<1>9. Advancing(rec, <<>>)
  BY <1>8 DEF Advancing
<1>10. Roomy(rec)
  BY <1>5 DEF Roomy
<1>11. Truthful(Chronicle(rec, <<>>), rec.aggregateEvictions, accepted, Frontier(previous), alive, now)
  <2> DEFINE c == <<>>
  <2>1. DOMAIN c = {}
    OBVIOUS
  <2>2. Chronicle(rec, <<>>) = c
    BY <1>8
  <2> HIDE DEF c
  <2>3. Ordered(c) /\ Counted(c, accepted) /\ Aligned(c, accepted)
    BY <2>1 DEF Ordered, Counted, Aligned
  <2>4. Reached(c, accepted, Frontier(previous)) /\ Unbroken(c, Frontier(previous), alive)
    BY <1>1, <2>1 DEF Reached, Unbroken
  <2>5. Complete(c, accepted, now)
    BY <1>1 DEF Complete
  <2> QED
    BY <2>2, <2>3, <2>4, <2>5 DEF Truthful, Recorded
<1>12. Contiguous(rec.active, Frontier(previous), alive)
  <2>1. rec.active.metrics = <<>> /\ DOMAIN rec.active.metrics = {}
    BY <1>3, <1>5
  <2> QED
    BY <2>1 DEF Contiguous
<1>13. DeltasOK(accepted)
  BY <1>1, FS_EmptySet DEF DeltasOK
<1>14. Sound(rec, <<>>, accepted, Frontier(previous), alive, now)
  BY <1>7, <1>9, <1>10, <1>11, <1>12 DEF Sound
<1>15. Timely(rec, now) /\ Affordable(rec)
  BY <1>1, <1>2, <1>3, <1>5 DEF Timely, Affordable
<1>16. Lasting(rec, accepted, previous, alive, now)
  BY <1>13, <1>14, <1>15 DEF Lasting
<1>17. now \in 1..MaxTime /\ previous \in 1..now /\ alive \subseteq Families /\ Times(accepted)
  BY <1>1, <1>2 DEF Times
<1>18. TypeOK
  BY <1>16, <1>17, LastingTyped DEF TypeOK, Times
<1> QED
  BY <1>13, <1>14, <1>15, <1>18 DEF RecorderInv, Timely

LEMMA NextInv ==
    ASSUME RecorderInv, [Next]_vars, RecorderAssumption
    PROVE  RecorderInv' /\ (rec'.aggregateEvictions > rec.aggregateEvictions => rec'.sealed = <<>>)
<1>1. CASE Query
  BY <1>1, QueryInv
<1>2. CASE Detail
  BY <1>2, DetailInv
<1>3. CASE Poll
  BY <1>3, PollInv
<1>4. CASE UNCHANGED vars
  <2>1. /\ rec' = rec /\ now' = now /\ previous' = previous /\ alive' = alive /\ accepted' = accepted
    BY <1>4 DEF vars
  <2>2. now \in 1..MaxTime /\ previous \in 1..now /\ alive \subseteq Families /\ Times(accepted)
        /\ Lasting(rec, accepted, previous, alive, now) /\ rec \in Recorders
    BY InvFields DEF Lasting, RecorderInv, TypeOK
  <2>3. RecorderInv'
    BY <2>1, <2>2, LastingInv
  <2>4. ~(rec.aggregateEvictions > rec.aggregateEvictions)
    <3>1. rec.aggregateEvictions \in Nat
      BY <2>2, RecorderFields
    <3> QED
      BY <3>1
  <2> QED
    BY <2>1, <2>3, <2>4
<1> QED
  BY <1>1, <1>2, <1>3, <1>4 DEF Next

(* The inductive invariant of the recorder: the books of every segment, the*)
(* order of the segments and of the aggregates, and how the aggregates     *)
(* follow the collections that were accepted.                              *)
THEOREM RecorderInvariant ==
    ASSUME RecorderAssumption
    PROVE  Spec => []RecorderInv
<1>1. Init => RecorderInv
  BY InitInv
<1>2. RecorderInv /\ [Next]_vars => RecorderInv'
  BY NextInv
<1> QED
  BY <1>1, <1>2, PTL DEF Spec

(* Recorder.Event, Metric and advance (recorder.go), for any number of     *)
(* sensors, budget, intervals and struct sizes, any clock, any delay of the*)
(* events and any sensors that fail: the byte account is what the retained *)
(* slices hold, element by element, and never exceeds the budget; folding  *)
(* the oldest segments neither loses nor repeats an aggregate, and unless a*)
(* roll-up was evicted every accepted one younger than the history is in   *)
(* exactly one retained metric.                                            *)
THEOREM HistoryKept ==
    ASSUME RecorderAssumption
    PROVE  Spec => []HistorySound
<1>1. RecorderInv => HistorySound
  BY HistoryHolds
<1> QED
  BY <1>1, RecorderInvariant, PTL

(* room (recorder.go): a roll-up is evicted only in a step that leaves no  *)
(* sealed segment to fold.                                                 *)
THEOREM DetailBeforeRollups ==
    ASSUME RecorderAssumption
    PROVE  Spec => RollupsLast
<1>1. RecorderInv /\ [Next]_vars =>
          [rec'.aggregateEvictions > rec.aggregateEvictions => rec'.sealed = <<>>]_vars
  BY NextInv
<1> QED
  BY <1>1, RecorderInvariant, PTL DEF Spec, RollupsLast
=============================================================================
