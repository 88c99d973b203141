------------------------- MODULE ObservationProofs -------------------------
(***************************************************************************)
(* Proofs about what is made of observations: the events decoded from the  *)
(* wire, for every kernel signature, socket, packet and size of the ring;  *)
(* the clocks that date them, for every threshold, preemption and sequence *)
(* of steps of the wall clock; the processes they are attributed to, for   *)
(* every set of PIDs and cgroups and every size of the cache; the first    *)
(* coincidence of a timeline, for every window; and the verdict of a       *)
(* report, for every set of enabled sensors and every length of the        *)
(* window.                                                                 *)
(***************************************************************************)
EXTENDS EventDecode, ProcessMetadata, ClockTracker, Correlation, Assessment, SequenceTheorems, TLAPS

-----------------------------------------------------------------------------
(* The clocks.                                                             *)
Samples == [boot : Int, wall : Int, span : Int, offset : Int]
Samplers == [pc : {"idle", "first", "wall", "last", "observe", "failed"}, attempt : 1..4,
             first : Int, wall : Int, offset : Int, best : Samples, spans : SUBSET Int]

ClockTypes ==
    /\ boot \in 0..MaxBoot /\ offset \in Int /\ loopNow \in Nat
    /\ sampler \in Samplers /\ last \in Samples
    /\ seen.change \in Int /\ seen.spans \in Int

(* The wall clock was read inside the bracket, so half of it bounds how    *)
(* far the sample's offset is from the true one at that time.              *)
Bracketed(s) ==
    /\ s.span >= 0 /\ s.wall - s.boot - s.offset <= s.span - s.span \div 2
    /\ s.boot + s.offset - s.wall <= s.span \div 2

(* The loop's time is behind everything the sampler has read.              *)
InOrder ==
    /\ last.boot <= loopNow /\ loopNow <= boot
    /\ sampler.pc \in {"wall", "last"} => loopNow <= sampler.first /\ sampler.first <= boot
    /\ sampler.spans # {} => loopNow <= sampler.best.boot /\ sampler.best.boot <= boot

(* The attempts so far, and the best of them.                              *)
Attempts ==
    /\ sampler.pc # "failed"
    /\ sampler.pc \in {"first", "wall", "last"} => sampler.attempt <= 3
    /\ sampler.pc = "last" =>
         sampler.first <= sampler.wall - sampler.offset /\ sampler.wall - sampler.offset <= boot
    /\ sampler.pc = "idle" => sampler.spans = {}
    /\ sampler.pc = "observe" => sampler.spans # {}
    /\ sampler.spans = {} => sampler.best.span = MaxBoot + 1
    /\ sampler.spans # {} =>
         /\ sampler.best.span \in sampler.spans /\ Bracketed(sampler.best)
         /\ \A y \in sampler.spans : sampler.best.span <= y

ClockInv ==
    /\ ClockTypes /\ Bracketed(last) /\ InOrder /\ Attempts
    /\ StepsDetected /\ ShortestSample

LEMMA Halves ==
    ASSUME NEW x \in Int
    PROVE  x \div 2 \in Int /\ 2 * (x \div 2) <= x /\ x <= 2 * (x \div 2) + 1
  OBVIOUS

LEMMA ClockStart ==
    ASSUME ClockAssumption
    PROVE  /\ Start \in Samplers /\ Start.spans = {} /\ Start.pc = "first"
           /\ Start.attempt = 1 /\ Start.best.span = MaxBoot + 1
           /\ [Start EXCEPT !.pc = "idle"] \in Samplers
           /\ [Start EXCEPT !.pc = "idle"].spans = {}
           /\ [Start EXCEPT !.pc = "idle"].pc = "idle"
           /\ [Start EXCEPT !.pc = "idle"].best.span = MaxBoot + 1
  BY DEF Start, NoSample, None, ClockAssumption, Samples, Samplers

(* A change between two bracketed samples is off by at most half of both   *)
(* brackets.                                                               *)
LEMMA ChangeBounded ==
    ASSUME NEW s \in Samples, NEW t \in Samples, Bracketed(s), Bracketed(t)
    PROVE  /\ (s.wall - t.wall) - (s.boot - t.boot)
                 <= s.offset - t.offset + (s.span + t.span + 2) \div 2
           /\ s.offset - t.offset
                 <= (s.wall - t.wall) - (s.boot - t.boot) + (s.span + t.span + 2) \div 2
           /\ (s.span + t.span + 2) \div 2 \in Int
  <1> DEFINE a == s.span \div 2
             b == t.span \div 2
             c == (s.span + t.span + 2) \div 2
  <1>1. s.span \in Int /\ t.span \in Int /\ s.wall \in Int /\ t.wall \in Int /\ s.boot \in Int
        /\ t.boot \in Int /\ s.offset \in Int /\ t.offset \in Int
    BY DEF Samples
  <1>2. a \in Int /\ 2 * a <= s.span /\ s.span <= 2 * a + 1
    BY <1>1, Halves
  <1>3. b \in Int /\ 2 * b <= t.span /\ t.span <= 2 * b + 1
    BY <1>1, Halves
  <1>4. c \in Int /\ 2 * c <= s.span + t.span + 2 /\ s.span + t.span + 2 <= 2 * c + 1
    BY <1>1, Halves
  <1>5. /\ s.span >= 0 /\ s.wall - s.boot - s.offset <= s.span - a /\ s.boot + s.offset - s.wall <= a
        /\ t.span >= 0 /\ t.wall - t.boot - t.offset <= t.span - b /\ t.boot + t.offset - t.wall <= b
    BY DEF Bracketed
  <1> HIDE DEF a, b, c
  <1>6. /\ (s.wall - t.wall) - (s.boot - t.boot) <= s.offset - t.offset + c
        /\ s.offset - t.offset <= (s.wall - t.wall) - (s.boot - t.boot) + c
        /\ c \in Int /\ c >= 0
    BY <1>1, <1>2, <1>3, <1>4, <1>5
  <1> QED
    BY <1>6 DEF c

LEMMA ClockInitial ==
    ASSUME ClockAssumption, ClockInit
    PROVE  ClockInv
  <1>1. /\ boot = 0 /\ offset = 0 /\ loopNow = 0 /\ sampler = [Start EXCEPT !.pc = "idle"]
        /\ last = [boot |-> 0, wall |-> 0, span |-> 0, offset |-> 0]
        /\ seen = [detected |-> FALSE, change |-> 0, spans |-> 0, least |-> TRUE]
    BY DEF ClockInit
  <1>2. sampler \in Samplers /\ sampler.pc = "idle" /\ sampler.spans = {} /\ sampler.best.span = MaxBoot + 1
    BY <1>1, ClockStart
  <1>3. ClockTypes
    BY <1>1, <1>2 DEF ClockTypes, Samples, ClockAssumption
  <1>4. Bracketed(last) /\ InOrder /\ Attempts
    BY <1>1, <1>2 DEF Bracketed, InOrder, Attempts
  <1>5. StepsDetected /\ ShortestSample
    BY <1>1 DEF StepsDetected, ShortestSample, Abs, ClockAssumption
  <1> QED
    BY <1>3, <1>4, <1>5 DEF ClockInv

(* The steps that leave the sampler's last observation as it was.          *)
LEMMA ClockFrame ==
    ASSUME ClockInv, UNCHANGED <<last, seen>>, ClockTypes', InOrder', Attempts'
    PROVE  ClockInv'
  <1>1. Bracketed(last)' /\ StepsDetected' /\ ShortestSample'
    BY DEF ClockInv, Bracketed, StepsDetected, ShortestSample, Abs
  <1> QED
    BY <1>1 DEF ClockInv

LEMMA TimeStep ==
    ASSUME ClockAssumption, ClockInv,
           BootTick \/ (\E d \in Steps : StepWall(d)) \/ ReadBoot
    PROVE  ClockInv' /\ loopNow <= loopNow'
  <1>1. UNCHANGED <<sampler, last, seen>>
    BY DEF BootTick, StepWall, ReadBoot
  <1>2. /\ boot' \in 0..MaxBoot /\ boot <= boot' /\ offset' \in Int
        /\ loopNow' = loopNow \/ (loopNow' = boot /\ sampler.pc = "idle")
    <2>1. boot \in 0..MaxBoot /\ MaxBoot \in Nat /\ offset \in Int /\ \A d \in Steps : d \in Int
      BY DEF ClockAssumption, ClockInv, ClockTypes
    <2>2. CASE BootTick
      BY <2>1, <2>2 DEF BootTick
    <2>3. CASE \E d \in Steps : StepWall(d)
      <3>1. PICK d \in Steps : StepWall(d)
        BY <2>3
      <3> QED
        BY <2>1, <3>1 DEF StepWall
    <2>4. CASE ReadBoot
      BY <2>1, <2>4 DEF ReadBoot
    <2> QED
      BY <2>2, <2>3, <2>4
  <1>3. ClockTypes'
    BY <1>1, <1>2 DEF ClockInv, ClockTypes
  <1>4. /\ sampler.first \in Int /\ sampler.best.boot \in Int /\ last.boot \in Int /\ boot \in Int
        /\ boot' \in Int /\ loopNow \in Int /\ sampler.wall \in Int /\ sampler.offset \in Int
    BY <1>2 DEF ClockInv, ClockTypes, Samplers, Samples
  <1>5. InOrder' /\ loopNow <= loopNow'
    BY <1>1, <1>2, <1>4 DEF ClockInv, InOrder, Attempts
  <1>6. Attempts'
    BY <1>1, <1>2, <1>4 DEF ClockInv, Attempts, Bracketed
  <1> QED
    BY <1>1, <1>3, <1>5, <1>6, ClockFrame

LEMMA BeginStep ==
    ASSUME ClockAssumption, ClockInv, Sample
    PROVE  ClockInv' /\ loopNow <= loopNow'
  <1>1. UNCHANGED <<boot, offset, last, loopNow, seen>> /\ sampler' = Start
    BY DEF Sample
  <1>2. /\ sampler' \in Samplers /\ sampler'.spans = {} /\ sampler'.pc = "first"
        /\ sampler'.attempt = 1 /\ sampler'.best.span = MaxBoot + 1
    BY <1>1, ClockStart
  <1>3. ClockTypes' /\ InOrder' /\ Attempts' /\ loopNow <= loopNow'
    BY <1>1, <1>2 DEF ClockInv, ClockTypes, InOrder, Attempts
  <1> QED
    BY <1>1, <1>3, ClockFrame

LEMMA ReadStep ==
    ASSUME ClockAssumption, ClockInv, ReadFirst \/ ReadWall
    PROVE  ClockInv' /\ loopNow <= loopNow'
  <1>1. UNCHANGED <<boot, offset, last, loopNow, seen>>
    BY DEF ReadFirst, ReadWall
  <1>2. /\ boot \in Int /\ offset \in Int /\ loopNow \in Int /\ loopNow <= boot /\ sampler \in Samplers
    BY DEF ClockInv, ClockTypes, InOrder
  <1>3. /\ sampler' \in Samplers
        /\ sampler'.spans = sampler.spans /\ sampler'.best = sampler.best
        /\ sampler'.attempt = sampler.attempt
        /\ \/ sampler.pc = "first" /\ sampler'.pc = "wall" /\ sampler'.first = boot
           \/ /\ sampler.pc = "wall" /\ sampler'.pc = "last" /\ sampler'.first = sampler.first
              /\ sampler'.wall = boot + offset /\ sampler'.offset = offset
    <2>1. CASE ReadFirst
      BY <1>2, <2>1 DEF ReadFirst, Samplers
    <2>2. CASE ReadWall
      <3>1. boot + offset \in Int
        BY <1>2
      <3> QED
        BY <1>2, <2>2, <3>1 DEF ReadWall, Samplers
    <2> QED
      BY <2>1, <2>2
  <1>4. sampler.first \in Int
    BY <1>2 DEF Samplers
  <1>5. ClockTypes'
    BY <1>1, <1>3 DEF ClockInv, ClockTypes
  <1>6. InOrder' /\ loopNow <= loopNow'
    BY <1>1, <1>2, <1>3 DEF ClockInv, InOrder
  <1>7. Attempts'
    BY <1>1, <1>2, <1>3, <1>4 DEF ClockInv, Attempts, InOrder, Bracketed
  <1> QED
    BY <1>1, <1>5, <1>6, <1>7, ClockFrame

(* The third read closes the bracket; the shortest of the attempts is      *)
(* kept, and the first always is.                                          *)
LEMMA BracketStep ==
    ASSUME ClockAssumption, ClockInv, ReadLast
    PROVE  ClockInv' /\ loopNow <= loopNow'
  <1> DEFINE span == boot - sampler.first
             fresh == [boot |-> sampler.first + span \div 2, wall |-> sampler.wall,
                       span |-> span, offset |-> sampler.offset]
             best == IF span < sampler.best.span THEN fresh ELSE sampler.best
  <1>1. UNCHANGED <<boot, offset, last, loopNow, seen>> /\ sampler.pc = "last"
    BY DEF ReadLast
  <1>2. /\ boot \in Int /\ 0 <= boot /\ boot <= MaxBoot /\ MaxBoot \in Nat /\ loopNow \in Nat
        /\ sampler \in Samplers /\ sampler.first \in Int /\ sampler.wall \in Int /\ sampler.offset \in Int
        /\ sampler.best \in Samples /\ sampler.best.span \in Int /\ sampler.spans \subseteq Int
        /\ sampler.attempt \in 1..3
    BY <1>1 DEF ClockInv, ClockTypes, Samplers, Samples, Attempts, ClockAssumption
  <1>3. /\ loopNow <= sampler.first /\ sampler.first <= boot
        /\ sampler.first <= sampler.wall - sampler.offset /\ sampler.wall - sampler.offset <= boot
    BY <1>1 DEF ClockInv, InOrder, Attempts
  <1>4. PICK pc \in {"observe", "first"} :
            /\ sampler' = [sampler EXCEPT !.best = best, !.spans = @ \cup {span},
                                          !.attempt = @ + 1, !.pc = pc]
            /\ sampler.attempt = 3 => pc = "observe"
    <2> DEFINE p == IF Enough(best.span) THEN "observe" ELSE "first"
    <2>1. /\ sampler' = [sampler EXCEPT !.best = best, !.spans = @ \cup {span},
                                        !.attempt = @ + 1, !.pc = p]
      BY DEF ReadLast, Better, Midpoint
    <2>2. p \in {"observe", "first"} /\ (sampler.attempt = 3 => p = "observe")
      BY DEF Enough
    <2> HIDE DEF p
    <2> QED
      BY <2>1, <2>2
  <1>5. span \in Int /\ 0 <= span /\ span <= MaxBoot
    BY <1>2, <1>3
  <1>6. fresh \in Samples /\ fresh.span = span /\ Bracketed(fresh)
        /\ loopNow <= fresh.boot /\ fresh.boot <= boot
    <2> DEFINE half == span \div 2
    <2>1. half \in Int /\ 2 * half <= span /\ span <= 2 * half + 1
      BY <1>5, Halves
    <2>2. /\ fresh.boot = sampler.first + half /\ fresh.wall = sampler.wall
          /\ fresh.span = span /\ fresh.offset = sampler.offset
      OBVIOUS
    <2> HIDE DEF half
    <2>3. sampler.first + half \in Int
      BY <1>2, <2>1
    <2>4. fresh \in Samples
      BY <1>2, <1>5, <2>3 DEF Samples, half
    <2>5. loopNow <= fresh.boot /\ fresh.boot <= boot
      BY <1>2, <1>3, <1>5, <2>1, <2>2
    <2>6. /\ sampler.wall - (sampler.first + half) - sampler.offset <= span - half
          /\ (sampler.first + half) + sampler.offset - sampler.wall <= half
      BY <1>2, <1>3, <1>5, <2>1
    <2>7. Bracketed(fresh)
      BY <1>5, <2>2, <2>6 DEF Bracketed, half
    <2> QED
      BY <2>2, <2>4, <2>5, <2>7
  <1> HIDE DEF fresh, span
  <1>7. /\ best \in Samples /\ Bracketed(best) /\ loopNow <= best.boot /\ best.boot <= boot
        /\ best.span \in sampler.spans \cup {span}
        /\ \A y \in sampler.spans \cup {span} : best.span <= y
    <2>1. CASE span < sampler.best.span
      <3>1. best = fresh
        BY <2>1
      <3>2. \A y \in sampler.spans : span <= y
        BY <1>2, <1>5, <2>1 DEF ClockInv, Attempts
      <3> HIDE DEF best
      <3> QED
        BY <1>5, <1>6, <3>1, <3>2
    <2>2. CASE ~(span < sampler.best.span)
      <3>1. best = sampler.best
        BY <2>2
      <3>2. sampler.spans # {}
        BY <1>2, <1>5, <2>2 DEF ClockInv, Attempts
      <3>3. /\ sampler.best.span \in sampler.spans /\ Bracketed(sampler.best)
            /\ \A y \in sampler.spans : sampler.best.span <= y
            /\ loopNow <= sampler.best.boot /\ sampler.best.boot <= boot
        BY <3>2 DEF ClockInv, Attempts, InOrder
      <3> HIDE DEF best
      <3> QED
        BY <1>2, <1>5, <2>2, <3>1, <3>3
    <2> QED
      BY <2>1, <2>2
  <1> HIDE DEF best
  <1>8. /\ sampler' \in Samplers /\ sampler'.best = best /\ sampler'.spans = sampler.spans \cup {span}
        /\ sampler'.attempt = sampler.attempt + 1 /\ sampler'.pc = pc
    <2>1. sampler.attempt + 1 \in 1..4 /\ sampler.spans \cup {span} \in SUBSET Int
      BY <1>2, <1>5
    <2> QED
      BY <1>2, <1>4, <1>7, <2>1 DEF Samplers
  <1>9. ClockTypes'
    BY <1>1, <1>8 DEF ClockInv, ClockTypes
  <1>10. InOrder' /\ loopNow <= loopNow'
    BY <1>1, <1>2, <1>4, <1>7, <1>8 DEF ClockInv, InOrder
  <1>11. Attempts'
    BY <1>2, <1>4, <1>7, <1>8 DEF Attempts
  <1> QED
    BY <1>1, <1>9, <1>10, <1>11, ClockFrame

(* observe: the sample is never behind the last one, and the change it     *)
(* records is the true one within half of the two brackets.                *)
LEMMA ObserveStep ==
    ASSUME ClockAssumption, ClockInv, Observe
    PROVE  ClockInv' /\ loopNow <= loopNow'
  <1> DEFINE s == sampler.best
             change == (s.wall - last.wall) - (s.boot - last.boot)
             error == (s.span + last.span + 2) \div 2
  <1>1. sampler.pc = "observe" /\ UNCHANGED <<boot, offset>>
    BY DEF Observe
  <1>2. /\ s \in Samples /\ last \in Samples /\ loopNow \in Nat /\ sampler.spans # {}
        /\ s.boot \in Int /\ last.boot \in Int /\ s.span \in Int /\ last.span \in Int
        /\ s.wall \in Int /\ last.wall \in Int /\ s.offset \in Int /\ last.offset \in Int
    BY <1>1 DEF ClockInv, ClockTypes, Samplers, Samples, Attempts
  <1>3. last.boot <= loopNow /\ loopNow <= s.boot /\ s.boot <= boot
    BY <1>2 DEF ClockInv, InOrder
  <1>4. ~(s.boot < last.boot)
    BY <1>2, <1>3
  <1>5. /\ last' = s /\ loopNow' = s.boot /\ sampler' = [Start EXCEPT !.pc = "idle"]
        /\ seen' = [detected |-> Discontinuous(change), change |-> s.offset - last.offset,
                    spans |-> s.span + last.span, least |-> s.span = Min(sampler.spans)]
    BY <1>4 DEF Observe, LoopTime
  <1>6. Bracketed(s) /\ Bracketed(last)
    BY <1>2 DEF ClockInv, Attempts
  <1>7. change <= s.offset - last.offset + error /\ s.offset - last.offset <= change + error
        /\ error \in Int
    BY <1>2, <1>6, ChangeBounded
  <1>8. seen'.detected <=> (change > Threshold \/ change < -Threshold)
    BY <1>5 DEF Discontinuous
  <1>9. seen'.change = s.offset - last.offset /\ seen'.spans = s.span + last.span
    BY <1>5
  <1>10. StepsDetected'
    <2>1. Threshold \in Nat /\ change \in Int /\ s.offset - last.offset \in Int
      BY <1>2 DEF ClockAssumption
    <2>2. (seen'.spans + 2) \div 2 = error
      BY <1>2, <1>9
    <2> HIDE DEF change, error
    <2> QED
      BY <1>7, <1>8, <1>9, <2>1, <2>2 DEF StepsDetected, Abs
  <1>11. ShortestSample'
    <2>1. s.span \in sampler.spans /\ sampler.spans \subseteq Int /\ \A y \in sampler.spans : s.span <= y
      BY <1>2 DEF ClockInv, ClockTypes, Attempts, Samplers
    <2>2. s.span = Min(sampler.spans)
      BY <2>1 DEF Min
    <2> QED
      BY <1>5, <2>2 DEF ShortestSample
  <1>12. /\ sampler' \in Samplers /\ sampler'.pc = "idle" /\ sampler'.spans = {}
         /\ sampler'.best.span = MaxBoot + 1
    BY <1>5, ClockStart
  <1>13. seen'.change \in Int /\ seen'.spans \in Int
    BY <1>2, <1>9
  <1>14. ClockTypes'
    BY <1>1, <1>2, <1>3, <1>5, <1>12, <1>13 DEF ClockInv, ClockTypes
  <1>15. Bracketed(last)' /\ InOrder' /\ Attempts' /\ loopNow <= loopNow'
    BY <1>1, <1>2, <1>3, <1>5, <1>6, <1>12 DEF Bracketed, InOrder, Attempts
  <1> QED
    BY <1>10, <1>11, <1>14, <1>15 DEF ClockInv

LEMMA ClockStep ==
    ASSUME ClockAssumption, ClockInv, [ClockNext]_clockVars
    PROVE  ClockInv' /\ loopNow <= loopNow'
  <1>1. CASE UNCHANGED clockVars
    <2>1. UNCHANGED <<boot, offset, sampler, last, loopNow, seen>>
      BY <1>1 DEF clockVars
    <2>2. ClockTypes' /\ InOrder' /\ Attempts' /\ loopNow <= loopNow'
      BY <2>1 DEF ClockInv, ClockTypes, InOrder, Attempts, Bracketed
    <2> QED
      BY <2>1, <2>2, ClockFrame
  <1> QED
    BY <1>1, TimeStep, BeginStep, ReadStep, BracketStep, ObserveStep DEF ClockNext

(* observe and sampleClocks of internal/app/clock.go, for every threshold, *)
(* however long the process is preempted between the reads and whatever    *)
(* the wall clock is set to: the loop's time never goes back, the shortest *)
(* bracket is used, and a change of the wall clock is recorded exactly     *)
(* when it exceeds the threshold by more than half of both brackets.       *)
THEOREM ClockTruthful ==
    ASSUME ClockAssumption
    PROVE  ClockSpec => ClockSound
  <1>1. ClockInit => ClockInv
    BY ClockInitial
  <1>2. ClockInv /\ [ClockNext]_clockVars => ClockInv' /\ [SoundStep]_clockVars
    <2> SUFFICES ASSUME ClockInv, [ClockNext]_clockVars
                 PROVE  ClockInv' /\ [SoundStep]_clockVars
      OBVIOUS
    <2>1. ClockInv' /\ loopNow <= loopNow'
      BY ClockStep
    <2>2. /\ sampler'.pc # "failed" /\ sampler'.attempt \in 1..4 /\ boot' \in 0..MaxBoot
          /\ sampler'.pc \in {"idle", "first", "wall", "last", "observe", "failed"}
          /\ StepsDetected' /\ ShortestSample'
      BY <2>1 DEF ClockInv, ClockTypes, Samplers, Attempts
    <2>3. loopNow \in Int /\ loopNow' \in Int
      BY <2>1 DEF ClockInv, ClockTypes
    <2>4. NowMonotone /\ ClockTypeOK'
      BY <2>1, <2>2, <2>3 DEF NowMonotone, ClockTypeOK
    <2> QED
      BY <2>1, <2>2, <2>4 DEF SoundStep
  <1> QED
    BY <1>1, <1>2, PTL DEF ClockSpec, ClockSound

-----------------------------------------------------------------------------
(* The process metadata.                                                   *)
Keys == [pid : Pids, start : Nat \ {0}, cgroup : Paths]
CacheEntries == [key : Keys, path : Paths \cup {NoPath}]
Enrichments == [pc : {"idle", "before", "cgroup", "after"}, key : Keys \cup {Idle.key},
                before : Int, path : Paths \cup {NoPath}]

MetadataTypes ==
    /\ now \in Nat \ {0}
    /\ procs \in [Pids -> [start : Nat, cgroup : Paths \cup {NoPath}]]
    /\ was \subseteq Pids \X (Nat \ {0}) \X Paths
    /\ steady \subseteq Pids \X (Nat \ {0})
    /\ pending \in Seq(Keys) /\ lru \in Seq(CacheEntries) /\ enrich \in Enrichments

(* Two processes that had one PID started in different ticks, the live one *)
(* is on record, and a steady one is live and has had one cgroup.          *)
History ==
    /\ \A v, w \in was : v[1] = w[1] /\ v[2] \div Tick = w[2] \div Tick => v[2] = w[2]
    /\ \A p \in Pids : procs[p].start # 0 => <<p, procs[p].start, procs[p].cgroup>> \in was
    /\ \A p \in Pids, s \in Nat : <<p, s>> \in steady =>
         procs[p].start = s /\ \A c \in Paths : <<p, s, c>> \in was => c = procs[p].cgroup

Known(k) == k \in Keys /\ <<k.pid, k.start, k.cgroup>> \in was

(* Why a path can be missing, with F for the failures counted.             *)
CountedIn(k, F) == ~unified \/ \E f \in F : f[1] = k
ExcusedBy(k, F) == ~unified \/ <<k, "read">> \in F \/ (k.cgroup \in LongPaths /\ <<k, "long">> \in F)

(* What is promised of a cache entry and of a detail handed on.            *)
Warranted(k, path, F) ==
    /\ path # NoPath => <<k.pid, k.start, path>> \in was
    /\ path = NoPath => CountedIn(k, F)
    /\ Identity(k) \in steady =>
         (path = NoPath /\ ExcusedBy(k, F)) \/ (path = k.cgroup /\ path \notin LongPaths)

Truthful(k, path) == Warranted(k, path, failures)

Ring == \A i \in 1..Len(pending) : Known(pending[i])

Cache ==
    /\ Len(lru) <= Limit
    /\ \A i \in 1..Len(lru) : Known(lru[i].key) /\ Truthful(lru[i].key, lru[i].path)
    /\ \A i, j \in 1..Len(lru) : lru[i].key = lru[j].key => i = j

(* The reads of /proc so far.  A path that was read is that of the process *)
(* asked for, if that one is still there: a later one would have another   *)
(* tick.                                                                   *)
Enriching ==
    LET k == enrich.key IN
    enrich.pc # "idle" =>
        /\ Known(k) /\ \A i \in 1..Len(lru) : lru[i].key # k
        /\ enrich.pc \in {"cgroup", "after"} => enrich.before = k.start \div Tick
        /\ enrich.pc = "after" =>
             /\ enrich.path \in Paths
             /\ procs[k.pid].start # 0 /\ procs[k.pid].start \div Tick = k.start \div Tick =>
                  <<k.pid, k.start, enrich.path>> \in was
             /\ Identity(k) \in steady => enrich.path = k.cgroup

HandedOn == out = Nothing \/ (Known(out.key) /\ Truthful(out.key, out.path))

MetadataInv == MetadataTypes /\ History /\ Ring /\ Cache /\ Enriching /\ HandedOn

(* Moving an entry of the cache to the front.                              *)
Fronted(s, i) == <<s[i]>> \o RemoveAt(s, i)

LEMMA MoveToFront ==
    ASSUME NEW S, NEW s \in Seq(S), NEW i \in 1..Len(s)
    PROVE  /\ Fronted(s, i) \in Seq(S) /\ Len(Fronted(s, i)) = Len(s)
           /\ Fronted(s, i)[1] = s[i]
           /\ \A j \in 2..Len(s) : Fronted(s, i)[j] = IF j <= i THEN s[j - 1] ELSE s[j]
  <1> DEFINE t == Fronted(s, i)
             a == SubSeq(s, 1, i - 1)
             b == SubSeq(s, i + 1, Len(s))
  <1>1. a \in Seq(S) /\ Len(a) = i - 1 /\ \A j \in 1..(i - 1) : a[j] = s[j]
    OBVIOUS
  <1>2. b \in Seq(S) /\ Len(b) = Len(s) - i /\ \A j \in 1..(Len(s) - i) : b[j] = s[i + j]
    OBVIOUS
  <1>3. t = <<s[i]>> \o (a \o b)
    BY DEF Fronted, RemoveAt
  <1> HIDE DEF a, b, t
  <1>4. /\ a \o b \in Seq(S) /\ Len(a \o b) = Len(s) - 1
        /\ \A j \in 1..(Len(s) - 1) : (a \o b)[j] = IF j <= i - 1 THEN s[j] ELSE s[j + 1]
    <2>1. /\ a \o b \in Seq(S) /\ Len(a \o b) = Len(a) + Len(b)
          /\ \A j \in 1..(Len(a) + Len(b)) :
               (a \o b)[j] = IF j <= Len(a) THEN a[j] ELSE b[j - Len(a)]
      BY <1>1, <1>2, ConcatProperties
    <2>2. Len(s) \in Nat
      BY LenProperties
    <2> QED
      BY <1>1, <1>2, <2>1, <2>2
  <1> DEFINE r == a \o b
  <1>5. t = <<s[i]>> \o r /\ r \in Seq(S) /\ Len(r) = Len(s) - 1
        /\ \A j \in 1..(Len(s) - 1) : r[j] = IF j <= i - 1 THEN s[j] ELSE s[j + 1]
    BY <1>3, <1>4
  <1> HIDE DEF r
  <1>6. t \in Seq(S) /\ Len(t) = Len(s) /\ t[1] = s[i] /\ \A j \in 2..Len(s) : t[j] = r[j - 1]
    <2> DEFINE h == <<s[i]>>
    <2>1. h \in Seq(S) /\ Len(h) = 1 /\ h[1] = s[i]
      BY ElementOfSeq
    <2>2. t = h \o r
      BY <1>5
    <2> HIDE DEF h
    <2>3. /\ h \o r \in Seq(S) /\ Len(h \o r) = Len(h) + Len(r)
          /\ \A j \in 1..(Len(h) + Len(r)) :
               (h \o r)[j] = IF j <= Len(h) THEN h[j] ELSE r[j - Len(h)]
      BY <1>5, <2>1, ConcatProperties
    <2>4. Len(s) \in Nat
      BY LenProperties
    <2>5. Len(h) + Len(r) = Len(s) /\ 1 \in 1..Len(s)
      BY <1>5, <2>1, <2>4
    <2>6. t[1] = s[i]
      BY <2>1, <2>2, <2>3, <2>5
    <2>7. ASSUME NEW j \in 2..Len(s) PROVE t[j] = r[j - 1]
      <3>1. j \in 1..(Len(h) + Len(r)) /\ ~(j <= Len(h)) /\ j - Len(h) = j - 1
        BY <2>1, <2>4, <2>5
      <3> QED
        BY <2>2, <2>3, <3>1
    <2> QED
      BY <2>2, <2>3, <2>5, <2>6, <2>7
  <1>7. /\ t \in Seq(S) /\ Len(t) = Len(s) /\ t[1] = s[i]
        /\ \A j \in 2..Len(s) : t[j] = IF j <= i THEN s[j - 1] ELSE s[j]
    BY <1>5, <1>6
  <1> QED
    BY <1>7 DEF t

(* A new entry at the front of the bounded cache.                          *)
Inserted(s, x) == Evicted(<<x>> \o s)

IsInserted(t, s, x, S) ==
    /\ t \in Seq(S) /\ Len(t) <= Limit /\ Len(t) <= Len(s) + 1 /\ Len(t) >= 1 /\ t[1] = x
    /\ \A j \in 2..Len(t) : t[j] = s[j - 1]

LEMMA InsertBounded ==
    ASSUME Limit \in Nat \ {0}, NEW S, NEW s \in Seq(S), NEW x \in S
    PROVE  IsInserted(Inserted(s, x), s, x, S)
  <1> DEFINE t == Inserted(s, x)
             r == <<x>> \o s
             n == IF Len(r) > Limit THEN Limit ELSE Len(r)
  <1>1. r \in Seq(S) /\ Len(r) = Len(s) + 1 /\ r[1] = x /\ \A j \in 2..(Len(s) + 1) : r[j] = s[j - 1]
    OBVIOUS
  <1>2. t = SubSeq(r, 1, n)
    BY DEF Inserted, Evicted
  <1> HIDE DEF r, t
  <1>3. n \in 1..Len(r) /\ n <= Limit
    BY <1>1
  <1> HIDE DEF n
  <1>4. t \in Seq(S) /\ Len(t) = n /\ \A j \in 1..n : t[j] = r[j]
    <2>1. Len(r) \in Nat /\ \A j \in 1..n : r[j] \in S
      BY <1>1, <1>3, LenProperties, ElementOfSeq
    <2>2. /\ SubSeq(r, 1, n) \in Seq(S) /\ Len(SubSeq(r, 1, n)) = (IF 1 <= n THEN n - 1 + 1 ELSE 0)
          /\ \A j \in 1..(n - 1 + 1) : SubSeq(r, 1, n)[j] = r[1 + j - 1]
      BY <1>3, <2>1, SubSeqProperties
    <2>3. n \in Nat /\ 1 <= n /\ n - 1 + 1 = n
      BY <1>3, <2>1
    <2>4. ASSUME NEW j \in 1..n PROVE t[j] = r[j]
      <3>1. 1 + j - 1 = j
        OBVIOUS
      <3> QED
        BY <1>2, <2>2, <2>3, <3>1
    <2> QED
      BY <1>2, <2>2, <2>3, <2>4
  <1>5. /\ t \in Seq(S) /\ Len(t) <= Limit /\ Len(t) <= Len(s) + 1 /\ Len(t) >= 1 /\ t[1] = x
        /\ \A j \in 2..Len(t) : t[j] = s[j - 1]
    <2>1. n \in Nat /\ 1 <= n /\ n <= Limit /\ n <= Len(s) + 1 /\ Len(s) \in Nat
      BY <1>1, <1>3, LenProperties
    <2>2. t[1] = x
      BY <1>1, <1>4, <2>1
    <2>3. ASSUME NEW j \in 2..Len(t) PROVE t[j] = s[j - 1]
      <3>1. j \in 1..n /\ j \in 2..(Len(s) + 1)
        BY <1>4, <2>1
      <3> QED
        BY <1>1, <1>4, <3>1
    <2> QED
      BY <1>4, <2>1, <2>2, <2>3
  <1> QED
    BY <1>5 DEF t, IsInserted

(* What the host may do without disturbing the resolver: the record grows, *)
(* a known process is not made steady again, and none that is there in its *)
(* tick was not there before.                                              *)
LEMMA HostFrame ==
    ASSUME MetadataInv, MetadataTypes', History', Ring',
           UNCHANGED <<unified, lru, enrich, failures, out>>, was \subseteq was',
           \A k \in Keys : Known(k) /\ Identity(k) \in steady' => Identity(k) \in steady,
           \A k \in Keys : /\ Known(k) /\ procs'[k.pid].start # 0
                           /\ procs'[k.pid].start \div Tick = k.start \div Tick
                           => procs[k.pid].start = procs'[k.pid].start
    PROVE  MetadataInv'
  <1>1. \A k : Known(k) => k \in Keys /\ <<k.pid, k.start, k.cgroup>> \in was'
    BY DEF Known
  <1>2. \A k, path : Known(k) /\ Truthful(k, path) =>
            Known(k)' /\ Truthful(k, path)'
    BY <1>1 DEF Known, Truthful, Warranted, CountedIn, ExcusedBy, Identity
  <1>3. Cache'
    <2>1. /\ Len(lru) <= Limit
          /\ \A i \in 1..Len(lru) : Known(lru[i].key) /\ Truthful(lru[i].key, lru[i].path)
          /\ \A i, j \in 1..Len(lru) : lru[i].key = lru[j].key => i = j
      BY DEF MetadataInv, Cache
    <2>2. \A i \in 1..Len(lru) : Known(lru[i].key)' /\ Truthful(lru[i].key, lru[i].path)'
      <3> SUFFICES ASSUME NEW i \in 1..Len(lru)
                   PROVE  Known(lru[i].key)' /\ Truthful(lru[i].key, lru[i].path)'
        OBVIOUS
      <3>1. Known(lru[i].key) /\ Truthful(lru[i].key, lru[i].path) /\ lru' = lru
        BY <2>1
      <3> QED
        BY <1>2, <3>1
    <2> QED
      BY <2>1, <2>2 DEF Cache
  <1>4. HandedOn'
    BY <1>1, <1>2 DEF MetadataInv, HandedOn
  <1>5. Enriching'
    <2> DEFINE k == enrich.key
    <2> SUFFICES ASSUME enrich.pc # "idle" PROVE Enriching'
      BY DEF Enriching
    <2>1. /\ Known(k) /\ \A i \in 1..Len(lru) : lru[i].key # k
          /\ enrich.pc \in {"cgroup", "after"} => enrich.before = k.start \div Tick
          /\ enrich.pc = "after" =>
               /\ enrich.path \in Paths
               /\ procs[k.pid].start # 0 /\ procs[k.pid].start \div Tick = k.start \div Tick =>
                    <<k.pid, k.start, enrich.path>> \in was
               /\ Identity(k) \in steady => enrich.path = k.cgroup
      BY DEF MetadataInv, Enriching
    <2>2. Known(k)' /\ k' = k
      BY <1>1, <2>1 DEF Known
    <2>3. /\ procs'[k.pid].start # 0 /\ procs'[k.pid].start \div Tick = k.start \div Tick
             /\ enrich.pc = "after" => <<k.pid, k.start, enrich.path>> \in was'
      BY <1>1, <2>1
    <2>4. Identity(k) \in steady' /\ enrich.pc = "after" => enrich.path = k.cgroup
      BY <1>1, <2>1
    <2> QED
      BY <2>1, <2>2, <2>3, <2>4 DEF Enriching, Identity
  <1> QED
    BY <1>3, <1>4, <1>5 DEF MetadataInv

(* The ring as it was stays known while the record grows.                  *)
LEMMA RingKept ==
    ASSUME MetadataInv, was \subseteq was', pending' = pending
    PROVE  Ring'
  BY DEF MetadataInv, Ring, Known

LEMMA ForkStep ==
    ASSUME MetadataAssumption, MetadataInv, NEW p \in Pids, NEW c \in Paths, Fork(p, c)
    PROVE  MetadataInv'
  <1>1. /\ procs[p].start = 0 /\ \A q \in was : q[1] = p => q[2] \div Tick < now \div Tick
        /\ procs' = [procs EXCEPT ![p] = [start |-> now, cgroup |-> c]]
        /\ was' = was \cup {<<p, now, c>>} /\ steady' = steady \cup {<<p, now>>}
        /\ UNCHANGED <<now, unified, pending, lru, enrich, failures, out>>
    BY DEF Fork
  <1>2. now \in Nat \ {0} /\ now \div Tick \in Int /\ DOMAIN procs = Pids
    BY DEF MetadataInv, MetadataTypes, MetadataAssumption
  <1>3. procs'[p].start = now /\ procs'[p].cgroup = c /\ \A q \in Pids \ {p} : procs'[q] = procs[q]
    BY <1>1, <1>2
  <1>4. MetadataTypes'
    BY <1>1, <1>2 DEF MetadataInv, MetadataTypes
  <1>5. \A s, x : <<p, s, x>> \in was => s \div Tick < now \div Tick
    BY <1>1
  <1>6. \A s, x : <<p, s, x>> \in was => s # now /\ s \div Tick # now \div Tick
    BY <1>2, <1>5
  <1>7. History'
    <2>1. \A v, w \in was' : v[1] = w[1] /\ v[2] \div Tick = w[2] \div Tick => v[2] = w[2]
      BY <1>1, <1>2 DEF MetadataInv, History
    <2>2. \A q \in Pids : procs'[q].start # 0 => <<q, procs'[q].start, procs'[q].cgroup>> \in was'
      BY <1>1, <1>3 DEF MetadataInv, History
    <2>3. ASSUME NEW q \in Pids, NEW s \in Nat, <<q, s>> \in steady'
          PROVE  procs'[q].start = s /\ \A x \in Paths : <<q, s, x>> \in was' => x = procs'[q].cgroup
      <3>1. CASE q = p /\ s = now
        BY <1>1, <1>3, <1>6, <3>1
      <3>2. CASE ~(q = p /\ s = now)
        <4>1. <<q, s>> \in steady
          BY <1>1, <2>3, <3>2
        <4>2. procs[q].start = s /\ \A x \in Paths : <<q, s, x>> \in was => x = procs[q].cgroup
          BY <4>1 DEF MetadataInv, History
        <4>3. s # 0
          BY <4>1 DEF MetadataInv, MetadataTypes
        <4>4. q # p
          BY <1>1, <4>2, <4>3
        <4> QED
          BY <1>1, <1>3, <3>2, <4>2, <4>4
      <3> QED
        BY <3>1, <3>2
    <2> QED
      BY <2>1, <2>2, <2>3 DEF History
  <1>8. Ring' /\ was \subseteq was'
    BY <1>1, RingKept
  <1>9. \A k \in Keys : Known(k) /\ Identity(k) \in steady' => Identity(k) \in steady
    BY <1>1, <1>6 DEF Known, Identity
  <1>10. \A k \in Keys : /\ Known(k) /\ procs'[k.pid].start # 0
                         /\ procs'[k.pid].start \div Tick = k.start \div Tick
                         => procs[k.pid].start = procs'[k.pid].start
    BY <1>3, <1>6 DEF Known, Keys
  <1> QED
    BY <1>1, <1>4, <1>7, <1>8, <1>9, <1>10, HostFrame

LEMMA ExitStep ==
    ASSUME MetadataAssumption, MetadataInv, NEW p \in Pids, Exit(p)
    PROVE  MetadataInv'
  <1>1. /\ procs' = [procs EXCEPT ![p].start = 0] /\ steady' = steady \ {<<p, procs[p].start>>}
        /\ UNCHANGED <<now, was, unified, pending, lru, enrich, failures, out>>
    BY DEF Exit
  <1>2. procs \in [Pids -> [start : Nat, cgroup : Paths \cup {NoPath}]]
    BY DEF MetadataInv, MetadataTypes
  <1>3. procs'[p].start = 0 /\ procs'[p].cgroup = procs[p].cgroup
        /\ \A q \in Pids \ {p} : procs'[q] = procs[q]
    BY <1>1, <1>2
  <1>4. MetadataTypes'
    BY <1>1, <1>2 DEF MetadataInv, MetadataTypes
  <1>5. History'
    BY <1>1, <1>3 DEF MetadataInv, History
  <1>6. Ring' /\ was \subseteq was'
    BY <1>1, RingKept
  <1>7. \A k \in Keys : Known(k) /\ Identity(k) \in steady' => Identity(k) \in steady
    BY <1>1
  <1>8. \A k \in Keys : /\ Known(k) /\ procs'[k.pid].start # 0
                        /\ procs'[k.pid].start \div Tick = k.start \div Tick
                        => procs[k.pid].start = procs'[k.pid].start
    BY <1>3 DEF Keys
  <1> QED
    BY <1>1, <1>4, <1>5, <1>6, <1>7, <1>8, HostFrame

LEMMA MoveStep ==
    ASSUME MetadataAssumption, MetadataInv, NEW p \in Pids, NEW c \in Paths, Move(p, c)
    PROVE  MetadataInv'
  <1>1. /\ procs[p].start # 0 /\ procs' = [procs EXCEPT ![p].cgroup = c]
        /\ was' = was \cup {<<p, procs[p].start, c>>}
        /\ steady' = steady \ {<<p, procs[p].start>>}
        /\ UNCHANGED <<now, unified, pending, lru, enrich, failures, out>>
    BY DEF Move
  <1>2. procs \in [Pids -> [start : Nat, cgroup : Paths \cup {NoPath}]]
    BY DEF MetadataInv, MetadataTypes
  <1>3. /\ procs'[p].start = procs[p].start /\ procs'[p].cgroup = c /\ procs[p].start \in Nat \ {0}
        /\ \A q \in Pids \ {p} : procs'[q] = procs[q]
    BY <1>1, <1>2
  <1>4. MetadataTypes'
    BY <1>1, <1>2, <1>3 DEF MetadataInv, MetadataTypes
  <1>5. History'
    <2>1. <<p, procs[p].start, procs[p].cgroup>> \in was
      BY <1>1 DEF MetadataInv, History
    <2>2. \A v, w \in was' : v[1] = w[1] /\ v[2] \div Tick = w[2] \div Tick => v[2] = w[2]
      BY <1>1, <2>1 DEF MetadataInv, History
    <2>3. \A q \in Pids : procs'[q].start # 0 => <<q, procs'[q].start, procs'[q].cgroup>> \in was'
      BY <1>1, <1>3 DEF MetadataInv, History
    <2>4. \A q \in Pids, s \in Nat : <<q, s>> \in steady' =>
            procs'[q].start = s /\ \A x \in Paths : <<q, s, x>> \in was' => x = procs'[q].cgroup
      BY <1>1, <1>3 DEF MetadataInv, History
    <2> QED
      BY <2>2, <2>3, <2>4 DEF History
  <1>6. Ring' /\ was \subseteq was'
    BY <1>1, RingKept
  <1>7. \A k \in Keys : Known(k) /\ Identity(k) \in steady' => Identity(k) \in steady
    BY <1>1
  <1>8. \A k \in Keys : /\ Known(k) /\ procs'[k.pid].start # 0
                        /\ procs'[k.pid].start \div Tick = k.start \div Tick
                        => procs[k.pid].start = procs'[k.pid].start
    BY <1>3 DEF Keys
  <1> QED
    BY <1>1, <1>4, <1>5, <1>6, <1>7, <1>8, HostFrame

LEMMA DetailStep ==
    ASSUME MetadataAssumption, MetadataInv, NEW p \in Pids, Detail(p)
    PROVE  MetadataInv'
  <1> DEFINE k == [pid |-> p, start |-> procs[p].start, cgroup |-> procs[p].cgroup]
  <1>1. /\ procs[p].start # 0 /\ pending' = Append(pending, k)
        /\ UNCHANGED <<now, procs, was, steady, unified, lru, enrich, failures, out>>
    BY DEF Detail
  <1>2. <<p, procs[p].start, procs[p].cgroup>> \in was
    BY <1>1 DEF MetadataInv, History
  <1>3. Known(k)
    BY <1>2 DEF Known, Keys, MetadataInv, MetadataTypes
  <1> HIDE DEF k
  <1>4. pending \in Seq(Keys) /\ k \in Keys
    BY <1>3 DEF Known, MetadataInv, MetadataTypes
  <1>5. /\ pending' \in Seq(Keys) /\ Len(pending') = Len(pending) + 1
        /\ pending'[Len(pending) + 1] = k
        /\ \A i \in 1..Len(pending) : pending'[i] = pending[i]
    BY <1>1, <1>4
  <1>6. MetadataTypes' /\ History'
    BY <1>1, <1>5 DEF MetadataInv, MetadataTypes, History
  <1>7. Ring'
    <2>1. \A i \in 1..Len(pending') : Known(pending'[i])
      BY <1>3, <1>4, <1>5, LenProperties DEF MetadataInv, Ring
    <2> QED
      BY <1>1, <2>1 DEF Ring, Known
  <1> QED
    BY <1>1, <1>6, <1>7, HostFrame

LEMMA PassStep ==
    ASSUME MetadataInv, Pass \/ Cancel \/ UNCHANGED vars
    PROVE  MetadataInv'
  <1>1. UNCHANGED <<procs, was, steady, unified, pending, lru, enrich, failures, out>> /\ (now' = now \/ now' = now + 1)
    BY DEF Pass, Cancel, vars
  <1>2. MetadataTypes' /\ History'
    BY <1>1 DEF MetadataInv, MetadataTypes, History
  <1>3. Ring'
    BY <1>1, RingKept
  <1> QED
    BY <1>1, <1>2, <1>3, HostFrame

(* Counting more failures takes back no warrant.                           *)
LEMMA MoreFailures ==
    ASSUME NEW k, NEW path, NEW F, NEW G, F \subseteq G, Warranted(k, path, F)
    PROVE  Warranted(k, path, G)
  BY DEF Warranted, CountedIn, ExcusedBy

(* The resolver's own steps leave the processes and their record alone.    *)
LEMMA ResolverFrame ==
    ASSUME MetadataInv, UNCHANGED <<now, procs, was, steady, unified>>, failures \subseteq failures',
           pending' \in Seq(Keys), lru' \in Seq(CacheEntries), enrich' \in Enrichments,
           \A i \in 1..Len(pending') : Known(pending'[i]),
           Len(lru') <= Limit,
           \A i \in 1..Len(lru') :
               Known(lru'[i].key) /\ Warranted(lru'[i].key, lru'[i].path, failures'),
           \A i, j \in 1..Len(lru') : lru'[i].key = lru'[j].key => i = j,
           Enriching',
           out' = out \/ (Known(out'.key) /\ Warranted(out'.key, out'.path, failures'))
    PROVE  MetadataInv'
  <1>1. MetadataTypes' /\ History'
    BY DEF MetadataInv, MetadataTypes, History
  <1>2. Ring' /\ Cache'
    BY DEF Ring, Cache, Known, Truthful, Warranted, CountedIn, ExcusedBy
  <1>3. HandedOn'
    <2>1. CASE out' = out
      <3>1. CASE out = Nothing
        BY <2>1, <3>1 DEF HandedOn, Nothing, Idle
      <3>2. CASE Known(out.key) /\ Truthful(out.key, out.path)
        BY <2>1, <3>2, MoreFailures DEF HandedOn, Known, Truthful, Warranted, CountedIn, ExcusedBy
      <3> QED
        BY <3>1, <3>2 DEF MetadataInv, HandedOn
    <2>2. CASE Known(out'.key) /\ Warranted(out'.key, out'.path, failures')
      BY <2>2 DEF HandedOn, Known, Truthful, Warranted, CountedIn, ExcusedBy
    <2> QED
      BY <2>1, <2>2
  <1> QED
    BY <1>1, <1>2, <1>3 DEF MetadataInv

(* The detail at the head of the ring is known, and so is the rest.        *)
LEMMA RingTail ==
    ASSUME MetadataInv, pending # <<>>
    PROVE  /\ Known(Head(pending)) /\ Head(pending) \in Keys /\ Tail(pending) \in Seq(Keys)
           /\ \A i \in 1..Len(Tail(pending)) : Known(Tail(pending)[i])
  <1>1. pending \in Seq(Keys) /\ \A i \in 1..Len(pending) : Known(pending[i])
    BY DEF MetadataInv, MetadataTypes, Ring
  <1>2. /\ Tail(pending) \in Seq(Keys) /\ Len(Tail(pending)) = Len(pending) - 1
        /\ \A i \in 1..Len(Tail(pending)) : Tail(pending)[i] = pending[i + 1]
    BY <1>1, HeadTailProperties
  <1>3. Len(pending) \in Nat /\ Len(pending) >= 1 /\ Head(pending) = pending[1]
    BY <1>1
  <1>4. Known(Head(pending))
    BY <1>1, <1>3
  <1> QED
    BY <1>1, <1>2, <1>3, <1>4 DEF Known

(* The cache and its entries as the invariant has them.                    *)
LEMMA CacheFacts ==
    ASSUME MetadataInv
    PROVE  /\ lru \in Seq(CacheEntries) /\ Len(lru) \in Nat /\ Len(lru) <= Limit
           /\ \A i \in 1..Len(lru) : Known(lru[i].key) /\ Truthful(lru[i].key, lru[i].path)
           /\ \A i, j \in 1..Len(lru) : lru[i].key = lru[j].key => i = j
  BY LenProperties DEF MetadataInv, MetadataTypes, Cache

LEMMA HitStep ==
    ASSUME MetadataAssumption, MetadataInv, Hit
    PROVE  MetadataInv'
  <1>1. /\ enrich.pc = "idle" /\ pending # <<>> /\ pending' = Tail(pending)
        /\ UNCHANGED <<now, procs, was, steady, unified, enrich, failures>>
    BY DEF Hit
  <1>2. PICK i \in 1..Len(lru) :
            /\ lru' = <<lru[i]>> \o RemoveAt(lru, i)
            /\ out' = out \/ (out'.key = lru[i].key /\ out'.path = lru[i].path)
    <2>1. PICK i \in Cached(Head(pending)) :
              lru' = <<lru[i]>> \o RemoveAt(lru, i) /\ Handed(lru[i].key, lru[i].path)
      BY DEF Hit
    <2>2. i \in 1..Len(lru)
      BY DEF Cached
    <2>3. out' = out \/ (out'.key = lru[i].key /\ out'.path = lru[i].path)
      BY <2>1 DEF Handed
    <2> QED
      BY <2>1, <2>2, <2>3
  <1>3. /\ lru' \in Seq(CacheEntries) /\ Len(lru') = Len(lru) /\ lru'[1] = lru[i]
        /\ \A j \in 2..Len(lru) : lru'[j] = IF j <= i THEN lru[j - 1] ELSE lru[j]
    <2>1. lru' = Fronted(lru, i)
      BY <1>2 DEF Fronted
    <2> QED
      BY <2>1, CacheFacts, MoveToFront
  <1> DEFINE place(j) == IF j = 1 THEN i ELSE IF j <= i THEN j - 1 ELSE j
  <1>4. \A j \in 1..Len(lru') : place(j) \in 1..Len(lru) /\ lru'[j] = lru[place(j)]
    BY <1>3, CacheFacts
  <1>5. \A j, k \in 1..Len(lru') : place(j) = place(k) => j = k
    BY <1>3, CacheFacts
  <1> HIDE DEF place
  <1>6. Len(lru') <= Limit
    BY <1>3, CacheFacts
  <1>7. \A j \in 1..Len(lru') : Known(lru'[j].key) /\ Truthful(lru'[j].key, lru'[j].path)
    BY <1>4, CacheFacts
  <1>8. \A j, k \in 1..Len(lru') : lru'[j].key = lru'[k].key => j = k
    <2> SUFFICES ASSUME NEW j \in 1..Len(lru'), NEW k \in 1..Len(lru'), lru'[j].key = lru'[k].key
                 PROVE  j = k
      OBVIOUS
    <2>1. place(j) = place(k)
      BY <1>4, CacheFacts
    <2> QED
      BY <1>5, <2>1
  <1>9. Enriching' /\ enrich' \in Enrichments
    BY <1>1 DEF Enriching, MetadataInv, MetadataTypes
  <1>10. out' = out \/ (Known(out'.key) /\ Warranted(out'.key, out'.path, failures'))
    BY <1>1, <1>2, CacheFacts DEF Truthful
  <1>11. pending' \in Seq(Keys) /\ \A j \in 1..Len(pending') : Known(pending'[j])
    BY <1>1, RingTail
  <1>12. \A j \in 1..Len(lru') : Known(lru'[j].key) /\ Warranted(lru'[j].key, lru'[j].path, failures')
    BY <1>1, <1>7 DEF Truthful
  <1> QED
    BY <1>1, <1>3, <1>6, <1>8, <1>9, <1>10, <1>11, <1>12, ResolverFrame

LEMMA MissStep ==
    ASSUME MetadataAssumption, MetadataInv, Miss \/ Skip
    PROVE  MetadataInv'
  <1>1. /\ pending # <<>> /\ pending' = Tail(pending) /\ enrich.pc = "idle"
        /\ UNCHANGED <<now, procs, was, steady, unified, lru, failures, out>>
    BY DEF Miss, Skip
  <1>2. pending' \in Seq(Keys) /\ \A j \in 1..Len(pending') : Known(pending'[j])
    BY <1>1, RingTail
  <1>3. Enriching' /\ enrich' \in Enrichments
    <2>1. CASE Miss
      <3>1. enrich' = [Idle EXCEPT !.pc = "before", !.key = Head(pending)]
            /\ Cached(Head(pending)) = {}
        BY <2>1 DEF Miss
      <3>2. Known(Head(pending)) /\ Head(pending) \in Keys
        BY <1>1, RingTail
      <3>3. enrich'.pc = "before" /\ enrich'.key = Head(pending) /\ enrich' \in Enrichments
        <4>1. enrich' = [pc |-> "before", key |-> Head(pending), before |-> 0, path |-> NoPath]
          BY <3>1 DEF Idle
        <4> QED
          BY <3>2, <4>1 DEF Enrichments
      <3>4. \A j \in 1..Len(lru) : lru[j].key # Head(pending)
        BY <3>1 DEF Cached
      <3> QED
        BY <1>1, <3>2, <3>3, <3>4 DEF Enriching, Known
    <2>2. CASE Skip
      BY <1>1, <2>2 DEF Skip, Enriching, MetadataInv, MetadataTypes
    <2> QED
      BY <2>1, <2>2
  <1>4. \A j \in 1..Len(lru') : Known(lru'[j].key) /\ Warranted(lru'[j].key, lru'[j].path, failures')
    BY <1>1, CacheFacts DEF Truthful
  <1> QED
    BY <1>1, <1>2, <1>3, <1>4, CacheFacts, ResolverFrame

(* resolve returns a path that is true of the process asked for.           *)
LEMMA ResolvedStep ==
    ASSUME MetadataAssumption, MetadataInv, enrich.pc # "idle",
           NEW path \in Paths \cup {NoPath}, NEW reasons, Resolved(path, reasons),
           Warranted(enrich.key, path, failures')
    PROVE  MetadataInv'
  <1> DEFINE k == enrich.key
             e == [key |-> k, path |-> path]
  <1>1. Known(k) /\ k \in Keys /\ \A i \in 1..Len(lru) : lru[i].key # k
    BY DEF MetadataInv, Enriching, Known
  <1>2. e \in CacheEntries /\ e.key = k /\ e.path = path
    BY <1>1 DEF CacheEntries
  <1>3. /\ lru' = Evicted(<<e>> \o lru) /\ enrich' = Idle
        /\ out' = out \/ (out'.key = k /\ out'.path = path)
        /\ failures \subseteq failures' /\ UNCHANGED <<now, procs, was, steady, unified, pending>>
    BY DEF Resolved, Handed
  <1> HIDE DEF e
  <1>4. Limit \in Nat \ {0}
    BY DEF MetadataAssumption
  <1>5. /\ lru' \in Seq(CacheEntries) /\ Len(lru') <= Limit /\ Len(lru') <= Len(lru) + 1
        /\ Len(lru') >= 1 /\ lru'[1] = e /\ \A j \in 2..Len(lru') : lru'[j] = lru[j - 1]
    <2>1. lru' = Inserted(lru, e)
      BY <1>3 DEF Inserted
    <2> QED
      <3>1. lru \in Seq(CacheEntries) /\ e \in CacheEntries
        BY <1>2, CacheFacts
      <3>2. IsInserted(Inserted(lru, e), lru, e, CacheEntries)
        BY <1>4, <3>1, InsertBounded
      <3> QED
        BY <2>1, <3>2 DEF IsInserted
  <1>6. Len(lru') \in Nat /\ \A j \in 2..Len(lru') : j - 1 \in 1..Len(lru)
    BY <1>5, CacheFacts, LenProperties
  <1>7. \A j \in 1..Len(lru') : j = 1 \/ j \in 2..Len(lru')
    BY <1>6
  <1>8. \A j \in 1..Len(lru') : Known(lru'[j].key) /\ Warranted(lru'[j].key, lru'[j].path, failures')
    <2> SUFFICES ASSUME NEW j \in 1..Len(lru')
                 PROVE  Known(lru'[j].key) /\ Warranted(lru'[j].key, lru'[j].path, failures')
      OBVIOUS
    <2>1. CASE j = 1
      BY <1>1, <1>2, <1>5, <2>1
    <2>2. CASE j \in 2..Len(lru')
      <3>1. Known(lru[j - 1].key) /\ Warranted(lru[j - 1].key, lru[j - 1].path, failures)
        BY <1>6, <2>2, CacheFacts DEF Truthful
      <3> QED
        BY <1>3, <1>5, <2>2, <3>1, MoreFailures
    <2> QED
      BY <1>7, <2>1, <2>2
  <1>9. \A i, j \in 1..Len(lru') : lru'[i].key = lru'[j].key => i = j
    <2> SUFFICES ASSUME NEW i \in 1..Len(lru'), NEW j \in 1..Len(lru'), lru'[i].key = lru'[j].key
                 PROVE  i = j
      OBVIOUS
    <2>1. CASE i = 1 /\ j \in 2..Len(lru')
      BY <1>1, <1>2, <1>5, <1>6, <2>1
    <2>2. CASE j = 1 /\ i \in 2..Len(lru')
      BY <1>1, <1>2, <1>5, <1>6, <2>2
    <2>3. CASE i \in 2..Len(lru') /\ j \in 2..Len(lru')
      <3>1. lru[i - 1].key = lru[j - 1].key
        BY <1>5, <2>3
      <3>2. i - 1 = j - 1
        BY <1>6, <2>3, <3>1, CacheFacts
      <3> QED
        BY <2>3, <3>2
    <2> QED
      BY <1>7, <2>1, <2>2, <2>3
  <1>10. Enriching' /\ enrich' \in Enrichments
    BY <1>3 DEF Idle, Enriching, Enrichments
  <1>11. out' = out \/ (Known(out'.key) /\ Warranted(out'.key, out'.path, failures'))
    BY <1>1, <1>3
  <1>12. pending' \in Seq(Keys) /\ \A j \in 1..Len(pending') : Known(pending'[j])
    BY <1>3 DEF MetadataInv, MetadataTypes, Ring
  <1> QED
    BY <1>3, <1>5, <1>8, <1>9, <1>10, <1>11, <1>12, ResolverFrame

(* A further read of /proc: only the progress of Enrich changes.           *)
LEMMA ReadOnStep ==
    ASSUME MetadataInv, NEW progress \in Enrichments, ReadOn(progress), Enriching'
    PROVE  MetadataInv'
  <1>1. UNCHANGED <<now, procs, was, steady, unified, pending, lru, failures, out>> /\ enrich' = progress
    BY DEF ReadOn
  <1>2. pending' \in Seq(Keys) /\ \A j \in 1..Len(pending') : Known(pending'[j])
    BY <1>1 DEF MetadataInv, MetadataTypes, Ring
  <1>3. \A j \in 1..Len(lru') : Known(lru'[j].key) /\ Warranted(lru'[j].key, lru'[j].path, failures')
    BY <1>1, CacheFacts DEF Truthful
  <1> QED
    BY <1>1, <1>2, <1>3, CacheFacts, ResolverFrame

LEMMA EnrichFacts ==
    ASSUME MetadataAssumption, MetadataInv, enrich.pc # "idle"
    PROVE  /\ enrich \in Enrichments /\ enrich.key \in Keys /\ Known(enrich.key)
           /\ enrich.key.pid \in Pids /\ enrich.key.start \in Nat \ {0} /\ enrich.key.cgroup \in Paths
           /\ enrich.key.start \div Tick \in Nat /\ NoPath \notin Paths
           /\ procs[enrich.key.pid].start \in Nat
           /\ procs[enrich.key.pid].start \div Tick \in Nat
  <1>1. enrich \in Enrichments /\ enrich.key \in Keys /\ Known(enrich.key)
    BY DEF MetadataInv, MetadataTypes, Enriching, Known
  <1>2. enrich.key.pid \in Pids /\ enrich.key.start \in Nat \ {0} /\ enrich.key.cgroup \in Paths
    BY <1>1 DEF Keys
  <1>3. Tick \in Nat \ {0} /\ NoPath \notin Paths
    BY DEF MetadataAssumption
  <1>4. \A x \in Nat : x \div Tick \in Nat
    BY <1>3
  <1>5. procs[enrich.key.pid].start \in Nat
    BY <1>2 DEF MetadataInv, MetadataTypes
  <1> QED
    BY <1>1, <1>2, <1>3, <1>4, <1>5

(* A steady process is there, in its tick.                                 *)
LEMMA SteadyStat ==
    ASSUME MetadataAssumption, MetadataInv, enrich.pc # "idle", Identity(enrich.key) \in steady
    PROVE  /\ Stat(enrich.key.pid) = enrich.key.start \div Tick
           /\ procs[enrich.key.pid].start = enrich.key.start
           /\ procs[enrich.key.pid].cgroup = enrich.key.cgroup
  <1>1. enrich.key.pid \in Pids /\ enrich.key.start \in Nat \ {0} /\ enrich.key.cgroup \in Paths
        /\ <<enrich.key.pid, enrich.key.start, enrich.key.cgroup>> \in was
    BY EnrichFacts DEF Known
  <1>2. <<enrich.key.pid, enrich.key.start>> \in steady
    BY DEF Identity
  <1>3. procs[enrich.key.pid].start = enrich.key.start
        /\ procs[enrich.key.pid].cgroup = enrich.key.cgroup
    BY <1>1, <1>2 DEF MetadataInv, History
  <1> QED
    BY <1>1, <1>3 DEF Stat

(* A failure is counted, and excuses the missing path of a steady process  *)
(* if a read failed or the path is too long.                               *)
LEMMA UnresolvedStep ==
    ASSUME MetadataAssumption, MetadataInv, enrich.pc # "idle", NEW why, Resolved(NoPath, {why}),
           Identity(enrich.key) \in steady =>
               why = "read" \/ (why = "long" /\ enrich.key.cgroup \in LongPaths)
    PROVE  MetadataInv'
  <1>1. failures' = failures \cup {<<enrich.key, w>> : w \in {why}}
    BY DEF Resolved
  <1>2. <<enrich.key, why>> \in failures'
    BY <1>1
  <1>3. \E f \in failures' : f[1] = enrich.key
    BY <1>2
  <1>4. Warranted(enrich.key, NoPath, failures')
    BY <1>2, <1>3 DEF Warranted, CountedIn, ExcusedBy
  <1> QED
    BY <1>4, ResolvedStep

LEMMA ReadFailsStep ==
    ASSUME MetadataAssumption, MetadataInv, ReadFails
    PROVE  MetadataInv'
  <1>1. enrich.pc # "idle" /\ Resolved(NoPath, {"read"})
    BY DEF ReadFails
  <1> QED
    BY <1>1, UnresolvedStep

LEMMA StatBeforeStep ==
    ASSUME MetadataAssumption, MetadataInv, StatBefore
    PROVE  MetadataInv'
  <1> DEFINE k == enrich.key
             st == Stat(k.pid)
             progress == [enrich EXCEPT !.pc = "cgroup", !.before = st]
  <1>1. enrich.pc = "before"
    BY DEF StatBefore
  <1>2. CASE st = k.start \div Tick
    <2>1. ReadOn(progress)
      BY <1>2 DEF StatBefore, SameStart
    <2>2. st \in Int
      BY <1>1, <1>2, EnrichFacts
    <2> HIDE DEF st
    <2>3. progress \in Enrichments /\ progress.pc = "cgroup" /\ progress.key = k /\ progress.before = st
      BY <1>1, <2>2, EnrichFacts DEF Enrichments
    <2> HIDE DEF progress
    <2>4. Known(k) /\ \A i \in 1..Len(lru) : lru[i].key # k
      BY <1>1 DEF MetadataInv, Enriching
    <2>5. Enriching'
      <3>1. UNCHANGED <<procs, was, steady, lru>> /\ enrich' = progress
        BY <2>1 DEF ReadOn
      <3> QED
        BY <1>2, <2>3, <2>4, <3>1 DEF Enriching, Known
    <2> QED
      BY <2>1, <2>3, <2>5, ReadOnStep
  <1>3. CASE st # k.start \div Tick
    <2>1. Resolved(NoPath, {"gone"})
      BY <1>3 DEF StatBefore, SameStart
    <2>2. Identity(k) \notin steady
      BY <1>1, <1>3, SteadyStat
    <2> QED
      BY <1>1, <2>1, <2>2, UnresolvedStep
  <1> QED
    BY <1>2, <1>3

LEMMA ReadCgroupStep ==
    ASSUME MetadataAssumption, MetadataInv, ReadCgroup
    PROVE  MetadataInv'
  <1> DEFINE k == enrich.key
             pr == procs[k.pid]
             progress == [enrich EXCEPT !.pc = "after", !.path = pr.cgroup]
  <1>1. enrich.pc = "cgroup"
    BY DEF ReadCgroup
  <1>2. CASE Stat(k.pid) # -1
    <2>1. ReadOn(progress)
      BY <1>2 DEF ReadCgroup
    <2>2. pr.start # 0
      BY <1>2 DEF Stat
    <2>3. <<k.pid, pr.start, pr.cgroup>> \in was
      BY <1>1, <2>2, EnrichFacts DEF MetadataInv, History
    <2>4. pr.cgroup \in Paths
      BY <2>3 DEF MetadataInv, MetadataTypes
    <2>5. /\ Known(k) /\ \A i \in 1..Len(lru) : lru[i].key # k
          /\ enrich.before = k.start \div Tick
      BY <1>1 DEF MetadataInv, Enriching
    <2>6. pr.start \div Tick = k.start \div Tick => pr.start = k.start
      <3>1. \A v, w \in was : v[1] = w[1] /\ v[2] \div Tick = w[2] \div Tick => v[2] = w[2]
        BY DEF MetadataInv, History
      <3>2. <<k.pid, k.start, k.cgroup>> \in was
        BY <2>5 DEF Known
      <3> QED
        BY <2>3, <3>1, <3>2
    <2>7. Identity(k) \in steady => pr.cgroup = k.cgroup
      BY <1>1, SteadyStat
    <2>8. /\ progress \in Enrichments /\ progress.pc = "after" /\ progress.key = k
          /\ progress.before = enrich.before /\ progress.path = pr.cgroup
      BY <1>1, <2>4, EnrichFacts DEF Enrichments
    <2>9. UNCHANGED <<procs, was, steady, lru>> /\ enrich' = progress
      BY <2>1 DEF ReadOn
    <2> HIDE DEF progress
    <2>10. Enriching'
      BY <1>1, <2>3, <2>4, <2>5, <2>6, <2>7, <2>8, <2>9 DEF Enriching, Known, Identity
    <2> QED
      BY <2>1, <2>8, <2>10, ReadOnStep
  <1>3. CASE Stat(k.pid) = -1
    <2>1. Resolved(NoPath, {"gone"})
      BY <1>3 DEF ReadCgroup
    <2>2. Identity(k) \notin steady
      <3> SUFFICES ASSUME Identity(k) \in steady PROVE FALSE
        OBVIOUS
      <3>1. Stat(k.pid) = k.start \div Tick
        BY <1>1, SteadyStat
      <3>2. k.start \div Tick \in Nat
        BY <1>1, EnrichFacts
      <3> QED
        BY <1>3, <3>1, <3>2
    <2> QED
      BY <1>1, <2>1, <2>2, UnresolvedStep
  <1> QED
    BY <1>2, <1>3

LEMMA StatAfterStep ==
    ASSUME MetadataAssumption, MetadataInv, StatAfter
    PROVE  MetadataInv'
  <1> DEFINE k == enrich.key
  <1>1. enrich.pc = "after"
    BY DEF StatAfter
  <1>2. /\ enrich.before = k.start \div Tick /\ enrich.path \in Paths
        /\ procs[k.pid].start # 0 /\ procs[k.pid].start \div Tick = k.start \div Tick =>
             <<k.pid, k.start, enrich.path>> \in was
        /\ Identity(k) \in steady => enrich.path = k.cgroup
    BY <1>1 DEF MetadataInv, Enriching
  <1>3. CASE ~UnchangedSince /\ Resolved(NoPath, {"gone"})
    <2>1. Identity(k) \notin steady
      BY <1>1, <1>2, <1>3, SteadyStat DEF UnchangedSince
    <2> QED
      BY <1>1, <1>3, <2>1, UnresolvedStep
  <1>4. CASE ~unified /\ Resolved(NoPath, {})
    <2>1. Warranted(k, NoPath, failures')
      BY <1>4 DEF Warranted, CountedIn, ExcusedBy
    <2> QED
      BY <1>1, <1>4, <2>1, ResolvedStep
  <1>5. CASE enrich.path \in LongPaths /\ Resolved(NoPath, {"long"})
    BY <1>1, <1>2, <1>5, UnresolvedStep
  <1>6. CASE UnchangedSince /\ enrich.path \notin LongPaths /\ Resolved(enrich.path, {})
    <2>1. enrich.before = Stat(k.pid) /\ k.start \div Tick \in Nat /\ NoPath \notin Paths
      BY <1>1, <1>6, EnrichFacts DEF UnchangedSince
    <2>2. procs[k.pid].start # 0 /\ procs[k.pid].start \div Tick = k.start \div Tick
      BY <1>2, <2>1 DEF Stat
    <2>3. Warranted(k, enrich.path, failures')
      BY <1>2, <1>6, <2>1, <2>2 DEF Warranted
    <2> QED
      BY <1>1, <1>2, <1>6, <2>3, ResolvedStep
  <1> QED
    BY <1>3, <1>4, <1>5, <1>6 DEF StatAfter

-----------------------------------------------------------------------------
LEMMA MetadataInit ==
    ASSUME MetadataAssumption, Init
    PROVE  MetadataInv
  <1>1. /\ now = Tick /\ procs = [p \in Pids |-> [start |-> 0, cgroup |-> NoPath]]
        /\ was = {} /\ steady = {} /\ pending = <<>> /\ lru = <<>> /\ enrich = Idle
        /\ out = Nothing
    BY DEF Init
  <1>2. Idle \in Enrichments /\ Idle.pc = "idle"
    BY DEF Enrichments, Idle
  <1>3. /\ pending \in Seq(Keys) /\ Len(pending) = 0 /\ lru \in Seq(CacheEntries) /\ Len(lru) = 0
    BY <1>1
  <1>4. procs \in [Pids -> [start : Nat, cgroup : Paths \cup {NoPath}]]
    BY <1>1
  <1>5. Tick \in Nat \ {0} /\ Limit \in Nat \ {0}
    BY DEF MetadataAssumption
  <1>6. MetadataTypes
    BY <1>1, <1>2, <1>3, <1>4, <1>5 DEF MetadataTypes
  <1>7. History
    BY <1>1 DEF History
  <1>8. Ring /\ Cache
    BY <1>3, <1>5 DEF Ring, Cache
  <1>9. Enriching /\ HandedOn
    BY <1>1, <1>2 DEF Enriching, HandedOn
  <1> QED
    BY <1>6, <1>7, <1>8, <1>9 DEF MetadataInv

LEMMA MetadataStep ==
    ASSUME MetadataAssumption, MetadataInv, [Next]_vars
    PROVE  MetadataInv'
  BY ForkStep, ExitStep, MoveStep, DetailStep, PassStep, HitStep, MissStep, StatBeforeStep,
     ReadCgroupStep, StatAfterStep, ReadFailsStep DEF Next, Host

(* Enrich and resolve of internal/process/metadata.go, for any number of   *)
(* PIDs, cgroups and cache entries: however the three reads of /proc       *)
(* interleave with exits, moves and the reuse of PIDs, neither the cache   *)
(* nor a detail names a cgroup its process was never in, a path is missing *)
(* only where that was counted or the host is not unified, and for a       *)
(* process that stayed where it was only where a read failed or the path   *)
(* is too long; and the cache stays within its limit with no key twice.    *)
THEOREM PathsOfTheirProcess ==
    ASSUME MetadataAssumption
    PROVE  Spec => []MetadataTruthful
  <1>1. MetadataInv => MetadataTruthful
    <2> SUFFICES ASSUME MetadataInv PROVE MetadataTruthful
      OBVIOUS
    <2>1. TypeOK
      BY DEF MetadataInv, MetadataTypes, Cache, Enrichments, TypeOK
    <2>2. \A e \in Given : e = Nothing \/ (Known(e.key) /\ Truthful(e.key, e.path))
      BY DEF MetadataInv, HandedOn, Cache, Given
    <2>3. PathOfProcess
      <3>1. Nothing.path = NoPath
        BY DEF Nothing
      <3> QED
        BY <2>2, <3>1 DEF PathOfProcess, Truthful, Warranted
    <2>4. UnresolvedCounted
      BY <2>2 DEF UnresolvedCounted, Truthful, Warranted, CountedIn
    <2>5. SteadyResolved
      <3>1. CASE out = Nothing
        <4>1. Identity(out.key) = <<0, 0>>
          BY <3>1 DEF Identity, Nothing, Idle
        <4>2. <<0, 0>> \notin steady
          BY DEF MetadataInv, MetadataTypes
        <4> QED
          BY <4>1, <4>2 DEF SteadyResolved
      <3>2. CASE Truthful(out.key, out.path)
        BY <3>2 DEF Truthful, Warranted, ExcusedBy, MayBeMissing, SteadyResolved
      <3> QED
        BY <3>1, <3>2 DEF MetadataInv, HandedOn
    <2> QED
      BY <2>1, <2>3, <2>4, <2>5 DEF MetadataTruthful
  <1>2. Init => MetadataInv
    BY MetadataInit
  <1>3. MetadataInv /\ [Next]_vars => MetadataInv'
    BY MetadataStep
  <1> QED
    BY <1>1, <1>2, <1>3, PTL DEF Spec

-----------------------------------------------------------------------------
(* The search for coincidences.                                            *)
Indexes == [process : [Processes -> Nat], cgroup : [Cgroups -> Nat]]

PassTypes ==
    /\ timeline \in Seq(Events) /\ active \in Seq(Nat) /\ head \in 0..Len(active)
    /\ at \in Nat \ {0} /\ at - 1 <= Len(timeline) /\ Len(timeline) <= at
    /\ index \in [Kinds -> Indexes]

Sorted == \A j, k \in 1..Len(timeline) : j <= k => timeline[j].t <= timeline[k].t

Keyed(k) == HasProcess(timeline[k]) \/ HasCgroup(timeline[k])

(* Out of the window of the last event that the pass has seen.             *)
Past(k) == timeline[Len(timeline)].t - timeline[k].t > Window

Live == {active[m] : m \in head + 1..Len(active)}

(* The queue holds visited events with a key in their order, and has given *)
(* up only those that are out of the window.                               *)
Queue ==
    /\ \A j, k \in 1..Len(active) : j < k => active[j] < active[k]
    /\ \A j \in 1..Len(active) : active[j] \in 1..at - 1 /\ Keyed(active[j])
    /\ \A k \in 1..at - 1 : Keyed(k) /\ k \notin Live => Past(k)

Greatest(x, S) == (x = 0 /\ S = {}) \/ (x \in S /\ \A k \in S : k <= x)
OfProcess(b, p) == {k \in Live : timeline[k].kind = b /\ timeline[k].process = p}
OfCgroup(b, c) == {k \in Live : timeline[k].kind = b /\ timeline[k].cgroup = c}

(* Whether or not the expired have left: each key names the latest event   *)
(* that is still in the queue.                                             *)
Indexed ==
    \A b \in Kinds :
        /\ \A p \in Processes \ {0} : Greatest(index[b].process[p], OfProcess(b, p))
        /\ \A c \in Cgroups : c > 1 => Greatest(index[b].cgroup[c], OfCgroup(b, c))

PassInv == PassTypes /\ Sorted /\ Queue /\ Indexed /\ FirstPair

(* The least leaves: only a set of one loses its greatest.                 *)
LEMMA GreatestRemoved ==
    ASSUME NEW S, S \subseteq Nat \ {0}, NEW x, Greatest(x, S), NEW old \in S, \A k \in S : old <= k
    PROVE  Greatest(IF x = old THEN 0 ELSE x, S \ {old})
  <1>1. CASE x = old
    <2>1. \A k \in S : k = old
      BY <1>1 DEF Greatest
    <2> QED
      BY <1>1, <2>1 DEF Greatest
  <1>2. CASE x # old
    BY <1>2 DEF Greatest
  <1> QED
    BY <1>1, <1>2

(* A later position becomes the greatest.                                  *)
LEMMA GreatestAdded ==
    ASSUME NEW S, NEW k \in Nat, S \subseteq 1..k - 1
    PROVE  Greatest(k, S \cup {k})
  BY DEF Greatest

(* Latest is the greatest member, or 0 when there is none.                 *)
LEMMA LatestGreatest ==
    ASSUME NEW S, S \subseteq Nat \ {0}, NEW x, Greatest(x, S)
    PROVE  Latest(S) = x
  <1>1. CASE S = {}
    BY <1>1 DEF Greatest, Latest
  <1>2. CASE S # {}
    <2>1. x \in S /\ \A y \in S : x >= y
      BY <1>2 DEF Greatest
    <2> DEFINE m == Max(S)
    <2>2. m \in S /\ \A y \in S : m >= y
      BY <2>1 DEF Max
    <2> HIDE DEF m
    <2>3. m = x
      <3>1. m \in Nat /\ x \in Nat
        BY <2>1, <2>2
      <3>2. m >= x /\ x >= m
        BY <2>1, <2>2
      <3> QED
        BY <3>1, <3>2
    <2> QED
      BY <1>2, <2>3 DEF Latest, m
  <1> QED
    BY <1>1, <1>2

(* What remove and add do to the entry of each key.                        *)
Removed(r, x, e, k) ==
    /\ r \in Indexes
    /\ \A p \in Processes \ {0} :
         r.process[p] = IF p = e.process /\ x.process[p] = k THEN 0 ELSE x.process[p]
    /\ \A c \in Cgroups : c > 1 =>
         r.cgroup[c] = IF c = e.cgroup /\ x.cgroup[c] = k THEN 0 ELSE x.cgroup[c]

Added(r, x, e, k) ==
    /\ r \in Indexes
    /\ \A p \in Processes \ {0} : r.process[p] = IF p = e.process THEN k ELSE x.process[p]
    /\ \A c \in Cgroups : c > 1 => r.cgroup[c] = IF c = e.cgroup THEN k ELSE x.cgroup[c]

(* remove of internal/analyzer/correlation.go clears only its own entries. *)
LEMMA RemoveLookup ==
    ASSUME CorrelationAssumption, NEW x \in Indexes, NEW e \in Events, NEW k \in Nat
    PROVE  Removed(remove(x, e, k), x, e, k)
  <1>1. /\ x.process \in [Processes -> Nat] /\ x.cgroup \in [Cgroups -> Nat]
        /\ e.process \in Processes /\ e.cgroup \in Cgroups
    BY DEF Indexes, Events
  <1> DEFINE f == IF HasProcess(e) /\ x.process[e.process] = k
                  THEN [x.process EXCEPT ![e.process] = 0] ELSE x.process
             g == IF HasCgroup(e) /\ x.cgroup[e.cgroup] = k
                  THEN [x.cgroup EXCEPT ![e.cgroup] = 0] ELSE x.cgroup
  <1>2. /\ f \in [Processes -> Nat]
        /\ \A p \in Processes \ {0} :
             f[p] = IF p = e.process /\ x.process[p] = k THEN 0 ELSE x.process[p]
    BY <1>1 DEF HasProcess
  <1>3. /\ g \in [Cgroups -> Nat]
        /\ \A c \in Cgroups : c > 1 =>
             g[c] = IF c = e.cgroup /\ x.cgroup[c] = k THEN 0 ELSE x.cgroup[c]
    BY <1>1 DEF HasCgroup
  <1>4. remove(x, e, k) = [process |-> f, cgroup |-> g]
    BY DEF remove
  <1> HIDE DEF f, g
  <1>5. /\ remove(x, e, k) \in Indexes
        /\ remove(x, e, k).process = f /\ remove(x, e, k).cgroup = g
    BY <1>2, <1>3, <1>4 DEF Indexes
  <1> QED
    BY <1>2, <1>3, <1>5 DEF Removed

(* add puts the event at each key that it has.                             *)
LEMMA AddLookup ==
    ASSUME CorrelationAssumption, NEW x \in Indexes, NEW e \in Events, NEW k \in Nat
    PROVE  Added(add(x, e, k), x, e, k)
  <1>1. /\ x.process \in [Processes -> Nat] /\ x.cgroup \in [Cgroups -> Nat]
        /\ e.process \in Processes /\ e.cgroup \in Cgroups
    BY DEF Indexes, Events
  <1> DEFINE f == IF HasProcess(e) THEN [x.process EXCEPT ![e.process] = k] ELSE x.process
             g == IF HasCgroup(e) THEN [x.cgroup EXCEPT ![e.cgroup] = k] ELSE x.cgroup
  <1>2. /\ f \in [Processes -> Nat]
        /\ \A p \in Processes \ {0} : f[p] = IF p = e.process THEN k ELSE x.process[p]
    BY <1>1 DEF HasProcess
  <1>3. /\ g \in [Cgroups -> Nat]
        /\ \A c \in Cgroups : c > 1 => g[c] = IF c = e.cgroup THEN k ELSE x.cgroup[c]
    BY <1>1 DEF HasCgroup
  <1>4. add(x, e, k) = [process |-> f, cgroup |-> g]
    BY DEF add
  <1> HIDE DEF f, g
  <1>5. add(x, e, k) \in Indexes /\ add(x, e, k).process = f /\ add(x, e, k).cgroup = g
    BY <1>2, <1>3, <1>4 DEF Indexes
  <1> QED
    BY <1>2, <1>3, <1>5 DEF Added

(* The earlier of the candidates is one of them.                           *)
LEMMA MatchFound ==
    ASSUME NEW x \in Indexes, NEW e \in Events, match(x, e) # {}
    PROVE  Min(match(x, e)) \in match(x, e)
  <1> DEFINE p == x.process[e.process]
             c == x.cgroup[e.cgroup]
             S == match(x, e)
  <1>1. p \in Nat /\ c \in Nat
    BY DEF Indexes, Events
  <1>2. S \subseteq {p, c}
    BY DEF match
  <1>3. S # {}
    OBVIOUS
  <1> HIDE DEF S, p, c
  <1>4. \E y \in S : \A z \in S : y <= z
    <2>1. CASE p \in S /\ c \in S
      BY <1>1, <1>2, <2>1
    <2>2. CASE ~(p \in S /\ c \in S)
      <3>1. PICK y \in S : TRUE
        BY <1>3
      <3>2. \A z \in S : z = y
        BY <1>2, <2>2, <3>1
      <3>3. y \in Nat
        BY <1>1, <1>2
      <3> QED
        BY <3>2, <3>3
    <2> QED
      BY <2>1, <2>2
  <1>5. Min(S) \in S
    BY <1>4 DEF Min
  <1> QED
    BY <1>5 DEF S

(* The candidates of match: what the index names for the keys of e.        *)
IsMatch(q, x, e) ==
    /\ q # 0
    /\ \/ HasProcess(e) /\ q = x.process[e.process]
       \/ HasCgroup(e) /\ q = x.cgroup[e.cgroup]

LEMMA Matched ==
    ASSUME NEW x, NEW e, NEW q
    PROVE  q \in match(x, e) <=> IsMatch(q, x, e)
  BY DEF match, IsMatch

(* The pass starts with empty indexes and an empty queue.                  *)
LEMMA PassInitial ==
    ASSUME CorrelationAssumption, PassInit
    PROVE  PassInv
  <1>1. PassTypes
    <2>1. Empty \in Indexes
      BY DEF Empty, Indexes
    <2> QED
      BY <2>1 DEF PassInit, PassTypes
  <1>2. Live = {} /\ Sorted /\ Queue
    BY DEF PassInit, Live, Sorted, Queue
  <1>3. Indexed
    BY <1>2 DEF PassInit, Indexed, Greatest, OfProcess, OfCgroup, Empty
  <1>4. FirstPair
    BY DEF PassInit, FirstPair, Pairs
  <1> QED
    BY <1>1, <1>2, <1>3, <1>4 DEF PassInv

(* The next event is not earlier: what is out of the window stays out.     *)
LEMMA PassContinue ==
    ASSUME CorrelationAssumption, PassInv, NEW e \in Events, Continue(e)
    PROVE  PassInv'
  <1> DEFINE n == Len(timeline)
  <1>1. /\ timeline \in Seq(Events) /\ n \in Nat /\ at = n + 1
        /\ timeline' \in Seq(Events) /\ Len(timeline') = n + 1 /\ timeline'[n + 1] = e
        /\ \A k \in 1..n : timeline'[k] = timeline[k] /\ timeline[k] \in Events
    BY DEF PassInv, PassTypes, Continue
  <1>2. /\ at' = at /\ index' = index /\ active' = active /\ head' = head /\ result' = <<>>
        /\ result = <<>> /\ (n > 0 => timeline[n].t <= e.t)
    BY <1>1 DEF Continue
  <1> HIDE DEF n
  <1>3. \A k \in 1..n : timeline[k].t \in Nat
    BY <1>1 DEF Events, CorrelationAssumption
  <1>4. e.t \in Nat /\ Window \in Nat
    BY DEF Events, CorrelationAssumption
  <1>5. PassTypes'
    BY <1>1, <1>2 DEF PassInv, PassTypes
  <1>6. \A k \in 1..n : timeline[k].t <= e.t
    BY <1>1, <1>2, <1>3, <1>4 DEF PassInv, Sorted, n
  <1>7. Sorted'
    <2> SUFFICES ASSUME NEW j \in 1..n + 1, NEW k \in 1..n + 1, j <= k
                 PROVE  timeline'[j].t <= timeline'[k].t
      BY <1>1 DEF Sorted
    <2>1. CASE k = n + 1
      BY <1>1, <1>3, <1>4, <1>6, <2>1
    <2>2. CASE k \in 1..n
      BY <1>1, <2>2 DEF PassInv, Sorted, n
    <2> QED
      BY <1>1, <2>1, <2>2
  <1>8. Live' = Live /\ \A k \in 1..n : Keyed(k)' <=> Keyed(k)
    BY <1>1, <1>2 DEF Live, Keyed
  <1>9. \A k \in 1..n : Past(k) => Past(k)'
    <2> SUFFICES ASSUME NEW k \in 1..n, Past(k)
                 PROVE  e.t - timeline[k].t > Window
      BY <1>1 DEF Past
    <2>1. timeline[n].t - timeline[k].t > Window /\ n \in 1..n
      BY <1>1 DEF Past, n
    <2> QED
      BY <1>3, <1>4, <1>6, <2>1
  <1>10. Queue'
    <2>1. /\ \A j, k \in 1..Len(active) : j < k => active[j] < active[k]
          /\ \A j \in 1..Len(active) : active[j] \in 1..n /\ Keyed(active[j])
          /\ \A k \in 1..n : Keyed(k) /\ k \notin Live => Past(k)
      BY <1>1 DEF PassInv, Queue
    <2>2. at' - 1 = n
      BY <1>1, <1>2
    <2> QED
      BY <1>2, <1>8, <1>9, <2>1, <2>2 DEF Queue
  <1>11. Live \subseteq 1..n
    BY <1>1 DEF PassInv, PassTypes, Queue, Live
  <1>12. Indexed'
    <2>1. \A b, p : OfProcess(b, p)' = OfProcess(b, p) /\ OfCgroup(b, p)' = OfCgroup(b, p)
      BY <1>1, <1>8, <1>11 DEF OfProcess, OfCgroup
    <2> QED
      BY <1>2, <2>1 DEF PassInv, Indexed
  <1>13. FirstPair'
    <2>1. Pairs(n) = {} /\ at' - 1 = n
      BY <1>1, <1>2 DEF PassInv, FirstPair
    <2>2. \A j, k \in 1..n : Related(j, k)' <=> Related(j, k)
      BY <1>1 DEF Related
    <2> QED
      BY <1>2, <2>1, <2>2 DEF FirstPair, Pairs
  <1> QED
    BY <1>5, <1>7, <1>10, <1>12, <1>13 DEF PassInv

(* What a running pass can rely on.                                        *)
LEMMA PassFacts ==
    ASSUME CorrelationAssumption, PassInv, Running
    PROVE  /\ at = Len(timeline) /\ at \in Nat \ {0} /\ result = <<>> /\ timeline[at] \in Events
           /\ \A k \in 1..at : timeline[k] \in Events /\ timeline[k].t \in Nat /\ timeline[k].kind \in Kinds
                               /\ timeline[k].process \in Processes /\ timeline[k].cgroup \in Cgroups
           /\ \A k \in 1..at : (Past(k) <=> expired(k)) /\ k \in Int
           /\ Len(active) \in Nat /\ head \in 0..Len(active) /\ Live \subseteq 1..at - 1
           /\ \A m \in head + 1..Len(active) : active[m] \in Live
  <1>1. /\ at = Len(timeline) /\ at \in Nat \ {0} /\ result = <<>>
        /\ \A k \in 1..at : timeline[k] \in Events
    BY DEF PassInv, PassTypes, Running
  <1>2. \A k \in 1..at : /\ timeline[k].t \in Nat /\ timeline[k].kind \in Kinds
                         /\ timeline[k].process \in Processes /\ timeline[k].cgroup \in Cgroups
    BY <1>1 DEF Events, CorrelationAssumption
  <1>3. \A k \in 1..at : Past(k) <=> expired(k)
    BY <1>1 DEF Past, expired
  <1>4. /\ Len(active) \in Nat /\ head \in 0..Len(active) /\ Live \subseteq 1..at - 1
        /\ \A m \in head + 1..Len(active) : active[m] \in Live
    BY <1>1 DEF PassInv, PassTypes, Queue, Live
  <1> QED
    BY <1>1, <1>2, <1>3, <1>4

(* The front of the queue leaves the queue and, where still named, the     *)
(* index.                                                                  *)
LEMMA PassExpire ==
    ASSUME CorrelationAssumption, PassInv, Expire
    PROVE  PassInv'
  <1> DEFINE old == active[head + 1]
             e == timeline[old]
  <1>1. Running /\ Stale
    BY DEF Expire
  <1>2. head + 1 \in head + 1..Len(active) /\ head + 1 \in 1..Len(active)
    BY <1>1, PassFacts DEF Stale
  <1>3. old \in Live /\ old \in 1..at - 1 /\ e \in Events /\ expired(old) /\ Keyed(old)
    BY <1>1, <1>2, PassFacts DEF Stale, PassInv, Queue
  <1>4. /\ index' = [index EXCEPT ![e.kind] = remove(index[e.kind], e, old)]
        /\ head' = head + 1 /\ timeline' = timeline /\ at' = at /\ active' = active
        /\ result' = result
    BY DEF Expire
  <1>5. \A j, k \in 1..Len(active) : j < k => active[j] < active[k]
    BY DEF PassInv, Queue
  <1>6. Live' = Live \ {old} /\ \A k \in Live : old <= k
    <2>1. head \in Nat /\ Len(active) \in Nat /\ \A j \in 1..Len(active) : active[j] \in Nat
      BY <1>1, PassFacts DEF PassInv, PassTypes
    <2>2. \A m \in head + 1..Len(active) : m = head + 1 \/ (m \in head + 2..Len(active) /\ old < active[m])
      BY <1>2, <1>5, <2>1
    <2>3. Live' = {active[m] : m \in head + 2..Len(active)}
      BY <1>4, <2>1 DEF Live
    <2>4. \A m \in head + 2..Len(active) : m \in head + 1..Len(active) /\ active[m] # old
      BY <2>1, <2>2
    <2>5. \A k \in Live : old <= k /\ (k # old => k \in Live')
      <3> SUFFICES ASSUME NEW k \in Live PROVE old <= k /\ (k # old => k \in Live')
        OBVIOUS
      <3>1. PICK m \in head + 1..Len(active) : k = active[m]
        BY DEF Live
      <3>2. old \in Nat /\ k \in Nat
        BY <1>2, <2>1, <3>1
      <3> QED
        BY <2>2, <2>3, <3>1, <3>2
    <2> QED
      BY <2>3, <2>4, <2>5 DEF Live
  <1> HIDE DEF old
  <1>7. index[e.kind] \in Indexes /\ e.kind \in Kinds /\ old \in Nat
    BY <1>3 DEF PassInv, PassTypes, Events
  <1> DEFINE r == remove(index[e.kind], e, old)
  <1>8. Removed(r, index[e.kind], e, old)
    BY <1>3, <1>7, RemoveLookup
  <1>9. index' = [index EXCEPT ![e.kind] = r] /\ index \in [Kinds -> Indexes]
    BY <1>4 DEF PassInv, PassTypes
  <1> HIDE DEF r, e
  <1>10. index'[e.kind] = r /\ \A b \in Kinds : b # e.kind => index'[b] = index[b]
    BY <1>7, <1>9
  <1>11. PassTypes'
    <2>1. index' \in [Kinds -> Indexes]
      BY <1>7, <1>8, <1>9 DEF Removed
    <2>2. head + 1 \in 0..Len(active)
      BY <1>1, <1>2, PassFacts
    <2> QED
      BY <1>4, <2>1, <2>2 DEF PassInv, PassTypes
  <1>12. Sorted'
    BY <1>4 DEF PassInv, Sorted
  <1>13. Queue'
    <2>1. Past(old)
      BY <1>1, <1>3, PassFacts
    <2>2. \A k : (Keyed(k)' <=> Keyed(k)) /\ (Past(k)' <=> Past(k))
      BY <1>4 DEF Keyed, Past
    <2> QED
      BY <1>4, <1>6, <2>1, <2>2 DEF PassInv, Queue
  <1>14. Live \subseteq Nat \ {0}
    BY <1>1, PassFacts
  <1>15. Indexed'
    <2> SUFFICES ASSUME NEW b \in Kinds
                 PROVE  /\ \A p \in Processes \ {0} : Greatest(index'[b].process[p], OfProcess(b, p)')
                        /\ \A c \in Cgroups : c > 1 => Greatest(index'[b].cgroup[c], OfCgroup(b, c)')
      BY DEF Indexed, Greatest
    <2>1. ASSUME NEW p \in Processes \ {0}
          PROVE  Greatest(index'[b].process[p], OfProcess(b, p)')
      <3>1. OfProcess(b, p)' = OfProcess(b, p) \ {old} /\ OfProcess(b, p) \subseteq Nat \ {0}
        BY <1>4, <1>6, <1>14 DEF OfProcess
      <3>2. Greatest(index[b].process[p], OfProcess(b, p))
        BY DEF PassInv, Indexed
      <3>3. CASE b = e.kind /\ p = e.process
        <4>1. old \in OfProcess(b, p) /\ \A k \in OfProcess(b, p) : old <= k
          BY <1>3, <1>6, <3>3 DEF OfProcess, e
        <4>2. index'[b].process[p] = IF index[b].process[p] = old THEN 0 ELSE index[b].process[p]
          BY <1>8, <1>10, <3>3 DEF Removed
        <4> QED
          BY <3>1, <3>2, <4>1, <4>2, GreatestRemoved
      <3>4. CASE ~(b = e.kind /\ p = e.process)
        <4>1. old \notin OfProcess(b, p)
          BY <3>4 DEF OfProcess, e
        <4>2. index'[b].process[p] = index[b].process[p]
          <5>1. CASE b = e.kind
            BY <1>8, <1>10, <3>4, <5>1 DEF Removed
          <5>2. CASE b # e.kind
            BY <1>10, <5>2
          <5> QED
            BY <5>1, <5>2
        <4>3. OfProcess(b, p)' = OfProcess(b, p)
          BY <3>1, <4>1
        <4> QED
          BY <3>2, <4>2, <4>3
      <3> QED
        BY <3>3, <3>4
    <2>2. ASSUME NEW c \in Cgroups, c > 1
          PROVE  Greatest(index'[b].cgroup[c], OfCgroup(b, c)')
      <3>1. OfCgroup(b, c)' = OfCgroup(b, c) \ {old} /\ OfCgroup(b, c) \subseteq Nat \ {0}
        BY <1>4, <1>6, <1>14 DEF OfCgroup
      <3>2. Greatest(index[b].cgroup[c], OfCgroup(b, c))
        BY <2>2 DEF PassInv, Indexed
      <3>3. CASE b = e.kind /\ c = e.cgroup
        <4>1. old \in OfCgroup(b, c) /\ \A k \in OfCgroup(b, c) : old <= k
          BY <1>3, <1>6, <3>3 DEF OfCgroup, e
        <4>2. index'[b].cgroup[c] = IF index[b].cgroup[c] = old THEN 0 ELSE index[b].cgroup[c]
          BY <1>8, <1>10, <2>2, <3>3 DEF Removed
        <4> QED
          BY <3>1, <3>2, <4>1, <4>2, GreatestRemoved
      <3>4. CASE ~(b = e.kind /\ c = e.cgroup)
        <4>1. old \notin OfCgroup(b, c)
          BY <3>4 DEF OfCgroup, e
        <4>2. index'[b].cgroup[c] = index[b].cgroup[c]
          <5>1. CASE b = e.kind
            BY <1>8, <1>10, <2>2, <3>4, <5>1 DEF Removed
          <5>2. CASE b # e.kind
            BY <1>10, <5>2
          <5> QED
            BY <5>1, <5>2
        <4>3. OfCgroup(b, c)' = OfCgroup(b, c)
          BY <3>1, <4>1
        <4> QED
          BY <3>2, <4>2, <4>3
      <3> QED
        BY <3>3, <3>4
    <2> QED
      BY <2>1, <2>2
  <1>16. FirstPair'
    BY <1>4 DEF PassInv, FirstPair, Pairs, Related
  <1> QED
    BY <1>11, <1>12, <1>13, <1>15, <1>16 DEF PassInv

(* Once the first of the queue is within the window, the queue is exact.   *)
LEMMA QueueExact ==
    ASSUME CorrelationAssumption, PassInv, Running, ~Stale
    PROVE  Live = {k \in 1..at - 1 : ~expired(k) /\ Keyed(k)}
  <1>1. \A k \in Live : k \in 1..at - 1 /\ Keyed(k)
    BY PassFacts DEF PassInv, Queue, Live, PassTypes
  <1>2. ASSUME NEW k \in Live PROVE ~expired(k)
    <2>1. PICK m \in head + 1..Len(active) : k = active[m]
      BY DEF Live
    <2> DEFINE f == active[head + 1]
    <2>2. head \in Nat /\ Len(active) \in Nat /\ head < Len(active)
      BY PassFacts, <2>1
    <2>3. ~expired(f)
      BY <2>2 DEF Stale
    <2>4. f \in Live /\ f <= k
      <3>1. head + 1 \in head + 1..Len(active) /\ head + 1 \in 1..Len(active) /\ m \in 1..Len(active)
        BY <2>2
      <3>2. f \in Live /\ f \in Nat /\ k \in Nat
        BY <3>1, PassFacts
      <3>3. m = head + 1 \/ head + 1 < m
        BY <2>2
      <3> QED
        BY <2>1, <3>1, <3>2, <3>3 DEF PassInv, Queue
    <2> HIDE DEF f
    <2>5. f \in 1..at /\ k \in 1..at /\ at \in 1..at
      BY <2>4, PassFacts
    <2>6. timeline[f].t <= timeline[k].t
      BY <2>4, <2>5, PassFacts DEF PassInv, Sorted
    <2>7. timeline[f].t \in Nat /\ timeline[k].t \in Nat /\ timeline[at].t \in Nat /\ Window \in Nat
      BY <2>5, PassFacts DEF CorrelationAssumption
    <2> QED
      BY <2>3, <2>6, <2>7 DEF expired
  <1>3. \A k \in 1..at - 1 : Keyed(k) /\ ~expired(k) => k \in Live
    <2>1. \A k \in 1..at - 1 : k \in 1..at
      BY PassFacts
    <2> QED
      BY <2>1, PassFacts DEF PassInv, Queue
  <1> QED
    BY <1>1, <1>2, <1>3

(* A queue with the same live entries, in the same order.                  *)
SameQueue(c, h) ==
    /\ c \in Seq(Nat) /\ h \in 0..Len(c) /\ {c[m] : m \in h + 1..Len(c)} = Live
    /\ \A j, k \in 1..Len(c) : j < k => c[j] < c[k]
    /\ \A j \in 1..Len(c) : c[j] \in 1..at - 1 /\ Keyed(c[j])

Restart == IF Compacted = active THEN head ELSE 0

(* Compaction moves the live entries to the front and changes none.        *)
LEMMA CompactKeeps ==
    ASSUME CorrelationAssumption, PassInv, Running
    PROVE  SameQueue(Compacted, Restart)
  <1> DEFINE c == Compacted
             h == Restart
             n == Len(active)
  <1>1. active \in Seq(Nat) /\ n \in Nat /\ head \in 0..n
    BY DEF PassInv, PassTypes
  <1>2. \E d \in 0..head : /\ c \in Seq(Nat) /\ Len(c) = n - d /\ h = head - d
                           /\ \A j \in 1..n - d : c[j] = active[j + d]
    <2>1. CASE head = n
      <3>1. c = <<>>
        BY <2>1 DEF Compacted
      <3>2. h = 0
        BY <2>1, <3>1, <1>1 DEF Restart
      <3> QED
        BY <1>1, <2>1, <3>1, <3>2
    <2>2. CASE head # n /\ head >= n \div 2 /\ head > 0
      <3>1. c = SubSeq(active, head + 1, n)
        BY <2>2 DEF Compacted
      <3>2. /\ c \in Seq(Nat) /\ Len(c) = n - head
            /\ \A j \in 1..n - head : c[j] = active[j + head]
        <4>1. head + 1 \in 1..n + 1 /\ \A k \in head + 1..n : active[k] \in Nat
          BY <1>1
        <4>2. /\ Len(c) = IF head + 1 <= n THEN n - (head + 1) + 1 ELSE 0
              /\ c \in Seq(Nat)
              /\ \A j \in 1..n - (head + 1) + 1 : c[j] = active[head + 1 + j - 1]
          <5>1. head + 1 \in Int /\ n \in Int
            BY <1>1
          <5> HIDE DEF c, n
          <5> QED
            BY <3>1, <4>1, <5>1, SubSeqProperties
        <4>3. head + 1 <= n /\ n - (head + 1) + 1 = n - head
              /\ \A j \in 1..n - head : head + 1 + j - 1 = j + head
          BY <1>1, <2>2
        <4> QED
          BY <4>2, <4>3
      <3>3. h = head - head /\ head \in 0..head
        BY <1>1, <2>2, <3>2 DEF Restart
      <3> HIDE DEF c, h
      <3> HIDE DEF n
      <3> QED
        BY <3>2, <3>3
    <2>3. CASE head # n /\ ~(head >= n \div 2 /\ head > 0)
      <3>1. c = active
        BY <2>3 DEF Compacted
      <3>2. h = head
        BY <3>1 DEF Restart
      <3>3. \A j \in 1..n : j + 0 = j
        OBVIOUS
      <3> QED
        BY <1>1, <3>1, <3>2, <3>3
    <2> QED
      BY <2>1, <2>2, <2>3
  <1>3. PICK d \in 0..head : /\ c \in Seq(Nat) /\ Len(c) = n - d /\ h = head - d
                            /\ \A j \in 1..n - d : c[j] = active[j + d]
    BY <1>2
  <1> HIDE DEF c, h
  <1>4. \A j \in 1..n - d : j + d \in 1..n
    BY <1>1
  <1>5. {c[m] : m \in h + 1..Len(c)} = {active[m] : m \in head + 1..n}
    <2>1. \A m \in h + 1..Len(c) : m + d \in head + 1..n /\ c[m] = active[m + d]
      BY <1>1, <1>3
    <2>2. \A m \in head + 1..n : m - d \in h + 1..Len(c) /\ c[m - d] = active[m]
      <3> SUFFICES ASSUME NEW m \in head + 1..n
                   PROVE  m - d \in h + 1..Len(c) /\ c[m - d] = active[m]
        OBVIOUS
      <3>1. m - d \in h + 1..Len(c) /\ m - d \in 1..n - d /\ (m - d) + d = m
        BY <1>1, <1>3
      <3> QED
        BY <1>3, <3>1
    <2> QED
      BY <2>1, <2>2
  <1>6. \A j, k \in 1..Len(c) : j < k => c[j] < c[k]
    <2> SUFFICES ASSUME NEW j \in 1..Len(c), NEW k \in 1..Len(c), j < k
                 PROVE  c[j] < c[k]
      OBVIOUS
    <2>1. j + d \in 1..n /\ k + d \in 1..n /\ j + d < k + d
      BY <1>1, <1>3
    <2>2. active[j + d] < active[k + d]
      BY <2>1 DEF PassInv, Queue
    <2> QED
      BY <1>3, <2>2
  <1>7. \A j \in 1..Len(c) : c[j] \in 1..at - 1 /\ Keyed(c[j])
    BY <1>3, <1>4 DEF PassInv, Queue
  <1>8. h \in 0..Len(c)
    BY <1>1, <1>3
  <1> QED
    BY <1>3, <1>5, <1>6, <1>7, <1>8 DEF SameQueue, Live, c, h

(* An event the index names shares its key with the one that is visited,   *)
(* and is within its window.                                               *)
LEMMA FoundRelated ==
    ASSUME CorrelationAssumption, PassInv, Running, ~Stale,
           NEW q \in match(index[Opposite(timeline[at].kind)], timeline[at])
    PROVE  q \in 1..at - 1 /\ Related(q, at)
  <1> DEFINE e == timeline[at]
             b == Opposite(e.kind)
  <1>1. /\ e \in Events /\ e.process \in Processes /\ e.cgroup \in Cgroups /\ e.kind \in Kinds
        /\ at \in Nat \ {0} /\ Window \in Nat /\ e.t \in Nat
    BY PassFacts DEF CorrelationAssumption
  <1>2. b \in Kinds /\ b # e.kind
    BY <1>1 DEF Kinds, Opposite
  <1>3. /\ q # 0
        /\ \/ HasProcess(e) /\ q = index[b].process[e.process]
           \/ HasCgroup(e) /\ q = index[b].cgroup[e.cgroup]
    <2>1. PICK x : x = index[b]
      OBVIOUS
    <2>2. PICK v : v = e
      OBVIOUS
    <2>3. q \in match(x, v)
      BY <2>1, <2>2
    <2>4. IsMatch(q, x, v)
      BY <2>3, Matched
    <2> QED
      BY <2>1, <2>2, <2>4 DEF IsMatch
  <1> HIDE DEF b
  <1>4. /\ HasProcess(e) => Greatest(index[b].process[e.process], OfProcess(b, e.process))
        /\ HasCgroup(e) => Greatest(index[b].cgroup[e.cgroup], OfCgroup(b, e.cgroup))
    BY <1>1, <1>2 DEF PassInv, Indexed, HasProcess, HasCgroup
  <1>5. \/ HasProcess(e) /\ q \in OfProcess(b, e.process)
        \/ HasCgroup(e) /\ q \in OfCgroup(b, e.cgroup)
    BY <1>3, <1>4 DEF Greatest
  <1>6. /\ q \in Live /\ timeline[q].kind = b
        /\ \/ HasProcess(e) /\ timeline[q].process = e.process
           \/ HasCgroup(e) /\ timeline[q].cgroup = e.cgroup
    BY <1>5 DEF OfProcess, OfCgroup
  <1>7. q \in 1..at - 1 /\ ~expired(q)
    BY <1>6, QueueExact
  <1>8. timeline[q].t \in Nat /\ timeline[at].t - timeline[q].t <= Window
    <2>1. q \in 1..at
      BY <1>1, <1>7
    <2>2. timeline[q].t \in Nat
      BY <2>1, PassFacts
    <2> QED
      BY <1>1, <1>7, <2>2 DEF expired
  <1> QED
    BY <1>2, <1>6, <1>7, <1>8 DEF Related, HasProcess, HasCgroup

(* And no other event is.                                                  *)
LEMMA RelatedFound ==
    ASSUME CorrelationAssumption, PassInv, Running, ~Stale,
           NEW j \in 1..at - 1, Related(j, at)
    PROVE  match(index[Opposite(timeline[at].kind)], timeline[at]) # {}
  <1> DEFINE e == timeline[at]
             b == Opposite(e.kind)
  <1>1. /\ e \in Events /\ e.process \in Processes /\ e.cgroup \in Cgroups /\ e.kind \in Kinds
        /\ at \in Nat \ {0} /\ Window \in Nat /\ e.t \in Nat /\ j \in 1..at /\ timeline[j].t \in Nat
        /\ timeline[j].kind \in Kinds
    <2>1. at \in Nat \ {0} /\ j \in 1..at
      BY PassFacts
    <2> QED
      BY <2>1, PassFacts DEF CorrelationAssumption
  <1>2. b \in Kinds /\ timeline[j].kind = b
    BY <1>1 DEF Kinds, Opposite, Related
  <1>3. Keyed(j) /\ ~expired(j)
    BY <1>1 DEF Related, Keyed, expired
  <1>4. j \in Live
    BY <1>3, QueueExact
  <1> HIDE DEF b
  <1>5. CASE HasProcess(timeline[j]) /\ timeline[j].process = e.process
    <2>1. HasProcess(e) /\ j \in OfProcess(b, e.process)
      BY <1>2, <1>4, <1>5 DEF OfProcess, HasProcess
    <2>2. Greatest(index[b].process[e.process], OfProcess(b, e.process))
      BY <1>1, <1>2, <2>1 DEF PassInv, Indexed, HasProcess
    <2>3. index[b].process[e.process] \in Live
      BY <2>1, <2>2 DEF Greatest, OfProcess
    <2>4. index[b].process[e.process] # 0
      BY <2>3, PassFacts
    <2> QED
      BY <2>1, <2>4, Matched DEF b, IsMatch
  <1>6. CASE HasCgroup(timeline[j]) /\ timeline[j].cgroup = e.cgroup
    <2>1. HasCgroup(e) /\ j \in OfCgroup(b, e.cgroup)
      BY <1>2, <1>4, <1>6 DEF OfCgroup, HasCgroup
    <2>2. Greatest(index[b].cgroup[e.cgroup], OfCgroup(b, e.cgroup))
      BY <1>1, <1>2, <2>1 DEF PassInv, Indexed, HasCgroup
    <2>3. index[b].cgroup[e.cgroup] \in Live
      BY <2>1, <2>2 DEF Greatest, OfCgroup
    <2>4. index[b].cgroup[e.cgroup] # 0
      BY <2>3, PassFacts
    <2> QED
      BY <2>1, <2>4, Matched DEF b, IsMatch
  <1> QED
    BY <1>5, <1>6 DEF Related

(* The event meets one of the other kind.                                  *)
LEMMA PassFound ==
    ASSUME CorrelationAssumption, PassInv, Visit,
           match(index[Opposite(timeline[at].kind)], timeline[at]) # {}
    PROVE  PassInv'
  <1> DEFINE prior == match(index[Opposite(timeline[at].kind)], timeline[at])
             q == Min(prior)
  <1>1. Running /\ ~Stale
    BY DEF Visit
  <1>2. /\ result' = <<q, at>> /\ active' = Compacted /\ head' = Restart
        /\ at' = at /\ index' = index /\ timeline' = timeline
    BY DEF Visit, Restart
  <1>3. q \in 1..at - 1 /\ Related(q, at)
    <2>1. index[Opposite(timeline[at].kind)] \in Indexes /\ timeline[at] \in Events
      BY <1>1, PassFacts DEF PassInv, PassTypes, Opposite, Kinds
    <2>2. q \in prior
      BY <2>1, MatchFound
    <2> HIDE DEF q
    <2> QED
      BY <1>1, <2>2, FoundRelated
  <1> HIDE DEF q
  <1>4. SameQueue(active', head')
    BY <1>1, <1>2, CompactKeeps
  <1>5. PassTypes' /\ Sorted'
    BY <1>2, <1>4 DEF PassInv, PassTypes, SameQueue, Sorted
  <1>6. Live' = Live
    BY <1>4 DEF SameQueue, Live
  <1>7. \A k : (Keyed(k)' <=> Keyed(k)) /\ (Past(k)' <=> Past(k))
    BY <1>2 DEF Keyed, Past
  <1>8. Queue'
    BY <1>2, <1>4, <1>6, <1>7 DEF PassInv, Queue, SameQueue
  <1>9. Indexed'
    BY <1>2, <1>6 DEF PassInv, Indexed, OfProcess, OfCgroup
  <1>10. FirstPair'
    <2>1. at = Len(timeline) /\ at \in Nat \ {0} /\ Pairs(at - 1) = {}
      BY <1>1, PassFacts DEF PassInv, FirstPair
    <2>2. \A n : {w \in (1..n) \X (1..n) : w[1] < w[2] /\ Related(w[1], w[2])'}
                  = {w \in (1..n) \X (1..n) : w[1] < w[2] /\ Related(w[1], w[2])}
      BY <1>2 DEF Related
    <2>3. result' # <<>> /\ result'[1] = q /\ result'[2] = at /\ q \in 1..at /\ at \in 1..at /\ q < at
      BY <1>2, <1>3, <2>1
    <2>4. result' \in (1..at) \X (1..at)
      BY <1>2, <2>3
    <2>5. result' \in {w \in (1..at) \X (1..at) : w[1] < w[2] /\ Related(w[1], w[2])}
      BY <1>3, <2>3, <2>4
    <2>6. Len(timeline') = at /\ result'[2] - 1 = at - 1
      BY <1>2, <2>1, <2>3
    <2> QED
      BY <1>2, <2>1, <2>2, <2>3, <2>5, <2>6 DEF FirstPair, Pairs
  <1> QED
    BY <1>5, <1>8, <1>9, <1>10 DEF PassInv

(* An entry at the end of the queue is live.                               *)
LEMMA QueueAppend ==
    ASSUME NEW c \in Seq(Nat), NEW h \in 0..Len(c), NEW x \in Nat
    PROVE  LET a == Append(c, x)
               n == Len(c)
           IN  /\ a \in Seq(Nat) /\ Len(a) = n + 1 /\ h \in 0..Len(a)
               /\ {a[m] : m \in h + 1..Len(a)} = {c[m] : m \in h + 1..n} \cup {x}
               /\ \A j \in 1..Len(a) : (j \in 1..n /\ a[j] = c[j]) \/ (j = n + 1 /\ a[j] = x)
  <1> DEFINE a == Append(c, x)
             n == Len(c)
  <1>1. /\ a \in Seq(Nat) /\ Len(a) = n + 1 /\ n \in Nat /\ h \in 0..n /\ a[n + 1] = x
        /\ \A j \in 1..n : a[j] = c[j]
    BY AppendProperties, LenProperties
  <1> HIDE DEF a, n
  <1>2. \A j \in 1..n + 1 : j \in 1..n \/ j = n + 1
    BY <1>1
  <1>3. \A m \in h + 1..n + 1 : m \in h + 1..n \/ m = n + 1
    BY <1>1
  <1>4. n + 1 \in h + 1..n + 1 /\ \A m \in h + 1..n : m \in h + 1..n + 1 /\ m \in 1..n
    BY <1>1
  <1>5. {a[m] : m \in h + 1..n + 1} = {c[m] : m \in h + 1..n} \cup {x}
    BY <1>1, <1>3, <1>4
  <1>6. h \in 0..n + 1
    BY <1>1
  <1>7. \A j \in 1..n + 1 : (j \in 1..n /\ a[j] = c[j]) \/ (j = n + 1 /\ a[j] = x)
    BY <1>1, <1>2
  <1> QED
    BY <1>1, <1>5, <1>6, <1>7 DEF a, n

(* The event is indexed.                                                   *)
LEMMA PassIndexed ==
    ASSUME CorrelationAssumption, PassInv, Visit,
           match(index[Opposite(timeline[at].kind)], timeline[at]) = {}
    PROVE  PassInv'
  <1> DEFINE e == timeline[at]
             c == Compacted
             r == add(index[e.kind], e, at)
  <1>1. Running /\ ~Stale
    BY DEF Visit
  <1>2. /\ at = Len(timeline) /\ at \in Nat \ {0} /\ result = <<>> /\ e \in Events
        /\ e.kind \in Kinds /\ e.process \in Processes /\ e.cgroup \in Cgroups
        /\ index \in [Kinds -> Indexes] /\ Live \subseteq 1..at - 1
    BY <1>1, PassFacts DEF PassInv, PassTypes, Events
  <1>3. /\ index' = [index EXCEPT ![e.kind] = r] /\ at' = at + 1 /\ result' = <<>>
        /\ active' = (IF Keyed(at) THEN Append(c, at) ELSE c)
        /\ head' = Restart /\ timeline' = timeline
    BY <1>2 DEF Visit, Restart, Keyed
  <1>4. SameQueue(c, head')
    BY <1>1, <1>3, CompactKeeps
  <1>5. Added(r, index[e.kind], e, at)
    BY <1>2, AddLookup
  <1> HIDE DEF c, r
  <1>6. index'[e.kind] = r /\ \A b \in Kinds : b # e.kind => index'[b] = index[b]
    BY <1>2, <1>3
  <1>7. /\ active' \in Seq(Nat) /\ head' \in 0..Len(active')
        /\ Live' = (IF Keyed(at) THEN Live \cup {at} ELSE Live)
        /\ \A j, k \in 1..Len(active') : j < k => active'[j] < active'[k]
        /\ \A j \in 1..Len(active') : active'[j] \in 1..at /\ Keyed(active'[j])
    <2>1. /\ c \in Seq(Nat) /\ Len(c) \in Nat /\ head' \in 0..Len(c)
          /\ {c[m] : m \in head' + 1..Len(c)} = Live
          /\ \A j, k \in 1..Len(c) : j < k => c[j] < c[k]
          /\ \A j \in 1..Len(c) : c[j] \in 1..at - 1 /\ Keyed(c[j])
      <3>1. c \in Seq(Nat)
        BY <1>4 DEF SameQueue
      <3>2. Len(c) \in Nat
        BY <3>1, LenProperties
      <3> QED
        BY <1>4, <3>2, Zenon DEF SameQueue
    <2>2. CASE ~Keyed(at)
      <3>1. \A j \in 1..Len(c) : c[j] \in 1..at
        BY <1>2, <2>1
      <3> QED
        BY <1>3, <2>1, <2>2, <3>1 DEF Live
    <2>3. CASE Keyed(at)
      <3> DEFINE a == Append(c, at)
                 n == Len(c)
      <3>1. /\ active' = a /\ a \in Seq(Nat) /\ Len(a) = n + 1 /\ head' \in 0..Len(a)
            /\ {a[m] : m \in head' + 1..Len(a)} = {c[m] : m \in head' + 1..n} \cup {at}
            /\ \A j \in 1..Len(a) : (j \in 1..n /\ a[j] = c[j]) \/ (j = n + 1 /\ a[j] = at)
        BY <1>2, <1>3, <2>1, <2>3, QueueAppend
      <3> HIDE DEF a, n
      <3>2. n \in Nat /\ \A j \in 1..n : c[j] \in Nat /\ c[j] < at /\ c[j] \in 1..at /\ Keyed(c[j])
        BY <1>2, <2>1 DEF n
      <3>3. \A j \in 1..Len(a) : a[j] \in 1..at /\ Keyed(a[j])
        <4>1. at \in 1..at
          BY <1>2
        <4> QED
          BY <2>3, <3>1, <3>2, <4>1
      <3>4. ASSUME NEW j \in 1..Len(a), NEW k \in 1..Len(a), j < k PROVE a[j] < a[k]
        <4>1. j \in 1..n /\ a[j] = c[j]
          BY <3>1, <3>2, <3>4
        <4>2. CASE k \in 1..n /\ a[k] = c[k]
          BY <2>1, <3>4, <4>1, <4>2 DEF n
        <4>3. CASE a[k] = at
          BY <3>2, <4>1, <4>3
        <4> QED
          BY <3>1, <4>2, <4>3
      <3>5. Live' = Live \cup {at}
        BY <2>1, <3>1 DEF Live, n
      <3> QED
        BY <2>3, <3>1, <3>3, <3>4, <3>5
    <2> QED
      BY <2>2, <2>3
  <1>8. PassTypes'
    <2>1. index' \in [Kinds -> Indexes]
      BY <1>2, <1>3, <1>5 DEF Added
    <2>2. at + 1 \in Nat \ {0} /\ at + 1 - 1 <= Len(timeline) /\ Len(timeline) <= at + 1
      BY <1>2
    <2> QED
      BY <1>3, <1>7, <2>1, <2>2 DEF PassInv, PassTypes
  <1>9. Sorted'
    BY <1>3 DEF PassInv, Sorted
  <1>10. at' - 1 = at
    BY <1>2, <1>3
  <1>11. Queue'
    <2>1. \A k : (Keyed(k)' <=> Keyed(k)) /\ (Past(k)' <=> Past(k))
      BY <1>3 DEF Keyed, Past
    <2>2. \A k \in 1..at : Keyed(k) /\ k \notin Live' => k \in 1..at - 1 /\ k \notin Live
      BY <1>2, <1>7
    <2>3. \A k \in 1..at : Keyed(k) /\ k \notin Live' => Past(k)
      BY <2>2 DEF PassInv, Queue
    <2> QED
      BY <1>7, <1>10, <2>1, <2>3 DEF Queue
  <1>12. Indexed'
    <2> SUFFICES ASSUME NEW b \in Kinds
                 PROVE  /\ \A p \in Processes \ {0} : Greatest(index'[b].process[p], OfProcess(b, p)')
                        /\ \A d \in Cgroups : d > 1 => Greatest(index'[b].cgroup[d], OfCgroup(b, d)')
      BY DEF Indexed, Greatest
    <2>1. ASSUME NEW p \in Processes \ {0}
          PROVE  Greatest(index'[b].process[p], OfProcess(b, p)')
      <3>1. Greatest(index[b].process[p], OfProcess(b, p))
        BY DEF PassInv, Indexed
      <3>2. CASE b = e.kind /\ p = e.process
        <4>1. Keyed(at) /\ index'[b].process[p] = at
          BY <1>5, <1>6, <3>2 DEF Keyed, HasProcess, Added
        <4>2. OfProcess(b, p)' = OfProcess(b, p) \cup {at} /\ OfProcess(b, p) \subseteq 1..at - 1
          BY <1>2, <1>3, <1>7, <3>2, <4>1 DEF OfProcess
        <4>3. PICK S : S = OfProcess(b, p)
          OBVIOUS
        <4>4. Greatest(at, S \cup {at})
          BY <1>2, <4>2, <4>3, GreatestAdded
        <4> QED
          BY <4>1, <4>2, <4>3, <4>4
      <3>3. CASE ~(b = e.kind /\ p = e.process)
        <4>1. OfProcess(b, p)' = OfProcess(b, p)
          BY <1>3, <1>7, <3>3 DEF OfProcess
        <4>2. index'[b].process[p] = index[b].process[p]
          BY <1>5, <1>6, <3>3 DEF Added
        <4> QED
          BY <3>1, <4>1, <4>2
      <3> QED
        BY <3>2, <3>3
    <2>2. ASSUME NEW d \in Cgroups, d > 1
          PROVE  Greatest(index'[b].cgroup[d], OfCgroup(b, d)')
      <3>1. Greatest(index[b].cgroup[d], OfCgroup(b, d))
        BY <2>2 DEF PassInv, Indexed
      <3>2. CASE b = e.kind /\ d = e.cgroup
        <4>1. Keyed(at) /\ index'[b].cgroup[d] = at
          BY <1>5, <1>6, <2>2, <3>2 DEF Keyed, HasCgroup, Added
        <4>2. OfCgroup(b, d)' = OfCgroup(b, d) \cup {at} /\ OfCgroup(b, d) \subseteq 1..at - 1
          BY <1>2, <1>3, <1>7, <3>2, <4>1 DEF OfCgroup
        <4>3. PICK S : S = OfCgroup(b, d)
          OBVIOUS
        <4>4. Greatest(at, S \cup {at})
          BY <1>2, <4>2, <4>3, GreatestAdded
        <4> QED
          BY <4>1, <4>2, <4>3, <4>4
      <3>3. CASE ~(b = e.kind /\ d = e.cgroup)
        <4>1. OfCgroup(b, d)' = OfCgroup(b, d)
          BY <1>3, <1>7, <3>3 DEF OfCgroup
        <4>2. index'[b].cgroup[d] = index[b].cgroup[d]
          BY <1>5, <1>6, <2>2, <3>3 DEF Added
        <4> QED
          BY <3>1, <4>1, <4>2
      <3> QED
        BY <3>2, <3>3
    <2> QED
      BY <2>1, <2>2
  <1>13. FirstPair'
    <2>1. Pairs(at - 1) = {}
      BY <1>2 DEF PassInv, FirstPair
    <2>2. Pairs(at) = {}
      <3> SUFFICES ASSUME NEW w \in Pairs(at) PROVE FALSE
        OBVIOUS
      <3>1. w[1] \in 1..at /\ w[2] \in 1..at /\ w[1] < w[2] /\ Related(w[1], w[2])
        BY DEF Pairs
      <3>2. w[1] \in 1..at - 1
        BY <1>2, <3>1
      <3>3. CASE w[2] = at
        BY <1>1, <3>1, <3>2, <3>3, RelatedFound
      <3>4. CASE w[2] # at
        <4>1. w[2] \in 1..at - 1
          BY <1>2, <3>1, <3>4
        <4>2. w \in (1..at - 1) \X (1..at - 1)
          BY <3>2, <4>1 DEF Pairs
        <4> QED
          BY <2>1, <3>1, <4>2 DEF Pairs
      <3> QED
        BY <3>3, <3>4
    <2>3. \A n : {w \in (1..n) \X (1..n) : w[1] < w[2] /\ Related(w[1], w[2])'}
                  = {w \in (1..n) \X (1..n) : w[1] < w[2] /\ Related(w[1], w[2])}
      BY <1>3 DEF Related
    <2> QED
      BY <1>3, <1>10, <2>2, <2>3 DEF FirstPair, Pairs
  <1> QED
    BY <1>8, <1>9, <1>11, <1>12, <1>13 DEF PassInv

(* Every step of the pass keeps the invariant.                             *)
LEMMA PassNextKeeps ==
    ASSUME CorrelationAssumption, PassInv, [PassNext]_passVars
    PROVE  PassInv'
  <1>1. CASE \E e \in Events : Continue(e)
    BY <1>1, PassContinue
  <1>2. CASE Expire
    BY <1>2, PassExpire
  <1>3. CASE Visit
    BY <1>3, PassFound, PassIndexed
  <1>4. CASE UNCHANGED passVars
    <2>1. /\ timeline' = timeline /\ at' = at /\ index' = index /\ active' = active
          /\ head' = head /\ result' = result
      BY <1>4 DEF passVars
    <2>2. PassTypes' /\ Sorted'
      BY <2>1 DEF PassInv, PassTypes, Sorted
    <2>3. Queue'
      BY <2>1 DEF PassInv, Queue, Live, Keyed, Past
    <2>4. Indexed'
      BY <2>1 DEF PassInv, Indexed, Live, OfProcess, OfCgroup, Greatest
    <2>5. FirstPair'
      BY <2>1 DEF PassInv, FirstPair, Pairs, Related
    <2> QED
      BY <2>2, <2>3, <2>4, <2>5 DEF PassInv
  <1> QED
    BY <1>1, <1>2, <1>3, <1>4 DEF PassNext, Done

(* The invariant gives the property.                                       *)
LEMMA PassExact ==
    ASSUME CorrelationAssumption, PassInv
    PROVE  CoincidenceExact
  <1>1. PassTypeOK
    <2>1. Running /\ ~Stale =>
            {active[k] : k \in head + 1..Len(active)} =
                {k \in 1..at - 1 : ~expired(k) /\ (HasProcess(timeline[k]) \/ HasCgroup(timeline[k]))}
      BY QueueExact DEF Live, Keyed
    <2>2. \A k \in 1..Len(active) - 1 : active[k] < active[k + 1]
      <3>1. \A k \in 1..Len(active) - 1 : k \in 1..Len(active) /\ k + 1 \in 1..Len(active) /\ k < k + 1
        BY DEF PassInv, PassTypes
      <3> QED
        BY <3>1 DEF PassInv, Queue
    <2> QED
      BY <2>1, <2>2 DEF PassTypeOK, PassInv, PassTypes
  <1>2. IndexExact
    <2> SUFFICES ASSUME Running, ~Stale, NEW b \in Kinds
                 PROVE  LET live == {k \in 1..at - 1 : timeline[k].kind = b /\ ~expired(k)}
                        IN  /\ \A p \in Processes \ {0} :
                                  index[b].process[p] = Latest({k \in live : timeline[k].process = p})
                            /\ \A c \in {c \in Cgroups : c > 1} :
                                  index[b].cgroup[c] = Latest({k \in live : timeline[k].cgroup = c})
      BY DEF IndexExact
    <2> DEFINE live == {k \in 1..at - 1 : timeline[k].kind = b /\ ~expired(k)}
    <2>1. Live = {k \in 1..at - 1 : ~expired(k) /\ Keyed(k)} /\ Live \subseteq Nat \ {0}
      BY QueueExact, PassFacts
    <2>2. ASSUME NEW p \in Processes \ {0}
          PROVE  index[b].process[p] = Latest({k \in live : timeline[k].process = p})
      <3>1. {k \in live : timeline[k].process = p} = OfProcess(b, p)
        BY <2>1 DEF OfProcess, Keyed, HasProcess
      <3>2. Greatest(index[b].process[p], OfProcess(b, p)) /\ OfProcess(b, p) \subseteq Nat \ {0}
        BY <2>1 DEF PassInv, Indexed, OfProcess
      <3> QED
        BY <3>1, <3>2, LatestGreatest
    <2>3. ASSUME NEW c \in Cgroups, c > 1
          PROVE  index[b].cgroup[c] = Latest({k \in live : timeline[k].cgroup = c})
      <3>1. {k \in live : timeline[k].cgroup = c} = OfCgroup(b, c)
        BY <2>1, <2>3 DEF OfCgroup, Keyed, HasCgroup
      <3>2. Greatest(index[b].cgroup[c], OfCgroup(b, c)) /\ OfCgroup(b, c) \subseteq Nat \ {0}
        BY <2>1, <2>3 DEF PassInv, Indexed, OfCgroup
      <3> QED
        BY <3>1, <3>2, LatestGreatest
    <2> QED
      BY <2>2, <2>3
  <1> QED
    BY <1>1, <1>2 DEF PassInv, CoincidenceExact

(* firstCoincidence of internal/analyzer/correlation.go, for every window  *)
(* and every sorted timeline: one pass with two indexes and a compacted    *)
(* queue returns a pair that is related within the window and completed by *)
(* the earliest event that completes one, or there is no related pair.     *)
THEOREM FirstPairFound ==
    ASSUME CorrelationAssumption
    PROVE  PassSpec => []CoincidenceExact
  <1>1. PassInit => PassInv
    BY PassInitial
  <1>2. PassInv /\ [PassNext]_passVars => PassInv'
    BY PassNextKeeps
  <1>3. PassInv => CoincidenceExact
    BY PassExact
  <1> QED
    BY <1>1, <1>2, <1>3, PTL DEF PassSpec

-----------------------------------------------------------------------------
(* The verdict.                                                            *)
Summaries == [state : {"healthy", "error"}, count : Nat, anomalies : Nat, critical : Nat,
              covered : Nat, loss : Nat, details : Nat, criticalDetails : Nat]
Truths == [slow : Nat, critical : Nat, all : Nat, lost : BOOLEAN]
Manifests == [truncated : BOOLEAN, compacted : BOOLEAN, triggers : SUBSET Families,
              before : BOOLEAN]

VerdictTypes ==
    /\ setup \in Setups
    /\ signals \in [Families -> Summaries] /\ happened \in [Families -> Truths]
    /\ window \in 0..setup.intervals /\ todo \subseteq Families
    /\ closing \in BOOLEAN /\ drops \in BOOLEAN /\ manifest \in Manifests
    /\ missingEndpoints \in BOOLEAN

(* What a family's summary counts, each part within what happened.         *)
Counted(f, s, t) ==
    /\ s.anomalies <= t.all /\ s.details <= t.all
    /\ s.critical <= s.anomalies /\ s.criticalDetails <= s.details
    /\ f = "tcp" => s.critical = 0 /\ s.criticalDetails = 0
    /\ f \in {"tcp", "oom"} => s.count = s.anomalies

(* What limits the evidence of a family.                                   *)
Excused(s, d) == s.loss > 0 \/ d \/ s.state # "healthy"

(* Nothing slow goes by without an anomaly or an excuse, and nothing is    *)
(* lost without a reason the assessment sees.                              *)
Explained(s, t, d, c) ==
    /\ t.slow > 0 => s.anomalies > 0 \/ Excused(s, d)
    /\ t.lost => Excused(s, d) \/ c

(* What limits the evidence of the timeline.                               *)
TimelineLimited == manifest.compacted \/ missingEndpoints

(* A family that is still to be polled has not covered the interval.       *)
Coverage(f) == signals[f].covered + (IF f \in todo THEN 1 ELSE 0) <= window

VerdictInv ==
    /\ VerdictTypes /\ "tcp" \notin manifest.triggers
    /\ unseen => ResetNote
    /\ \A f \in Families :
         /\ Coverage(f) /\ Counted(f, signals[f], happened[f])
         /\ Explained(signals[f], happened[f], drops, TimelineLimited)

LEMMA SetupFacts ==
    ASSUME AssessmentAssumption, setup \in Setups
    PROVE  /\ Families \subseteq Latency \cup {"tcp", "oom"} /\ Families # {}
           /\ setup.intervals \in Nat
  BY DEF AssessmentAssumption, Families

LEMMA MaxOfTwo ==
    ASSUME NEW a \in Nat, NEW b \in Nat
    PROVE  /\ Max({a, b}) \in Nat
           /\ a <= Max({a, b}) /\ b <= Max({a, b})
           /\ Max({a, b}) = a \/ Max({a, b}) = b
  <1>1. \E x \in {a, b} : \A y \in {a, b} : x >= y
    OBVIOUS
  <1>2. /\ Max({a, b}) \in {a, b}
        /\ \A y \in {a, b} : Max({a, b}) >= y
    BY <1>1 DEF Max
  <1> QED
    BY <1>2

LEMMA MaxOfThree ==
    ASSUME NEW a \in Nat, NEW b \in Nat, NEW c \in Nat
    PROVE  /\ Max({a, b, c}) \in Nat
           /\ a <= Max({a, b, c}) /\ b <= Max({a, b, c}) /\ c <= Max({a, b, c})
           /\ Max({a, b, c}) = a \/ Max({a, b, c}) = b \/ Max({a, b, c}) = c
  <1>1. \E x \in {a, b, c} : \A y \in {a, b, c} : x >= y
    OBVIOUS
  <1>2. /\ Max({a, b, c}) \in {a, b, c}
        /\ \A y \in {a, b, c} : Max({a, b, c}) >= y
    BY <1>1 DEF Max
  <1> QED
    BY <1>2

(* What assess makes of one family's summary.                              *)
LEMMA ObservedFacts ==
    ASSUME VerdictInv, AssessmentAssumption, NEW f \in Families
    PROVE  /\ criticalCount(f) \in Nat /\ Observed(f) \in Nat
           /\ signals[f].critical <= criticalCount(f)
           /\ Observed(f) <= happened[f].all
           /\ signals[f].anomalies <= Observed(f)
  <1> DEFINE s == signals[f]
             t == happened[f]
             c == criticalCount(f)
             o == Observed(f)
  <1>1. /\ s.count \in Nat /\ s.anomalies \in Nat /\ s.critical \in Nat /\ s.details \in Nat
        /\ s.criticalDetails \in Nat /\ t.all \in Nat
    BY DEF VerdictInv, VerdictTypes, Summaries, Truths
  <1>2. Counted(f, s, t)
    BY DEF VerdictInv
  <1>3. c \in Nat /\ s.critical <= c /\ (c = s.critical \/ c = s.criticalDetails)
    BY <1>1, MaxOfTwo DEF criticalCount
  <1>4. c <= t.all
    BY <1>1, <1>2, <1>3 DEF Counted
  <1>5. CASE f \in {"block_io", "scheduler"}
    <2>1. o = Max({s.anomalies, s.details, c})
      BY <1>5 DEF Observed, Latency
    <2>2. o \in Nat /\ s.anomalies <= o /\ (o = s.anomalies \/ o = s.details \/ o = c)
      BY <2>1, <1>1, <1>3, MaxOfThree
    <2> QED
      BY <2>2, <1>1, <1>2, <1>3, <1>4 DEF Counted
  <1>6. CASE f = "tcp"
    <2> DEFINE m == Max({s.anomalies, s.details})
    <2>1. o = m
      BY <1>6 DEF Observed, Latency
    <2>2. m \in Nat /\ s.anomalies <= m /\ (m = s.anomalies \/ m = s.details)
      BY <1>1, MaxOfTwo
    <2> HIDE DEF m
    <2> QED
      BY <2>1, <2>2, <1>1, <1>2, <1>3 DEF Counted
  <1>7. CASE f = "oom"
    <2> DEFINE m == Max({s.count, s.details})
    <2>1. o = m
      BY <1>7 DEF Observed, Latency
    <2>2. m \in Nat /\ s.count <= m /\ (m = s.count \/ m = s.details)
      BY <1>1, MaxOfTwo
    <2> HIDE DEF m
    <2> QED
      BY <2>1, <2>2, <1>1, <1>2, <1>3, <1>7 DEF Counted
  <1>8. Families \subseteq Latency \cup {"tcp", "oom"}
    BY SetupFacts DEF VerdictInv, VerdictTypes
  <1> QED
    BY <1>5, <1>6, <1>7, <1>8 DEF Latency

(* The invariant is what the verdict needs.                                *)
LEMMA VerdictFromInv ==
    ASSUME AssessmentAssumption, VerdictInv
    PROVE  VerdictSound
  <1>0. Families \subseteq Latency \cup {"tcp", "oom"}
    BY SetupFacts DEF VerdictInv, VerdictTypes
  <1>1. WithinWindow
    <2> SUFFICES ASSUME NEW f \in Families
                 PROVE  signals[f].covered <= window /\ signals[f].details <= happened[f].all
      BY DEF WithinWindow, VerdictInv, VerdictTypes
    <2>1. signals[f].covered \in Nat /\ window \in Nat
      BY DEF VerdictInv, VerdictTypes, Summaries
    <2> QED
      BY <2>1 DEF VerdictInv, Coverage, Counted
  <1>2. LowerBounds
    BY ObservedFacts DEF LowerBounds
  <1>3. ASSUME NEW f \in Families, Excused(signals[f], drops)
        PROVE  Limited
    BY <1>3 DEF Excused, Limited, Gap
  <1>4. EvidenceState = "complete" => ~Limited
    BY DEF EvidenceState
  <1>5. CompleteIsComplete
    <2> SUFFICES ASSUME ~Limited, NEW f \in Families, happened[f].lost
                 PROVE  FALSE
      BY <1>4 DEF CompleteIsComplete
    <2>1. Excused(signals[f], drops) \/ TimelineLimited
      BY DEF VerdictInv, Explained
    <2> QED
      BY <2>1, <1>3 DEF Limited, TimelineLimited
  <1>6. NoFalseClear
    <2>1. ASSUME ~Limited, SignalState \in {"clear", "no_activity"},
                 NEW f \in Families, happened[f].slow # 0
          PROVE  FALSE
      <3>1. happened[f].slow \in Nat /\ signals[f].anomalies \in Nat
        BY DEF VerdictInv, VerdictTypes, Truths, Summaries
      <3>2. signals[f].anomalies > 0
        BY <2>1, <3>1, <1>3 DEF VerdictInv, Explained
      <3>3. Observed(f) > 0
        BY <3>1, <3>2, ObservedFacts
      <3> QED
        BY <2>1, <3>3 DEF SignalState
    <2>2. ~Limited /\ unseen => ResetNote /\ ~ResetLimit
      BY DEF VerdictInv, Limited
    <2> QED
      BY <2>1, <2>2, <1>4 DEF NoFalseClear
  <1>7. CriticalNeverHidden
    <2>1. ASSUME NEW f \in Families, signals[f].critical > 0
          PROVE  CriticalSeen(f)
      <3>1. signals[f].critical \in Nat /\ signals[f].anomalies \in Nat
        BY DEF VerdictInv, VerdictTypes, Summaries
      <3>2. criticalCount(f) > 0 /\ Observed(f) > 0 /\ f # "tcp"
        BY <2>1, <3>1, ObservedFacts DEF VerdictInv, Counted
      <3> QED
        BY <1>0, <3>2 DEF CriticalSeen, Latency
    <2>2. ASSUME NEW f \in manifest.triggers, ~triggerEvidenceMissing
          PROVE  f \in Families /\ CriticalSeen(f)
      <3>1. f \in Families /\ f # "tcp"
        BY DEF VerdictInv, VerdictTypes, Manifests
      <3>2. retained(f)
        BY <2>2 DEF triggerEvidenceMissing
      <3>3. IF f = "oom" THEN Observed(f) > 0 ELSE criticalCount(f) > 0
        BY <3>2 DEF retained
      <3> QED
        BY <1>0, <3>1, <3>3 DEF CriticalSeen, Latency
    <2>3. manifest.triggers # {} => triggerEvidenceMissing \/ \E f \in Families : CriticalSeen(f)
      BY <2>2
    <2> QED
      BY <2>1, <2>3 DEF CriticalNeverHidden, SignalState
  <1> QED
    BY <1>1, <1>2, <1>5, <1>6, <1>7 DEF VerdictSound

LEMMA VerdictInit ==
    ASSUME AssessmentAssumption, AssessInit
    PROVE  VerdictInv
  <1>1. VerdictTypes /\ "tcp" \notin manifest.triggers /\ ~unseen
    <2>1. NoSignals \in Summaries
      BY DEF NoSignals, Summaries
    <2>2. NoTruth \in Truths
      BY DEF NoTruth, Truths
    <2>3. manifest = [truncated |-> FALSE, compacted |-> FALSE, triggers |-> {}, before |-> FALSE]
      BY DEF AssessInit
    <2>4. manifest \in Manifests /\ "tcp" \notin manifest.triggers
      BY <2>3 DEF Manifests
    <2>5. signals \in [Families -> Summaries] /\ happened \in [Families -> Truths]
      BY <2>1, <2>2 DEF AssessInit
    <2>6. setup \in Setups /\ window \in 0..setup.intervals /\ todo \subseteq Families
      BY SetupFacts DEF AssessInit
    <2>7. closing \in BOOLEAN /\ drops \in BOOLEAN /\ missingEndpoints \in BOOLEAN /\ ~unseen
      BY DEF AssessInit
    <2> QED
      BY <2>4, <2>5, <2>6, <2>7 DEF VerdictTypes
  <1>2. ASSUME NEW f \in Families
        PROVE  /\ Coverage(f) /\ Counted(f, signals[f], happened[f])
               /\ Explained(signals[f], happened[f], drops, TimelineLimited)
    BY DEF AssessInit, NoSignals, NoTruth, Coverage, Counted, Explained
  <1> QED
    BY <1>1, <1>2 DEF VerdictInv

LEMMA SameSetup ==
    ASSUME UNCHANGED setup
    PROVE  Families' = Families /\ Manifests' = Manifests /\ ResetNote' = ResetNote
  BY DEF Families, Manifests, ResetNote

LEMMA UnseenStep ==
    ASSUME AssessmentAssumption, VerdictInv, UNCHANGED setup, UnseenReset
    PROVE  VerdictInv'
  <1>0. Families' = Families /\ Manifests' = Manifests
    BY SameSetup
  <1>1. UNCHANGED <<signals, window, todo, closing, manifest, drops, missingEndpoints, happened>>
    BY DEF UnseenReset
  <1>2. ResetNote'
    <2>1. ResetNote
      BY DEF UnseenReset, ResetNote, VerdictInv, VerdictTypes, AssessmentAssumption
    <2> QED
      BY <2>1, SameSetup
  <1>3. VerdictTypes' /\ TimelineLimited' = TimelineLimited
    BY <1>0, <1>1 DEF VerdictInv, VerdictTypes, TimelineLimited
  <1>4. \A f \in Families : Coverage(f)' = Coverage(f)
    BY <1>1 DEF Coverage
  <1> QED
    BY <1>0, <1>1, <1>2, <1>3, <1>4 DEF VerdictInv

LEMMA NextIntervalStep ==
    ASSUME AssessmentAssumption, VerdictInv, UNCHANGED setup, NextInterval
    PROVE  VerdictInv'
  <1>0. /\ Families' = Families /\ Manifests' = Manifests /\ ResetNote' = ResetNote
        /\ setup' = setup /\ setup \in Setups /\ (unseen => ResetNote)
    BY SameSetup DEF VerdictInv, VerdictTypes
  <1>1. /\ todo = {} /\ window < setup.intervals /\ window' = window + 1 /\ todo' = Families
        /\ UNCHANGED <<signals, closing, manifest, drops, missingEndpoints, happened, unseen>>
        /\ TimelineLimited' = TimelineLimited
    BY DEF NextInterval, TimelineLimited
  <1>2. VerdictTypes' /\ "tcp" \notin manifest'.triggers
    BY <1>0, <1>1 DEF VerdictInv, VerdictTypes, AssessmentAssumption
  <1>3. ASSUME NEW f \in Families
        PROVE  /\ Coverage(f)' /\ Counted(f, signals'[f], happened'[f])
               /\ Explained(signals'[f], happened'[f], drops', TimelineLimited')
    <2>1. signals[f].covered \in Nat /\ window \in Nat
      BY DEF VerdictInv, VerdictTypes, Summaries
    <2>2. Coverage(f)'
      BY <1>1, <2>1 DEF VerdictInv, Coverage
    <2> QED
      BY <1>1, <2>2 DEF VerdictInv
  <1> QED
    BY <1>0, <1>1, <1>2, <1>3 DEF VerdictInv

One(b) == IF b THEN 1 ELSE 0

(* What a poll adds to the summary of its family.                          *)
LEMMA SummedFacts ==
    ASSUME NEW s \in Summaries, NEW what, NEW metric, NEW detail, NEW r,
           r = Summed(s, what, metric, detail)
    PROVE  /\ r \in Summaries /\ r.state = s.state
           /\ r.covered = s.covered + One(metric = "kept")
           /\ r.count = s.count + One(metric = "kept" /\ what \in {"normal", "slow", "critical"})
           /\ r.anomalies = s.anomalies + One(metric = "kept" /\ Anomaly(what))
           /\ r.critical = s.critical + One(metric = "kept" /\ what = "critical")
           /\ r.loss = s.loss + One(metric = "kept" /\ (detail = "suppressed" \/ what = "untimed"))
           /\ r.details = s.details + One(InTimeline(detail))
           /\ r.criticalDetails = s.criticalDetails + One(InTimeline(detail) /\ what = "critical")
  <1> DEFINE m == IF metric = "kept" THEN 1 ELSE 0
             k == IF InTimeline(detail) THEN 1 ELSE 0
             n(b) == IF b THEN m ELSE 0
  <1>1. r = [s EXCEPT
              !.covered = @ + m,
              !.count = @ + n(what \in {"normal", "slow", "critical"}),
              !.anomalies = @ + n(Anomaly(what)),
              !.critical = @ + n(what = "critical"),
              !.loss = @ + n(detail = "suppressed" \/ what = "untimed"),
              !.details = @ + k,
              !.criticalDetails = @ + IF what = "critical" THEN k ELSE 0]
    BY Zenon DEF Summed
  <1>2. /\ m = One(metric = "kept") /\ k = One(InTimeline(detail))
        /\ n(what \in {"normal", "slow", "critical"})
              = One(metric = "kept" /\ what \in {"normal", "slow", "critical"})
        /\ n(Anomaly(what)) = One(metric = "kept" /\ Anomaly(what))
        /\ n(what = "critical") = One(metric = "kept" /\ what = "critical")
        /\ n(detail = "suppressed" \/ what = "untimed")
              = One(metric = "kept" /\ (detail = "suppressed" \/ what = "untimed"))
        /\ (IF what = "critical" THEN k ELSE 0) = One(InTimeline(detail) /\ what = "critical")
    BY DEF One, Anomaly
  <1> DEFINE m2 == m
             k2 == k
             p2 == n(what \in {"normal", "slow", "critical"})
             a2 == n(Anomaly(what))
             c2 == n(what = "critical")
             l2 == n(detail = "suppressed" \/ what = "untimed")
             d2 == IF what = "critical" THEN k ELSE 0
  <1>3. m2 \in Nat /\ k2 \in Nat /\ p2 \in Nat /\ a2 \in Nat /\ c2 \in Nat /\ l2 \in Nat /\ d2 \in Nat
    OBVIOUS
  <1>4. r = [s EXCEPT !.covered = @ + m2, !.count = @ + p2, !.anomalies = @ + a2,
                      !.critical = @ + c2, !.loss = @ + l2, !.details = @ + k2,
                      !.criticalDetails = @ + d2]
    BY <1>1
  <1> HIDE DEF m2, k2, p2, a2, c2, l2, d2
  <1>5. r.state = s.state /\ r.covered = s.covered + m2 /\ r.count = s.count + p2
    BY <1>4 DEF Summaries
  <1>6. r.anomalies = s.anomalies + a2 /\ r.critical = s.critical + c2 /\ r.loss = s.loss + l2
    BY <1>4 DEF Summaries
  <1>7. r.details = s.details + k2 /\ r.criticalDetails = s.criticalDetails + d2
    BY <1>4 DEF Summaries
  <1>8. /\ s.covered + m2 \in Nat /\ s.count + p2 \in Nat /\ s.anomalies + a2 \in Nat
        /\ s.critical + c2 \in Nat /\ s.loss + l2 \in Nat /\ s.details + k2 \in Nat
        /\ s.criticalDetails + d2 \in Nat
    BY <1>3 DEF Summaries
  <1>9. r \in Summaries
    BY <1>4, <1>8 DEF Summaries
  <1> QED
    BY <1>2, <1>5, <1>6, <1>7, <1>9 DEF m2, k2, p2, a2, c2, l2, d2

LEMMA PollStep ==
    ASSUME AssessmentAssumption, VerdictInv, UNCHANGED setup,
           NEW f \in Families, NEW what, NEW metric \in {"kept", "dropped", "partial"},
           NEW detail \in {"none", "kept", "nameless", "suppressed", "dropped"},
           Poll(f, what, metric, detail)
    PROVE  VerdictInv'
  <1>0. /\ Families' = Families /\ Manifests' = Manifests /\ ResetNote' = ResetNote
        /\ setup' = setup /\ setup \in Setups /\ (unseen => ResetNote)
    BY SameSetup DEF VerdictInv, VerdictTypes
  <1> DEFINE lost == happened[f].lost \/ (metric # "partial" /\ (metric = "dropped"
                         \/ what = "untimed" \/ detail \in {"suppressed", "dropped", "nameless"}))
             slow == metric # "partial" /\ (Anomaly(what) \/ what = "untimed")
             critical == metric # "partial" /\ what = "critical"
             r == Summed(signals[f], what, metric, detail)
  <1>1. /\ f \in todo /\ signals[f].state = "healthy" /\ what \in Happening(f)
        /\ Anomaly(what) <=> detail # "none"
        /\ todo' = todo \ {f} /\ window' = window
        /\ signals' = [signals EXCEPT ![f] = r]
    BY Zenon DEF Poll
  <1>2. PICK b \in BOOLEAN : b = lost
    BY Zenon
  <1>3. PICK e \in BOOLEAN : e = (drops \/ "dropped" \in {metric, detail})
    BY Zenon
  <1>4. drops' = e /\ closing' \in BOOLEAN /\ unseen' = unseen
    BY <1>3, Zenon DEF Poll
  <1>18. PICK k \in BOOLEAN : k = (missingEndpoints \/ detail = "nameless")
    BY Zenon
  <1>19. missingEndpoints' = k
    BY <1>18, Zenon DEF Poll
  <1>5. happened' = [happened EXCEPT ![f] = [slow |-> happened[f].slow + One(slow),
                     critical |-> happened[f].critical + One(critical),
                     all |-> happened[f].all + One(Anomaly(what)), lost |-> b]]
    BY <1>2 DEF Poll, One
  <1>6. \/ manifest' = manifest
        \/ what = "critical" /\ manifest' = [manifest EXCEPT !.triggers = @ \cup {f}]
    BY DEF Poll
  <1>7. /\ signals[f] \in Summaries /\ happened[f] \in Truths /\ manifest \in Manifests
        /\ signals \in [Families -> Summaries] /\ happened \in [Families -> Truths]
        /\ drops \in BOOLEAN /\ manifest.compacted \in BOOLEAN
        /\ window \in 0..setup.intervals /\ todo \subseteq Families
    BY DEF VerdictInv, VerdictTypes, Manifests
  <1>20. (detail = "nameless" => k) /\ (missingEndpoints => k) /\ missingEndpoints \in BOOLEAN
    BY <1>18 DEF VerdictInv, VerdictTypes
  <1>8. f \in {"block_io", "scheduler", "tcp", "oom"}
    BY <1>0, SetupFacts DEF Latency
  <1>9. r \in Summaries /\ r.covered = signals[f].covered + One(metric = "kept")
    BY <1>7, SummedFacts
  <1> DEFINE u == [slow |-> happened[f].slow + One(slow), critical |-> happened[f].critical + One(critical),
                   all |-> happened[f].all + One(Anomaly(what)), lost |-> b]
  <1>10. One(slow) \in Nat /\ One(critical) \in Nat /\ One(Anomaly(what)) \in Nat
    BY DEF One
  <1>11. u \in Truths /\ u.slow = happened[f].slow + One(slow)
         /\ u.all = happened[f].all + One(Anomaly(what)) /\ u.lost = b
    BY <1>7, <1>10 DEF Truths
  <1>12. Counted(f, r, u) /\ Explained(r, u, e, manifest.compacted \/ k)
    <2> DEFINE s == signals[f]
               t == happened[f]
    <2>1. Counted(f, s, t) /\ s \in Summaries /\ t \in Truths /\ s.state = "healthy"
      BY <1>1, <1>7 DEF VerdictInv
    <2>2. /\ t.slow > 0 => s.anomalies > 0 \/ s.loss > 0 \/ drops
          /\ t.lost => s.loss > 0 \/ drops \/ manifest.compacted \/ k
      BY <1>20, <2>1 DEF VerdictInv, Explained, Excused, TimelineLimited
    <2>3. u.slow = t.slow + One(slow) /\ u.all = t.all + One(Anomaly(what)) /\ u.lost = b
      BY <1>11
    <2>4. r = Summed(s, what, metric, detail)
      OBVIOUS
    <2>5. /\ drops => e
          /\ metric = "dropped" \/ detail = "dropped" => e
      BY <1>3
    <2>6. b => t.lost \/ metric = "dropped" \/ detail = "dropped" \/ detail = "nameless"
                \/ (metric = "kept" /\ (detail = "suppressed" \/ what = "untimed"))
      BY <1>2
    <2> HIDE DEF s, t, u, r, lost, critical
    <2>7. /\ r.count = s.count + One(metric = "kept" /\ what \in {"normal", "slow", "critical"})
          /\ r.anomalies = s.anomalies + One(metric = "kept" /\ Anomaly(what))
          /\ r.critical = s.critical + One(metric = "kept" /\ what = "critical")
          /\ r.loss = s.loss + One(metric = "kept" /\ (detail = "suppressed" \/ what = "untimed"))
          /\ r.details = s.details + One(InTimeline(detail))
          /\ r.criticalDetails = s.criticalDetails + One(InTimeline(detail) /\ what = "critical")
      BY <2>1, <2>4, SummedFacts
    <2>8. /\ s.count \in Nat /\ s.anomalies \in Nat /\ s.critical \in Nat /\ s.details \in Nat
          /\ s.criticalDetails \in Nat /\ s.loss \in Nat /\ t.all \in Nat /\ t.slow \in Nat
      BY <2>1 DEF Summaries, Truths
    <2>9. /\ f = "tcp" => what \in {"idle", "slow"}
          /\ f = "oom" => what \in {"idle", "critical"}
      BY <1>1 DEF Happening, Latency
    <2>10. Counted(f, r, u)
      <3>0. InTimeline(detail) => Anomaly(what)
        BY <1>1 DEF InTimeline
      <3>1. r.anomalies <= u.all /\ r.details <= u.all
        BY <1>1, <3>0, <2>1, <2>3, <2>7, <2>8 DEF Counted, One
      <3>2. r.critical <= r.anomalies
        BY <2>1, <2>7, <2>8 DEF Counted, One, Anomaly
      <3>3. r.criticalDetails <= r.details
        BY <2>1, <2>7, <2>8 DEF Counted, One
      <3>4. f = "tcp" => r.critical = 0 /\ r.criticalDetails = 0
        BY <2>1, <2>7, <2>8, <2>9 DEF Counted, One
      <3>5. f \in {"tcp", "oom"} => r.count = r.anomalies
        BY <2>1, <2>7, <2>8, <2>9 DEF Counted, One, Anomaly
      <3> QED
        BY <3>1, <3>2, <3>3, <3>4, <3>5 DEF Counted
    <2>11. u.slow > 0 => r.anomalies > 0 \/ r.loss > 0 \/ e
      <3>1. CASE t.slow > 0
        BY <3>1, <2>2, <2>5, <2>7, <2>8 DEF One
      <3>2. CASE metric # "partial" /\ (Anomaly(what) \/ what = "untimed")
        BY <3>2, <2>5, <2>7, <2>8 DEF One
      <3> QED
        BY <3>1, <3>2, <2>3, <2>8 DEF One
    <2>12. u.lost => r.loss > 0 \/ e \/ manifest.compacted \/ k
      <3>1. CASE t.lost
        BY <3>1, <2>2, <2>5, <2>7, <2>8 DEF One
      <3>2. CASE metric = "kept" /\ (detail = "suppressed" \/ what = "untimed")
        BY <3>2, <2>7, <2>8 DEF One
      <3> QED
        BY <1>20, <3>1, <3>2, <2>3, <2>5, <2>6
    <2> QED
      BY <2>10, <2>11, <2>12 DEF Explained, Excused
  <1> HIDE DEF u, r, lost, slow, critical
  <1>13. happened' = [happened EXCEPT ![f] = u]
    BY <1>5 DEF u
  <1>14. what = "critical" => f # "tcp"
    BY <1>1 DEF Happening, Latency
  <1>15. /\ manifest' \in Manifests /\ manifest'.compacted = manifest.compacted
         /\ "tcp" \notin manifest'.triggers
    BY <1>6, <1>7, <1>14 DEF VerdictInv, Manifests
  <1>16. VerdictTypes'
    BY <1>0, <1>1, <1>4, <1>7, <1>9, <1>11, <1>13, <1>15, <1>19 DEF VerdictTypes
  <1>21. TimelineLimited' = (manifest.compacted \/ k) /\ (TimelineLimited => manifest.compacted \/ k)
    BY <1>15, <1>19, <1>20 DEF TimelineLimited
  <1>17. ASSUME NEW g \in Families
         PROVE  /\ Coverage(g)' /\ Counted(g, signals'[g], happened'[g])
                /\ Explained(signals'[g], happened'[g], drops', TimelineLimited')
    <2>1. Coverage(g) /\ signals[g].covered \in Nat /\ window \in Nat
      BY <1>7 DEF VerdictInv, Summaries
    <2>2. CASE g = f
      <3>1. signals'[g] = r /\ happened'[g] = u
        BY <2>2, <1>1, <1>7, <1>13
      <3>2. Coverage(g)'
        BY <2>1, <2>2, <3>1, <1>1, <1>9 DEF Coverage, One
      <3> QED
        BY <2>2, <3>1, <3>2, <1>4, <1>12, <1>21
    <2>3. CASE g # f
      <3>1. signals'[g] = signals[g] /\ happened'[g] = happened[g]
        BY <2>3, <1>1, <1>7, <1>13
      <3>2. Coverage(g)'
        BY <2>1, <2>3, <3>1, <1>1 DEF Coverage
      <3>3. Counted(g, signals[g], happened[g]) /\ Explained(signals[g], happened[g], drops, TimelineLimited)
        BY DEF VerdictInv
      <3>4. drops => e
        BY <1>3
      <3> QED
        <4>1. Explained(signals[g], happened[g], e, manifest.compacted \/ k)
          BY <3>3, <3>4, <1>21 DEF Explained, Excused
        <4>2. Explained(signals'[g], happened'[g], drops', TimelineLimited')
          BY <3>1, <4>1, <1>4, <1>21
        <4> QED
          BY <3>1, <3>2, <3>3, <4>2
    <2> QED
      BY <2>2, <2>3
  <1> QED
    BY <1>0, <1>4, <1>15, <1>16, <1>17 DEF VerdictInv

LEMMA FailStep ==
    ASSUME AssessmentAssumption, VerdictInv, UNCHANGED setup, NEW f \in Families, NEW what,
           Fail(f, what)
    PROVE  VerdictInv'
  <1>0. /\ Families' = Families /\ Manifests' = Manifests /\ ResetNote' = ResetNote
        /\ setup' = setup /\ setup \in Setups /\ (unseen => ResetNote)
    BY SameSetup DEF VerdictInv, VerdictTypes
  <1>1. /\ signals' = [signals EXCEPT ![f].state = "error"] /\ todo' = todo \ {f}
        /\ UNCHANGED <<window, closing, manifest, drops, missingEndpoints, unseen>>
        /\ TimelineLimited' = TimelineLimited
    BY DEF Fail, TimelineLimited
  <1>2. PICK b \in BOOLEAN : b = (happened[f].lost \/ Anomaly(what))
    BY Zenon
  <1> DEFINE x == IF what \in {"slow", "critical", "untimed"} THEN happened[f].slow + 1 ELSE happened[f].slow
             y == IF Anomaly(what) THEN happened[f].all + 1 ELSE happened[f].all
  <1>3. /\ signals[f] \in Summaries /\ happened[f] \in Truths
        /\ signals \in [Families -> Summaries] /\ happened \in [Families -> Truths]
        /\ window \in 0..setup.intervals /\ todo \subseteq Families
    BY DEF VerdictInv, VerdictTypes
  <1>4. x \in Nat /\ y \in Nat /\ happened[f].all <= y
    BY <1>3 DEF Truths
  <1>5. happened' = [happened EXCEPT ![f] = [happened[f] EXCEPT !.slow = x, !.lost = b, !.all = y]]
    BY <1>2, <1>3 DEF Fail, Truths
  <1> HIDE DEF x, y
  <1>6. /\ happened'[f] = [happened[f] EXCEPT !.slow = x, !.lost = b, !.all = y]
        /\ signals'[f] = [signals[f] EXCEPT !.state = "error"]
    BY <1>1, <1>3, <1>5
  <1>7. /\ happened'[f] \in Truths /\ happened'[f].all = y
    BY <1>3, <1>4, <1>6 DEF Truths
  <1>8. /\ signals'[f] \in Summaries /\ signals'[f].state = "error"
        /\ signals'[f].covered = signals[f].covered /\ signals'[f].count = signals[f].count
        /\ signals'[f].anomalies = signals[f].anomalies /\ signals'[f].critical = signals[f].critical
        /\ signals'[f].details = signals[f].details
        /\ signals'[f].criticalDetails = signals[f].criticalDetails
    BY <1>3, <1>6 DEF Summaries
  <1>9. \A g \in Families \ {f} : signals'[g] = signals[g] /\ happened'[g] = happened[g]
    BY <1>1, <1>3, <1>5
  <1>10. signals' \in [Families -> Summaries] /\ happened' \in [Families -> Truths]
    BY <1>1, <1>3, <1>5, <1>6, <1>7, <1>8
  <1>11. VerdictTypes' /\ "tcp" \notin manifest'.triggers
    BY <1>0, <1>1, <1>10 DEF VerdictInv, VerdictTypes
  <1>12. ASSUME NEW g \in Families
         PROVE  /\ Coverage(g)' /\ Counted(g, signals'[g], happened'[g])
                /\ Explained(signals'[g], happened'[g], drops', TimelineLimited')
    <2>1. /\ Coverage(g) /\ Counted(g, signals[g], happened[g])
          /\ Explained(signals[g], happened[g], drops, TimelineLimited)
          /\ signals[g].covered \in Nat /\ window \in Nat
      BY <1>3 DEF VerdictInv, Summaries
    <2>2. signals'[g].covered = signals[g].covered
      BY <1>8, <1>9
    <2>3. Coverage(g)'
      BY <1>1, <2>1, <2>2 DEF Coverage
    <2>4. CASE g = f
      <3>1. Counted(g, signals'[g], happened'[g])
        BY <2>1, <2>4, <1>3, <1>4, <1>7, <1>8 DEF Counted, Summaries, Truths
      <3>2. Explained(signals'[g], happened'[g], drops', TimelineLimited')
        BY <2>4, <1>8 DEF Explained, Excused
      <3> QED
        BY <2>3, <3>1, <3>2
    <2>5. CASE g # f
      BY <2>1, <2>3, <2>5, <1>1, <1>9
    <2> QED
      BY <2>4, <2>5
  <1> QED
    BY <1>0, <1>1, <1>11, <1>12 DEF VerdictInv

(* A family after compaction.                                              *)
Bare(s) == [s EXCEPT !.details = 0, !.criticalDetails = 0]
Marked(t, s) == [t EXCEPT !.lost = @ \/ s.details > 0]

LEMMA BareFacts ==
    ASSUME NEW s \in Summaries
    PROVE  /\ Bare(s) \in Summaries /\ Bare(s).details = 0 /\ Bare(s).criticalDetails = 0
           /\ Bare(s).state = s.state /\ Bare(s).count = s.count /\ Bare(s).anomalies = s.anomalies
           /\ Bare(s).critical = s.critical /\ Bare(s).loss = s.loss /\ Bare(s).covered = s.covered
  BY DEF Bare, Summaries

LEMMA MarkedFacts ==
    ASSUME NEW t \in Truths, NEW s
    PROVE  /\ Marked(t, s) \in Truths /\ Marked(t, s).all = t.all /\ Marked(t, s).slow = t.slow
  <1>1. PICK b \in BOOLEAN : b = (t.lost \/ s.details > 0)
    BY Zenon
  <1>2. Marked(t, s) = [t EXCEPT !.lost = b]
    BY <1>1, Zenon DEF Marked
  <1> QED
    BY <1>2 DEF Truths

LEMMA CompactStep ==
    ASSUME AssessmentAssumption, VerdictInv, UNCHANGED setup, Compact
    PROVE  VerdictInv'
  <1>0. /\ Families' = Families /\ Manifests' = Manifests /\ ResetNote' = ResetNote
        /\ setup' = setup /\ setup \in Setups /\ (unseen => ResetNote)
    BY SameSetup DEF VerdictInv, VerdictTypes
  <1>1. /\ signals' = [f \in Families |-> Bare(signals[f])]
        /\ happened' = [f \in Families |-> Marked(happened[f], signals[f])]
        /\ manifest' = [manifest EXCEPT !.compacted = TRUE]
        /\ missingEndpoints' = FALSE /\ UNCHANGED <<window, todo, closing, drops, unseen>>
    BY Zenon DEF Compact, Bare, Marked
  <1>2. manifest' \in Manifests /\ manifest'.compacted = TRUE /\ "tcp" \notin manifest'.triggers
        /\ TimelineLimited'
    BY <1>1 DEF VerdictInv, VerdictTypes, Manifests, TimelineLimited
  <1>3. ASSUME NEW f \in Families
        PROVE  /\ signals[f] \in Summaries /\ happened[f] \in Truths /\ happened'[f] \in Truths
               /\ happened'[f].all = happened[f].all /\ happened'[f].slow = happened[f].slow
    <2>1. signals[f] \in Summaries /\ happened[f] \in Truths
      BY DEF VerdictInv, VerdictTypes
    <2> QED
      BY <1>1, <2>1, MarkedFacts
  <1>4. ASSUME NEW f \in Families
        PROVE  /\ signals'[f] \in Summaries /\ signals'[f].details = 0 /\ signals'[f].criticalDetails = 0
               /\ signals'[f].state = signals[f].state /\ signals'[f].count = signals[f].count
               /\ signals'[f].anomalies = signals[f].anomalies
               /\ signals'[f].critical = signals[f].critical /\ signals'[f].loss = signals[f].loss
               /\ signals'[f].covered = signals[f].covered
    BY <1>1, <1>3, BareFacts
  <1>5. signals' = [f \in Families |-> signals'[f]] /\ happened' = [f \in Families |-> happened'[f]]
    BY <1>1
  <1>6. signals' \in [Families -> Summaries] /\ happened' \in [Families -> Truths]
    BY <1>3, <1>4, <1>5
  <1>7. VerdictTypes'
    BY <1>0, <1>1, <1>2, <1>6 DEF VerdictInv, VerdictTypes
  <1>8. ASSUME NEW f \in Families
        PROVE  /\ Coverage(f)' /\ Counted(f, signals'[f], happened'[f])
               /\ Explained(signals'[f], happened'[f], drops', TimelineLimited')
    <2>1. /\ Coverage(f) /\ Counted(f, signals[f], happened[f])
          /\ Explained(signals[f], happened[f], drops, TimelineLimited)
      BY DEF VerdictInv
    <2>2. Coverage(f)'
      BY <1>1, <1>4, <2>1 DEF Coverage
    <2>3. Counted(f, signals'[f], happened'[f])
      BY <1>3, <1>4, <2>1 DEF Counted, Truths
    <2>4. Explained(signals'[f], happened'[f], drops', TimelineLimited')
      BY <1>1, <1>2, <1>3, <1>4, <2>1 DEF Explained, Excused
    <2> QED
      BY <2>2, <2>3, <2>4
  <1> QED
    BY <1>0, <1>1, <1>2, <1>7, <1>8 DEF VerdictInv

LEMMA EvictStep ==
    ASSUME AssessmentAssumption, VerdictInv, UNCHANGED setup, NEW requested \in BOOLEAN, Evict(requested)
    PROVE  VerdictInv'
  <1>0. /\ Families' = Families /\ Manifests' = Manifests /\ ResetNote' = ResetNote
        /\ setup' = setup /\ setup \in Setups /\ (unseen => ResetNote)
    BY SameSetup DEF VerdictInv, VerdictTypes
  <1>1. /\ todo = {} /\ window' = 0 /\ UNCHANGED <<todo, closing, drops>>
        /\ signals' = [f \in Families |-> [NoSignals EXCEPT !.state = signals[f].state]]
        /\ happened' = [f \in Families |-> NoTruth] /\ missingEndpoints' = FALSE /\ unseen' = FALSE
    BY DEF Evict
  <1>2. PICK x \in BOOLEAN, y \in BOOLEAN :
            manifest' = [truncated |-> x, compacted |-> FALSE, triggers |-> manifest.triggers, before |-> y]
    <2> DEFINE x == manifest.truncated \/ requested
               y == manifest.before \/ manifest.triggers # {}
    <2>1. x \in BOOLEAN /\ y \in BOOLEAN
      BY Zenon
    <2>2. manifest' = [truncated |-> x, compacted |-> FALSE, triggers |-> manifest.triggers, before |-> y]
      BY Zenon DEF Evict
    <2> HIDE DEF x, y
    <2> QED
      BY <2>1, <2>2, Zenon
  <1>3. manifest' \in Manifests /\ manifest'.compacted = FALSE /\ "tcp" \notin manifest'.triggers
    BY <1>2 DEF VerdictInv, VerdictTypes, Manifests
  <1>4. NoTruth \in Truths /\ NoTruth.slow = 0 /\ NoTruth.lost = FALSE
        /\ NoTruth.all = 0
    BY DEF NoTruth, Truths
  <1>5. ASSUME NEW f \in Families
        PROVE  /\ signals'[f] \in Summaries /\ signals'[f].details = 0 /\ signals'[f].criticalDetails = 0
               /\ signals'[f].count = 0 /\ signals'[f].anomalies = 0 /\ signals'[f].critical = 0
               /\ signals'[f].covered = 0 /\ happened'[f] = NoTruth
    <2>1. signals[f].state \in {"healthy", "error"}
      BY DEF VerdictInv, VerdictTypes, Summaries
    <2> QED
      BY <1>1, <2>1 DEF NoSignals, Summaries
  <1>6. signals' = [f \in Families |-> signals'[f]] /\ happened' = [f \in Families |-> happened'[f]]
    BY <1>1
  <1>7. signals' \in [Families -> Summaries] /\ happened' \in [Families -> Truths]
    BY <1>4, <1>5, <1>6
  <1>8. VerdictTypes'
    <2>1. setup.intervals \in Nat /\ todo \subseteq Families /\ closing \in BOOLEAN /\ drops \in BOOLEAN
      BY <1>0, SetupFacts DEF VerdictInv, VerdictTypes
    <2>2. window' \in 0..setup'.intervals
      BY <1>0, <1>1, <2>1
    <2> QED
      BY <1>0, <1>1, <1>3, <1>7, <2>1, <2>2 DEF VerdictTypes
  <1>9. ASSUME NEW f \in Families
        PROVE  /\ Coverage(f)' /\ Counted(f, signals'[f], happened'[f])
               /\ Explained(signals'[f], happened'[f], drops', TimelineLimited')
    BY <1>1, <1>4, <1>5 DEF Coverage, Counted, Explained
  <1> QED
    BY <1>0, <1>1, <1>3, <1>8, <1>9 DEF VerdictInv

LEMMA VerdictStep ==
    ASSUME AssessmentAssumption, VerdictInv, [AssessNext]_assessVars
    PROVE  VerdictInv'
  <1>1. CASE UNCHANGED assessVars
    <2>1. Families' = Families /\ Manifests' = Manifests /\ ResetNote' = ResetNote
      BY <1>1, SameSetup DEF assessVars
    <2> QED
      BY <1>1, <2>1 DEF assessVars, VerdictInv, VerdictTypes, Coverage, TimelineLimited
  <1> QED
    BY <1>1, NextIntervalStep, UnseenStep, PollStep, FailStep, CompactStep, EvictStep DEF AssessNext

(* Whatever sensors are enabled and however long the window, the verdict   *)
(* of a report is sound: a clear signal with complete evidence means that  *)
(* nothing slow happened that a tracepoint shows, and that the report      *)
(* notes the resets it does not show; complete evidence, that nothing was  *)
(* lost; no critical observation is passed over, and the lower bounds are  *)
(* bounds.                                                                 *)
THEOREM VerdictNeverMisleads ==
    ASSUME AssessmentAssumption
    PROVE  AssessSpec => []VerdictSound
  <1>1. VerdictInv => VerdictSound
    BY VerdictFromInv
  <1>2. AssessInit => VerdictInv
    BY VerdictInit
  <1>3. VerdictInv /\ [AssessNext]_assessVars => VerdictInv'
    BY VerdictStep
  <1> QED
    BY <1>1, <1>2, <1>3, PTL DEF AssessSpec

-----------------------------------------------------------------------------
(* The decoded events.                                                     *)
TcpKinds == {Retransmitted, SentReset, ReceivedReset}
Places == {"local", "remote", "none"}
Wires == [{"kind", "operation", "state", "family", "source", "destination", "pid", "tgid"}
            -> Int \cup Places]
Causes == [kind : TcpKinds, source : Places, destination : Places]
            \cup [kind : {Victim}, pid : Nat] \cup [kind : {1, 2}, operation : Nat]

(* What a decoded event tells of its cause.                                *)
Told(e, of) ==
    /\ of.kind \in TcpKinds =>
         IF e.endpoint = "unavailable" THEN e.source = "none" /\ e.destination = "none"
         ELSE e.source = of.source /\ e.destination = of.destination
    /\ of.kind \in {1, 2, Victim} => e.direction = "none" /\ e.endpoint = "none"
    /\ of.kind \in {1, 2} => ~e.pidOnly
    /\ of.kind = 1 => (e.operation = "read" <=> of.operation = 0)
    /\ of.kind = Victim => e.pid = of.pid /\ (e.pidOnly <=> e.tgid = 0)

(* Records in the ring tell the truth once they are decoded.               *)
Records == {r \in [w : Wires, of : Causes] : Told(normalize(r.w), r.of)}

LoadedOK ==
    /\ loaded.tcp = "plain" => kernel.retransmit = "sk_skb"
    /\ loaded.tcp \in {"none", "plain", "error"}
    /\ loaded.oom = "none" \/ (loaded.oom = kernel.victim /\ kernel.victim \in {"pid", "task"})

CountsOK ==
    /\ stats \in [count : Nat, resets : Nat, retransmits : Nat]
    /\ truth \in [events : Nat, resets : Nat, retransmits : Nat]
    /\ stats.count = stats.resets + stats.retransmits
    /\ stats.resets = truth.resets /\ stats.retransmits = truth.retransmits
    /\ truth.events <= MaxFired + 1
    /\ stats.count + (IF truth.events = 0 THEN 0 ELSE 1) <= truth.events

DecodeInv ==
    /\ LoadedOK /\ CountsOK
    /\ ring \in Seq(Records) /\ Len(ring) <= RingSize
    /\ decoded.of.kind \in 0..6 /\ Told(decoded.event, decoded.of)

(* The fields of a record that normalize reads.                            *)
Filled(w, k, o, src, dst, pid, tgid) ==
    /\ w \in Wires /\ w.kind = k /\ w.operation = o /\ w.source = src /\ w.destination = dst
    /\ w.pid = pid /\ w.tgid = tgid

LEMMA ZeroFilled ==
    Zero \in Wires /\ Filled(Zero, 0, 0, "none", "none", 0, 0)
  BY DEF Zero, Wires, Filled, Places

OfKind(k) == [Zero EXCEPT !.kind = k]
Asked(z, o, s) == [z EXCEPT !.operation = o, !.state = s]
Named(z, src, dst, n) ==
    [z EXCEPT !.family = 2, !.source = src, !.destination = dst, !.operation = @ + n]

LEMMA KindFilled ==
    ASSUME NEW k \in Int
    PROVE  Filled(OfKind(k), k, 0, "none", "none", 0, 0)
  <1>1. PICK z : z = Zero
    OBVIOUS
  <1> QED
    BY <1>1, ZeroFilled DEF Wires, Filled, Places, OfKind

LEMMA AskedFilled ==
    ASSUME NEW z, NEW k, Filled(z, k, 0, "none", "none", 0, 0), NEW o \in Int, NEW s \in Int
    PROVE  Filled(Asked(z, o, s), k, o, "none", "none", 0, 0)
  BY DEF Wires, Filled, Asked

LEMMA NamedFilled ==
    ASSUME NEW z, NEW k, NEW o \in Int, Filled(z, k, o, "none", "none", 0, 0),
           NEW n \in Int, NEW src \in Places, NEW dst \in Places
    PROVE  Filled(Named(z, src, dst, n), k, o + n, src, dst, 0, 0)
  <1>1. PICK x \in Int : x = o + n
    OBVIOUS
  <1>2. PICK w : w = [z EXCEPT !.family = 2, !.source = src, !.destination = dst, !.operation = x]
    BY Zenon
  <1>3. Named(z, src, dst, n) = w
    BY <1>1, <1>2 DEF Filled, Named
  <1>4. w \in Wires
    <2>1. z \in Wires
      BY DEF Filled
    <2>2. DOMAIN w = DOMAIN z /\ w = [f \in DOMAIN z |-> w[f]]
      BY <1>2, <2>1 DEF Wires
    <2>3. \A f \in DOMAIN z : w[f] \in {z[f], 2, src, dst, x}
      BY <1>2, <2>1 DEF Wires
    <2>4. \A f \in DOMAIN z : w[f] \in Int \cup Places
      BY <2>1, <2>3 DEF Wires
    <2> QED
      BY <2>1, <2>2, <2>4 DEF Wires
  <1>5. /\ w.kind = z.kind /\ w.operation = x /\ w.source = src /\ w.destination = dst
        /\ w.pid = z.pid /\ w.tgid = z.tgid
    BY <1>2 DEF Wires, Filled
  <1> QED
    BY <1>1, <1>3, <1>4, <1>5 DEF Filled

(* Whatever socket or packet it is given, the TCP program names the local  *)
(* and the remote end, or none; the low bits of operation say which.       *)
TcpFilled(w, k) ==
    \E o \in {8, 12} : \/ Filled(w, k, o, "none", "none", 0, 0)
                       \/ Filled(w, k, o + 1, "local", "remote", 0, 0)
                       \/ Filled(w, k, o + 2, "local", "remote", 0, 0)

LEMMA EndpointsFilled ==
    ASSUME NEW kind \in TcpKinds, NEW sk \in Sockets \cup {NoSocket}, NEW skb \in Packets
    PROVE  TcpFilled(Endpoints([Zero EXCEPT !.kind = kind], sk, skb), kind)
  <1>1. PICK z : z = OfKind(kind)
    OBVIOUS
  <1>2. Filled(z, kind, 0, "none", "none", 0, 0) /\ z.kind = kind
    <2>1. kind \in Int
      BY DEF TcpKinds, Retransmitted, SentReset, ReceivedReset
    <2>2. Filled(z, kind, 0, "none", "none", 0, 0)
      BY <1>1, <2>1, KindFilled
    <2> QED
      BY <2>2 DEF Filled
  <1>3. PICK o \in {8, 12} : o = 8 + (IF sk # NoSocket THEN 4 ELSE 0)
    OBVIOUS
  <1>4. PICK asked : asked = Asked(z, 8 + (IF sk # NoSocket THEN 4 ELSE 0), sk.state)
    OBVIOUS
  <1>5. sk.state \in {0, Established, TIME_WAIT, LISTEN, NEW_SYN_RECV} /\ sk.state \in Int
    BY DEF Sockets, NoSocket, Established, TIME_WAIT, LISTEN, NEW_SYN_RECV
  <1>6. Filled(asked, kind, o, "none", "none", 0, 0)
    BY <1>2, <1>3, <1>4, <1>5, AskedFilled
  <1>7. \/ response_endpoints(asked, skb) = asked
        \/ Filled(response_endpoints(asked, skb), kind, o + 2, "local", "remote", 0, 0)
    <2>1. CASE skb.readable
      <3>1. Filled(Named(asked, "local", "remote", 2), kind, o + 2, "local", "remote", 0, 0)
        BY <1>6, NamedFilled DEF Places
      <3>2. response_endpoints(asked, skb) = Named(asked, "local", "remote", 2)
        BY <2>1 DEF response_endpoints, Named
      <3> QED
        BY <3>1, <3>2
    <2>2. CASE ~skb.readable
      BY <2>2 DEF response_endpoints
    <2> QED
      BY <2>1, <2>2
  <1>8. ASSUME ~NotFull(sk.state), socket_endpoints(asked, sk) # asked
        PROVE  Filled(socket_endpoints(asked, sk), kind, o + 1, "local", "remote", 0, 0)
    <2>1. sk # NoSocket /\ sk.readable /\ sk.inet
      BY <1>8 DEF socket_endpoints
    <2>2. sk.state = Established
      BY <1>8, <2>1 DEF NotFull, Sockets
    <2>3. SocketPair(sk) = <<"local", "remote">>
      BY <2>2 DEF SocketPair, Established, LISTEN
    <2>4. SocketPair(sk)[1] = "local" /\ SocketPair(sk)[2] = "remote"
      BY <2>3
    <2>5. socket_endpoints(asked, sk) = Named(asked, SocketPair(sk)[1], SocketPair(sk)[2], 1)
      BY <2>1 DEF socket_endpoints, Named
    <2>6. Filled(Named(asked, "local", "remote", 1), kind, o + 1, "local", "remote", 0, 0)
      BY <1>6, NamedFilled DEF Places
    <2> QED
      BY <2>4, <2>5, <2>6
  <1>9. \/ Endpoints(z, sk, skb) \in {asked, response_endpoints(asked, skb)}
        \/ /\ ~NotFull(sk.state) /\ socket_endpoints(asked, sk) # asked
           /\ Endpoints(z, sk, skb) = socket_endpoints(asked, sk)
    BY <1>4 DEF Endpoints, Asked
  <1>10. TcpFilled(Endpoints(z, sk, skb), kind)
    BY <1>3, <1>6, <1>7, <1>8, <1>9 DEF TcpFilled
  <1> QED
    BY <1>1, <1>10 DEF OfKind

(* What normalize makes of a record with TCP provenance, and of another.   *)
LEMMA NormalTcp ==
    ASSUME NEW w, Provenance(w)
    PROVE  /\ normalize(w).endpoint = EndpointSource(w)
           /\ normalize(w).source = IF Swapped(w) THEN w.destination ELSE w.source
           /\ normalize(w).destination = IF Swapped(w) THEN w.source ELSE w.destination
  BY DEF normalize

LEMMA NormalPlain ==
    ASSUME NEW w, ~Provenance(w)
    PROVE  /\ normalize(w).direction = "none" /\ normalize(w).endpoint = "none"
           /\ normalize(w).operation = Operation(w)
           /\ normalize(w).pid = w.pid /\ normalize(w).tgid = w.tgid
           /\ normalize(w).pidOnly <=> (w.kind = Victim /\ w.operation = 1)
  BY DEF normalize

(* The bits of operation in a TCP record.                                  *)
LEMMA Bits ==
    ASSUME NEW o \in {8, 12}
    PROVE  /\ \A n \in {0, 1, 2} : ((o + n) \div 8) % 2 = 1 /\ (o + n) % 4 = n
           /\ o % 4 = 0 /\ (o \div 8) % 2 = 1
  OBVIOUS

LEMMA TcpTold ==
    ASSUME NEW kind \in TcpKinds, NEW w, TcpFilled(w, kind), NEW of,
           of = IF kind = ReceivedReset THEN Flow(kind, "remote", "local")
                ELSE Flow(kind, "local", "remote")
    PROVE  w \in Wires /\ of \in Causes /\ Told(normalize(w), of)
  <1>1. PICK o \in {8, 12} : \/ Filled(w, kind, o, "none", "none", 0, 0)
                             \/ Filled(w, kind, o + 1, "local", "remote", 0, 0)
                             \/ Filled(w, kind, o + 2, "local", "remote", 0, 0)
    BY DEF TcpFilled
  <1>2. w \in Wires /\ w.kind = kind
    BY <1>1 DEF Filled
  <1>3. Provenance(w)
    BY <1>1, <1>2, Bits DEF Filled, Provenance, TcpKinds
  <1>4. /\ of \in Causes /\ of.kind = kind
        /\ of.source = (IF Swapped(w) THEN "remote" ELSE "local")
        /\ of.destination = (IF Swapped(w) THEN "local" ELSE "remote")
    BY <1>2 DEF Flow, Swapped, Causes, Places
  <1>5. \/ /\ EndpointSource(w) = "unavailable" /\ w.source = "none" /\ w.destination = "none"
        \/ /\ EndpointSource(w) \in {"socket", "packet_header"}
           /\ w.source = "local" /\ w.destination = "remote"
    BY <1>1, Bits DEF Filled, EndpointSource
  <1>6. kind \notin {1, 2, Victim}
    BY DEF TcpKinds, Retransmitted, SentReset, ReceivedReset, Victim
  <1> QED
    BY <1>2, <1>3, <1>4, <1>5, <1>6, NormalTcp DEF Told

LEMMA PlainTold ==
    ASSUME NEW kind \in {1, 2, Victim}, NEW w, NEW o \in Nat, NEW p \in Int, NEW g \in Int,
           Filled(w, kind, o, "none", "none", p, g), NEW of,
           \/ kind # Victim /\ of = [kind |-> kind, operation |-> o]
           \/ /\ kind = Victim /\ p \in Nat /\ of = [kind |-> Victim, pid |-> p]
              /\ o = 1 <=> g = 0
    PROVE  w \in Wires /\ of \in Causes /\ Told(normalize(w), of)
  <1>1. w \in Wires /\ w.kind = kind /\ w.operation = o /\ w.pid = p /\ w.tgid = g
    BY DEF Filled
  <1>2. ~Provenance(w) /\ kind \notin TcpKinds
    BY <1>1 DEF Provenance, TcpKinds, Retransmitted, SentReset, ReceivedReset, Victim
  <1>3. of.kind = kind
    OBVIOUS
  <1>4. CASE kind # Victim
    <2>1. of = [kind |-> kind, operation |-> o] /\ kind \in {1, 2}
      BY <1>4
    <2>2. of \in Causes /\ of.operation = o
      BY <2>1 DEF Causes
    <2>3. kind = 1 => (Operation(w) = "read" <=> o = 0)
      BY <1>1 DEF Operation
    <2> QED
      BY <1>1, <1>2, <1>3, <1>4, <2>1, <2>2, <2>3, NormalPlain DEF Told
  <1>5. CASE kind = Victim
    <2>1. of = [kind |-> Victim, pid |-> p] /\ (o = 1 <=> g = 0) /\ p \in Nat
      BY <1>5
    <2>2. of \in Causes /\ of.pid = p
      BY <2>1 DEF Causes
    <2>3. Victim \notin {1, 2}
      BY DEF Victim
    <2> QED
      BY <1>1, <1>2, <1>3, <1>5, <2>1, <2>2, <2>3, NormalPlain DEF Told
  <1> QED
    BY <1>4, <1>5

(* The records of the other families.                                      *)
TaskVictim(p) == [[Zero EXCEPT !.pid = p, !.tgid = p] EXCEPT !.kind = Victim]
PidVictim(p) == [[Zero EXCEPT !.pid = p, !.operation = 1] EXCEPT !.kind = Victim]
Latent(k, o) == [Zero EXCEPT !.kind = k, !.operation = o, !.pid = 1, !.tgid = 1]

LEMMA PlainFilled ==
    ASSUME NEW p \in Int, NEW k \in Int, NEW o \in Int
    PROVE  /\ Filled(TaskVictim(p), Victim, 0, "none", "none", p, p)
           /\ Filled(PidVictim(p), Victim, 1, "none", "none", p, 0)
           /\ Filled(Latent(k, o), k, o, "none", "none", 1, 1)
  <1>1. PICK z : z = Zero
    OBVIOUS
  <1>2. z \in Wires /\ z.operation = 0 /\ z.source = "none" /\ z.destination = "none" /\ z.tgid = 0
    BY <1>1, ZeroFilled DEF Filled
  <1>3. Victim \in Int
    BY DEF Victim
  <1>4. PICK one \in Int : one = 1
    OBVIOUS
  <1>5. Filled(TaskVictim(p), Victim, 0, "none", "none", p, p)
    <2>1. PICK y : y = [z EXCEPT !.pid = p, !.tgid = p]
      BY Zenon
    <2>2. y \in Wires
      BY <1>2, <2>1 DEF Wires
    <2>3. /\ y.operation = 0 /\ y.source = "none" /\ y.destination = "none"
          /\ y.pid = p /\ y.tgid = p
      BY <1>2, <2>1 DEF Wires
    <2>4. TaskVictim(p) = [y EXCEPT !.kind = Victim]
      BY <1>1, <2>1 DEF TaskVictim
    <2> QED
      BY <1>3, <2>2, <2>4, <2>3 DEF Wires, Filled
  <1>6. Filled(PidVictim(p), Victim, 1, "none", "none", p, 0)
    <2>1. PICK y : y = [z EXCEPT !.pid = p, !.operation = one]
      BY Zenon
    <2>2. y \in Wires
      BY <1>2, <2>1 DEF Wires
    <2>3. /\ y.operation = one /\ y.source = "none" /\ y.destination = "none"
          /\ y.pid = p /\ y.tgid = 0
      BY <1>2, <2>1 DEF Wires
    <2>4. PidVictim(p) = [y EXCEPT !.kind = Victim]
      BY <1>1, <1>4, <2>1 DEF PidVictim
    <2> QED
      BY <1>3, <1>4, <2>2, <2>4, <2>3 DEF Wires, Filled
  <1>7. Filled(Latent(k, o), k, o, "none", "none", 1, 1)
    <2>1. PICK y : y = [z EXCEPT !.kind = k, !.operation = o]
      BY Zenon
    <2>2. y \in Wires
      BY <1>2, <2>1 DEF Wires
    <2>3. y.kind = k /\ y.operation = o /\ y.source = "none" /\ y.destination = "none"
      BY <1>2, <2>1 DEF Wires
    <2>4. PICK x : x = [y EXCEPT !.pid = one, !.tgid = one]
      BY Zenon
    <2>5. x \in Wires
      BY <2>2, <2>4 DEF Wires
    <2>6. /\ x.kind = y.kind /\ x.operation = y.operation /\ x.source = y.source
          /\ x.destination = y.destination /\ x.pid = one /\ x.tgid = one
      BY <2>2, <2>4 DEF Wires
    <2>7. Filled(x, k, o, "none", "none", 1, 1)
      BY <1>4, <2>3, <2>5, <2>6 DEF Filled
    <2>8. Latent(k, o) = x
      BY <1>1, <1>2, <1>4, <2>1, <2>4 DEF Latent, Wires
    <2> QED
      BY <2>7, <2>8
  <1> QED
    BY <1>5, <1>6, <1>7

(* A record that would tell the truth enters the ring, or is refused.      *)
LEMMA SubmitKeeps ==
    ASSUME DecodeInv, DecodeAssumption, NEW w \in Wires, NEW of \in Causes, Told(normalize(w), of),
           NEW granted, NEW capped, Submit(w, of, granted, capped)
    PROVE  ring' \in Seq(Records) /\ Len(ring') <= RingSize
  <1>1. PICK r : r = [w |-> w, of |-> of]
    OBVIOUS
  <1>2. r \in Records
    <2>1. r \in [w : Wires, of : Causes] /\ r.w = w /\ r.of = of
      BY <1>1
    <2> QED
      BY <2>1 DEF Records
  <1>3. ring \in Seq(Records) /\ Len(ring) <= RingSize /\ RingSize \in Nat /\ Len(ring) \in Nat
    BY LenProperties DEF DecodeInv, DecodeAssumption
  <1>4. CASE Reserved(granted, capped)
    <2>1. ring' = Append(ring, r) /\ Len(ring) < RingSize
      BY <1>1, <1>4 DEF Submit, Reserved
    <2> QED
      BY <1>2, <1>3, <2>1, AppendProperties
  <1>5. CASE ~Reserved(granted, capped)
    BY <1>3, <1>5 DEF Submit
  <1> QED
    BY <1>4, <1>5

(* A TCP tracepoint that is recorded: what it counts and what it submits.  *)
LEMMA RecordKeeps ==
    ASSUME DecodeInv, DecodeAssumption, NEW kind \in TcpKinds, NEW sk \in Sockets \cup {NoSocket},
           NEW skb \in Packets, NEW of, NEW granted, record(sk, skb, kind, of, granted),
           of = IF kind = ReceivedReset THEN Flow(kind, "remote", "local")
                ELSE Flow(kind, "local", "remote")
    PROVE  /\ ring' \in Seq(Records) /\ Len(ring') <= RingSize
           /\ stats' = [count |-> stats.count + 1,
                        resets |-> IF kind # Retransmitted THEN stats.resets + 1 ELSE stats.resets,
                        retransmits |-> IF kind = Retransmitted THEN stats.retransmits + 1
                                        ELSE stats.retransmits]
  <1>1. PICK w : w = Endpoints([Zero EXCEPT !.kind = kind], sk, skb)
    BY Zenon
  <1>2. TcpFilled(w, kind)
    BY <1>1, EndpointsFilled
  <1>3. w \in Wires /\ of \in Causes /\ Told(normalize(w), of)
    BY <1>2, TcpTold
  <1>4. Submit(w, of, granted, TRUE)
    BY <1>1 DEF record
  <1>5. ring' \in Seq(Records) /\ Len(ring') <= RingSize
    BY <1>3, <1>4, SubmitKeeps
  <1> QED
    BY <1>5 DEF record

(* A step that leaves the loader and the last event alone.                 *)
LEMMA DecodeFrame ==
    ASSUME DecodeInv, UNCHANGED <<kernel, loaded, decoded>>, CountsOK',
           ring' \in Seq(Records), Len(ring') <= RingSize
    PROVE  DecodeInv'
  BY DEF DecodeInv, LoadedOK, Told

LEMMA CountsKept ==
    ASSUME DecodeInv, DecodeAssumption, UNCHANGED stats, Happens, truth' = [truth EXCEPT !.events = @ + 1]
    PROVE  CountsOK'
  BY DEF DecodeInv, DecodeAssumption, CountsOK, Happens

LEMMA RetransmitCounts ==
    ASSUME DecodeInv, DecodeAssumption, Happens,
           truth' = [truth EXCEPT !.events = @ + 1, !.retransmits = @ + 1],
           stats' = [count |-> stats.count + 1, resets |-> stats.resets,
                     retransmits |-> stats.retransmits + 1]
    PROVE  CountsOK'
  <1>1. /\ truth \in [events : Nat, resets : Nat, retransmits : Nat]
        /\ stats \in [count : Nat, resets : Nat, retransmits : Nat]
        /\ truth.events \in 1..MaxFired /\ MaxFired \in Nat
    BY DEF DecodeInv, DecodeAssumption, CountsOK, Happens
  <1>2. /\ truth' \in [events : Nat, resets : Nat, retransmits : Nat]
        /\ truth'.events = truth.events + 1 /\ truth'.resets = truth.resets
        /\ truth'.retransmits = truth.retransmits + 1
    <2>1. PICK t : t = truth
      OBVIOUS
    <2>2. PICK a \in Nat, b \in Nat : a = t.events + 1 /\ b = t.retransmits + 1
      BY <1>1, <2>1
    <2>3. truth' = [t EXCEPT !.events = a, !.retransmits = b]
      BY <2>1, <2>2
    <2>4. truth' \in [events : Nat, resets : Nat, retransmits : Nat]
      BY <1>1, <2>1, <2>3
    <2> QED
      BY <1>1, <2>1, <2>2, <2>3, <2>4
  <1>3. /\ stats' \in [count : Nat, resets : Nat, retransmits : Nat]
        /\ stats'.count = stats.count + 1 /\ stats'.resets = stats.resets
        /\ stats'.retransmits = stats.retransmits + 1
    BY <1>1
  <1>4. /\ stats.count = stats.resets + stats.retransmits
        /\ stats.resets = truth.resets /\ stats.retransmits = truth.retransmits
        /\ stats.count + 1 <= truth.events
    BY <1>1 DEF DecodeInv, CountsOK
  <1>5. /\ stats.count \in Nat /\ stats.resets \in Nat /\ stats.retransmits \in Nat
        /\ truth.events \in Nat
    BY <1>1
  <1> QED
    BY <1>1, <1>2, <1>3, <1>4, <1>5 DEF CountsOK

LEMMA RetransmitStep ==
    ASSUME DecodeInv, DecodeAssumption, NEW sk \in Sockets, NEW failed \in BOOLEAN,
           NEW granted, retransmit(sk, failed, granted)
    PROVE  DecodeInv'
  <1>1. Happens /\ UNCHANGED <<kernel, loaded, decoded>>
    BY DEF retransmit
  <1>2. CASE failed
    <2>1. loaded.tcp = "error"
      BY <1>2 DEF retransmit, DecodeInv, LoadedOK
    <2>2. truth' = [truth EXCEPT !.events = @ + 1] /\ UNCHANGED <<ring, stats>>
      BY <1>2, <2>1 DEF retransmit, DecodeInv, CountsOK
    <2>3. CountsOK'
      BY <1>1, <2>2, CountsKept
    <2> QED
      BY <1>1, <2>2, <2>3, DecodeFrame DEF DecodeInv
  <1>3. CASE ~failed
    <2>1. /\ truth' = [truth EXCEPT !.events = @ + 1, !.retransmits = @ + 1]
          /\ record(sk, NoPacket, Retransmitted, Flow(Retransmitted, "local", "remote"), granted)
      BY <1>3 DEF retransmit
    <2>2. /\ Retransmitted \in TcpKinds /\ Retransmitted # ReceivedReset /\ NoPacket \in Packets
      BY DEF TcpKinds, Retransmitted, ReceivedReset, Packets
    <2>3. /\ ring' \in Seq(Records) /\ Len(ring') <= RingSize
          /\ stats' = [count |-> stats.count + 1, resets |-> stats.resets,
                       retransmits |-> stats.retransmits + 1]
      BY <2>1, <2>2, RecordKeeps
    <2>4. CountsOK'
      BY <1>1, <2>1, <2>3, RetransmitCounts
    <2> QED
      BY <1>1, <2>3, <2>4, DecodeFrame
  <1> QED
    BY <1>2, <1>3

LEMMA ResetCounts ==
    ASSUME DecodeInv, DecodeAssumption, Happens,
           truth' = [truth EXCEPT !.events = @ + 1, !.resets = @ + 1],
           stats' = [count |-> stats.count + 1, resets |-> stats.resets + 1,
                     retransmits |-> stats.retransmits]
    PROVE  CountsOK'
  <1>1. /\ truth \in [events : Nat, resets : Nat, retransmits : Nat]
        /\ stats \in [count : Nat, resets : Nat, retransmits : Nat]
        /\ truth.events \in 1..MaxFired /\ MaxFired \in Nat
    BY DEF DecodeInv, DecodeAssumption, CountsOK, Happens
  <1>2. /\ truth' \in [events : Nat, resets : Nat, retransmits : Nat]
        /\ truth'.events = truth.events + 1 /\ truth'.resets = truth.resets + 1
        /\ truth'.retransmits = truth.retransmits
    <2>1. PICK t : t = truth
      OBVIOUS
    <2>2. PICK a \in Nat, b \in Nat : a = t.events + 1 /\ b = t.resets + 1
      BY <1>1, <2>1
    <2>3. truth' = [t EXCEPT !.events = a, !.resets = b]
      BY <2>1, <2>2
    <2>4. truth' \in [events : Nat, resets : Nat, retransmits : Nat]
      BY <1>1, <2>1, <2>3
    <2> QED
      BY <1>1, <2>1, <2>2, <2>3, <2>4
  <1>3. /\ stats' \in [count : Nat, resets : Nat, retransmits : Nat]
        /\ stats'.count = stats.count + 1 /\ stats'.resets = stats.resets + 1
        /\ stats'.retransmits = stats.retransmits
    BY <1>1
  <1>4. /\ stats.count = stats.resets + stats.retransmits
        /\ stats.resets = truth.resets /\ stats.retransmits = truth.retransmits
        /\ stats.count + 1 <= truth.events
    BY <1>1 DEF DecodeInv, CountsOK
  <1>5. /\ stats.count \in Nat /\ stats.resets \in Nat /\ stats.retransmits \in Nat
        /\ truth.events \in Nat
    BY <1>1
  <1> QED
    BY <1>1, <1>2, <1>3, <1>4, <1>5 DEF CountsOK

LEMMA SendResetStep ==
    ASSUME DecodeInv, DecodeAssumption, NEW sk \in Sockets \cup {NoSocket}, NEW skb \in Packets,
           NEW granted, send_reset(sk, skb, granted)
    PROVE  DecodeInv'
  <1>1. /\ Happens /\ UNCHANGED <<kernel, loaded, decoded>>
        /\ truth' = [truth EXCEPT !.events = @ + 1, !.resets = @ + 1]
        /\ record(sk, skb, SentReset, Flow(SentReset, "local", "remote"), granted)
    BY DEF send_reset
  <1>2. SentReset \in TcpKinds /\ SentReset # ReceivedReset /\ SentReset # Retransmitted
    BY DEF TcpKinds, Retransmitted, SentReset, ReceivedReset
  <1>3. /\ ring' \in Seq(Records) /\ Len(ring') <= RingSize
        /\ stats' = [count |-> stats.count + 1, resets |-> stats.resets + 1,
                     retransmits |-> stats.retransmits]
    BY <1>1, <1>2, RecordKeeps
  <1> QED
    BY <1>1, <1>3, ResetCounts, DecodeFrame

LEMMA ReceiveResetStep ==
    ASSUME DecodeInv, DecodeAssumption, NEW sk \in Sockets, NEW granted, receive_reset(sk, granted)
    PROVE  DecodeInv'
  <1>1. /\ Happens /\ UNCHANGED <<kernel, loaded, decoded>>
        /\ truth' = [truth EXCEPT !.events = @ + 1, !.resets = @ + 1]
        /\ record(sk, NoPacket, ReceivedReset, Flow(ReceivedReset, "remote", "local"), granted)
    BY DEF receive_reset
  <1>2. ReceivedReset \in TcpKinds /\ ReceivedReset # Retransmitted /\ NoPacket \in Packets
    BY DEF TcpKinds, Retransmitted, ReceivedReset, Packets
  <1>3. /\ ring' \in Seq(Records) /\ Len(ring') <= RingSize
        /\ stats' = [count |-> stats.count + 1, resets |-> stats.resets + 1,
                     retransmits |-> stats.retransmits]
    BY <1>1, <1>2, RecordKeeps
  <1> QED
    BY <1>1, <1>3, ResetCounts, DecodeFrame

LEMMA VictimStep ==
    ASSUME DecodeInv, DecodeAssumption, NEW pid \in 1..2, victim(pid)
    PROVE  DecodeInv'
  <1>1. /\ Happens /\ UNCHANGED <<kernel, loaded, stats, decoded>>
        /\ truth' = [truth EXCEPT !.events = @ + 1] /\ kernel.victim # "other"
    BY DEF victim, DecodeInv, LoadedOK
  <1>2. CountsOK'
    BY <1>1, CountsKept
  <1>3. PICK of : of = [kind |-> Victim, pid |-> pid]
    OBVIOUS
  <1>4. PICK w : w = IF loaded.oom = "task" THEN TaskVictim(pid) ELSE PidVictim(pid)
    OBVIOUS
  <1>5. Submit(w, of, TRUE, FALSE)
    BY <1>1, <1>3, <1>4 DEF victim, TaskVictim, PidVictim
  <1>6. pid \in Nat /\ pid \in Int /\ pid # 0 /\ Victim \in {1, 2, Victim} /\ 1 \in Int
    OBVIOUS
  <1>7. \/ Filled(w, Victim, 0, "none", "none", pid, pid)
        \/ Filled(w, Victim, 1, "none", "none", pid, 0)
    BY <1>4, <1>6, PlainFilled
  <1>8. w \in Wires /\ of \in Causes /\ Told(normalize(w), of)
    <2>1. CASE Filled(w, Victim, 0, "none", "none", pid, pid)
      BY <1>3, <1>6, <2>1, PlainTold
    <2>2. CASE Filled(w, Victim, 1, "none", "none", pid, 0)
      BY <1>3, <1>6, <2>2, PlainTold
    <2> QED
      BY <1>7, <2>1, <2>2
  <1>9. ring' \in Seq(Records) /\ Len(ring') <= RingSize
    BY <1>5, <1>8, SubmitKeeps
  <1> QED
    BY <1>1, <1>2, <1>9, DecodeFrame

LEMMA LatencyStep ==
    ASSUME DecodeInv, DecodeAssumption, NEW kind \in {1, 2}, NEW operation \in Nat,
           latency(kind, operation)
    PROVE  DecodeInv'
  <1>1. /\ Happens /\ UNCHANGED <<kernel, loaded, stats, decoded>>
        /\ truth' = [truth EXCEPT !.events = @ + 1]
    BY DEF latency
  <1>2. CountsOK'
    BY <1>1, CountsKept
  <1>3. PICK of : of = [kind |-> kind, operation |-> operation]
    OBVIOUS
  <1>4. Submit(Latent(kind, operation), of, TRUE, FALSE)
    BY <1>3 DEF latency, Latent
  <1>5. kind \in Int /\ operation \in Int /\ 1 \in Int /\ kind \in {1, 2, Victim} /\ kind # Victim
    BY DEF Victim
  <1>6. Filled(Latent(kind, operation), kind, operation, "none", "none", 1, 1)
    BY <1>5, PlainFilled
  <1>7. Latent(kind, operation) \in Wires /\ of \in Causes /\ Told(normalize(Latent(kind, operation)), of)
    BY <1>3, <1>5, <1>6, PlainTold
  <1>8. ring' \in Seq(Records) /\ Len(ring') <= RingSize
    BY <1>4, <1>7, SubmitKeeps
  <1> QED
    BY <1>1, <1>2, <1>8, DecodeFrame

LEMMA ReadEventStep ==
    ASSUME DecodeInv, DecodeAssumption, ReadEvent
    PROVE  DecodeInv'
  <1>1. ring \in Seq(Records) /\ Len(ring) <= RingSize /\ ring # <<>> /\ RingSize \in Nat
    BY DEF ReadEvent, DecodeInv, DecodeAssumption
  <1>2. ring' \in Seq(Records) /\ Len(ring') <= RingSize /\ Head(ring) \in Records
    BY <1>1, HeadTailProperties, LenProperties DEF ReadEvent
  <1>3. PICK r \in Records : r = Head(ring)
    BY <1>2
  <1>4. Told(normalize(r.w), r.of) /\ r.of \in Causes
    BY <1>3 DEF Records
  <1>5. r.of.kind \in 0..6
    BY <1>4 DEF Causes, TcpKinds, Retransmitted, SentReset, ReceivedReset, Victim
  <1>6. decoded'.event = normalize(r.w) /\ decoded'.of = r.of
    BY <1>3 DEF ReadEvent
  <1>7. Told(decoded'.event, decoded'.of)
    BY <1>4, <1>6
  <1>8. UNCHANGED <<kernel, loaded, stats, truth>>
    BY DEF ReadEvent
  <1>9. LoadedOK' /\ CountsOK'
    BY <1>8 DEF DecodeInv, LoadedOK, CountsOK
  <1> QED
    BY <1>2, <1>5, <1>6, <1>7, <1>9 DEF DecodeInv, Told

LEMMA LoadStep ==
    ASSUME DecodeInv, DecodeAssumption, Load
    PROVE  DecodeInv'
  <1>1. LoadedOK'
    BY DEF Load, LoadedOK, tcpRetransmitHasErrorArg, oomVictimTaskArg
  <1>2. CountsOK'
    BY DEF Load, DecodeInv, CountsOK, DecodeAssumption
  <1> QED
    BY <1>1, <1>2 DEF Load, DecodeInv, Told

LEMMA DecodeInitial ==
    ASSUME DecodeAssumption, DecodeInit
    PROVE  DecodeInv
  <1>1. LoadedOK /\ CountsOK
    BY DEF DecodeInit, DecodeAssumption, LoadedOK, CountsOK
  <1>2. ring \in Seq(Records) /\ Len(ring) <= RingSize
    BY DEF DecodeInit, DecodeAssumption
  <1>3. decoded.of.kind = 0
    BY DEF DecodeInit
  <1>4. Told(decoded.event, decoded.of)
    BY <1>3 DEF Told, TcpKinds, Retransmitted, SentReset, ReceivedReset, Victim
  <1> QED
    BY <1>1, <1>2, <1>3, <1>4 DEF DecodeInv

(* DecodeTruthful: an event that decodeWireEvent returns is true of the    *)
(* tracepoint behind it, on every kernel signature and for every socket    *)
(* and packet, and the counters of bpf/tcp.c are exact, whatever the size  *)
(* of the ring and the number of tracepoints.                              *)
THEOREM EventsTruthful ==
    ASSUME DecodeAssumption
    PROVE  DecodeSpec => []DecodeTruthful
  <1>1. DecodeInv => DecodeTruthful
    <2> SUFFICES ASSUME DecodeInv PROVE DecodeTruthful
      OBVIOUS
    <2>1. DecodeTypeOK /\ TcpCountsExact
      BY DEF DecodeInv, DecodeAssumption, CountsOK, DecodeTypeOK, TcpCountsExact
    <2>2. FlowTruthful
      BY DEF DecodeInv, Told, FlowTruthful, Tcp, TcpKinds
    <2>3. FamiliesApart
      BY DEF DecodeInv, Told, FamiliesApart, Tcp, TcpKinds, Retransmitted, SentReset, ReceivedReset,
             Victim
    <2>4. VictimNamed
      BY DEF DecodeInv, Told, VictimNamed
    <2> QED
      BY <2>1, <2>2, <2>3, <2>4 DEF DecodeTruthful
  <1>2. DecodeInv /\ [DecodeNext]_decodeVars => DecodeInv'
    <2> SUFFICES ASSUME DecodeInv, [DecodeNext]_decodeVars PROVE DecodeInv'
      OBVIOUS
    <2>1. CASE UNCHANGED decodeVars
      BY <2>1 DEF decodeVars, DecodeInv, LoadedOK, CountsOK, Told
    <2>2. ASSUME NEW granted \in BOOLEAN, NEW sk \in Sockets, NEW failed \in BOOLEAN,
                 retransmit(sk, failed, granted)
          PROVE  DecodeInv'
      BY <2>2, RetransmitStep
    <2>3. ASSUME NEW granted \in BOOLEAN, NEW sk \in Sockets \cup {NoSocket}, NEW skb \in Packets,
                 send_reset(sk, skb, granted)
          PROVE  DecodeInv'
      BY <2>3, SendResetStep
    <2>4. ASSUME NEW granted \in BOOLEAN, NEW sk \in Sockets, receive_reset(sk, granted)
          PROVE  DecodeInv'
      BY <2>4, ReceiveResetStep
    <2>5. ASSUME NEW operation \in {0, 1, 2, 12}, latency(1, operation) PROVE DecodeInv'
      BY <2>5, LatencyStep
    <2>6. CASE latency(2, 0)
      BY <2>6, LatencyStep
    <2> QED
      BY <2>1, <2>2, <2>3, <2>4, <2>5, <2>6, LoadStep, ReadEventStep, VictimStep DEF DecodeNext
  <1> QED
    BY <1>1, <1>2, DecodeInitial, PTL DEF DecodeSpec

=============================================================================
