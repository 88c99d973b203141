---------------------------- MODULE ClockTracker ----------------------------
(***************************************************************************)
(* The recorder loop's clocks (internal/app/clock.go, clock_linux.go):     *)
(* CLOCK_REALTIME is read between two reads of CLOCK_BOOTTIME, up to three *)
(* times, and a change of the offset between them beyond a threshold is    *)
(* recorded as a discontinuity.  The process may be preempted, or the host *)
(* suspended, between any two reads, and the wall clock may be set then.   *)
(***************************************************************************)
EXTENDS Integers, FiniteSets, FiniteSetsExt

CONSTANTS
    Threshold,  \* clockDiscontinuityThreshold
    Close,      \* a span that needs no further attempt (50 ms)
    Steps,      \* changes of the wall clock that can happen
    MaxBoot,    \* bound: boot time
    MaxSteps    \* bound: changes of the wall clock

(* What the configuration guarantees.                                      *)
ClockAssumption ==
    /\ {Threshold, Close, MaxBoot, MaxSteps} \subseteq Nat /\ Steps \subseteq Int

VARIABLES
    boot,     \* CLOCK_BOOTTIME
    offset,   \* CLOCK_REALTIME minus CLOCK_BOOTTIME
    steps,    \* changes of the wall clock so far
    sampler,  \* sampleClocks: where it is, and what it has read
    last,     \* clockTracker.last
    loopNow,  \* the loop's time
    seen      \* history: the last observation and what was true of it

clockVars == <<boot, offset, steps, sampler, last, loopNow, seen>>

None == MaxBoot + 1     \* the initial bestSpan, larger than any
\* offset: the true one when the wall clock was read, history.
NoSample == [boot |-> 0, wall |-> 0, span |-> None, offset |-> 0]
Start == [pc |-> "first", attempt |-> 1, first |-> 0, wall |-> 0, offset |-> 0,
          best |-> NoSample, spans |-> {}]

ClockInit ==
    /\ boot = 0 /\ offset = 0 /\ steps = 0
    /\ sampler = [Start EXCEPT !.pc = "idle"]
    /\ last = [boot |-> 0, wall |-> 0, span |-> 0, offset |-> 0]
    /\ loopNow = 0
    /\ seen = [detected |-> FALSE, change |-> 0, spans |-> 0, least |-> TRUE]

-----------------------------------------------------------------------------
(* Time passes, and the wall clock is set.                                 *)
BootTick ==
    /\ boot < MaxBoot /\ boot' = boot + 1
    /\ UNCHANGED <<offset, steps, sampler, last, loopNow, seen>>

StepWall(d) ==
    /\ steps < MaxSteps
    /\ offset' = offset + d /\ steps' = steps + 1
    /\ UNCHANGED <<boot, sampler, last, loopNow, seen>>

-----------------------------------------------------------------------------
(* Detail events take the boot time alone.                                 *)
ReadBoot ==
    /\ sampler.pc = "idle"
    /\ loopNow' = boot
    /\ UNCHANGED <<boot, offset, steps, sampler, last, seen>>

(* A poll or a query: sampleClocks.                                        *)
Sample ==
    /\ sampler.pc = "idle"
    /\ sampler' = Start
    /\ UNCHANGED <<boot, offset, steps, last, loopNow, seen>>

ReadFirst ==
    /\ sampler.pc = "first"
    /\ sampler' = [sampler EXCEPT !.pc = "wall", !.first = boot]
    /\ UNCHANGED <<boot, offset, steps, last, loopNow, seen>>

ReadWall ==
    /\ sampler.pc = "wall"
    /\ sampler' = [sampler EXCEPT !.pc = "last", !.wall = boot + offset, !.offset = offset]
    /\ UNCHANGED <<boot, offset, steps, last, loopNow, seen>>

Midpoint(first, span) == first + span \div 2

Better(span) == span < sampler.best.span

Enough(span) == span <= Close \/ sampler.attempt = 3

ReadLast ==
    LET span == boot - sampler.first
        best == IF Better(span)
                THEN [boot |-> Midpoint(sampler.first, span), wall |-> sampler.wall,
                      span |-> span, offset |-> sampler.offset]
                ELSE sampler.best
    IN
    /\ sampler.pc = "last"
    /\ sampler' = [sampler EXCEPT
           !.best = best, !.spans = @ \cup {span}, !.attempt = @ + 1,
           !.pc = IF Enough(best.span) THEN "observe" ELSE "first"]
    /\ UNCHANGED <<boot, offset, steps, last, loopNow, seen>>

(* Mutant: only a forward change is a discontinuity.                       *)
DiscontinuousForward(change) == change > Threshold

Discontinuous(change) == change > Threshold \/ change < -Threshold

LoopTime(s) == s.boot

(* clockTracker.observe: a boot time that moved backward is an error that  *)
(* ends the loop, which otherwise continues at the sample's boot time.     *)
Observe ==
    LET s == sampler.best
        change == (s.wall - last.wall) - (s.boot - last.boot)
    IN
    /\ sampler.pc = "observe"
    /\ IF s.boot < last.boot
       THEN sampler' = [Start EXCEPT !.pc = "failed"] /\ UNCHANGED <<last, loopNow, seen>>
       ELSE /\ last' = s /\ loopNow' = LoopTime(s)
            /\ seen' = [detected |-> Discontinuous(change), change |-> s.offset - last.offset,
                        spans |-> s.span + last.span, least |-> s.span = Min(sampler.spans)]
            /\ sampler' = [Start EXCEPT !.pc = "idle"]
    /\ UNCHANGED <<boot, offset, steps>>

-----------------------------------------------------------------------------
ClockNext ==
    \/ BootTick \/ \E d \in Steps : StepWall(d)
    \/ ReadBoot \/ Sample \/ ReadFirst \/ ReadWall \/ ReadLast \/ Observe

ClockSpec == ClockInit /\ [][ClockNext]_clockVars

-----------------------------------------------------------------------------
(* The sampler's states; at most three attempts are made.                  *)
ClockTypeOK ==
    /\ sampler.pc \in {"idle", "first", "wall", "last", "observe", "failed"}
    /\ sampler.attempt \in 1..4 /\ boot \in 0..MaxBoot

Abs(x) == IF x < 0 THEN -x ELSE x

(* Half of the two brackets bounds the error of a change (each rounded up  *)
(* by the division of the midpoint).  Any larger true change of the wall   *)
(* clock, in either direction, is recorded; a smaller one never is.        *)
StepsDetected ==
    LET error == (seen.spans + 2) \div 2 IN
    /\ Abs(seen.change) > Threshold + error => seen.detected
    /\ seen.detected => Abs(seen.change) + error > Threshold

(* The sample used has the shortest bracket of its attempts.               *)
ShortestSample == seen.least

(* The loop's time, whether from a sample's midpoint or a direct read of   *)
(* the boot clock, never goes back, and no sampling makes the loop take    *)
(* its own midpoints for a clock that did.                                 *)
NowMonotone == loopNow' >= loopNow /\ sampler'.pc # "failed"

SoundStep == NowMonotone /\ (ClockTypeOK /\ StepsDetected /\ ShortestSample)'

(* The clocks of internal/app/clock.go: samples that preemption stretches  *)
(* and steps of the wall clock neither turn the loop's time back nor pass  *)
(* for each other.                                                         *)
ClockSound == [][SoundStep]_clockVars
=============================================================================
