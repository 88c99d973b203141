---------------------------- MODULE MCObservation ----------------------------
(***************************************************************************)
(* From an event to the verdict: decoding, process metadata, the clocks,   *)
(* the search for coincidences and the assessment.  Each is checked by     *)
(* itself and they share no state, so one run checks them side by side:    *)
(* part is the component a behaviour is about, and the properties are the  *)
(* components' own.                                                        *)
(*                                                                         *)
(*   decode    every kernel, socket and packet, three events, a ring of two*)
(*   metadata  a PID reused over three ticks, two cgroups of which one has *)
(*             too long a path, a cache of two entries, two details        *)
(*   clock     preemptions longer than the threshold, and steps of the     *)
(*             wall clock below and above it in both directions            *)
(*   pairs     all timelines of up to five events at three times            *)
(*   verdict   a latency family beside OOM in an automatic capture, and TCP*)
(*             in a manual one on each kind of kernel, over more intervals *)
(***************************************************************************)
EXTENDS EventDecode, ProcessMetadata, ClockTracker, Correlation, Assessment

VARIABLE part

WallSteps == {-5, -1, 2, 5}

Automatic ==
    [families |-> {"block_io", "oom"}, coverage |-> "supported", automatic |-> TRUE, intervals |-> 2]
Manual(c, n) == [families |-> {"tcp"}, coverage |-> c, automatic |-> FALSE, intervals |-> n]
AllSetups == {Automatic, Manual("supported", 3), Manual("limited", 4), Manual("unknown", 2)}

ASSUME /\ DecodeAssumption /\ MetadataAssumption /\ ClockAssumption /\ CorrelationAssumption
       /\ AssessmentAssumption

mcVars == <<part, decodeVars, vars, clockVars, passVars, assessVars>>

\* The metadata, the clocks and the pass have one initial state each, and stay
\* there beside the other components; of the kernels that decoding and of the
\* setups that assessing start on, one is enough for that.
MCInit ==
    /\ part \in {"decode", "metadata", "clock", "pairs", "verdict"}
    /\ DecodeInit /\ Init /\ ClockInit /\ PassInit /\ AssessInit
    /\ part # "decode" => kernel = [retransmit |-> "other", victim |-> "other"]
    /\ part # "metadata" => unified
    /\ part # "verdict" => setup = Manual("unknown", 2)

MCNext ==
    \/ /\ part = "decode" /\ DecodeNext
       /\ UNCHANGED <<part, vars, clockVars, passVars, assessVars>>
    \/ /\ part = "metadata" /\ Next
       /\ UNCHANGED <<part, decodeVars, clockVars, passVars, assessVars>>
    \/ /\ part = "clock" /\ ClockNext
       /\ UNCHANGED <<part, decodeVars, vars, passVars, assessVars>>
    \/ /\ part = "pairs" /\ PassNext
       /\ UNCHANGED <<part, decodeVars, vars, clockVars, assessVars>>
    \/ /\ part = "verdict" /\ AssessNext
       /\ UNCHANGED <<part, decodeVars, vars, clockVars, passVars>>

MCSpec == MCInit /\ [][MCNext]_mcVars

(* Only what a step or a property can still tell apart.  A result handed   *)
(* on counts only by whether it satisfies the properties, the truth behind *)
(* it for as long as something refers to it, and a count that is asked     *)
(* only whether it is zero by that.                                        *)
Known ==
    LET alive == {<<p, procs[p].start>> : p \in Pids}
        keys == ToSet(pending) \cup {lru[i].key : i \in DOMAIN lru} \cup {enrich.key}
        live == alive \cup {Identity(k) : k \in keys}
    IN  [was |-> {q \in was : <<q[1], q[2]>> \in live}, steady |-> steady \cap live,
         \* A missing path is explained when it is cached, and asked for again.
         excused |-> {i \in DOMAIN lru : lru[i].path = NoPath /\ Identity(lru[i].key) \in steady
                                         /\ MayBeMissing(lru[i].key)},
         \* A PID is not reused within the tick of its last start.
         barred |-> {p \in Pids : \E q \in was : q[1] = p /\ q[2] \div Tick >= now \div Tick}]

\* What the present attempt has read, and the best attempt before it; the
\* wall clock counts only by its differences from the last sample.
Sampling ==
    LET Shifted(s) == <<s.wall - last.offset, s.offset - last.offset>>
        best == sampler.best
    IN  <<sampler.pc, sampler.attempt,
          IF sampler.pc \in {"wall", "last"} THEN <<sampler.first>> ELSE <<>>,
          IF sampler.pc = "last" THEN Shifted(sampler) ELSE <<>>,
          IF sampler.spans = {} THEN <<>>
          ELSE <<best.boot, best.span, Shifted(best), Min(sampler.spans)>>>>

Judged(f) ==
    <<[signals[f] EXCEPT !.loss = @ > 0, !.count = IF f = "oom" THEN @ ELSE @ > 0],
      happened[f].slow > 0, happened[f].all, happened[f].lost>>

View ==
    CASE part = "decode" -> <<part, decodeVars>>
      [] part = "metadata" ->
           IF cancelled /\ enrich.pc = "idle" THEN <<part, Len(pending), MetadataTruthful>>
           ELSE <<part, now, procs, unified, Known, pending, lru, enrich, cancelled, MetadataTruthful>>
      [] part = "clock" ->
           <<part, boot, steps, loopNow, Sampling, offset - last.offset,
             last.boot, last.wall - last.offset, last.span>>
      [] part = "pairs" -> <<part, passVars>>
      [] part = "verdict" ->
           <<part, setup, window, todo, closing, manifest, drops, missingEndpoints, unseen,
             [f \in Families |-> Judged(f)]>>
==============================================================================
