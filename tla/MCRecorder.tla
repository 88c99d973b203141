----------------------------- MODULE MCRecorder -----------------------------
(***************************************************************************)
(* The recorder in two configurations of the same budget.  In "polls" two  *)
(* families fill it until segments are folded and roll-ups evicted, and    *)
(* segments and roll-ups outlive the history; in "window" one family       *)
(* delivers late events into larger slices and roll-ups straddle the       *)
(* windows, every one of which is asked for in every state.  The           *)
(* properties are the component's own.                                     *)
(***************************************************************************)
EXTENDS Recorder

VARIABLE part

Window == INSTANCE Recorder
    WITH NumFamilies <- 1, SegmentInterval <- 2, EventCapacity <- 2, MetricCapacity <- 5,
         Delays <- {0, 3}

ASSUME RecorderAssumption /\ Window!RecorderAssumption

mcVars == <<part, vars>>

MCInit ==
    \/ part = "polls" /\ Init
    \/ part = "window" /\ Window!Init

MCNext ==
    \/ part = "polls" /\ Next /\ UNCHANGED part
    \/ part = "window" /\ Window!Next /\ UNCHANGED part

MCSpec == MCInit /\ [][MCNext]_mcVars
=============================================================================
