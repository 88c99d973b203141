---------------------------- MODULE MCAutoCapture ----------------------------
(***************************************************************************)
(* AutoCapture in three configurations, in one run: part is the one that a *)
(* behaviour is about.  In "windows" two families merge into one incident, *)
(* and a second one follows; the recorder is strict.  In "degraded" it     *)
(* goes on with the sensors that are left.  In "backlog" there is one      *)
(* family, and the clock is long enough for a window to queue behind a     *)
(* file, be pushed out and be written against a saved boundary.            *)
(***************************************************************************)
EXTENDS AutoCapture

VARIABLE part

Degraded == INSTANCE AutoCapture WITH Strict <- FALSE, MaxTime <- 5
Backlog == INSTANCE AutoCapture
    WITH Sensors <- {"oom"}, AutoSensors <- {"oom"}, MaxTime <- 9

ASSUME /\ Degraded!LoopAssumption
       /\ Backlog!ConfigAssumption /\ Backlog!LoopAssumption

MCInit ==
    \/ part \in {"windows", "degraded"} /\ Init
    \/ part = "backlog" /\ Backlog!Init

MCNext ==
    /\ part' = part
    /\ \/ part = "windows" /\ Next
       \/ part = "degraded" /\ Degraded!Next
       \/ part = "backlog" /\ Backlog!Next

MCSpec == MCInit /\ [][MCNext]_<<vars, part>>
==============================================================================
