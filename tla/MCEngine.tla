------------------------------ MODULE MCEngine ------------------------------
(***************************************************************************)
(* Engine with a few connections.  For safety: enough that one streams a   *)
(* manual capture, one waits behind it and one finds every client slot     *)
(* taken; they are interchangeable.  For liveness with automatic captures: *)
(* one at a time, which comes again and again.                             *)
(***************************************************************************)
EXTENDS Engine, TLC

Symmetry == Permutations(Clients)

(* Two connections and one slot, without automatic captures: one is refused*)
(* while the other is served, and finds its query still queued when that   *)
(* one has given up.                                                       *)
ManualSpec == Init /\ [][Next /\ current' = "none"]_vars /\ Fairness
=============================================================================
