---------------------------- MODULE SnapshotLease ----------------------------
(***************************************************************************)
(* What Engine.beginSnapshot promises: at most one selected capture is     *)
(* pinned at a time.  The recorder loop acquires the lease, hands it to a  *)
(* client that streams the capture or to the writer that publishes it, and *)
(* whoever holds it gives it back.                                         *)
(***************************************************************************)
CONSTANTS Clients, Free, Loop, Writer

VARIABLE owner

Owners == Clients \cup {Free, Loop, Writer}

Init == owner = Free

Acquire == owner = Free /\ owner' = Loop

HandOver == owner = Loop /\ owner' \in Clients \cup {Writer}

Release == owner # Free /\ owner' = Free

Next == Acquire \/ HandOver \/ Release

Safe == Init /\ [][Next]_owner

(* A held lease is always given back, so no path leaks it.                 *)
Spec == Safe /\ []<>(owner = Free)
=============================================================================
