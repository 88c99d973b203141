----------------------------- MODULE MCStorage -----------------------------
(***************************************************************************)
(* The two ways a capture reaches the disk: the automatic store, shared by *)
(* two interchangeable daemons and a shipper, and the snapshot command.    *)
(* They share no state, so one run checks them side by side: part is the   *)
(* component a behaviour is about.  The properties are the components' own.*)
(*                                                                         *)
(* The store starts over its quota of two files or not.  The command       *)
(* transfers up to two segments whose bodies fill one tar block exactly or *)
(* one and a half, under limits that the largest captures meet exactly or  *)
(* exceed.                                                                 *)
(***************************************************************************)
EXTENDS Store, SnapshotTransfer, TLC

VARIABLE part

TransferLimits ==
    {[decoded |-> d, entries |-> n, wire |-> 7] : d \in {20, 24, 26}, n \in {4, 5}}
        \cup {[decoded |-> 26, entries |-> 5, wire |-> 5]}

ASSUME StoreAssumption /\ TransferAssumption

mcVars == <<part, vars, transferVars>>

\* Beside the store a transfer of no segments has not begun; beside a transfer
\* the store is an empty directory that nobody uses.
NoTransfer ==
    /\ TransferInit /\ segments = <<>> /\ window /\ destination = "absent"
    /\ \A side \in {"server", "client"} : limits[side] = [decoded |-> 26, entries |-> 5, wire |-> 7]

MCInit ==
    \/ part = "store" /\ Init /\ NoTransfer
    \/ part = "transfer" /\ TransferInit /\ Init /\ DOMAIN disk = {}

MCNext ==
    \/ part = "store" /\ Next /\ UNCHANGED <<part, transferVars>>
    \/ part = "transfer" /\ TransferNext /\ UNCHANGED <<part, vars>>

MCSpec == MCInit /\ [][MCNext]_mcVars

Symmetry == Permutations(Daemons)
=============================================================================
