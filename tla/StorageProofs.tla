--------------------------- MODULE StorageProofs ---------------------------
(***************************************************************************)
(* Publication and rotation of automatic captures, proved for any number   *)
(* of daemons, captures, quotas and faults.                                *)
(*                                                                         *)
(* The argument: the flock leaves at most one Save under way, so what a    *)
(* Save knows of its partial is disturbed by nobody else; a name is linked *)
(* only to a synced and complete file, so a power loss tears none; and the *)
(* replacement is in both the directory and its durable copy before files  *)
(* are removed for it (StoreInv).  The quotas need, on top, that nothing   *)
(* enters the directory behind a Save's back: a published name is listed   *)
(* with its size, still to be examined, or the Save's own (QuotaInv).      *)
(*                                                                         *)
(* And the transfer of a manual capture, for captures of any length and    *)
(* any limits.  Everything that travels consists of items of the written   *)
(* stream, so the reader, which has consumed a prefix of distinct items in *)
(* their places, can only accept the whole stream (TransferInv).  That it  *)
(* does not reject a whole one follows from what the writer's total is     *)
(* worth: the sum of what the items occupy (LimitsInv).                    *)
(***************************************************************************)
EXTENDS Store, SnapshotTransfer, FiniteSetTheorems, SequenceTheorems, WellFoundedInduction, TLAPS

Fields == {"pc", "todo", "files", "total", "name", "size", "written",
           "repair", "removed", "err"}

(* A directory: its entries are captures or partials, and every published  *)
(* name holds a complete file that has been synced.                        *)
Whole(x) ==
    /\ DOMAIN x \subseteq Entries
    /\ \A e \in DOMAIN x : x[e] \in File
    /\ \A n \in Captures : Final(n) \in DOMAIN x => x[Final(n)].complete /\ x[Final(n)].synced

(* At most one Save is under way, and it holds the lock.                   *)
Saves ==
    /\ DOMAIN proc = Daemons
    /\ \A d \in Daemons : DOMAIN proc[d] = Fields
    /\ \A d \in Daemons : proc[d].pc # "idle" => lock = d

(* What a Save knows of its partial and of its published name.             *)
Staged(d) ==
    /\ proc[d].pc \in {"write", "link", "dirsync"} =>
         proc[d].name \in Captures /\ Partial(proc[d].name) \in DOMAIN disk
    /\ proc[d].pc = "link" =>
         disk[Partial(proc[d].name)].complete /\ disk[Partial(proc[d].name)].synced
    /\ proc[d].pc = "dirsync" => proc[d].name \in gone \/ Final(proc[d].name) \in DOMAIN disk
    /\ proc[d].pc \in {"rotate", "remove", "rotated"} /\ ~proc[d].repair =>
         \/ proc[d].name \in gone
         \/ proc[d].name \in Finals(disk) \cap Finals(durable)

(* The partials a Save has still to sweep, or none but its own.            *)
Swept(d) ==
    /\ proc[d].pc = "scan" => \A n \in Partials : Partial(n) \in proc[d].todo
    /\ proc[d].pc = "create" => Partials = {} /\ ~proc[d].repair
    /\ proc[d].pc \in {"write", "link", "dirsync"} => ~proc[d].repair
    /\ proc[d].pc \in {"rotate", "remove", "rotated"} /\ proc[d].repair => Partials = {}
    /\ proc[d].pc \notin {"idle", "scan"} => Partials \subseteq {proc[d].name}

(* A returned path names a file that neither a crash nor a power loss      *)
(* takes away.                                                             *)
Kept == reported \subseteq (Finals(disk) \cap Finals(durable)) \cup gone

StoreInv ==
    /\ Whole(disk) /\ Whole(durable) /\ issued \in 0..MaxSaves
    /\ Saves /\ Kept
    /\ \A d \in Daemons : Staged(d) /\ Swept(d)

-----------------------------------------------------------------------------
(* Names and directories.                                                  *)

LEMMA EntryKinds ==
    /\ \A m, n : Final(m) # Partial(n)
    /\ \A m, n : Final(m) = Final(n) => m = n
    /\ \A m, n : Partial(m) = Partial(n) => m = n
    /\ \A n : Final(n)[1] = "final" /\ Final(n)[2] = n /\ Partial(n)[1] = "partial"
    /\ \A n \in Captures : Final(n) \in Entries /\ Partial(n) \in Entries
    /\ \A e \in Entries : \E n \in Captures : e = Final(n) \/ e = Partial(n)
  BY DEF Final, Partial, Entries

LEMMA WithoutEntry ==
    ASSUME NEW x, NEW e, Whole(x)
    PROVE  /\ Whole(Without(x, e))
           /\ DOMAIN Without(x, e) = DOMAIN x \ {e}
           /\ \A f \in DOMAIN x \ {e} : Without(x, e)[f] = x[f]
  <1>1. /\ DOMAIN Without(x, e) = DOMAIN x \ {e}
        /\ \A f \in DOMAIN x \ {e} : Without(x, e)[f] = x[f]
    BY DEF Without
  <1> QED
    BY <1>1 DEF Whole

LEMMA WithPartial ==
    ASSUME NEW x, NEW n \in Captures, NEW f \in File, Whole(x)
    PROVE  /\ Whole(With(x, Partial(n), f))
           /\ DOMAIN With(x, Partial(n), f) = DOMAIN x \cup {Partial(n)}
  <1> DEFINE y == With(x, Partial(n), f)
  <1>1. /\ DOMAIN y = DOMAIN x \cup {Partial(n)} /\ y[Partial(n)] = f
        /\ \A g \in DOMAIN x \ {Partial(n)} : y[g] = x[g]
    BY EntryKinds DEF With
  <1> HIDE DEF y
  <1>2. DOMAIN y \subseteq Entries /\ \A g \in DOMAIN y : y[g] \in File
    BY <1>1, EntryKinds DEF Whole
  <1>3. \A m \in Captures : Final(m) \in DOMAIN y => Final(m) \in DOMAIN x /\ y[Final(m)] = x[Final(m)]
    BY <1>1, EntryKinds
  <1>4. Whole(y)
    BY <1>2, <1>3 DEF Whole
  <1> QED
    BY <1>1, <1>4 DEF y

LEMMA WithFinal ==
    ASSUME NEW x, NEW n \in Captures, NEW f \in File, f.complete, f.synced, Whole(x)
    PROVE  /\ Whole(With(x, Final(n), f))
           /\ DOMAIN With(x, Final(n), f) = DOMAIN x \cup {Final(n)}
  <1> DEFINE y == With(x, Final(n), f)
  <1>1. /\ DOMAIN y = DOMAIN x \cup {Final(n)} /\ y[Final(n)] = f
        /\ \A g \in DOMAIN x \ {Final(n)} : y[g] = x[g]
    BY EntryKinds DEF With
  <1> HIDE DEF y
  <1>2. DOMAIN y \subseteq Entries /\ \A g \in DOMAIN y : y[g] \in File
    BY <1>1, EntryKinds DEF Whole
  <1>3. \A m \in Captures : Final(m) \in DOMAIN y => y[Final(m)].complete /\ y[Final(m)].synced
    BY <1>1 DEF Whole
  <1>4. Whole(y)
    BY <1>2, <1>3 DEF Whole
  <1> QED
    BY <1>1, <1>4 DEF y

(* One more unit of a file is a file.                                      *)
LEMMA FileGrows ==
    ASSUME NEW f \in File, NEW b \in BOOLEAN
    PROVE  [f EXCEPT !.size = @ + 1, !.complete = b] \in File
  <1> DEFINE g == [f EXCEPT !.size = @ + 1, !.complete = b]
  <1>1. g.size \in Nat /\ g.modified \in Nat
    BY DEF File
  <1>2. g.complete \in BOOLEAN
    BY DEF File
  <1>3. g.synced \in BOOLEAN
    BY DEF File
  <1> QED
    BY <1>1, <1>2, <1>3 DEF File

-----------------------------------------------------------------------------
(* Steps that leave d's Save under way, and steps that end it.             *)

LEMMA SaveStep ==
    ASSUME StoreInv, NEW d \in Daemons, StoreAssumption,
           lock = d \/ lock = NoDaemon, lock' = d,
           DOMAIN proc' = Daemons, \A x \in Daemons \ {d} : proc'[x] = proc[x],
           DOMAIN proc'[d] = Fields,
           Whole(disk)', Whole(durable)', issued' \in 0..MaxSaves, Kept',
           Staged(d)', Swept(d)'
    PROVE  StoreInv'
  <1>1. \A x \in Daemons \ {d} : proc[x].pc = "idle"
    BY DEF StoreInv, Saves, StoreAssumption
  <1>2. \A x \in Daemons \ {d} : proc'[x].pc = "idle"
    BY <1>1
  <1>3. \A x \in Daemons \ {d} : Staged(x)' /\ Swept(x)'
    BY <1>2 DEF Staged, Swept
  <1>4. Saves'
    BY <1>2 DEF Saves, StoreInv
  <1> QED
    BY <1>3, <1>4 DEF StoreInv

(* A step that changes nothing but the local state of d's Save.            *)
LEMMA QuietStep ==
    ASSUME StoreInv, NEW d \in Daemons, StoreAssumption, NEW p,
           lock = d \/ lock = NoDaemon, lock' = d,
           proc' = [proc EXCEPT ![d] = p], DOMAIN p = Fields,
           UNCHANGED <<disk, durable, issued, reported, gone>>,
           Staged(d)', Swept(d)'
    PROVE  StoreInv'
  <1>1. DOMAIN proc' = Daemons /\ proc'[d] = p /\ \A x \in Daemons \ {d} : proc'[x] = proc[x]
    BY DEF StoreInv, Saves
  <1>2. Whole(disk)' /\ Whole(durable)' /\ issued' \in 0..MaxSaves /\ Kept'
    BY DEF StoreInv, Whole, Kept, Finals
  <1> QED
    BY <1>1, <1>2, SaveStep

LEMMA LeaveStep ==
    ASSUME StoreInv, NEW d \in Daemons, StoreAssumption, proc[d].pc # "idle", Leave(d),
           Whole(disk)', Whole(durable)', issued' \in 0..MaxSaves, Kept'
    PROVE  StoreInv'
  <1>1. \A x \in Daemons \ {d} : proc[x].pc = "idle"
    BY DEF StoreInv, Saves
  <1>2. DOMAIN proc' = Daemons /\ \A x \in Daemons \ {d} : proc'[x] = proc[x]
    BY DEF StoreInv, Saves, Leave
  <1>3. proc'[d] = Idle
    BY DEF StoreInv, Saves, Leave
  <1>4. Idle.pc = "idle" /\ DOMAIN Idle = Fields
    BY DEF Idle, Fields
  <1>5. \A x \in Daemons : proc'[x].pc = "idle"
    BY <1>1, <1>2, <1>3, <1>4
  <1>6. \A x \in Daemons : DOMAIN proc'[x] = Fields
    BY <1>2, <1>3, <1>4 DEF StoreInv, Saves
  <1>7. \A x \in Daemons : Staged(x)' /\ Swept(x)'
    BY <1>5 DEF Staged, Swept
  <1> QED
    BY <1>2, <1>5, <1>6, <1>7 DEF StoreInv, Saves

-----------------------------------------------------------------------------
(* Locking, scanning and rotating.                                         *)

LEMMA HoldsLock ==
    ASSUME StoreInv, NEW d \in Daemons, proc[d].pc # "idle"
    PROVE  lock = d /\ DOMAIN proc = Daemons /\ DOMAIN proc[d] = Fields
  BY DEF StoreInv, Saves

LEMMA LockInv ==
    ASSUME StoreInv, StoreAssumption, NEW d \in Daemons, Lock(d)
    PROVE  StoreInv'
  <1> DEFINE p == [Idle EXCEPT !.pc = "scan", !.todo = DOMAIN disk]
  <1>1. p.pc = "scan" /\ p.todo = DOMAIN disk /\ DOMAIN p = Fields
    BY DEF Idle, Fields
  <1>2. proc' = [proc EXCEPT ![d] = p] /\ proc'[d] = p
    BY DEF Lock, StoreInv, Saves
  <1>3. UNCHANGED <<disk, durable, issued, reported, gone>> /\ lock = NoDaemon /\ lock' = d
    BY DEF Lock
  <1> HIDE DEF p
  <1>4. Staged(d)'
    BY <1>1, <1>2 DEF Staged
  <1>5. Swept(d)'
    BY <1>1, <1>2, <1>3 DEF Swept, Partials
  <1> QED
    BY <1>1, <1>2, <1>3, <1>4, <1>5, QuietStep

LEMMA ScanEntryInv ==
    ASSUME StoreInv, StoreAssumption, NEW d \in Daemons, NEW e \in Entries, ScanEntry(d, e)
    PROVE  StoreInv'
  <1>1. proc[d].pc = "scan" /\ lock = d /\ lock' = d /\ DOMAIN proc = Daemons /\ DOMAIN proc[d] = Fields
    BY HoldsLock DEF ScanEntry
  <1>2. /\ DOMAIN proc' = Daemons /\ \A x \in Daemons \ {d} : proc'[x] = proc[x]
        /\ DOMAIN proc'[d] = Fields /\ proc'[d].pc = "scan" /\ proc'[d].todo = proc[d].todo \ {e}
    BY <1>1 DEF ScanEntry, Fields
  <1>3. /\ Whole(disk)'
        /\ \A n \in Captures : Final(n) \in DOMAIN disk' <=> Final(n) \in DOMAIN disk
        /\ \A n \in Captures : Partial(n) \in DOMAIN disk' =>
                                   Partial(n) \in DOMAIN disk /\ Partial(n) # e
    <2>1. CASE e[1] = "partial"
      <3>1. disk' = Without(disk, e)
        BY <2>1 DEF ScanEntry
      <3>2. Whole(disk') /\ DOMAIN disk' = DOMAIN disk \ {e}
        BY <3>1, WithoutEntry DEF StoreInv
      <3>3. \A n \in Captures : Final(n) # e
        BY <2>1, EntryKinds
      <3> QED
        BY <3>2, <3>3 DEF Whole
    <2>2. CASE e[1] # "partial"
      <3>1. disk' = disk
        BY <2>2 DEF ScanEntry
      <3>2. \A n \in Captures : Partial(n) # e
        BY <2>2, EntryKinds
      <3> QED
        BY <3>1, <3>2 DEF StoreInv, Whole
    <2> QED
      BY <2>1, <2>2
  <1>4. UNCHANGED <<durable, issued, reported, gone>>
    BY DEF ScanEntry
  <1>5. Whole(durable)' /\ issued' \in 0..MaxSaves
    BY <1>4 DEF StoreInv, Whole
  <1>6. Kept'
    BY <1>3, <1>4 DEF StoreInv, Kept, Finals
  <1>7. Staged(d)'
    BY <1>2 DEF Staged
  <1>8. Swept(d)'
    BY <1>1, <1>2, <1>3 DEF Swept, Partials, StoreInv
  <1> QED
    BY <1>1, <1>2, <1>3, <1>5, <1>6, <1>7, <1>8, SaveStep

LEMMA ScanDoneInv ==
    ASSUME StoreInv, StoreAssumption, NEW d \in Daemons, ScanDone(d)
    PROVE  StoreInv'
  <1> DEFINE over == Exceeded(Cardinality(proc[d].files), proc[d].total)
             p == [proc[d] EXCEPT !.repair = over, !.pc = IF over THEN "rotate" ELSE "create"]
  <1>1. proc[d].pc = "scan" /\ proc[d].todo = {} /\ lock = d /\ lock' = d
        /\ DOMAIN proc = Daemons /\ DOMAIN proc[d] = Fields
    BY HoldsLock DEF ScanDone
  <1>2. proc' = [proc EXCEPT ![d] = p] /\ proc'[d] = p
    BY <1>1 DEF ScanDone
  <1>3. over \in BOOLEAN
    BY DEF Exceeded
  <1>4. DOMAIN p = Fields /\ p.name = proc[d].name
    BY <1>1 DEF Fields
  <1>5. p.repair = over /\ p.pc = IF over THEN "rotate" ELSE "create"
    BY <1>1, Zenon DEF Fields
  <1>6. UNCHANGED <<disk, durable, issued, reported, gone>>
    BY DEF ScanDone
  <1>7. Partials' = {}
    BY <1>1, <1>6 DEF StoreInv, Swept, Partials
  <1> HIDE DEF p, over
  <1>8. (p.pc = "rotate" /\ p.repair) \/ (p.pc = "create" /\ ~p.repair)
    BY <1>3, <1>5
  <1>9. Staged(d)' /\ Swept(d)'
    BY <1>2, <1>7, <1>8 DEF Staged, Swept
  <1> QED
    BY <1>1, <1>2, <1>4, <1>6, <1>9, QuietStep

(* Rotation moves among its own states and keeps what it rotates for.      *)
LEMMA RotateQuiet ==
    ASSUME StoreInv, StoreAssumption, NEW d \in Daemons,
           proc[d].pc \in {"rotate", "remove", "rotated"},
           DOMAIN proc' = Daemons, \A x \in Daemons \ {d} : proc'[x] = proc[x],
           DOMAIN proc'[d] = Fields, lock' = lock,
           proc'[d].pc \in {"rotate", "remove", "rotated"},
           proc'[d].name = proc[d].name, proc'[d].repair = proc[d].repair,
           UNCHANGED <<disk, durable, issued, reported, gone>>
    PROVE  StoreInv'
  <1>1. lock = d /\ lock' = d
    BY HoldsLock
  <1>2. Staged(d)'
    BY DEF StoreInv, Staged, Finals
  <1>3. Swept(d)'
    BY DEF StoreInv, Swept, Partials
  <1>4. Whole(disk)' /\ Whole(durable)' /\ issued' \in 0..MaxSaves /\ Kept'
    BY DEF StoreInv, Whole, Kept, Finals
  <1> QED
    BY <1>1, <1>2, <1>3, <1>4, SaveStep

LEMMA RotateLocalInv ==
    ASSUME StoreInv, StoreAssumption, NEW d \in Daemons,
           \/ \E old \in proc[d].files : RotateMissing(d, old) \/ RotateStat(d, old)
           \/ RotateError(d) \/ RotateEnd(d)
    PROVE  StoreInv'
  <1>1. DOMAIN proc = Daemons /\ DOMAIN proc[d] = Fields
    BY DEF StoreInv, Saves
  <1>2. /\ proc[d].pc \in {"rotate", "remove", "rotated"} /\ lock' = lock
        /\ UNCHANGED <<disk, durable, issued, reported, gone>>
    BY DEF RotateMissing, RotateStat, RotateError, RotateEnd
  <1>3. DOMAIN proc' = Daemons /\ \A x \in Daemons \ {d} : proc'[x] = proc[x]
    BY <1>1 DEF RotateMissing, RotateStat, RotateError, RotateEnd
  <1>4. DOMAIN proc'[d] = Fields /\ proc'[d].pc \in {"rotate", "remove", "rotated"}
        /\ proc'[d].name = proc[d].name /\ proc'[d].repair = proc[d].repair
    <2>1. ASSUME NEW old \in proc[d].files, RotateMissing(d, old) \/ RotateStat(d, old)
          PROVE  DOMAIN proc'[d] = Fields /\ proc'[d].pc \in {"rotate", "remove", "rotated"}
                 /\ proc'[d].name = proc[d].name /\ proc'[d].repair = proc[d].repair
      <3>1. CASE RotateMissing(d, old)
        BY <1>1, <3>1 DEF RotateMissing, Debited, Fields
      <3>2. CASE RotateStat(d, old)
        BY <1>1, <3>2 DEF RotateStat, Fields
      <3> QED
        BY <2>1, <3>1, <3>2
    <2>2. CASE RotateError(d)
      BY <1>1, <2>2 DEF RotateError, Fields
    <2>3. CASE RotateEnd(d)
      BY <1>1, <2>3 DEF RotateEnd, Fields
    <2> QED
      BY <2>1, <2>2, <2>3
  <1> QED
    BY <1>2, <1>3, <1>4, RotateQuiet

LEMMA RotateRemoveInv ==
    ASSUME StoreInv, StoreAssumption, NEW d \in Daemons, NEW old, RotateRemove(d, old)
    PROVE  StoreInv'
  <1> DEFINE m == old.name
             p == [Debited(proc[d], old) EXCEPT !.pc = "rotate", !.removed = TRUE]
  <1>1. proc[d].pc = "remove" /\ lock = d /\ lock' = d /\ DOMAIN proc = Daemons /\ DOMAIN proc[d] = Fields
    BY HoldsLock DEF RotateRemove
  <1>2. DOMAIN p = Fields /\ p.pc = "rotate" /\ p.name = proc[d].name /\ p.repair = proc[d].repair
    BY <1>1 DEF Debited, Fields
  <1>3. proc' = [proc EXCEPT ![d] = p]
    BY DEF RotateRemove
  <1>4. disk' = Without(disk, Final(m)) /\ gone' = gone \cup {m}
        /\ UNCHANGED <<durable, issued, reported>>
    BY DEF RotateRemove
  <1> HIDE DEF m, p
  <1>5. DOMAIN proc' = Daemons /\ proc'[d] = p /\ \A x \in Daemons \ {d} : proc'[x] = proc[x]
    BY <1>1, <1>3
  <1>6. Whole(disk') /\ DOMAIN disk' = DOMAIN disk \ {Final(m)} 
    BY <1>4, WithoutEntry, EntryKinds DEF StoreInv
  <1>7. /\ \A n : n \in Finals(disk) => n \in Finals(disk') \/ n \in gone'
        /\ Partials' = Partials
    BY <1>4, <1>6, EntryKinds DEF Finals, Partials
  <1>8. Kept'
    BY <1>4, <1>6, <1>7 DEF StoreInv, Kept, Finals
  <1>9. Staged(d)'
    BY <1>1, <1>2, <1>4, <1>5, <1>6, <1>7 DEF StoreInv, Staged, Finals
  <1>10. Swept(d)'
    BY <1>1, <1>2, <1>5, <1>7 DEF StoreInv, Swept
  <1>11. Whole(disk)' /\ Whole(durable)' /\ issued' \in 0..MaxSaves
    BY <1>4, <1>6 DEF StoreInv, Whole
  <1> QED
    BY <1>1, <1>2, <1>5, <1>8, <1>9, <1>10, <1>11, SaveStep

(* The directory's sync makes durable what a returned path names.          *)
LEMMA RotateSyncedInv ==
    ASSUME StoreInv, StoreAssumption, NEW d \in Daemons, NEW synced \in BOOLEAN,
           RotateSynced(d, synced)
    PROVE  StoreInv'
  <1>1. proc[d].pc = "rotated" /\ lock = d /\ DOMAIN proc = Daemons /\ DOMAIN proc[d] = Fields
    BY HoldsLock DEF RotateSynced
  <1>2. UNCHANGED <<disk, issued, gone>> /\ (durable' = disk \/ durable' = durable)
    BY DEF RotateSynced
  <1>3. Whole(disk)' /\ Whole(durable)' /\ issued' \in 0..MaxSaves
    BY <1>2 DEF StoreInv, Whole
  <1>4. /\ Finals(disk)' = Finals(disk) /\ Finals(disk) \cap Finals(durable) \subseteq Finals(durable)'
        /\ Partials' = Partials
    BY <1>2 DEF Finals, Partials
  <1>5. \/ /\ proc[d].repair /\ lock' = lock /\ reported' = reported
           /\ proc' = [proc EXCEPT ![d].pc = "create", ![d].repair = FALSE, ![d].removed = FALSE]
        \/ Leave(d) /\ reported' = reported
        \/ Leave(d) /\ reported' = reported \cup {proc[d].name} /\ ~proc[d].repair
    BY DEF RotateSynced
  <1>6. CASE /\ proc[d].repair /\ lock' = lock /\ reported' = reported
             /\ proc' = [proc EXCEPT ![d].pc = "create", ![d].repair = FALSE, ![d].removed = FALSE]
    <2>1. /\ DOMAIN proc' = Daemons /\ \A x \in Daemons \ {d} : proc'[x] = proc[x]
          /\ DOMAIN proc'[d] = Fields /\ proc'[d].pc = "create" /\ ~proc'[d].repair
      BY <1>1, <1>6 DEF Fields
    <2>2. Partials = {}
      BY <1>1, <1>6 DEF StoreInv, Swept
    <2>3. Staged(d)' /\ Swept(d)'
      BY <1>4, <2>1, <2>2 DEF Staged, Swept
    <2>4. Kept'
      BY <1>2, <1>4, <1>6 DEF StoreInv, Kept
    <2> QED
      BY <1>1, <1>3, <1>6, <2>1, <2>3, <2>4, SaveStep
  <1>7. CASE Leave(d) /\ reported' = reported
    <2>1. Kept'
      BY <1>2, <1>4, <1>7 DEF StoreInv, Kept
    <2> QED
      BY <1>1, <1>3, <1>7, <2>1, LeaveStep
  <1>8. CASE Leave(d) /\ reported' = reported \cup {proc[d].name} /\ ~proc[d].repair
    <2>1. proc[d].name \in gone \/ proc[d].name \in Finals(disk) \cap Finals(durable)
      BY <1>1, <1>8 DEF StoreInv, Staged
    <2>2. Kept'
      BY <1>2, <1>4, <1>8, <2>1 DEF StoreInv, Kept
    <2> QED
      BY <1>1, <1>3, <1>8, <2>2, LeaveStep
  <1> QED
    BY <1>5, <1>6, <1>7, <1>8

-----------------------------------------------------------------------------
(* Publishing.                                                             *)

LEMMA CreateInv ==
    ASSUME StoreInv, StoreAssumption, NEW d \in Daemons, NEW size \in Sizes, Create(d, size)
    PROVE  StoreInv'
  <1> DEFINE n == Existing + issued + 1
             f == [size |-> 0, complete |-> FALSE, synced |-> FALSE, modified |-> n]
  <1>1. proc[d].pc = "create" /\ lock = d /\ lock' = d /\ DOMAIN proc = Daemons /\ DOMAIN proc[d] = Fields
    BY HoldsLock DEF Create
  <1>2. issued' = issued + 1 /\ issued' \in 0..MaxSaves /\ n \in Captures /\ f \in File
        /\ Existing + issued' = n
    BY DEF Create, StoreInv, StoreAssumption, Captures, File
  <1>3. disk' = With(disk, Partial(n), f) /\ UNCHANGED <<durable, reported, gone>>
    BY <1>2 DEF Create
  <1>4. /\ DOMAIN proc' = Daemons /\ \A x \in Daemons \ {d} : proc'[x] = proc[x]
        /\ DOMAIN proc'[d] = Fields /\ proc'[d].pc = "write" /\ proc'[d].name = n
        /\ proc'[d].repair = proc[d].repair
    BY <1>1, <1>2 DEF Create, Fields
  <1> HIDE DEF n, f
  <1>5. Whole(disk') /\ DOMAIN disk' = DOMAIN disk \cup {Partial(n)}
    BY <1>2, <1>3, WithPartial DEF StoreInv
  <1>6. Partials = {} /\ ~proc[d].repair
    BY <1>1 DEF StoreInv, Swept
  <1>7. Finals(disk)' = Finals(disk) /\ Partials' = {n}
    BY <1>2, <1>5, <1>6, EntryKinds DEF Finals, Partials
  <1>8. Whole(disk)' /\ Whole(durable)' /\ Kept'
    BY <1>3, <1>5, <1>7 DEF StoreInv, Whole, Kept, Finals
  <1>9. Staged(d)' /\ Swept(d)'
    BY <1>2, <1>4, <1>5, <1>6, <1>7 DEF Staged, Swept
  <1> QED
    BY <1>1, <1>2, <1>4, <1>8, <1>9, SaveStep

(* A change of the live partial's contents.                                *)
LEMMA PartialStep ==
    ASSUME StoreInv, StoreAssumption, NEW d \in Daemons, proc[d].pc = "write",
           NEW f \in File, disk' = [disk EXCEPT ![Partial(proc[d].name)] = f]
    PROVE  /\ Whole(disk)' /\ DOMAIN disk' = DOMAIN disk
           /\ disk'[Partial(proc[d].name)] = f
           /\ proc[d].name \in Captures /\ Partial(proc[d].name) \in DOMAIN disk
           /\ Finals(disk)' = Finals(disk) /\ Partials' = Partials
           /\ Partials \subseteq {proc[d].name}
  <1>1. proc[d].name \in Captures /\ Partial(proc[d].name) \in DOMAIN disk
        /\ Partials \subseteq {proc[d].name}
    BY DEF StoreInv, Staged, Swept
  <1>2. DOMAIN disk' = DOMAIN disk /\ disk'[Partial(proc[d].name)] = f
        /\ \A e \in DOMAIN disk : e # Partial(proc[d].name) => disk'[e] = disk[e]
    BY <1>1
  <1>3. \A m \in Captures : Final(m) \in DOMAIN disk => disk'[Final(m)] = disk[Final(m)]
    BY <1>2, EntryKinds
  <1>4. Whole(disk)'
    BY <1>2, <1>3 DEF StoreInv, Whole
  <1> QED
    BY <1>1, <1>2, <1>4 DEF Finals, Partials

LEMMA WriteInv ==
    ASSUME StoreInv, StoreAssumption, NEW d \in Daemons, Write(d)
    PROVE  StoreInv'
  <1> DEFINE e == Partial(proc[d].name)
  <1>1. proc[d].pc = "write" /\ lock = d /\ lock' = d /\ DOMAIN proc = Daemons /\ DOMAIN proc[d] = Fields
    BY HoldsLock DEF Write
  <1>2. e \in DOMAIN disk /\ disk[e] \in File /\ ~proc[d].repair
    BY <1>1 DEF StoreInv, Staged, Whole, Swept
  <1>3. UNCHANGED <<durable, issued, reported, gone>>
    BY DEF Write
  <1>4. PICK b \in BOOLEAN : b = (proc[d].written + 1 = proc[d].size)
    BY Zenon
  <1> DEFINE f == [disk[e] EXCEPT !.size = @ + 1, !.complete = b]
  <1>5. disk' = [disk EXCEPT ![e] = f]
    BY <1>2, <1>4, Zenon DEF Write
  <1>6. f \in File
    BY <1>2, <1>4, FileGrows, Zenon
  <1>7. /\ DOMAIN proc' = Daemons /\ \A x \in Daemons \ {d} : proc'[x] = proc[x]
        /\ DOMAIN proc'[d] = Fields /\ proc'[d].pc = "write" /\ proc'[d].name = proc[d].name
        /\ proc'[d].repair = proc[d].repair
    BY <1>1 DEF Write, Fields
  <1> HIDE DEF f
  <1>8. /\ Whole(disk)' /\ DOMAIN disk' = DOMAIN disk /\ proc[d].name \in Captures
        /\ Finals(disk)' = Finals(disk) /\ Partials' = Partials /\ Partials \subseteq {proc[d].name}
    BY <1>1, <1>5, <1>6, PartialStep
  <1>9. Whole(durable)' /\ issued' \in 0..MaxSaves /\ Kept'
    BY <1>3, <1>8 DEF StoreInv, Whole, Kept, Finals
  <1>10. Staged(d)' /\ Swept(d)'
    BY <1>2, <1>7, <1>8 DEF Staged, Swept
  <1> QED
    BY <1>1, <1>7, <1>8, <1>9, <1>10, SaveStep

LEMMA ValidateInv ==
    ASSUME StoreInv, StoreAssumption, NEW d \in Daemons, Validate(d)
    PROVE  StoreInv'
  <1> DEFINE e == Partial(proc[d].name)
             f == [disk[e] EXCEPT !.synced = TRUE]
  <1>1. proc[d].pc = "write" /\ lock = d /\ lock' = d /\ DOMAIN proc = Daemons /\ DOMAIN proc[d] = Fields
    BY HoldsLock DEF Validate
  <1>2. e \in DOMAIN disk /\ disk[e] \in File /\ disk[e].complete /\ ~proc[d].repair
    BY <1>1 DEF StoreInv, Staged, Whole, Swept, Validate
  <1>3. UNCHANGED <<durable, issued, reported, gone>>
    BY DEF Validate
  <1>4. disk' = [disk EXCEPT ![e] = f]
    BY <1>2 DEF Validate
  <1>5. f \in File /\ f.complete /\ f.synced
    BY <1>2 DEF File
  <1>6. /\ DOMAIN proc' = Daemons /\ \A x \in Daemons \ {d} : proc'[x] = proc[x]
        /\ DOMAIN proc'[d] = Fields /\ proc'[d].pc = "link" /\ proc'[d].name = proc[d].name
        /\ proc'[d].repair = proc[d].repair
    BY <1>1 DEF Validate, Fields
  <1> HIDE DEF f
  <1>7. /\ Whole(disk)' /\ DOMAIN disk' = DOMAIN disk /\ proc[d].name \in Captures
        /\ disk'[e] = f
        /\ Finals(disk)' = Finals(disk) /\ Partials' = Partials /\ Partials \subseteq {proc[d].name}
    BY <1>1, <1>4, <1>5, PartialStep
  <1>8. Whole(durable)' /\ issued' \in 0..MaxSaves /\ Kept'
    BY <1>3, <1>7 DEF StoreInv, Whole, Kept, Finals
  <1>9. Staged(d)' /\ Swept(d)'
    BY <1>2, <1>5, <1>6, <1>7 DEF Staged, Swept
  <1> QED
    BY <1>1, <1>6, <1>7, <1>8, <1>9, SaveStep

LEMMA LinkInv ==
    ASSUME StoreInv, StoreAssumption, NEW d \in Daemons, Link(d)
    PROVE  StoreInv'
  <1> DEFINE n == proc[d].name
             f == disk[Partial(n)]
  <1>1. proc[d].pc = "link" /\ lock = d /\ lock' = d /\ DOMAIN proc = Daemons /\ DOMAIN proc[d] = Fields
    BY HoldsLock DEF Link
  <1>2. n \in Captures /\ Partial(n) \in DOMAIN disk /\ f \in File /\ f.complete /\ f.synced
        /\ Partials \subseteq {n} /\ ~proc[d].repair
    BY <1>1 DEF StoreInv, Staged, Whole, Swept
  <1>3. disk' = With(disk, Final(n), f) /\ UNCHANGED <<durable, issued, reported, gone>>
    BY DEF Link
  <1>4. /\ DOMAIN proc' = Daemons /\ \A x \in Daemons \ {d} : proc'[x] = proc[x]
        /\ DOMAIN proc'[d] = Fields /\ proc'[d].pc = "dirsync" /\ proc'[d].name = n
        /\ proc'[d].repair = proc[d].repair
    BY <1>1 DEF Link, Fields
  <1> HIDE DEF n, f
  <1>5. Whole(disk') /\ DOMAIN disk' = DOMAIN disk \cup {Final(n)}
    BY <1>2, <1>3, WithFinal DEF StoreInv
  <1>6. Finals(disk) \subseteq Finals(disk)' /\ Partials' = Partials
    BY <1>5, EntryKinds DEF Finals, Partials
  <1>7. Whole(disk)' /\ Whole(durable)' /\ issued' \in 0..MaxSaves
    BY <1>3, <1>5 DEF StoreInv, Whole
  <1>8. Kept'
    BY <1>3, <1>6 DEF StoreInv, Kept, Finals
  <1>9. Staged(d)' /\ Swept(d)'
    BY <1>2, <1>4, <1>5, <1>6 DEF Staged, Swept
  <1> QED
    BY <1>1, <1>4, <1>7, <1>8, <1>9, SaveStep

(* Removing the partial costs no published name.                           *)
LEMMA UnstagedKeeps ==
    ASSUME StoreInv, NEW d \in Daemons, disk' \in Unstaged(d)
    PROVE  /\ Whole(disk)' /\ Finals(disk)' = Finals(disk) /\ Partials' \subseteq Partials
  <1>1. CASE disk' = disk
    BY <1>1 DEF StoreInv, Whole, Finals, Partials
  <1>2. CASE disk' = Without(disk, Partial(proc[d].name))
    <2>1. Whole(disk') /\ DOMAIN disk' = DOMAIN disk \ {Partial(proc[d].name)}
      BY <1>2, WithoutEntry DEF StoreInv
    <2> QED
      BY <2>1, EntryKinds DEF Finals, Partials, Whole
  <1> QED
    BY <1>1, <1>2 DEF Unstaged

LEMMA FailInv ==
    ASSUME StoreInv, StoreAssumption, NEW d \in Daemons, Fail(d)
    PROVE  StoreInv'
  <1>1. Whole(disk)' /\ Finals(disk)' = Finals(disk)
    BY UnstagedKeeps DEF Fail
  <1>2. proc[d].pc # "idle" /\ Leave(d) /\ UNCHANGED <<durable, issued, reported, gone>>
    BY DEF Fail
  <1>3. Whole(durable)' /\ issued' \in 0..MaxSaves /\ Kept'
    BY <1>1, <1>2 DEF StoreInv, Whole, Kept, Finals
  <1> QED
    BY <1>1, <1>2, <1>3, LeaveStep

LEMMA PublishedInv ==
    ASSUME StoreInv, StoreAssumption, NEW d \in Daemons, Published(d)
    PROVE  StoreInv'
  <1>1. proc[d].pc = "dirsync" /\ lock = d /\ lock' = d /\ DOMAIN proc = Daemons /\ DOMAIN proc[d] = Fields
    BY HoldsLock DEF Published
  <1>2. durable' = disk /\ UNCHANGED <<issued, reported, gone>>
    BY DEF Published
  <1>3. Whole(disk)' /\ Finals(disk)' = Finals(disk) /\ Partials' \subseteq Partials
    BY UnstagedKeeps DEF Published
  <1>4. Whole(durable)' /\ Finals(durable)' = Finals(disk) /\ issued' \in 0..MaxSaves
    BY <1>2 DEF StoreInv, Whole, Finals
  <1>5. Kept'
    BY <1>2, <1>3, <1>4 DEF StoreInv, Kept
  <1>6. /\ DOMAIN proc' = Daemons /\ \A x \in Daemons \ {d} : proc'[x] = proc[x]
        /\ DOMAIN proc'[d] = Fields /\ proc'[d].pc = "rotate" /\ proc'[d].name = proc[d].name
        /\ proc'[d].repair = proc[d].repair
    BY <1>1 DEF Published, Fields
  <1>7. Staged(d)'
    <2>1. proc[d].name \in gone \/ proc[d].name \in Finals(disk)
      BY <1>1 DEF StoreInv, Staged, Finals
    <2> QED
      BY <1>2, <1>3, <1>4, <1>6, <2>1 DEF Staged
  <1>8. Swept(d)'
    BY <1>1, <1>3, <1>6 DEF Swept, StoreInv
  <1> QED
    BY <1>1, <1>3, <1>4, <1>5, <1>6, <1>7, <1>8, SaveStep

-----------------------------------------------------------------------------
(* The environment.                                                        *)

LEMMA DieInv ==
    ASSUME StoreInv, StoreAssumption, NEW d \in Daemons, Die(d)
    PROVE  StoreInv'
  <1>1. proc[d].pc # "idle" /\ Leave(d) /\ UNCHANGED <<disk, durable, issued, reported, gone>>
    BY DEF Die
  <1>2. Whole(disk)' /\ Whole(durable)' /\ issued' \in 0..MaxSaves /\ Kept'
    BY <1>1 DEF StoreInv, Whole, Kept, Finals
  <1> QED
    BY <1>1, <1>2, LeaveStep

(* What a power loss leaves of a synced file is the file.                  *)
LEMMA SurvivingFile ==
    ASSUME NEW f \in File
    PROVE  /\ Torn(f) \in File
           /\ f.complete /\ f.synced => Torn(f).complete /\ Torn(f).synced
  <1> DEFINE g == Torn(f)
  <1>1. g.size \in Nat /\ g.modified \in Nat
    BY DEF File, Torn
  <1>2. g.complete \in BOOLEAN
    BY DEF File, Torn
  <1>3. g.synced = TRUE
    BY DEF File, Torn
  <1>4. f.complete /\ f.synced => g.complete
    BY DEF File, Torn
  <1> QED
    BY <1>1, <1>2, <1>3, <1>4 DEF File, Torn

LEMMA PowerLossInv ==
    ASSUME StoreInv, StoreAssumption, PowerLoss
    PROVE  StoreInv'
  <1> DEFINE Old(e) == IF e \in DOMAIN disk THEN disk[e] ELSE durable[e]
  <1>1. PICK unsure \in SUBSET ((DOMAIN disk \ DOMAIN durable) \cup (DOMAIN durable \ DOMAIN disk)) :
            disk' = [e \in (DOMAIN disk \cap DOMAIN durable) \cup unsure |->
                       Torn(Old(e))]
    BY DEF PowerLoss
  <1>2. /\ durable' = disk' /\ proc' = [d \in Daemons |-> Idle] /\ lock' = NoDaemon
        /\ UNCHANGED <<issued, reported, gone>>
    BY DEF PowerLoss
  <1>3. /\ DOMAIN disk \cap DOMAIN durable \subseteq DOMAIN disk'
        /\ DOMAIN disk' \subseteq DOMAIN disk \cup DOMAIN durable
        /\ \A e \in DOMAIN disk' : disk'[e] = Torn(Old(e))
    BY <1>1
  <1>4. \A e \in DOMAIN disk' : Old(e) \in File
    BY <1>3 DEF StoreInv, Whole
  <1>5. \A n \in Captures : Final(n) \in DOMAIN disk' => Old(Final(n)).complete /\ Old(Final(n)).synced
    BY <1>3 DEF StoreInv, Whole
  <1> HIDE DEF Old
  <1>6. Whole(disk')
    <2>1. DOMAIN disk' \subseteq Entries
      BY <1>3 DEF StoreInv, Whole
    <2>2. \A e \in DOMAIN disk' : disk'[e] \in File
      BY <1>3, <1>4, SurvivingFile
    <2>3. \A n \in Captures : Final(n) \in DOMAIN disk' => disk'[Final(n)].complete /\ disk'[Final(n)].synced
      BY <1>3, <1>4, <1>5, SurvivingFile
    <2> QED
      BY <2>1, <2>2, <2>3 DEF Whole
  <1>7. Whole(disk)' /\ Whole(durable)' /\ issued' \in 0..MaxSaves
    BY <1>2, <1>6 DEF StoreInv, Whole
  <1>8. Kept'
    BY <1>2, <1>3 DEF StoreInv, Kept, Finals
  <1>9. \A d \in Daemons : proc'[d].pc = "idle" /\ DOMAIN proc'[d] = Fields
    BY <1>2 DEF Idle, Fields
  <1>10. Saves' /\ \A d \in Daemons : Staged(d)' /\ Swept(d)'
    BY <1>2, <1>9 DEF Saves, Staged, Swept
  <1> QED
    BY <1>7, <1>8, <1>10 DEF StoreInv

LEMMA ShipInv ==
    ASSUME StoreInv, StoreAssumption, NEW n \in Captures, Ship(n)
    PROVE  StoreInv'
  <1>1. /\ disk' = Without(disk, Final(n)) /\ gone' = gone \cup {n}
        /\ UNCHANGED <<durable, lock, proc, issued, reported>>
    BY DEF Ship
  <1>2. /\ Whole(disk') /\ DOMAIN disk' = DOMAIN disk \ {Final(n)}
        /\ \A e \in DOMAIN disk \ {Final(n)} : disk'[e] = disk[e]
    BY <1>1, WithoutEntry DEF StoreInv
  <1>3. /\ \A m : m \in Finals(disk) => m \in Finals(disk') \/ m \in gone'
        /\ \A m : Partial(m) \in DOMAIN disk <=> Partial(m) \in DOMAIN disk'
        /\ \A m : Partial(m) \in DOMAIN disk => disk'[Partial(m)] = disk[Partial(m)]
        /\ \A m \in Captures : Final(m) \in DOMAIN disk => Final(m) \in DOMAIN disk' \/ m \in gone'
    BY <1>1, <1>2, EntryKinds DEF Finals
  <1>4. Whole(disk)' /\ Whole(durable)' /\ issued' \in 0..MaxSaves /\ Saves'
    BY <1>1, <1>2 DEF StoreInv, Whole, Saves
  <1>5. Kept'
    BY <1>1, <1>3 DEF StoreInv, Kept, Finals
  <1>6. Partials' = Partials
    BY <1>3 DEF Partials
  <1>7. \A d \in Daemons : Staged(d)'
    BY <1>1, <1>3 DEF StoreInv, Staged, Finals
  <1>8. \A d \in Daemons : Swept(d)'
    BY <1>1, <1>6 DEF StoreInv, Swept
  <1> QED
    BY <1>4, <1>5, <1>7, <1>8 DEF StoreInv

(* What the shipper leaves in place of a capture.                          *)
LEMMA RewrittenFile ==
    ASSUME StoreInv, StoreAssumption, NEW n \in Captures, Rewrite(n)
    PROVE  \E f \in File :
             /\ Final(n) \in DOMAIN disk /\ disk' = [disk EXCEPT ![Final(n)] = f]
             /\ f.size <= disk[Final(n)].size /\ f.complete /\ f.synced
  <1> DEFINE g == disk[Final(n)]
             now == Existing + MaxSaves + 1
             f(size, modified) == [g EXCEPT !.size = size, !.modified = modified]
  <1>1. Final(n) \in DOMAIN disk
    BY DEF Rewrite, Finals
  <1>2. g \in File /\ g.complete /\ g.synced
    BY <1>1 DEF StoreInv, Whole
  <1>3. g.size \in Nat /\ g.modified \in Nat /\ now \in Nat
    BY <1>2 DEF File, StoreAssumption
  <1>4. PICK size \in 0..g.size, modified \in {g.modified, now} :
           disk' = [disk EXCEPT ![Final(n)] = f(size, modified)]
    <2>1. \/ Replaced(n, g.size, now)
          \/ \E size \in Smaller(n), modified \in {g.modified, now} : Replaced(n, size, modified)
      BY Zenon DEF Rewrite
    <2>2. PICK size \in 0..g.size, modified \in {g.modified, now} : Replaced(n, size, modified)
      BY <1>3, <2>1 DEF Smaller
    <2> QED
      BY <1>1, <2>2, Zenon DEF Replaced
  <1>5. size \in Nat /\ size <= g.size /\ modified \in Nat
    BY <1>3, <1>4
  <1>6. f(size, modified) \in File /\ f(size, modified).size = size
        /\ f(size, modified).complete /\ f(size, modified).synced
    BY <1>2, <1>5 DEF File
  <1> QED
    BY <1>1, <1>4, <1>5, <1>6

LEMMA RewriteInv ==
    ASSUME StoreInv, StoreAssumption, NEW n \in Captures, Rewrite(n)
    PROVE  StoreInv'
  <1>1. PICK f \in File :
          /\ Final(n) \in DOMAIN disk /\ disk' = [disk EXCEPT ![Final(n)] = f]
          /\ f.size <= disk[Final(n)].size /\ f.complete /\ f.synced
    BY RewrittenFile
  <1>2. UNCHANGED <<durable, lock, proc, issued, reported, gone>>
    BY DEF Rewrite
  <1>3. f \in File /\ f.complete /\ f.synced
    BY <1>1
  <1>4. /\ DOMAIN disk' = DOMAIN disk /\ disk'[Final(n)] = f
        /\ \A e \in DOMAIN disk \ {Final(n)} : disk'[e] = disk[e]
    BY <1>1
  <1>5. \A m : Partial(m) \in DOMAIN disk => disk'[Partial(m)] = disk[Partial(m)]
    BY <1>4, EntryKinds
  <1>6. \A m \in Captures : Final(m) \in DOMAIN disk => disk'[Final(m)].complete /\ disk'[Final(m)].synced
    BY <1>3, <1>4 DEF StoreInv, Whole
  <1>7. \A e \in DOMAIN disk' : disk'[e] \in File
    BY <1>3, <1>4 DEF StoreInv, Whole
  <1>8. Whole(disk)' /\ Whole(durable)' /\ issued' \in 0..MaxSaves /\ Saves'
    BY <1>2, <1>4, <1>6, <1>7 DEF StoreInv, Whole, Saves
  <1>9. Finals(disk)' = Finals(disk) /\ Finals(durable)' = Finals(durable) /\ Partials' = Partials
    BY <1>2, <1>4 DEF Finals, Partials
  <1>10. Kept'
    BY <1>2, <1>9 DEF StoreInv, Kept
  <1>11. \A d \in Daemons : Staged(d)'
    BY <1>2, <1>4, <1>5, <1>9 DEF StoreInv, Staged
  <1>12. \A d \in Daemons : Swept(d)'
    BY <1>2, <1>9 DEF StoreInv, Swept
  <1> QED
    BY <1>8, <1>10, <1>11, <1>12 DEF StoreInv

-----------------------------------------------------------------------------
LEMMA StoreInit ==
    ASSUME StoreAssumption, Init
    PROVE  StoreInv
  <1>1. PICK k \in 0..Existing :
            disk = [e \in {Final(n) : n \in 1..k} |->
                      [size |-> 1, complete |-> TRUE, synced |-> TRUE, modified |-> e[2]]]
    BY DEF Init
  <1>2. DOMAIN disk = {Final(n) : n \in 1..k}
        /\ \A n \in 1..k : disk[Final(n)] = [size |-> 1, complete |-> TRUE, synced |-> TRUE, modified |-> n]
    BY <1>1, EntryKinds
  <1>3. 1..k \subseteq Captures /\ 1..k \subseteq Nat
    BY DEF Captures, StoreAssumption
  <1>4. \A n \in 1..k : disk[Final(n)] \in File /\ disk[Final(n)].complete /\ disk[Final(n)].synced
    <2> SUFFICES ASSUME NEW n \in 1..k
                 PROVE  disk[Final(n)] \in File /\ disk[Final(n)].complete /\ disk[Final(n)].synced
      OBVIOUS
    <2>1. n \in Nat
      BY <1>3
    <2>2. [size |-> 1, complete |-> TRUE, synced |-> TRUE, modified |-> n] \in File
      BY <2>1 DEF File
    <2> QED
      BY <1>2, <2>2
  <1>5. Whole(disk)
    BY <1>2, <1>3, <1>4, EntryKinds DEF Whole
  <1>6. durable = disk /\ proc = [d \in Daemons |-> Idle] /\ issued = 0 /\ reported = {}
    BY DEF Init
  <1>7. \A d \in Daemons : proc[d].pc = "idle" /\ DOMAIN proc[d] = Fields
    BY <1>6 DEF Idle, Fields
  <1>8. Saves /\ Kept /\ issued \in 0..MaxSaves
    BY <1>6, <1>7 DEF Saves, Kept, StoreAssumption
  <1>9. \A d \in Daemons : Staged(d) /\ Swept(d)
    BY <1>7 DEF Staged, Swept
  <1> QED
    BY <1>5, <1>6, <1>8, <1>9 DEF StoreInv

LEMMA StoreStep ==
    ASSUME StoreAssumption, StoreInv, [Next]_vars
    PROVE  StoreInv'
  <1>1. CASE UNCHANGED vars
    BY <1>1 DEF vars, StoreInv, Whole, Saves, Kept, Staged, Swept, Finals, Partials
  <1>2. ASSUME NEW d \in Daemons, Save(d) PROVE StoreInv'
    <2>1. CASE Refuse(d)
      BY <2>1, <1>1 DEF Refuse
    <2>2. CASE \/ \E old \in proc[d].files : RotateMissing(d, old) \/ RotateStat(d, old)
               \/ RotateError(d) \/ RotateEnd(d)
      BY <2>2, RotateLocalInv
    <2> QED
      BY <1>2, <2>1, <2>2, LockInv, ScanDoneInv, FailInv, ScanEntryInv, RotateRemoveInv,
         RotateSyncedInv, CreateInv, WriteInv, ValidateInv, LinkInv, PublishedInv DEF Save
  <1> QED
    BY <1>1, <1>2, DieInv, PowerLossInv, ShipInv, RewriteInv DEF Next

LEMMA StoreInvariant ==
    ASSUME StoreAssumption
    PROVE  Spec => []StoreInv
  BY StoreInit, StoreStep, PTL DEF Spec

(* Store.save of internal/autocapture/store.go, for any number of daemons, *)
(* quotas, deaths, power losses and shipper actions: a published name      *)
(* always holds a complete capture, the scan of one daemon never removes   *)
(* the partial another is writing, files are removed only for a capture    *)
(* that a power loss would leave, and a returned path names a file until   *)
(* rotation or the shipper removes it.                                     *)
THEOREM CapturesDurable ==
    ASSUME StoreAssumption
    PROVE  Spec => []PublicationDurable
  <1>1. StoreInv => PublicationDurable
    <2> SUFFICES ASSUME StoreInv PROVE PublicationDurable
      OBVIOUS
    <2>1. PublishedComplete
      BY DEF StoreInv, Whole, PublishedComplete, Finals
    <2>2. LivePartialKept
      BY DEF StoreInv, Staged, LivePartialKept, Partials
    <2>3. ReplacementDurable
      BY DEF StoreInv, Whole, Staged, ReplacementDurable, Finals
    <2>4. ReportedSurvives
      BY DEF StoreInv, Kept, ReportedSurvives
    <2> QED
      BY <2>1, <2>2, <2>3, <2>4 DEF PublicationDurable
  <1> QED
    BY <1>1, StoreInvariant, PTL

-----------------------------------------------------------------------------
(* The quotas.  What a Save knows of the directory x: the files it has     *)
(* listed, whose sizes its total counts, and the capture it has linked.    *)
StoredFile == [name : Captures, size : Nat, modified : Nat]
Units(S) == UNION {{<<f, i>> : i \in 1..f.size} : f \in S}

Typed(p) ==
    /\ p.pc \in {"idle", "scan", "create", "write", "link", "dirsync", "rotate", "remove", "rotated"}
    /\ p.todo \subseteq Entries
    /\ p.files \subseteq StoredFile /\ IsFiniteSet(p.files)
    /\ p.total \in Nat /\ Cardinality(Units(p.files)) <= p.total
    /\ p.written \in Nat /\ p.repair \in BOOLEAN /\ p.err \in BOOLEAN

(* Every published name is still to be examined, is the new capture's or   *)
(* is listed with a size that it does not exceed: the shipper removes      *)
(* names or makes their files smaller, and adds none.                      *)
Known(x, p, n) == \E f \in p.files : f.name = n /\ x[Final(n)].size \in 0..f.size
Own(x, p, n) ==
    /\ p.pc \in {"dirsync", "rotate", "remove", "rotated"} /\ ~p.repair
    /\ n = p.name /\ x[Final(n)].size \in 0..p.written
Accounted(x, p) ==
    p.pc # "idle" =>
        \A n \in Finals(x) :
            (p.pc = "scan" /\ Final(n) \in p.todo) \/ Own(x, p, n) \/ Known(x, p, n)

(* Save counts the bytes that it has written.                              *)
Measured(x, p) ==
    /\ p.pc \in {"scan", "create"} \/ (p.pc # "idle" /\ p.repair) => p.written = 0
    /\ p.pc \in {"write", "link"} => x[Partial(p.name)].size = p.written
    /\ p.pc \in {"rotate", "remove", "rotated"} /\ ~p.repair => p.name \in Captures

(* It stages only within the quotas, and rotates until it is within them.  *)
Within(p) ==
    /\ p.pc \in {"create", "write", "link", "dirsync"} => ~Exceeded(Cardinality(p.files), p.total)
    /\ p.pc = "rotated" /\ ~p.err => ~Over(p)

QuotaInv ==
    /\ lock \in Daemons \cup {NoDaemon} /\ reported \subseteq Captures /\ gone \subseteq Captures
    /\ \A d \in Daemons :
         /\ Typed(proc[d]) /\ Accounted(disk, proc[d])
         /\ Measured(disk, proc[d]) /\ Within(proc[d])

-----------------------------------------------------------------------------
(* Counting files and units.                                               *)

Column(x, k) == {<<x, i>> : i \in 1..k}

LEMMA ColumnSize ==
    ASSUME NEW x, NEW k \in Nat
    PROVE  IsFiniteSet(Column(x, k)) /\ Cardinality(Column(x, k)) = k
  <1> DEFINE c == [i \in 1..k |-> <<x, i>>]
  <1>1. c \in Surjection(1..k, Column(x, k)) /\ c \in Injection(1..k, Column(x, k))
    BY DEF Surjection, Injection, IsInjective, Column
  <1>2. IsFiniteSet(1..k) /\ Cardinality(1..k) = k
    BY FS_Interval
  <1> QED
    BY <1>1, <1>2, FS_Surjection

LEMMA UnitsFinite ==
    ASSUME NEW S \in SUBSET StoredFile, IsFiniteSet(S)
    PROVE  IsFiniteSet(Units(S)) /\ Cardinality(Units(S)) \in Nat
  <1> DEFINE C == {Column(f, f.size) : f \in S}
             c == [f \in S |-> Column(f, f.size)]
  <1>1. c \in Surjection(S, C)
    BY DEF Surjection
  <1>2. IsFiniteSet(C)
    BY <1>1, FS_Surjection
  <1>3. \A T \in C : IsFiniteSet(T)
    BY ColumnSize DEF StoredFile
  <1>4. Units(S) = UNION C
    BY Zenon DEF Units, Column
  <1> QED
    BY <1>2, <1>3, <1>4, FS_UNION, FS_CardinalityType

(* Listing one more file.                                                  *)
LEMMA UnitsAdd ==
    ASSUME NEW S \in SUBSET StoredFile, IsFiniteSet(S), NEW f \in StoredFile
    PROVE  Cardinality(Units(S \cup {f})) <= Cardinality(Units(S)) + f.size
  <1> DEFINE A == Units(S)
             B == Column(f, f.size)
  <1>1. Units(S \cup {f}) = A \cup B
    BY DEF Units, Column
  <1>2. IsFiniteSet(A) /\ Cardinality(A) \in Nat
    BY UnitsFinite
  <1>3. f.size \in Nat /\ IsFiniteSet(B) /\ Cardinality(B) = f.size
    BY ColumnSize DEF StoredFile
  <1> HIDE DEF A, B
  <1>4. Cardinality(A \cap B) \in Nat
    BY <1>2, FS_Subset, FS_CardinalityType
  <1>5. Cardinality(A \cup B) = Cardinality(A) + Cardinality(B) - Cardinality(A \cap B)
    BY <1>2, <1>3, FS_Union
  <1>6. Cardinality(A \cup B) <= Cardinality(A) + f.size
    BY <1>2, <1>3, <1>4, <1>5
  <1> QED
    BY <1>1, <1>6 DEF A

(* Dropping a listed file.                                                 *)
LEMMA UnitsRemove ==
    ASSUME NEW S \in SUBSET StoredFile, IsFiniteSet(S), NEW f \in S
    PROVE  Cardinality(Units(S \ {f})) = Cardinality(Units(S)) - f.size
  <1> DEFINE A == Units(S \ {f})
             B == Column(f, f.size)
  <1>1. Units(S) = A \cup B
    BY DEF Units, Column
  <1>2. A \cap B = {}
    BY DEF Units, Column
  <1>3. IsFiniteSet(S \ {f})
    BY FS_RemoveElement
  <1>4. IsFiniteSet(A) /\ Cardinality(A) \in Nat
    BY <1>3, UnitsFinite
  <1>5. f.size \in Nat /\ IsFiniteSet(B) /\ Cardinality(B) = f.size
    BY ColumnSize DEF StoredFile
  <1> HIDE DEF A, B
  <1>6. Cardinality(A \cup B) = Cardinality(A) + Cardinality(B) - Cardinality(A \cap B)
    BY <1>4, <1>5, FS_Union
  <1>7. Cardinality(A \cap B) = 0
    BY <1>2, FS_EmptySet
  <1>8. Cardinality(A) = Cardinality(A \cup B) - f.size
    BY <1>4, <1>5, <1>6, <1>7
  <1> QED
    BY <1>1, <1>8 DEF A

(* Names that are all listed with their sizes are no more, and no larger,  *)
(* than the list.                                                          *)
LEMMA ListedBound ==
    ASSUME NEW S \in SUBSET StoredFile, IsFiniteSet(S), NEW N \in SUBSET Captures,
           \A n \in N : \E f \in S : f.name = n /\ disk[Final(n)].size \in 0..f.size
    PROVE  /\ IsFiniteSet(N) /\ Cardinality(N) \in Nat /\ Cardinality(N) <= Cardinality(S)
           /\ Bytes(N) \in Nat /\ Bytes(N) <= Cardinality(Units(S))
           /\ IsFiniteSet(UNION {Column(n, disk[Final(n)].size) : n \in N})
  <1> DEFINE g == [n \in N |-> CHOOSE f \in S : f.name = n /\ disk[Final(n)].size \in 0..f.size]
             U == UNION {Column(n, disk[Final(n)].size) : n \in N}
             h == [u \in U |-> <<g[u[1]], u[2]>>]
  <1>1. \A n \in N : g[n] \in S /\ g[n].name = n /\ disk[Final(n)].size \in 0..g[n].size
    OBVIOUS
  <1> HIDE DEF g
  <1> DEFINE G == [n \in N |-> g[n]]
  <1>3. G \in Injection(N, S)
    BY <1>1 DEF Injection, IsInjective
  <1>4. IsFiniteSet(N) /\ Cardinality(N) <= Cardinality(S)
    BY <1>3, FS_Injection
  <1>5. \A u \in U : \E n \in N : \E i \in 1..disk[Final(n)].size : u = <<n, i>>
    BY DEF Column
  <1>6. \A u \in U : h[u] \in Units(S) /\ h[u][1].name = u[1] /\ h[u][2] = u[2]
    <2> SUFFICES ASSUME NEW u \in U
                 PROVE  h[u] \in Units(S) /\ h[u][1].name = u[1] /\ h[u][2] = u[2]
      OBVIOUS
    <2>1. PICK n \in N : \E i \in 1..disk[Final(n)].size : u = <<n, i>>
      BY <1>5
    <2>i. PICK i \in 1..disk[Final(n)].size : u = <<n, i>>
      BY <2>1
    <2>2. h[u] = <<g[n], i>> /\ u[1] = n /\ u[2] = i
      BY <2>i
    <2>s. g[n] \in S /\ g[n].name = n /\ g[n].size \in Nat /\ disk[Final(n)].size \in 0..g[n].size
      BY <1>1 DEF StoredFile
    <2>3. g[n] \in S /\ i \in 1..g[n].size /\ g[n].name = n
      BY <2>s
    <2>4. <<g[n], i>> \in Units(S)
      BY <2>3 DEF Units
    <2> QED
      BY <2>2, <2>3, <2>4
  <1>7. \A u, v \in U : u[1] = v[1] /\ u[2] = v[2] => u = v
    BY <1>5
  <1>8. h \in Injection(U, Units(S))
    <2>1. h \in [U -> Units(S)]
      BY <1>6
    <2> HIDE DEF U, h
    <2>2. ASSUME NEW u \in U, NEW v \in U, h[u] = h[v] PROVE u = v
      <3>1. u[1] = v[1] /\ u[2] = v[2]
        BY <1>6, <2>2
      <3> QED
        BY <1>7, <3>1
    <2> QED
      BY <2>1, <2>2 DEF Injection, IsInjective
  <1> HIDE DEF U, h
  <1>9. IsFiniteSet(U) /\ Cardinality(U) <= Cardinality(Units(S))
    BY <1>8, UnitsFinite, FS_Injection
  <1>10. Bytes(N) = Cardinality(U)
    BY Zenon DEF Bytes, U, Column
  <1> QED
    BY <1>4, <1>9, <1>10, FS_CardinalityType DEF U

(* The same with one more name.                                            *)
LEMMA ListedBoundPlus ==
    ASSUME NEW S \in SUBSET StoredFile, IsFiniteSet(S), NEW N \in SUBSET Captures,
           NEW m \in N, NEW k \in Nat, disk[Final(m)].size \in 0..k,
           \A n \in N \ {m} : \E f \in S : f.name = n /\ disk[Final(n)].size \in 0..f.size
    PROVE  /\ Cardinality(N) \in Nat /\ Cardinality(N) <= Cardinality(S) + 1
           /\ Bytes(N) \in Nat /\ Bytes(N) <= Cardinality(Units(S)) + k
  <1> DEFINE M == N \ {m}
             A == UNION {Column(n, disk[Final(n)].size) : n \in M}
             size == disk[Final(m)].size
             B == Column(m, size)
  <1>1. /\ IsFiniteSet(M) /\ Cardinality(M) \in Nat /\ Cardinality(M) <= Cardinality(S)
        /\ Bytes(M) \in Nat /\ Bytes(M) <= Cardinality(Units(S)) /\ IsFiniteSet(A)
    BY ListedBound
  <1>2. N = M \cup {m}
    OBVIOUS
  <1>3. Cardinality(S) \in Nat /\ Cardinality(Units(S)) \in Nat
    BY UnitsFinite, FS_CardinalityType
  <1>4. IsFiniteSet(B) /\ Cardinality(B) \in Nat /\ Cardinality(B) <= k
    <2>1. size \in Nat /\ size <= k
      OBVIOUS
    <2> QED
      BY <2>1, ColumnSize
  <1>5. Bytes(M) = Cardinality(A)
    BY Zenon DEF Bytes, Column
  <1>6. Bytes(N) = Cardinality(A \cup B)
    <2>1. UNION {Column(n, disk[Final(n)].size) : n \in N} = A \cup B
      BY <1>2
    <2>2. Bytes(N) = Cardinality(UNION {Column(n, disk[Final(n)].size) : n \in N})
      BY Zenon DEF Bytes, Column
    <2> QED
      BY <2>1, <2>2
  <1>7. Cardinality(N) = Cardinality(M) + 1
    BY <1>1, <1>2, FS_AddElement
  <1> HIDE DEF A, B, M
  <1>8. Cardinality(A \cup B) = Cardinality(A) + Cardinality(B) - Cardinality(A \cap B)
        /\ IsFiniteSet(A \cup B)
    BY <1>1, <1>4, FS_Union
  <1>9. Cardinality(A \cap B) \in Nat /\ Cardinality(A \cup B) \in Nat
    BY <1>1, <1>8, FS_Subset, FS_CardinalityType
  <1> QED
    BY <1>1, <1>3, <1>4, <1>5, <1>6, <1>7, <1>8, <1>9

-----------------------------------------------------------------------------
(* The quotas are kept.                                                    *)

LEMMA OthersIdle ==
    ASSUME StoreInv, StoreAssumption, NEW d \in Daemons, lock = d \/ lock = NoDaemon
    PROVE  \A x \in Daemons \ {d} : proc[x].pc = "idle"
  BY DEF StoreInv, Saves, StoreAssumption

LEMMA IdleTyped == Idle.pc = "idle" /\ Typed(Idle)
  <1>1. Units({}) = {}
    BY DEF Units
  <1>2. IsFiniteSet({}) /\ Cardinality(Units({})) = 0
    BY <1>1, FS_EmptySet
  <1> QED
    BY <1>2 DEF Typed, Idle

(* A step of d's Save.                                                     *)
LEMMA QuotaFrame ==
    ASSUME QuotaInv, StoreInv, StoreAssumption, NEW d \in Daemons,
           lock = d \/ lock = NoDaemon, lock' \in Daemons \cup {NoDaemon},
           \A x \in Daemons \ {d} : proc'[x] = proc[x],
           reported' \subseteq Captures, gone' \subseteq Captures,
           Typed(proc'[d]), Accounted(disk', proc'[d]), Measured(disk', proc'[d]), Within(proc'[d])
    PROVE  QuotaInv'
  <1>1. ASSUME NEW x \in Daemons \ {d}
        PROVE  /\ Typed(proc'[x]) /\ Accounted(disk', proc'[x])
               /\ Measured(disk', proc'[x]) /\ Within(proc'[x])
    <2>1. proc'[x] = proc[x] /\ proc[x].pc = "idle"
      BY OthersIdle
    <2>2. Typed(proc[x])
      BY DEF QuotaInv
    <2> QED
      BY <2>1, <2>2 DEF Accounted, Measured, Within
  <1>2. \A x \in Daemons : /\ Typed(proc'[x]) /\ Accounted(disk', proc'[x])
                           /\ Measured(disk', proc'[x]) /\ Within(proc'[x])
    BY <1>1
  <1> QED
    BY <1>2 DEF QuotaInv

LEMMA QuotaLeave ==
    ASSUME QuotaInv, StoreInv, StoreAssumption, NEW d \in Daemons, proc[d].pc # "idle", Leave(d),
           reported' \subseteq Captures, gone' \subseteq Captures
    PROVE  QuotaInv'
  <1>1. lock = d /\ DOMAIN proc = Daemons
    BY HoldsLock
  <1>2. proc'[d] = Idle /\ lock' = NoDaemon /\ \A x \in Daemons \ {d} : proc'[x] = proc[x]
    BY <1>1 DEF Leave
  <1>3. Typed(proc'[d]) /\ Accounted(disk', proc'[d]) /\ Measured(disk', proc'[d]) /\ Within(proc'[d])
    BY <1>2, IdleTyped DEF Accounted, Measured, Within
  <1> QED
    BY <1>1, <1>2, <1>3, QuotaFrame

(* A step that adds no published name and keeps the sizes of the others.   *)
LEMMA AccountKept ==
    ASSUME NEW x, NEW y, NEW p, NEW q, Accounted(x, p), p.pc # "idle",
           \A n \in Finals(y) : n \in Finals(x) /\ y[Final(n)].size = x[Final(n)].size,
           p.pc = "scan" => (q.pc = "scan" /\ q.todo = p.todo) \/ p.todo = {},
           \A n \in Finals(y) : Own(x, p, n) => Own(y, q, n),
           \A n \in Finals(y) : \A f \in p.files : f.name = n => f \in q.files
    PROVE  Accounted(y, q)
  BY DEF Accounted, Known

LEMMA LockQuota ==
    ASSUME QuotaInv, StoreInv, StoreAssumption, NEW d \in Daemons, Lock(d)
    PROVE  QuotaInv'
  <1> DEFINE p == [Idle EXCEPT !.pc = "scan", !.todo = DOMAIN disk]
  <1>1. /\ p.pc = "scan" /\ p.todo = DOMAIN disk /\ p.files = Idle.files /\ p.total = Idle.total
        /\ p.written = Idle.written /\ p.repair = Idle.repair /\ p.err = Idle.err /\ Idle.written = 0
    BY DEF Idle
  <1>2. proc'[d] = p /\ \A x \in Daemons \ {d} : proc'[x] = proc[x]
    BY DEF Lock, StoreInv, Saves
  <1>3. UNCHANGED <<disk, reported, gone>> /\ lock = NoDaemon /\ lock' = d
    BY DEF Lock
  <1> HIDE DEF p
  <1>4. Typed(p)
    BY <1>1, IdleTyped DEF Typed, StoreInv, Whole
  <1>5. Accounted(disk', p) /\ Measured(disk', p) /\ Within(p)
    BY <1>1, <1>3 DEF Accounted, Measured, Within, Finals
  <1> QED
    BY <1>2, <1>3, <1>4, <1>5, QuotaFrame DEF QuotaInv

(* What the holder of the lock may rely on.                                *)
LEMMA Holder ==
    ASSUME QuotaInv, StoreInv, NEW d \in Daemons, proc[d].pc # "idle"
    PROVE  /\ lock = d /\ DOMAIN proc = Daemons /\ DOMAIN proc[d] = Fields
           /\ Typed(proc[d]) /\ Accounted(disk, proc[d])
           /\ Measured(disk, proc[d]) /\ Within(proc[d])
           /\ reported \subseteq Captures /\ gone \subseteq Captures
  BY HoldsLock DEF QuotaInv

LEMMA ScanEntryQuota ==
    ASSUME QuotaInv, StoreInv, StoreAssumption, NEW d \in Daemons, NEW e \in Entries, ScanEntry(d, e)
    PROVE  QuotaInv'
  <1> DEFINE p == proc[d]
             q == proc'[d]
  <1>1. p.pc = "scan" /\ e \in p.todo /\ UNCHANGED <<lock, reported, gone>>
    BY DEF ScanEntry
  <1>2. lock = d /\ DOMAIN proc = Daemons /\ DOMAIN p = Fields /\ Typed(p) /\ Accounted(disk, p)
        /\ Measured(disk, p)
    BY <1>1, Holder
  <1>3. \A x \in Daemons \ {d} : proc'[x] = proc[x]
    BY <1>2 DEF ScanEntry
  <1>4. /\ q.pc = "scan" /\ q.todo = p.todo \ {e} /\ q.written = p.written
        /\ q.repair = p.repair /\ q.err = p.err
    BY <1>1, <1>2 DEF ScanEntry, Fields
  <1>5. /\ q.files = IF Present(e) THEN p.files \cup {Scanned(e)} ELSE p.files
        /\ q.total = IF Present(e) THEN p.total + Scanned(e).size ELSE p.total
    BY <1>2 DEF ScanEntry, Fields
  <1>6. \A n \in Finals(disk') : n \in Finals(disk) /\ disk'[Final(n)] = disk[Final(n)]
    <2>1. CASE e[1] = "partial"
      <3>1. disk' = Without(disk, e)
        BY <2>1 DEF ScanEntry
      <3>2. DOMAIN disk' = DOMAIN disk \ {e} /\ \A f \in DOMAIN disk \ {e} : disk'[f] = disk[f]
        BY <3>1, WithoutEntry DEF StoreInv
      <3> QED
        BY <3>2 DEF Finals
    <2>2. CASE e[1] # "partial"
      BY <2>2 DEF ScanEntry
    <2> QED
      BY <2>1, <2>2
  <1>7. Present(e) => Scanned(e) \in StoredFile
    <2> SUFFICES ASSUME Present(e) PROVE Scanned(e) \in StoredFile
      OBVIOUS
    <2>1. PICK n \in Captures : e = Final(n) \/ e = Partial(n)
      BY EntryKinds
    <2>2. e = Final(n) /\ e[2] = n /\ disk[e] \in File
      BY <2>1, EntryKinds DEF Present, StoreInv, Whole
    <2> QED
      BY <2>2 DEF Scanned, StoredFile, File
  <1> HIDE DEF p, q
  <1>8. Typed(q)
    <2>1. CASE Present(e)
      <3>1. q.files = p.files \cup {Scanned(e)} /\ q.total = p.total + Scanned(e).size
        BY <1>5, <2>1
      <3>2. Scanned(e) \in StoredFile /\ Scanned(e).size \in Nat
        BY <1>7, <2>1 DEF StoredFile
      <3>3. IsFiniteSet(p.files) /\ p.files \subseteq StoredFile /\ p.total \in Nat
            /\ Cardinality(Units(p.files)) <= p.total
        BY <1>2 DEF Typed
      <3>4. Cardinality(Units(p.files)) \in Nat
        BY <3>3, UnitsFinite
      <3>5. IsFiniteSet(q.files) /\ q.files \subseteq StoredFile
        BY <3>1, <3>2, <3>3, FS_AddElement
      <3>6. Cardinality(Units(q.files)) <= Cardinality(Units(p.files)) + Scanned(e).size
        BY <3>1, <3>2, <3>3, UnitsAdd
      <3>7. Cardinality(Units(q.files)) \in Nat
        BY <3>5, UnitsFinite
      <3>8. Cardinality(Units(q.files)) <= q.total /\ q.total \in Nat
        BY <3>1, <3>2, <3>3, <3>4, <3>6, <3>7
      <3> QED
        BY <1>2, <1>4, <3>5, <3>8 DEF Typed
    <2>2. CASE ~Present(e)
      <3>1. q.files = p.files /\ q.total = p.total
        BY <1>5, <2>2
      <3> QED
        BY <1>2, <1>4, <3>1 DEF Typed
    <2> QED
      BY <2>1, <2>2
  <1>9. Accounted(disk', q)
    <2> SUFFICES ASSUME NEW n \in Finals(disk')
                 PROVE  Final(n) \in q.todo \/ Known(disk', q, n)
      BY <1>4 DEF Accounted
    <2>1. n \in Finals(disk) /\ disk'[Final(n)] = disk[Final(n)]
      BY <1>6
    <2>2. Final(n) \in p.todo \/ Known(disk, p, n)
      BY <1>1, <1>2, <2>1 DEF Accounted, Own
    <2>3. CASE Known(disk, p, n)
      BY <1>5, <2>1, <2>3 DEF Known
    <2>4. CASE Final(n) = e
      <3>s. disk[Final(n)].size \in Nat
        BY <2>1 DEF StoreInv, Whole, File, Finals
      <3>1. Present(e) /\ Scanned(e).name = n /\ disk'[Final(n)].size \in 0..Scanned(e).size
        BY <2>1, <2>4, <3>s, EntryKinds DEF Present, Scanned, Finals
      <3>2. Scanned(e) \in q.files
        BY <1>5, <3>1
      <3> QED
        BY <3>1, <3>2 DEF Known
    <2> QED
      BY <1>4, <2>2, <2>3, <2>4
  <1>10. Measured(disk', q) /\ Within(q)
    BY <1>1, <1>2, <1>4 DEF Measured, Within
  <1> QED
    BY <1>1, <1>2, <1>3, <1>8, <1>9, <1>10, QuotaFrame DEF QuotaInv, q

LEMMA ScanDoneQuota ==
    ASSUME QuotaInv, StoreInv, StoreAssumption, NEW d \in Daemons, ScanDone(d)
    PROVE  QuotaInv'
  <1> DEFINE p == proc[d]
             q == proc'[d]
             over == Exceeded(Cardinality(p.files), p.total)
  <1>1. p.pc = "scan" /\ p.todo = {} /\ UNCHANGED <<disk, lock, reported, gone>>
    BY DEF ScanDone
  <1>2. lock = d /\ DOMAIN proc = Daemons /\ DOMAIN p = Fields /\ Typed(p) /\ Accounted(disk, p)
        /\ Measured(disk, p)
    BY <1>1, Holder
  <1>3. \A x \in Daemons \ {d} : proc'[x] = proc[x]
    BY <1>2 DEF ScanDone
  <1>4. q = [p EXCEPT !.repair = over, !.pc = IF over THEN "rotate" ELSE "create"]
    BY <1>2 DEF ScanDone
  <1>5. PICK b \in BOOLEAN : b = over
    BY Zenon DEF Exceeded
  <1>6. q = [p EXCEPT !.repair = b, !.pc = IF b THEN "rotate" ELSE "create"]
    BY <1>4, <1>5, Zenon
  <1>7. ~b => ~Exceeded(Cardinality(p.files), p.total)
    BY <1>5, Zenon
  <1> HIDE DEF p, q, over
  <1>8. /\ q.repair = b /\ q.pc = (IF b THEN "rotate" ELSE "create")
        /\ q.todo = p.todo /\ q.files = p.files /\ q.total = p.total /\ q.written = p.written
        /\ q.err = p.err
    BY <1>2, <1>6 DEF Fields
  <1>9. Typed(q)
    BY <1>2, <1>8 DEF Typed
  <1>10. Accounted(disk', q)
    BY <1>1, <1>2, <1>8 DEF Accounted, Own, Known
  <1>11. Measured(disk', q) /\ Within(q)
    BY <1>1, <1>2, <1>7, <1>8 DEF Measured, Within
  <1> QED
    BY <1>1, <1>2, <1>3, <1>9, <1>10, <1>11, QuotaFrame DEF QuotaInv, q

(* Rotation drops the oldest file from the list and its size from the      *)
(* total.                                                                  *)
LEMMA DebitedTyped ==
    ASSUME NEW p, Typed(p), NEW f \in p.files
    PROVE  /\ p.files \ {f} \subseteq StoredFile /\ IsFiniteSet(p.files \ {f})
           /\ p.total - f.size \in Nat
           /\ Cardinality(Units(p.files \ {f})) <= p.total - f.size
  <1>1. IsFiniteSet(p.files) /\ p.files \subseteq StoredFile /\ p.total \in Nat
        /\ Cardinality(Units(p.files)) <= p.total /\ f.size \in Nat
    BY DEF Typed, StoredFile
  <1>2. IsFiniteSet(p.files \ {f})
    BY <1>1, FS_RemoveElement
  <1>3. Cardinality(Units(p.files \ {f})) = Cardinality(Units(p.files)) - f.size
    BY <1>1, UnitsRemove
  <1>4. Cardinality(Units(p.files \ {f})) \in Nat /\ Cardinality(Units(p.files)) \in Nat
    BY <1>1, <1>2, UnitsFinite
  <1> QED
    BY <1>1, <1>2, <1>3, <1>4

(* A step of the rotation, from p to q.                                    *)
Rotation(p, q) ==
    /\ q.pc \in {"rotate", "remove", "rotated"}
    /\ q.todo = p.todo /\ q.name = p.name /\ q.written = p.written
    /\ q.repair = p.repair /\ q.err \in BOOLEAN
    /\ q.files \subseteq StoredFile /\ IsFiniteSet(q.files)
    /\ q.total \in Nat /\ Cardinality(Units(q.files)) <= q.total
    /\ q.pc = "rotated" /\ ~q.err => ~Over(q)

(* The directory loses names only, and the list none that are left.        *)
Dropped(x, y, p, q) ==
    \A n \in Finals(y) :
        /\ n \in Finals(x) /\ y[Final(n)].size = x[Final(n)].size
        /\ \A f \in p.files : f.name = n => f \in q.files

LEMMA RotationQuota ==
    ASSUME QuotaInv, StoreInv, StoreAssumption, NEW d \in Daemons,
           proc[d].pc \in {"rotate", "remove"}, \A x \in Daemons \ {d} : proc'[x] = proc[x],
           lock' = lock, reported' = reported, gone' \subseteq Captures,
           Rotation(proc[d], proc'[d]), Dropped(disk, disk', proc[d], proc'[d])
    PROVE  QuotaInv'
  <1> DEFINE p == proc[d]
             q == proc'[d]
  <1>1. lock = d /\ DOMAIN proc = Daemons /\ Typed(p) /\ Accounted(disk, p) /\ Measured(disk, p)
    BY Holder
  <1>3. Typed(q)
    BY <1>1 DEF Typed, Rotation
  <1>4. \A n \in Finals(disk') : Own(disk, p, n) => Own(disk', q, n)
    BY DEF Own, Rotation, Dropped
  <1>5. Accounted(disk', q)
    BY <1>1, <1>4, AccountKept DEF Rotation, Dropped
  <1>6. Measured(disk', q) /\ Within(q)
    BY <1>1 DEF Measured, Within, Rotation
  <1> QED
    BY <1>1, <1>3, <1>5, <1>6, QuotaFrame DEF QuotaInv

LEMMA RotateMissingQuota ==
    ASSUME QuotaInv, StoreInv, StoreAssumption, NEW d \in Daemons, NEW old \in proc[d].files,
           RotateMissing(d, old)
    PROVE  QuotaInv'
  <1> DEFINE p == proc[d]
             q == Debited(p, old)
  <1>1. /\ p.pc = "rotate" /\ Final(old.name) \notin DOMAIN disk
        /\ proc' = [proc EXCEPT ![d] = q] /\ UNCHANGED <<disk, lock, reported, gone>>
    BY DEF RotateMissing
  <1>2. DOMAIN p = Fields /\ Typed(p) /\ gone \subseteq Captures
    BY <1>1, Holder
  <1>3. /\ q.pc = p.pc /\ q.todo = p.todo /\ q.name = p.name /\ q.written = p.written
        /\ q.repair = p.repair /\ q.err = p.err
        /\ q.files = p.files \ {old} /\ q.total = p.total - old.size
    BY <1>2 DEF Debited, Fields
  <1> HIDE DEF q
  <1>4. /\ q.files \subseteq StoredFile /\ IsFiniteSet(q.files) /\ q.total \in Nat
        /\ Cardinality(Units(q.files)) <= q.total
    <2>1. /\ p.files \ {old} \subseteq StoredFile /\ IsFiniteSet(p.files \ {old})
          /\ p.total - old.size \in Nat
          /\ Cardinality(Units(p.files \ {old})) <= p.total - old.size
      BY <1>2, DebitedTyped
    <2> QED
      BY <1>3, <2>1
  <1>5. \A n \in Finals(disk') : \A f \in p.files : f.name = n => f \in q.files
    BY <1>1, <1>3 DEF Finals
  <1>6. \A n \in Finals(disk') : n \in Finals(disk) /\ disk'[Final(n)].size = disk[Final(n)].size
    BY <1>1
  <1>7. q.err \in BOOLEAN
    BY <1>2, <1>3 DEF Typed
  <1>8. Rotation(p, q) /\ Dropped(disk, disk', p, q)
    BY <1>1, <1>3, <1>4, <1>5, <1>6, <1>7 DEF Rotation, Dropped
  <1>9. gone' \subseteq Captures /\ lock' = lock /\ reported' = reported
    BY <1>1, <1>2
  <1>10. proc'[d] = q /\ \A x \in Daemons \ {d} : proc'[x] = proc[x]
    BY <1>1, Holder
  <1> QED
    BY <1>1, <1>8, <1>9, <1>10, RotationQuota

LEMMA RotateRemoveQuota ==
    ASSUME QuotaInv, StoreInv, StoreAssumption, NEW d \in Daemons, NEW old \in proc[d].files,
           RotateRemove(d, old)
    PROVE  QuotaInv'
  <1> DEFINE p == proc[d]
             q == [Debited(p, old) EXCEPT !.pc = "rotate", !.removed = TRUE]
  <1>1. /\ p.pc = "remove" /\ disk' = Without(disk, Final(old.name)) /\ gone' = gone \cup {old.name}
        /\ proc' = [proc EXCEPT ![d] = q] /\ UNCHANGED <<lock, reported>>
    BY DEF RotateRemove
  <1>2. DOMAIN p = Fields /\ Typed(p) /\ gone \subseteq Captures
    BY <1>1, Holder
  <1>3. /\ q.pc = "rotate" /\ q.todo = p.todo /\ q.name = p.name /\ q.written = p.written
        /\ q.repair = p.repair /\ q.err = p.err
        /\ q.files = p.files \ {old} /\ q.total = p.total - old.size
    BY <1>2 DEF Debited, Fields
  <1> HIDE DEF q
  <1>4. /\ q.files \subseteq StoredFile /\ IsFiniteSet(q.files) /\ q.total \in Nat
        /\ Cardinality(Units(q.files)) <= q.total
    <2>1. /\ p.files \ {old} \subseteq StoredFile /\ IsFiniteSet(p.files \ {old})
          /\ p.total - old.size \in Nat
          /\ Cardinality(Units(p.files \ {old})) <= p.total - old.size
      BY <1>2, DebitedTyped
    <2> QED
      BY <1>3, <2>1
  <1>5. /\ DOMAIN disk' = DOMAIN disk \ {Final(old.name)}
        /\ \A e \in DOMAIN disk \ {Final(old.name)} : disk'[e] = disk[e]
    BY <1>1, WithoutEntry DEF StoreInv
  <1>6. \A n \in Finals(disk') : \A f \in p.files : f.name = n => f \in q.files
    BY <1>3, <1>5 DEF Finals
  <1>7. \A n \in Finals(disk') : n \in Finals(disk) /\ disk'[Final(n)].size = disk[Final(n)].size
    BY <1>5 DEF Finals
  <1>8. q.err \in BOOLEAN /\ old.name \in Captures
    BY <1>2, <1>3 DEF Typed, StoredFile
  <1>9. Rotation(p, q) /\ Dropped(disk, disk', p, q)
    BY <1>3, <1>4, <1>6, <1>7, <1>8 DEF Rotation, Dropped
  <1>10. gone' \subseteq Captures /\ lock' = lock /\ reported' = reported
    BY <1>1, <1>2, <1>8
  <1>11. proc'[d] = q /\ \A x \in Daemons \ {d} : proc'[x] = proc[x]
    BY <1>1, Holder
  <1> QED
    BY <1>1, <1>9, <1>10, <1>11, RotationQuota

(* The steps of the rotation that leave the list alone.                    *)
LEMMA RotateLocalQuota ==
    ASSUME QuotaInv, StoreInv, StoreAssumption, NEW d \in Daemons,
           (\E old \in proc[d].files : RotateStat(d, old)) \/ RotateError(d) \/ RotateEnd(d)
    PROVE  QuotaInv'
  <1> DEFINE p == proc[d]
  <1>1. p.pc \in {"rotate", "remove"} /\ UNCHANGED <<disk, lock, reported, gone>>
    BY DEF RotateStat, RotateError, RotateEnd
  <1>2. DOMAIN proc = Daemons /\ DOMAIN p = Fields /\ Typed(p) /\ gone \subseteq Captures
    BY <1>1, Holder
  <1>3. PICK q : /\ proc' = [proc EXCEPT ![d] = q]
                 /\ q.pc \in {"rotate", "remove", "rotated"}
                 /\ q.todo = p.todo /\ q.name = p.name /\ q.written = p.written
                 /\ q.repair = p.repair /\ q.files = p.files /\ q.total = p.total
                 /\ q.err \in BOOLEAN /\ (q.pc = "rotated" /\ ~q.err => ~Over(p))
    <2>1. CASE \E old \in p.files : RotateStat(d, old)
      <3> DEFINE q == [p EXCEPT !.pc = "remove"]
      <3>1. proc' = [proc EXCEPT ![d] = q]
        BY <1>2, <2>1 DEF RotateStat
      <3>2. /\ q.pc = "remove" /\ q.todo = p.todo /\ q.name = p.name /\ q.written = p.written
            /\ q.repair = p.repair /\ q.files = p.files /\ q.total = p.total /\ q.err = p.err
        BY <1>2 DEF Fields
      <3>3. p.err \in BOOLEAN
        BY <1>2 DEF Typed
      <3> HIDE DEF q
      <3> QED
        BY <3>1, <3>2, <3>3
    <2>2. CASE RotateError(d)
      <3> DEFINE q == [p EXCEPT !.pc = "rotated", !.err = TRUE]
      <3>1. proc' = [proc EXCEPT ![d] = q]
        BY <1>2, <2>2 DEF RotateError
      <3>2. /\ q.pc = "rotated" /\ q.todo = p.todo /\ q.name = p.name /\ q.written = p.written
            /\ q.repair = p.repair /\ q.files = p.files /\ q.total = p.total /\ q.err = TRUE
        BY <1>2 DEF Fields
      <3> HIDE DEF q
      <3> QED
        BY <3>1, <3>2
    <2>3. CASE RotateEnd(d)
      <3>1. PICK b \in BOOLEAN : b = Over(p)
        BY Zenon DEF Over
      <3> DEFINE q == [p EXCEPT !.pc = "rotated", !.err = b]
      <3>2. proc' = [proc EXCEPT ![d] = q]
        BY <1>2, <2>3, <3>1, Zenon DEF RotateEnd
      <3>3. /\ q.pc = "rotated" /\ q.todo = p.todo /\ q.name = p.name /\ q.written = p.written
            /\ q.repair = p.repair /\ q.files = p.files /\ q.total = p.total /\ q.err = b
        BY <1>2 DEF Fields
      <3>4. ~b => ~Over(p)
        BY <3>1, Zenon
      <3> HIDE DEF q
      <3> QED
        BY <3>2, <3>3, <3>4
    <2> QED
      BY <2>1, <2>2, <2>3
  <1>4. Over(q) <=> Over(p)
    BY <1>3 DEF Over, Incoming, Added
  <1>5. /\ q.files \subseteq StoredFile /\ IsFiniteSet(q.files) /\ q.total \in Nat
        /\ Cardinality(Units(q.files)) <= q.total
    BY <1>2, <1>3 DEF Typed
  <1>6. /\ \A n \in Finals(disk') : \A f \in p.files : f.name = n => f \in q.files
        /\ \A n \in Finals(disk') : n \in Finals(disk) /\ disk'[Final(n)].size = disk[Final(n)].size
    BY <1>1, <1>3
  <1>7. q.pc = "rotated" /\ ~q.err => ~Over(q)
    BY <1>3, <1>4
  <1>8. Rotation(p, q) /\ Dropped(disk, disk', p, q)
    BY <1>3, <1>5, <1>6, <1>7 DEF Rotation, Dropped
  <1>9. gone' \subseteq Captures /\ lock' = lock /\ reported' = reported
    BY <1>1, <1>2
  <1>10. proc'[d] = q /\ \A x \in Daemons \ {d} : proc'[x] = proc[x]
    BY <1>2, <1>3
  <1> QED
    BY <1>1, <1>8, <1>9, <1>10, RotationQuota

LEMMA RotateSyncedQuota ==
    ASSUME QuotaInv, StoreInv, StoreAssumption, NEW d \in Daemons, NEW synced \in BOOLEAN,
           RotateSynced(d, synced)
    PROVE  QuotaInv'
  <1> DEFINE p == proc[d]
  <1>1. p.pc = "rotated" /\ UNCHANGED <<disk, gone>>
    BY DEF RotateSynced
  <1>2. /\ lock = d /\ DOMAIN proc = Daemons /\ DOMAIN p = Fields /\ Typed(p) /\ Accounted(disk, p)
        /\ Measured(disk, p) /\ Within(p) /\ reported \subseteq Captures /\ gone \subseteq Captures
    BY <1>1, Holder
  <1>3. \/ /\ p.repair /\ ~p.err /\ lock' = lock /\ reported' = reported
           /\ proc' = [proc EXCEPT ![d].pc = "create", ![d].repair = FALSE, ![d].removed = FALSE]
        \/ Leave(d) /\ reported' = reported
        \/ Leave(d) /\ reported' = reported \cup {p.name} /\ ~p.repair
    BY DEF RotateSynced
  <1>4. CASE /\ p.repair /\ ~p.err /\ lock' = lock /\ reported' = reported
             /\ proc' = [proc EXCEPT ![d].pc = "create", ![d].repair = FALSE, ![d].removed = FALSE]
    <2> DEFINE q == proc'[d]
    <2>1. /\ \A x \in Daemons \ {d} : proc'[x] = proc[x]
          /\ q.pc = "create" /\ q.repair = FALSE
          /\ q.todo = p.todo /\ q.files = p.files /\ q.total = p.total /\ q.written = p.written
          /\ q.err = p.err
      BY <1>2, <1>4 DEF Fields
    <2> HIDE DEF q
    <2>2. Typed(q)
      BY <1>2, <2>1 DEF Typed
    <2>3. ~Exceeded(Cardinality(q.files), q.total)
      <3>1. Cardinality(p.files) \in Nat
        BY <1>2, FS_CardinalityType DEF Typed
      <3>2. ~Over(p) /\ Incoming(p) = 0
        BY <1>1, <1>2, <1>4 DEF Within, Incoming
      <3> QED
        BY <2>1, <3>1, <3>2 DEF Over, Exceeded, StoreAssumption
    <2>4. Accounted(disk', q)
      BY <1>1, <1>2, <1>4, <2>1 DEF Accounted, Own, Known
    <2>5. Measured(disk', q) /\ Within(q)
      BY <1>1, <1>2, <1>4, <2>1, <2>3 DEF Measured, Within
    <2> QED
      BY <1>1, <1>2, <1>4, <2>1, <2>2, <2>4, <2>5, QuotaFrame DEF q
  <1>5. CASE Leave(d) /\ reported' = reported
    BY <1>1, <1>2, <1>5, QuotaLeave
  <1>6. CASE Leave(d) /\ reported' = reported \cup {p.name} /\ ~p.repair
    <2>1. p.name \in Captures
      BY <1>1, <1>2, <1>6 DEF Measured
    <2> QED
      BY <1>1, <1>2, <1>6, <2>1, QuotaLeave
  <1> QED
    BY <1>3, <1>4, <1>5, <1>6

(* A step of the publication before the link: the names keep their files,  *)
(* and q is still within the quotas.                                       *)
LEMMA StagingQuota ==
    ASSUME QuotaInv, StoreInv, StoreAssumption, NEW d \in Daemons,
           proc[d].pc \in {"create", "write"}, \A x \in Daemons \ {d} : proc'[x] = proc[x],
           lock' = lock, reported' = reported, gone' = gone,
           proc'[d].pc \in {"write", "link"}, ~proc'[d].repair, proc'[d].repair = proc[d].repair,
           proc'[d].todo = proc[d].todo, proc'[d].files = proc[d].files,
           proc'[d].total = proc[d].total, proc'[d].err = proc[d].err, proc'[d].written \in Nat,
           disk'[Partial(proc'[d].name)].size = proc'[d].written,
           \A n \in Finals(disk') : n \in Finals(disk) /\ disk'[Final(n)] = disk[Final(n)]
    PROVE  QuotaInv'
  <1> DEFINE p == proc[d]
             q == proc'[d]
  <1>1. lock = d /\ Typed(p) /\ Accounted(disk, p) /\ Within(p)
    BY Holder
  <1>2. Typed(q)
    BY <1>1 DEF Typed
  <1>3. Accounted(disk', q)
    BY <1>1 DEF Accounted, Own, Known
  <1>4. Measured(disk', q)
    BY DEF Measured
  <1>5. Within(q)
    BY <1>1 DEF Within
  <1> QED
    BY <1>1, <1>2, <1>3, <1>4, <1>5, QuotaFrame DEF QuotaInv

LEMMA CreateQuota ==
    ASSUME QuotaInv, StoreInv, StoreAssumption, NEW d \in Daemons, NEW size \in Sizes, Create(d, size)
    PROVE  QuotaInv'
  <1> DEFINE n == Existing + issued'
             f == [size |-> 0, complete |-> FALSE, synced |-> FALSE, modified |-> n]
  <1>1. proc[d].pc = "create" /\ UNCHANGED <<lock, reported, gone>>
    BY DEF Create
  <1>2. DOMAIN proc = Daemons /\ DOMAIN proc[d] = Fields /\ ~proc[d].repair /\ proc[d].written = 0
    BY <1>1, Holder DEF StoreInv, Swept, Measured
  <1>3. /\ \A x \in Daemons \ {d} : proc'[x] = proc[x]
        /\ proc'[d].pc = "write" /\ proc'[d].name = n /\ proc'[d].repair = proc[d].repair
        /\ proc'[d].todo = proc[d].todo /\ proc'[d].files = proc[d].files
        /\ proc'[d].total = proc[d].total /\ proc'[d].err = proc[d].err
        /\ proc'[d].written = proc[d].written
    BY <1>1, <1>2 DEF Create, Fields
  <1>4. disk' = With(disk, Partial(n), f)
    BY DEF Create
  <1>5. f.size = 0
    OBVIOUS
  <1> HIDE DEF n, f
  <1>6. disk'[Partial(n)] = f /\ DOMAIN disk' = DOMAIN disk \cup {Partial(n)}
        /\ \A e \in DOMAIN disk \ {Partial(n)} : disk'[e] = disk[e]
    BY <1>4 DEF With
  <1>7. \A m \in Finals(disk') : m \in Finals(disk) /\ disk'[Final(m)] = disk[Final(m)]
    BY <1>6, EntryKinds DEF Finals
  <1>8. proc'[d].written \in Nat /\ disk'[Partial(proc'[d].name)].size = proc'[d].written
    BY <1>2, <1>3, <1>5, <1>6
  <1> QED
    BY <1>1, <1>2, <1>3, <1>7, <1>8, StagingQuota

LEMMA WriteQuota ==
    ASSUME QuotaInv, StoreInv, StoreAssumption, NEW d \in Daemons, Write(d)
    PROVE  QuotaInv'
  <1> DEFINE e == Partial(proc[d].name)
  <1>1. proc[d].pc = "write" /\ UNCHANGED <<lock, reported, gone>>
    BY DEF Write
  <1>2. /\ DOMAIN proc = Daemons /\ DOMAIN proc[d] = Fields /\ ~proc[d].repair
        /\ disk[e].size = proc[d].written /\ proc[d].written \in Nat
        /\ e \in DOMAIN disk /\ disk[e] \in File
    BY <1>1, Holder DEF StoreInv, Swept, Staged, Whole, Measured, Typed
  <1>3. /\ \A x \in Daemons \ {d} : proc'[x] = proc[x]
        /\ proc'[d].pc = "write" /\ proc'[d].name = proc[d].name /\ proc'[d].repair = proc[d].repair
        /\ proc'[d].todo = proc[d].todo /\ proc'[d].files = proc[d].files
        /\ proc'[d].total = proc[d].total /\ proc'[d].err = proc[d].err
        /\ proc'[d].written = proc[d].written + 1
    BY <1>1, <1>2 DEF Write, Fields
  <1>4. PICK b \in BOOLEAN : b = (proc[d].written + 1 = proc[d].size)
    BY Zenon
  <1>5. disk' = [disk EXCEPT ![e] = [disk[e] EXCEPT !.size = @ + 1, !.complete = b]]
    BY <1>2, <1>4, Zenon DEF Write
  <1>6. disk'[e].size = disk[e].size + 1 /\ DOMAIN disk' = DOMAIN disk
        /\ \A x \in DOMAIN disk \ {e} : disk'[x] = disk[x]
    BY <1>2, <1>5 DEF File
  <1> HIDE DEF e
  <1>7. \A m \in Finals(disk') : m \in Finals(disk) /\ disk'[Final(m)] = disk[Final(m)]
    BY <1>6, EntryKinds DEF Finals, e
  <1>8. proc'[d].written \in Nat /\ disk'[Partial(proc'[d].name)].size = proc'[d].written
    BY <1>2, <1>3, <1>6 DEF e
  <1> QED
    BY <1>1, <1>2, <1>3, <1>7, <1>8, StagingQuota

LEMMA ValidateQuota ==
    ASSUME QuotaInv, StoreInv, StoreAssumption, NEW d \in Daemons, Validate(d)
    PROVE  QuotaInv'
  <1> DEFINE e == Partial(proc[d].name)
  <1>1. proc[d].pc = "write" /\ UNCHANGED <<lock, reported, gone>>
    BY DEF Validate
  <1>2. /\ DOMAIN proc = Daemons /\ DOMAIN proc[d] = Fields /\ ~proc[d].repair
        /\ disk[e].size = proc[d].written /\ proc[d].written \in Nat
        /\ e \in DOMAIN disk /\ disk[e] \in File
    BY <1>1, Holder DEF StoreInv, Swept, Staged, Whole, Measured, Typed
  <1>3. /\ \A x \in Daemons \ {d} : proc'[x] = proc[x]
        /\ proc'[d].pc = "link" /\ proc'[d].name = proc[d].name /\ proc'[d].repair = proc[d].repair
        /\ proc'[d].todo = proc[d].todo /\ proc'[d].files = proc[d].files
        /\ proc'[d].total = proc[d].total /\ proc'[d].err = proc[d].err
        /\ proc'[d].written = proc[d].written
    BY <1>1, <1>2 DEF Validate, Fields
  <1>4. disk' = [disk EXCEPT ![e] = [disk[e] EXCEPT !.synced = TRUE]]
    BY <1>2 DEF Validate
  <1>5. disk'[e].size = disk[e].size /\ DOMAIN disk' = DOMAIN disk
        /\ \A x \in DOMAIN disk \ {e} : disk'[x] = disk[x]
    BY <1>2, <1>4 DEF File
  <1> HIDE DEF e
  <1>6. \A m \in Finals(disk') : m \in Finals(disk) /\ disk'[Final(m)] = disk[Final(m)]
    BY <1>5, EntryKinds DEF Finals, e
  <1>7. proc'[d].written \in Nat /\ disk'[Partial(proc'[d].name)].size = proc'[d].written
    BY <1>2, <1>3, <1>5 DEF e
  <1> QED
    BY <1>1, <1>2, <1>3, <1>6, <1>7, StagingQuota

LEMMA LinkQuota ==
    ASSUME QuotaInv, StoreInv, StoreAssumption, NEW d \in Daemons, Link(d)
    PROVE  QuotaInv'
  <1> DEFINE p == proc[d]
             q == proc'[d]
             n == p.name
             f == disk[Partial(n)]
  <1>1. p.pc = "link" /\ UNCHANGED <<lock, reported, gone>>
    BY DEF Link
  <1>2. /\ lock = d /\ DOMAIN proc = Daemons /\ DOMAIN p = Fields /\ ~p.repair /\ f.size = p.written
        /\ Typed(p) /\ Accounted(disk, p) /\ Within(p)
    BY <1>1, Holder DEF StoreInv, Swept, Measured
  <1>3. /\ \A x \in Daemons \ {d} : proc'[x] = proc[x]
        /\ q.pc = "dirsync" /\ q.name = n /\ q.repair = p.repair /\ q.todo = p.todo
        /\ q.files = p.files /\ q.total = p.total /\ q.err = p.err /\ q.written = p.written
    BY <1>1, <1>2 DEF Link, Fields
  <1>4. disk' = With(disk, Final(n), f)
    BY DEF Link
  <1> HIDE DEF f, n, p, q
  <1>5. disk'[Final(n)] = f /\ DOMAIN disk' = DOMAIN disk \cup {Final(n)}
        /\ \A e \in DOMAIN disk \ {Final(n)} : disk'[e] = disk[e]
    BY <1>4 DEF With
  <1>6. \A m \in Finals(disk') : m = n \/ (m \in Finals(disk) /\ disk'[Final(m)] = disk[Final(m)])
    BY <1>5, EntryKinds DEF Finals
  <1>7. Typed(q)
    BY <1>2, <1>3 DEF Typed
  <1>8. Accounted(disk', q)
    <2> SUFFICES ASSUME NEW m \in Finals(disk') PROVE Own(disk', q, m) \/ Known(disk', q, m)
      BY DEF Accounted
    <2>1. CASE m = n
      <3>1. f.size \in 0..q.written
        BY <1>2, <1>3 DEF Typed
      <3> QED
        BY <1>2, <1>3, <1>5, <2>1, <3>1 DEF Own
    <2>2. CASE m # n
      <3>1. m \in Finals(disk) /\ disk'[Final(m)] = disk[Final(m)]
        BY <1>6, <2>2
      <3>2. Known(disk, p, m)
        BY <1>1, <1>2, <3>1 DEF Accounted, Own
      <3> QED
        BY <1>3, <3>1, <3>2 DEF Known
    <2> QED
      BY <2>1, <2>2
  <1>9. Measured(disk', q) /\ Within(q)
    BY <1>1, <1>2, <1>3 DEF Measured, Within
  <1> QED
    BY <1>1, <1>2, <1>3, <1>7, <1>8, <1>9, QuotaFrame DEF QuotaInv, q

LEMMA UnstagedFinals ==
    ASSUME StoreInv, NEW d \in Daemons, disk' \in Unstaged(d)
    PROVE  \A n \in Finals(disk') : n \in Finals(disk) /\ disk'[Final(n)] = disk[Final(n)]
  <1>1. CASE disk' = disk
    BY <1>1
  <1>2. CASE disk' = Without(disk, Partial(proc[d].name))
    <2> DEFINE e == Partial(proc[d].name)
    <2>1. DOMAIN disk' = DOMAIN disk \ {e} /\ \A f \in DOMAIN disk \ {e} : disk'[f] = disk[f]
      BY <1>2, WithoutEntry DEF StoreInv
    <2> QED
      BY <2>1, EntryKinds DEF Finals
  <1> QED
    BY <1>1, <1>2 DEF Unstaged

LEMMA PublishedQuota ==
    ASSUME QuotaInv, StoreInv, StoreAssumption, NEW d \in Daemons, Published(d)
    PROVE  QuotaInv'
  <1> DEFINE p == proc[d]
             q == proc'[d]
  <1>1. p.pc = "dirsync" /\ UNCHANGED <<lock, reported, gone>>
    BY DEF Published
  <1>2. /\ lock = d /\ DOMAIN proc = Daemons /\ DOMAIN p = Fields /\ ~p.repair /\ p.name \in Captures
        /\ Typed(p) /\ Accounted(disk, p)
    BY <1>1, Holder DEF StoreInv, Swept, Staged
  <1>3. /\ \A x \in Daemons \ {d} : proc'[x] = proc[x]
        /\ q.pc = "rotate" /\ q.name = p.name /\ q.repair = p.repair /\ q.todo = p.todo
        /\ q.files = p.files /\ q.total = p.total /\ q.err = p.err /\ q.written = p.written
    BY <1>1, <1>2 DEF Published, Fields
  <1>4. \A n \in Finals(disk') : n \in Finals(disk) /\ disk'[Final(n)] = disk[Final(n)]
    BY UnstagedFinals DEF Published
  <1> HIDE DEF p, q
  <1>5. Typed(q)
    BY <1>2, <1>3 DEF Typed
  <1>6. Accounted(disk', q)
    BY <1>1, <1>2, <1>3, <1>4 DEF Accounted, Own, Known
  <1>7. Measured(disk', q) /\ Within(q)
    BY <1>2, <1>3 DEF Measured, Within
  <1> QED
    BY <1>1, <1>2, <1>3, <1>5, <1>6, <1>7, QuotaFrame DEF QuotaInv, q

(* The shipper.                                                            *)
LEMMA ShipperQuota ==
    ASSUME QuotaInv, StoreInv, StoreAssumption, NEW n \in Captures, Ship(n) \/ Rewrite(n)
    PROVE  QuotaInv'
  <1>1. proc' = proc /\ lock' = lock /\ reported' = reported /\ gone' \subseteq Captures
    BY DEF Ship, Rewrite, QuotaInv
  <1>s. \A m \in Finals(disk) : disk[Final(m)].size \in Nat
    BY DEF StoreInv, Whole, File, Finals
  <1>2. /\ \A m \in Finals(disk') : m \in Finals(disk) /\ disk'[Final(m)].size \in 0..disk[Final(m)].size
        /\ \A m : Partial(m) \in DOMAIN disk => disk'[Partial(m)] = disk[Partial(m)]
    <2>1. CASE Ship(n)
      <3>1. disk' = Without(disk, Final(n))
        BY <2>1 DEF Ship
      <3>2. /\ DOMAIN disk' = DOMAIN disk \ {Final(n)}
            /\ \A e \in DOMAIN disk \ {Final(n)} : disk'[e] = disk[e]
        BY <3>1, WithoutEntry DEF StoreInv
      <3>3. \A m \in Finals(disk') : m \in Finals(disk) /\ disk'[Final(m)] = disk[Final(m)]
        BY <3>2, EntryKinds DEF Finals
      <3> QED
        BY <1>s, <3>2, <3>3, EntryKinds
    <2>2. CASE Rewrite(n)
      <3>1. PICK f \in File :
               /\ Final(n) \in DOMAIN disk /\ disk' = [disk EXCEPT ![Final(n)] = f]
               /\ f.size <= disk[Final(n)].size
        BY <2>2, RewrittenFile
      <3>3. f.size \in Nat /\ f.size <= disk[Final(n)].size
        BY <3>1 DEF File
      <3>4. /\ DOMAIN disk' = DOMAIN disk /\ disk'[Final(n)] = f
            /\ \A e \in DOMAIN disk \ {Final(n)} : disk'[e] = disk[e]
        BY <3>1
      <3>5. ASSUME NEW m \in Finals(disk')
            PROVE  m \in Finals(disk) /\ disk'[Final(m)].size \in 0..disk[Final(m)].size
        <4>1. m \in Finals(disk) /\ (m = n \/ disk'[Final(m)] = disk[Final(m)])
          BY <3>4, EntryKinds DEF Finals
        <4>2. disk[Final(m)].size \in Nat
          BY <1>s, <4>1
        <4> QED
          BY <3>3, <3>4, <4>1, <4>2
      <3> QED
        BY <3>4, <3>5, EntryKinds
    <2> QED
      BY <2>1, <2>2
  <1>3. ASSUME NEW d \in Daemons
        PROVE  Typed(proc[d]) /\ Accounted(disk', proc[d]) /\ Measured(disk', proc[d]) /\ Within(proc[d])
    <2>1. Typed(proc[d]) /\ Accounted(disk, proc[d]) /\ Measured(disk, proc[d]) /\ Within(proc[d])
      BY DEF QuotaInv
    <2>2. Accounted(disk', proc[d])
      <3> SUFFICES ASSUME proc[d].pc # "idle", NEW m \in Finals(disk')
                   PROVE  \/ proc[d].pc = "scan" /\ Final(m) \in proc[d].todo
                          \/ Own(disk', proc[d], m) \/ Known(disk', proc[d], m)
        BY DEF Accounted
      <3>1. m \in Finals(disk) /\ disk'[Final(m)].size \in 0..disk[Final(m)].size
        BY <1>2
      <3>2. CASE Own(disk, proc[d], m)
        <4>1. disk[Final(m)].size \in 0..proc[d].written /\ proc[d].written \in Nat
          BY <2>1, <3>2 DEF Own, Typed
        <4>2. disk'[Final(m)].size \in 0..proc[d].written
          BY <3>1, <4>1
        <4> QED
          BY <3>2, <4>2 DEF Own
      <3>3. CASE Known(disk, proc[d], m)
        <4>1. PICK f \in proc[d].files : f.name = m /\ disk[Final(m)].size \in 0..f.size
          BY <3>3 DEF Known
        <4>2. f.size \in Nat
          BY <2>1 DEF Typed, StoredFile
        <4>3. disk'[Final(m)].size \in 0..f.size
          BY <3>1, <4>1, <4>2
        <4> QED
          BY <4>1, <4>3 DEF Known
      <3> QED
        BY <2>1, <3>1, <3>2, <3>3 DEF Accounted
    <2>3. proc[d].pc \in {"write", "link"} => Partial(proc[d].name) \in DOMAIN disk
      BY DEF StoreInv, Staged
    <2>4. Measured(disk', proc[d])
      BY <1>2, <2>1, <2>3 DEF Measured
    <2> QED
      BY <2>1, <2>2, <2>4
  <1> QED
    BY <1>1, <1>3 DEF QuotaInv

LEMMA PowerLossQuota ==
    ASSUME QuotaInv, PowerLoss
    PROVE  QuotaInv'
  <1>1. \A d \in Daemons : proc'[d] = Idle
    BY DEF PowerLoss
  <1>2. lock' = NoDaemon /\ UNCHANGED <<reported, gone>>
    BY DEF PowerLoss
  <1>3. \A d \in Daemons : /\ Typed(proc'[d]) /\ Accounted(disk', proc'[d])
                           /\ Measured(disk', proc'[d]) /\ Within(proc'[d])
    BY <1>1, IdleTyped DEF Accounted, Measured, Within
  <1> QED
    BY <1>2, <1>3 DEF QuotaInv

LEMMA QuotaInit ==
    ASSUME StoreAssumption, Init
    PROVE  QuotaInv
  <1>1. \A d \in Daemons : proc[d] = Idle
    BY DEF Init
  <1>2. lock = NoDaemon /\ reported = {} /\ gone = {}
    BY DEF Init
  <1>3. \A d \in Daemons : /\ Typed(proc[d]) /\ Accounted(disk, proc[d])
                           /\ Measured(disk, proc[d]) /\ Within(proc[d])
    BY <1>1, IdleTyped DEF Accounted, Measured, Within
  <1> QED
    BY <1>2, <1>3 DEF QuotaInv

LEMMA QuotaStep ==
    ASSUME StoreAssumption, StoreInv, QuotaInv, [Next]_vars
    PROVE  QuotaInv'
  <1>1. CASE UNCHANGED vars
    BY <1>1 DEF vars, QuotaInv
  <1>2. ASSUME NEW d \in Daemons, Save(d) PROVE QuotaInv'
    <2>1. CASE Refuse(d)
      BY <2>1, <1>1 DEF Refuse
    <2>2. ASSUME NEW old \in proc[d].files,
                 RotateMissing(d, old) \/ RotateStat(d, old) \/ RotateRemove(d, old)
          PROVE  QuotaInv'
      BY <2>2, RotateMissingQuota, RotateLocalQuota, RotateRemoveQuota
    <2>3. CASE RotateError(d) \/ RotateEnd(d)
      BY <2>3, RotateLocalQuota
    <2>4. CASE Fail(d)
      BY <2>4, QuotaLeave DEF Fail, QuotaInv
    <2> QED
      BY <1>2, <2>1, <2>2, <2>3, <2>4, LockQuota, ScanDoneQuota, ScanEntryQuota,
         RotateSyncedQuota, CreateQuota, WriteQuota, ValidateQuota, LinkQuota, PublishedQuota DEF Save
  <1>3. ASSUME NEW d \in Daemons, Die(d) PROVE QuotaInv'
    BY <1>3, QuotaLeave DEF Die, QuotaInv
  <1> QED
    BY <1>1, <1>2, <1>3, PowerLossQuota, ShipperQuota DEF Next

(* Store.save, rotate and scan of internal/autocapture/store.go, for any   *)
(* quotas and any number of daemons, deaths and shipper actions: a         *)
(* rotation that succeeds leaves the directory within both quotas, a       *)
(* capture is staged only while the others are within them, and no partial *)
(* but the Save's own outlives a scan.                                     *)
THEOREM DirectoryBounded ==
    ASSUME StoreAssumption
    PROVE  Spec => []StorageBounded
  <1>1. StoreInv /\ QuotaInv => StorageBounded
    <2> SUFFICES ASSUME StoreInv, QuotaInv PROVE StorageBounded
      OBVIOUS
    <2>1. TypeOK
      BY DEF StoreInv, Whole, QuotaInv, Typed, TypeOK
    <2>2. ASSUME NEW d \in Daemons, proc[d].pc = "rotated", ~proc[d].err
          PROVE  ~Exceeded(Cardinality(Finals(disk)), Bytes(Finals(disk)))
      <3> DEFINE p == proc[d]
                 N == Finals(disk)
      <3>1. Typed(p) /\ Accounted(disk, p) /\ ~Over(p)
        BY <2>2 DEF QuotaInv, Within
      <3>2. /\ p.files \subseteq StoredFile /\ IsFiniteSet(p.files) /\ p.total \in Nat
            /\ Cardinality(p.files) \in Nat /\ Cardinality(Units(p.files)) \in Nat
            /\ Cardinality(Units(p.files)) <= p.total /\ p.written \in Nat
        BY <3>1, UnitsFinite, FS_CardinalityType DEF Typed
      <3>3. N \subseteq Captures
        BY DEF Finals
      <3>4. \A n \in N : Own(disk, p, n) \/ Known(disk, p, n)
        BY <2>2, <3>1 DEF Accounted
      <3>5. CASE \A n \in N : Known(disk, p, n)
        <4>1. /\ Cardinality(N) \in Nat /\ Cardinality(N) <= Cardinality(p.files)
              /\ Bytes(N) \in Nat /\ Bytes(N) <= Cardinality(Units(p.files))
          BY <3>2, <3>3, <3>5, ListedBound DEF Known
        <4> HIDE DEF p, N
        <4>2. Cardinality(p.files) <= MaxFiles /\ p.total <= MaxStorage
          BY <3>1, <3>2 DEF Over, Incoming, StoreAssumption
        <4> QED
          BY <3>2, <4>1, <4>2 DEF Exceeded, StoreAssumption, N
      <3>6. CASE \E n \in N : ~Known(disk, p, n)
        <4>1. PICK m \in N : ~Known(disk, p, m)
          BY <3>6
        <4>2. Own(disk, p, m)
          BY <3>4, <4>1
        <4>3. ~p.repair /\ m = p.name /\ disk[Final(m)].size \in 0..p.written
          BY <4>2 DEF Own
        <4>4. \A n \in N \ {m} : Known(disk, p, n)
          BY <3>4, <4>3 DEF Own
        <4>5. /\ Cardinality(N) \in Nat /\ Cardinality(N) <= Cardinality(p.files) + 1
              /\ Bytes(N) \in Nat /\ Bytes(N) <= Cardinality(Units(p.files)) + p.written
          BY <3>2, <3>3, <4>3, <4>4, ListedBoundPlus DEF Known
        <4>6. Incoming(p) = 1 /\ Added(p) = p.written
          BY <4>3 DEF Incoming, Added
        <4> HIDE DEF p, N
        <4>7. Cardinality(p.files) <= MaxFiles - 1 /\ p.written <= MaxStorage - p.total
          BY <3>1, <3>2, <4>6 DEF Over, StoreAssumption
        <4> QED
          BY <3>2, <4>5, <4>7 DEF Exceeded, StoreAssumption, N
      <3> QED
        BY <3>5, <3>6
    <2>3. ASSUME NEW d \in Daemons, Staging(d)
          PROVE  ~Exceeded(Cardinality(Finals(disk) \ {proc[d].name}), Bytes(Finals(disk) \ {proc[d].name}))
      <3> DEFINE p == proc[d]
                 N == Finals(disk) \ {p.name}
      <3>1. Typed(p) /\ Accounted(disk, p) /\ ~Exceeded(Cardinality(p.files), p.total)
        BY <2>3 DEF QuotaInv, Within, Staging
      <3>2. /\ p.files \subseteq StoredFile /\ IsFiniteSet(p.files) /\ p.total \in Nat
            /\ Cardinality(p.files) \in Nat /\ Cardinality(Units(p.files)) \in Nat
            /\ Cardinality(Units(p.files)) <= p.total
        BY <3>1, UnitsFinite, FS_CardinalityType DEF Typed
      <3>3. N \subseteq Captures
        BY DEF Finals
      <3>4. \A n \in N : Known(disk, p, n)
        BY <2>3, <3>1 DEF Accounted, Own, Staging
      <3>s. \A n \in N : \E f \in p.files : f.name = n /\ disk[Final(n)].size \in 0..f.size
        BY <3>4 DEF Known
      <3> HIDE DEF p, N
      <3>5. /\ Cardinality(N) \in Nat /\ Cardinality(N) <= Cardinality(p.files)
            /\ Bytes(N) \in Nat /\ Bytes(N) <= Cardinality(Units(p.files))
        BY <3>2, <3>3, <3>s, ListedBound
      <3>6. ~Exceeded(Cardinality(N), Bytes(N))
        BY <3>1, <3>2, <3>5 DEF Exceeded, StoreAssumption
      <3> QED
        BY <3>6 DEF N, p
    <2>4. QuotaRestored
      BY <2>2 DEF QuotaRestored
    <2>5. NoAccumulation
      BY <2>3 DEF NoAccumulation
    <2>6. OrphansCollected
      BY DEF StoreInv, Swept, OrphansCollected
    <2> QED
      BY <2>1, <2>4, <2>5, <2>6 DEF StorageBounded
  <1>2. StoreInv /\ QuotaInv /\ [Next]_vars => QuotaInv'
    BY QuotaStep
  <1>3. Init => QuotaInv
    BY QuotaInit
  <1> QED
    BY <1>1, <1>2, <1>3, StoreInvariant, PTL DEF Spec

-----------------------------------------------------------------------------
(* A non-empty set of natural numbers has a least element.                 *)
LEMMA Least ==
    ASSUME NEW T \in SUBSET Nat, T # {}
    PROVE  \E m \in T : \A n \in T : m <= n
<1> DEFINE R == {p \in Nat \X Nat : p[1] < p[2]}
<1>1. R = OpToRel(<, Nat)
  BY DEF OpToRel
<1>2. IsWellFoundedOn(R, Nat)
  BY <1>1, NatLessThanWellFounded, Zenon
<1>3. PICK m \in T : \A n \in T : ~ (<<n, m>> \in R)
  BY <1>2, WFMin, Zenon
<1>4. ASSUME NEW n \in T PROVE m <= n
  <2> SUFFICES ASSUME n < m PROVE FALSE
    OBVIOUS
  <2>1. <<n, m>> \in Nat \X Nat /\ <<n, m>>[1] < <<n, m>>[2]
    OBVIOUS
  <2> QED
    BY <1>3, <2>1
<1> QED
  BY <1>4

(* Induction over the naturals, for a property given as the set of those   *)
(* that have it.                                                           *)
LEMMA Induction ==
    ASSUME NEW T, 0 \in T, \A n \in Nat : n \in T => n + 1 \in T
    PROVE  Nat \subseteq T
<1> DEFINE bad == {n \in Nat : n \notin T}
<1> SUFFICES ASSUME bad # {} PROVE FALSE
  OBVIOUS
<1>1. PICK m \in bad : \A n \in bad : m <= n
  BY Least
<1>2. m - 1 \in Nat /\ m - 1 \in T
  BY <1>1
<1> QED
  BY <1>1, <1>2

-----------------------------------------------------------------------------
(* Sums of costs.                                                          *)

(* u holds the sums of the first terms of c.                               *)
Sums(u, c, n) == /\ u \in [0..n -> Nat] /\ u[0] = 0
                 /\ \A k \in 1..n : u[k] = u[k - 1] + c[k]

LEMMA SumsExist ==
    ASSUME NEW n \in Nat, NEW c \in [1..n -> Nat]
    PROVE  \E u : Sums(u, c, n)
<1> DEFINE T == {m \in Nat : m <= n => \E u : Sums(u, c, m)}
<1>1. 0 \in T
  <2>1. Sums([k \in 0..0 |-> 0], c, 0)
    BY DEF Sums
  <2> QED
    BY <2>1
<1>2. ASSUME NEW m \in Nat, m \in T PROVE m + 1 \in T
  <2> SUFFICES ASSUME m + 1 <= n PROVE \E u : Sums(u, c, m + 1)
    OBVIOUS
  <2>1. PICK u : Sums(u, c, m)
    BY <1>2
  <2>2. u \in [0..m -> Nat] /\ u[0] = 0 /\ (\A k \in 1..m : u[k] = u[k - 1] + c[k])
    BY <2>1 DEF Sums
  <2> DEFINE w == [k \in 0..(m + 1) |-> IF k = m + 1 THEN u[m] + c[m + 1] ELSE u[k]]
  <2>3. c[m + 1] \in Nat /\ u[m] \in Nat
    BY <2>2
  <2>4. w \in [0..(m + 1) -> Nat] /\ w[0] = 0
    BY <2>2, <2>3
  <2>5. ASSUME NEW k \in 1..(m + 1) PROVE w[k] = w[k - 1] + c[k]
    <3>1. CASE k = m + 1
      BY <3>1
    <3>2. CASE k # m + 1
      <4>1. k \in 1..m /\ k - 1 \in 0..m /\ k - 1 # m + 1
        BY <3>2
      <4> QED
        BY <2>2, <3>2, <4>1
    <3> QED
      BY <3>1, <3>2
  <2> QED
    BY <2>4, <2>5 DEF Sums
<1>3. n \in T
  <2> HIDE DEF T
  <2> QED
    BY <1>1, <1>2, Induction
<1> QED
  BY <1>3

LEMMA SumsGrow ==
    ASSUME NEW n \in Nat, NEW c, NEW u, Sums(u, c, n), c \in [1..n -> Nat],
           NEW k \in 0..n
    PROVE  u[k] <= u[n]
<1> DEFINE T == {m \in Nat : m <= n - k => u[k] <= u[k + m]}
<1>0. u \in [0..n -> Nat] /\ \A j \in 1..n : u[j] = u[j - 1] + c[j]
  BY DEF Sums
<1>1. 0 \in T
  BY <1>0
<1>2. ASSUME NEW m \in Nat, m \in T PROVE m + 1 \in T
  <2> SUFFICES ASSUME m + 1 <= n - k PROVE u[k] <= u[k + (m + 1)]
    OBVIOUS
  <2>1. k + m + 1 \in 1..n /\ k + m \in 0..n /\ (k + m + 1) - 1 = k + m
    OBVIOUS
  <2>2. u[k + m + 1] = u[k + m] + c[k + m + 1]
    BY <1>0, <2>1
  <2>3. c[k + m + 1] \in Nat /\ u[k] \in Nat /\ u[k + m] \in Nat /\ u[k] <= u[k + m]
    BY <1>0, <1>2, <2>1
  <2> QED
    BY <2>2, <2>3
<1>3. n - k \in T
  <2> n - k \in Nat
    OBVIOUS
  <2> HIDE DEF T
  <2> QED
    BY <1>1, <1>2, Induction
<1> QED
  BY <1>3

(* The padded size of a body is a natural number and not less than it.     *)
LEMMA Padded ==
    ASSUME NEW s \in Nat, NEW b \in Nat \ {0}
    PROVE  ((s + b - 1) \div b) * b \in Nat /\ ((s + b - 1) \div b) * b >= s
<1> DEFINE q == (s + b - 1) \div b
           r == (s + b - 1) % b
<1>1. q \in Int /\ r \in 0..(b - 1) /\ s + b - 1 = b * q + r
  OBVIOUS
<1> HIDE DEF q, r
<1>2. b * q = q * b /\ q * b \in Int
  BY <1>1
<1> QED
  BY <1>1, <1>2 DEF q

(* The items of a concatenation.                                           *)
Joins(u, S, s, t, m, n) ==
    /\ u \in Seq(S) /\ Len(u) = m + n
    /\ \A k \in 1..m : u[k] = s[k]
    /\ \A k \in 1..n : u[m + k] = t[k]

LEMMA Joined ==
    ASSUME NEW S, NEW s \in Seq(S), NEW t \in Seq(S), NEW m \in Nat, NEW n \in Nat,
           Len(s) = m, Len(t) = n
    PROVE  Joins(s \o t, S, s, t, m, n)
BY DEF Joins

-----------------------------------------------------------------------------
(* What a transfer keeps.                                                  *)

N == Len(segments)
Items == {Manifest, Host, Complete(N), End, Trailer} \cup {Segment(i) : i \in 0..(N - 1)}

(* The stream, item by item.                                               *)
Expected(k) ==
    IF k = 1 THEN Manifest ELSE IF k = 2 THEN Host
    ELSE IF k <= N + 2 THEN Segment(k - 3) ELSE IF k = N + 3 THEN Complete(N)
    ELSE IF k = N + 4 THEN End ELSE Trailer

Limit(l) == l.decoded \in Nat /\ l.entries \in Nat /\ l.wire \in Nat

Names == {"manifest", "host", "segment", "complete", "end", "trailer"}
Writers == [pc : {"entries", "close", "broken", "done"}, i : Nat \ {0}, total : Int, err : BOOLEAN]
Clients == [pc : {"copy", "validate", "sync", "link", "sync_dir", "saved", "analyze", "failed"},
            why : {"none", "transport", "cancelled", "deadline", "validate", "sync", "exists",
                   "sync_dir"}, n : Nat]
Readers == [pos : Nat \ {0}, decoded : Nat, total : Nat, seen : SUBSET (Names \X Int),
            segs : Seq(Nat), completed : BOOLEAN, expected : Int,
            result : {"reading", "accepted", "rejected"}]

InputsOK ==
    /\ segments \in Seq(SegmentSizes)
    /\ Limit(limits.server) /\ Limit(limits.client)

(* Whatever happens to the connection or to the file, both hold items of   *)
(* the stream.                                                             *)
ItemsOK == sent \in Seq(Items) /\ content \in Seq(Items) /\ writer \in Writers

ClientOK ==
    /\ client \in Clients
    /\ client.n \in 0..Len(sent) /\ client.n <= limits.client.wire + 1
    /\ client.pc = "copy" => reader = Unread /\ client.why = "none"
    /\ client.pc \in {"sync", "link", "sync_dir", "saved"} => reader.result = "accepted"
    /\ destination \in {"absent", "other", "capture"}
    /\ destination = "capture" =>
          \/ client.pc = "analyze"
          \/ reader.result = "accepted"

(* The reader has consumed the entries of the stream up to its position.   *)
ReaderOK ==
    /\ reader \in Readers
    /\ reader.pos <= Len(content) + 1 /\ reader.total <= reader.decoded
    /\ reader.seen = {<<content[k].name, content[k].index>> : k \in 1..(reader.pos - 1)}
    /\ IsFiniteSet(reader.seen) /\ Cardinality(reader.seen) = reader.pos - 1
    /\ Len(reader.segs) <= N /\ \A i \in 1..Len(reader.segs) : reader.segs[i] = segments[i]
    /\ \A k \in 1..(reader.pos - 1) : k <= Len(reader.segs) + 2 => content[k] = Expected(k)
    /\ IF reader.completed
       THEN /\ reader.pos = Len(reader.segs) + 4
            /\ content[reader.pos - 1] = Complete(N) /\ reader.expected = N
       ELSE \/ reader.pos <= 2 /\ Len(reader.segs) = 0
            \/ reader.pos = Len(reader.segs) + 3
    /\ reader.result = "accepted" => content = Stream /\ reader.segs = segments /\ window

TransferInv == InputsOK /\ ItemsOK /\ ClientOK /\ ReaderOK

(* What the first k entries of the stream occupy.                          *)
Costs == [k \in 1..(N + 3) |-> Cost(Expected(k))]
Used == CHOOSE u : Sums(u, Costs, N + 3)

(* The causes for which a capture that Write has begun may be rejected.    *)
Excused ==
    \/ writer.err \/ conn = "lost" \/ ~window
    \/ limits.client.decoded < limits.server.decoded
    \/ limits.client.entries < limits.server.entries

(* A writer without an error has sent the items in order, and within its   *)
(* limits.                                                                 *)
WriterOK ==
    /\ writer.i \in 1..(N + 4)
    /\ writer.i > 1 => N <= limits.server.entries - 3 /\ writer.total <= limits.server.decoded
    /\ writer.total = 2 * Block + Used[writer.i - 1]
    /\ writer.pc \in {"close", "broken"} => writer.err
    /\ writer.pc = "entries" => ~writer.err
    /\ conn \in {"open", "closed", "lost"}
    /\ conn = "closed" => writer.pc = "done"
    /\ conn # "lost" /\ ~writer.err =>
          /\ Len(sent) = IF writer.pc = "entries" THEN writer.i - 1 ELSE N + 5
          /\ writer.pc = "done" => writer.i = N + 4
          /\ \A k \in 1..Len(sent) : sent[k] = Expected(k)

(* The command validates what the connection took, and the reader accepts  *)
(* a complete stream so far.                                               *)
CopyOK ==
    /\ client.pc \in {"copy", "validate"} =>
          /\ Len(content) = client.n
          /\ \A k \in 1..client.n : content[k] = sent[k]
    /\ client.pc = "validate" =>
          /\ conn \in {"closed", "lost"}
          /\ conn = "closed" => client.n = Len(sent)
          /\ \/ Excused
             \/ reader.result # "rejected" /\ reader.decoded = Used[reader.pos - 1]
    /\ client.why = "validate" => Excused

(* The reader decodes at most a byte past its limit.                       *)
DecodedOK == reader.decoded <= limits.client.decoded + 1

LimitsInv == TransferInv /\ WriterOK /\ CopyOK /\ DecodedOK

-----------------------------------------------------------------------------
(* The items of the stream.                                                *)

LEMMA ItemFacts ==
    ASSUME TransferAssumption, InputsOK
    PROVE  /\ N \in Nat
           /\ \A e \in Items : e.name \in Names /\ e.index \in Nat /\ e.size \in Nat
           /\ \A k \in 1..(N + 5) : Expected(k) \in Items
           /\ \A i \in 0..(N - 1) : Segment(i).size = segments[i + 1] /\ segments[i + 1] \in Nat
<1>1. N \in Nat /\ \A i \in 0..(N - 1) : segments[i + 1] \in Nat
  <2>1. segments \in Seq(SegmentSizes) /\ SegmentSizes \subseteq Nat
    BY DEF InputsOK, TransferAssumption
  <2>2. N \in Nat /\ \A k \in 1..N : segments[k] \in SegmentSizes
    BY <2>1, LenProperties, ElementOfSeq DEF N
  <2>3. ASSUME NEW i \in 0..(N - 1) PROVE segments[i + 1] \in Nat
    <3>1. i + 1 \in 1..N
      BY <2>2
    <3> QED
      BY <2>1, <2>2, <3>1
  <2> QED
    BY <2>2, <2>3
<1>2. \A e \in Items : e.name \in Names /\ e.index \in Nat /\ e.size \in Nat
  BY <1>1 DEF Items, Names, Manifest, Host, Complete, End, Trailer, Segment, Entry
<1>3. \A k \in 1..(N + 5) : Expected(k) \in Items
  <2> SUFFICES ASSUME NEW k \in 1..(N + 5) PROVE Expected(k) \in Items
    OBVIOUS
  <2>1. CASE k = 1 \/ k = 2
    BY <2>1 DEF Expected, Items
  <2>2. CASE k > 2 /\ k <= N + 2
    <3>1. k - 3 \in 0..(N - 1) /\ Expected(k) = Segment(k - 3)
      BY <1>1, <2>2 DEF Expected
    <3> QED
      BY <3>1 DEF Items
  <2>3. CASE k > N + 2 /\ k > 2
    BY <1>1, <2>3 DEF Expected, Items
  <2> QED
    BY <1>1, <2>1, <2>2, <2>3
<1>4. \A i \in 0..(N - 1) : Segment(i).size = segments[i + 1]
  BY DEF Segment, Entry
<1> QED
  BY <1>1, <1>2, <1>3, <1>4

(* An item is known by its name, and a segment by its index.               *)
LEMMA ItemByName ==
    ASSUME TransferAssumption, InputsOK, NEW e \in Items
    PROVE  /\ e.name = "manifest" => e = Manifest
           /\ e.name = "host" => e = Host
           /\ e.name = "segment" => e.index \in 0..(N - 1) /\ e = Segment(e.index)
           /\ e.name = "complete" => e = Complete(N)
           /\ e.name = "end" => e = End
           /\ e.name = "trailer" => e = Trailer
BY DEF Items, Manifest, Host, Complete, End, Trailer, Segment, Entry

LEMMA StreamFacts ==
    ASSUME TransferAssumption, InputsOK
    PROVE  /\ TarEntries \in Seq(Items) /\ Len(TarEntries) = N + 3
           /\ \A k \in 1..(N + 3) : TarEntries[k] = Expected(k)
           /\ Stream \in Seq(Items) /\ Len(Stream) = N + 5
           /\ \A k \in 1..(N + 5) : Stream[k] = Expected(k)
<1> DEFINE body == [i \in 1..Len(segments) |-> Segment(i - 1)]
           front == <<Manifest, Host>>
<1>1. N \in Nat /\ Len(segments) = N
  BY ItemFacts DEF N
<1>0. 1 \in Nat /\ 2 \in Nat /\ 2 + N \in Nat /\ N + 3 \in Nat /\ (2 + N) + 1 = N + 3
  BY <1>1
<1>2. body \in Seq(Items) /\ Len(body) = N /\ \A i \in 1..N : body[i] = Segment(i - 1)
  <2>1. \A i \in 1..N : Segment(i - 1) \in Items
    <3> SUFFICES ASSUME NEW i \in 1..N PROVE Segment(i - 1) \in Items
      OBVIOUS
    <3>1. i - 1 \in 0..(N - 1)
      BY <1>1
    <3> QED
      BY <3>1 DEF Items
  <2> QED
    BY <1>1, <2>1
<1>3. front \in Seq(Items) /\ Len(front) = 2 /\ front[1] = Manifest /\ front[2] = Host
  BY DEF Items
<1> DEFINE last == <<Complete(Len(segments))>>
           tail == <<End, Trailer>>
<1>4. last \in Seq(Items) /\ Len(last) = 1 /\ last[1] = Complete(N)
  BY <1>1 DEF Items
<1>5. tail \in Seq(Items) /\ Len(tail) = 2 /\ tail[1] = End /\ tail[2] = Trailer
  BY DEF Items
<1>6. TarEntries = (front \o body) \o last /\ Stream = TarEntries \o tail
  BY DEF TarEntries, Stream
<1> HIDE DEF front, body, last, tail
<1>7. /\ front \o body \in Seq(Items) /\ Len(front \o body) = 2 + N
      /\ \A k \in 1..2 : (front \o body)[k] = front[k]
      /\ \A k \in 1..N : (front \o body)[2 + k] = body[k]
  <2>1. Joins(front \o body, Items, front, body, 2, N)
    BY <1>0, <1>1, <1>2, <1>3, Joined, Zenon
  <2> QED
    BY <2>1 DEF Joins
<1>8. /\ TarEntries \in Seq(Items) /\ Len(TarEntries) = (2 + N) + 1
      /\ \A k \in 1..(2 + N) : TarEntries[k] = (front \o body)[k]
      /\ \A k \in 1..1 : TarEntries[(2 + N) + k] = last[k]
  <2>1. Joins(TarEntries, Items, front \o body, last, 2 + N, 1)
    BY <1>0, <1>1, <1>4, <1>6, <1>7, Joined, Zenon
  <2> QED
    BY <2>1 DEF Joins
<1>9. ASSUME NEW k \in 1..(N + 3) PROVE TarEntries[k] = Expected(k)
  <2>1. CASE k <= 2
    BY <1>1, <1>3, <1>7, <1>8, <2>1 DEF Expected
  <2>2. CASE k > 2 /\ k <= N + 2
    <3>1. k - 2 \in 1..N /\ 2 + (k - 2) = k /\ k \in 1..(2 + N) /\ (k - 2) - 1 = k - 3
      BY <1>1, <2>2
    <3>2. TarEntries[k] = (front \o body)[2 + (k - 2)]
      BY <1>8, <3>1
    <3>3. (front \o body)[2 + (k - 2)] = body[k - 2]
      BY <1>7, <3>1
    <3>4. body[k - 2] = Segment(k - 3)
      BY <1>2, <3>1
    <3> QED
      BY <2>2, <3>2, <3>3, <3>4 DEF Expected
  <2>3. CASE k = N + 3
    BY <1>1, <1>4, <1>8, <2>3 DEF Expected
  <2> QED
    BY <1>1, <2>1, <2>2, <2>3
<1>10. /\ Stream \in Seq(Items) /\ Len(Stream) = (N + 3) + 2
       /\ \A k \in 1..(N + 3) : Stream[k] = TarEntries[k]
       /\ \A k \in 1..2 : Stream[(N + 3) + k] = tail[k]
  <2>1. Joins(Stream, Items, TarEntries, tail, N + 3, 2)
    BY <1>0, <1>1, <1>5, <1>6, <1>8, Joined, Zenon
  <2> QED
    BY <2>1 DEF Joins
<1>11. ASSUME NEW k \in 1..(N + 5) PROVE Stream[k] = Expected(k)
  <2>1. CASE k <= N + 3
    BY <1>1, <1>9, <1>10, <2>1
  <2>2. CASE k = N + 4
    BY <1>1, <1>5, <1>10, <2>2 DEF Expected
  <2>3. CASE k = N + 5
    BY <1>1, <1>5, <1>10, <2>3 DEF Expected
  <2> QED
    BY <1>1, <2>1, <2>2, <2>3
<1> QED
  BY <1>1, <1>8, <1>9, <1>10, <1>11

(* An entry occupies at least its body, and both sides agree on how much.  *)
LEMMA CostFacts ==
    ASSUME TransferAssumption, InputsOK, NEW e \in Items
    PROVE  Cost(e) \in Nat /\ Occupied(e) = Cost(e) /\ e.size <= Occupied(e) /\ Occupied(e) \in Nat
<1>1. e.size \in Nat /\ Block \in Nat \ {0}
  BY ItemFacts DEF TransferAssumption
<1> DEFINE pad == ((e.size + Block - 1) \div Block) * Block
<1>2. pad \in Nat /\ pad >= e.size
  BY <1>1, Padded
<1>3. Cost(e) = Block + pad /\ Occupied(e) = Block + pad
  BY DEF Cost, Occupied
<1> HIDE DEF pad
<1> QED
  BY <1>1, <1>2, <1>3

LEMMA UsedFacts ==
    ASSUME TransferAssumption, InputsOK
    PROVE  /\ Used \in [0..(N + 3) -> Nat] /\ Used[0] = 0
           /\ \A k \in 1..(N + 3) : Used[k] = Used[k - 1] + Cost(Expected(k))
           /\ \A k \in 0..(N + 3) : Used[k] <= Used[N + 3]
<1>1. N + 3 \in Nat
  BY ItemFacts
<1>2. Costs \in [1..(N + 3) -> Nat]
  <2>1. \A k \in 1..(N + 3) : Cost(Expected(k)) \in Nat
    BY ItemFacts, CostFacts
  <2> QED
    BY <2>1 DEF Costs
<1>3. Sums(Used, Costs, N + 3)
  BY <1>1, <1>2, SumsExist DEF Used
<1>4. \A k \in 0..(N + 3) : Used[k] <= Used[N + 3]
  BY <1>1, <1>2, <1>3, SumsGrow
<1>5. \A k \in 1..(N + 3) : Costs[k] = Cost(Expected(k))
  BY DEF Costs
<1> QED
  BY <1>3, <1>4, <1>5 DEF Sums

-----------------------------------------------------------------------------
(* Steps.                                                                  *)

LEMMA Same ==
    ASSUME UNCHANGED segments
    PROVE  /\ N' = N /\ Items' = Items /\ Stream' = Stream
           /\ \A k : Expected(k)' = Expected(k)
           /\ Used' = Used
<1>1. N' = N /\ \A i : Segment(i)' = Segment(i)
  BY DEF N, Segment
<1>2. Items' = Items
  BY <1>1 DEF Items
<1>3. Stream' = Stream
  <2>1. [i \in 1..Len(segments) |-> Segment(i - 1)]' = [i \in 1..Len(segments) |-> Segment(i - 1)]
    BY <1>1
  <2> QED
    BY <2>1 DEF Stream, TarEntries
<1>4. \A k : Expected(k)' = Expected(k)
  BY <1>1 DEF Expected
<1>5. Used' = Used
  <2>1. Costs' = Costs
    BY <1>1, <1>4 DEF Costs
  <2> QED
    BY <1>1, <2>1 DEF Used
<1> QED
  BY <1>1, <1>2, <1>3, <1>4, <1>5

LEMMA Cut ==
    ASSUME NEW S, NEW s \in Seq(S), NEW i \in Nat \ {0}, NEW j \in Nat, j <= Len(s)
    PROVE  SubSeq(s, i, j) \in Seq(S)
<1>1. \A k \in i..j : s[k] \in S
  OBVIOUS
<1> QED
  BY <1>1, SubSeqProperties

LEMMA Repacking ==
    ASSUME NEW S, NEW s \in Seq(S), NEW n, n = Len(s) - 2
    PROVE  /\ \A k \in 1..n : RemoveAt(s, k) \in Seq(S)
           /\ \A k \in 1..(n + 1), j \in 1..n : InsertAt(s, k, s[j]) \in Seq(S)
           /\ \A k, j \in 1..n : [s EXCEPT ![k] = s[j], ![j] = s[k]] \in Seq(S)
<1>1. ASSUME NEW k \in 1..n PROVE RemoveAt(s, k) \in Seq(S)
  <2>1. SubSeq(s, 1, k - 1) \in Seq(S)
    BY Cut
  <2>2. SubSeq(s, k + 1, Len(s)) \in Seq(S)
    BY Cut
  <2> QED
    BY <2>1, <2>2 DEF RemoveAt
<1>2. ASSUME NEW k \in 1..(n + 1), NEW j \in 1..n PROVE InsertAt(s, k, s[j]) \in Seq(S)
  <2>1. SubSeq(s, 1, k - 1) \in Seq(S)
    BY Cut
  <2>2. SubSeq(s, k, Len(s)) \in Seq(S)
    BY Cut
  <2>3. <<s[j]>> \in Seq(S)
    OBVIOUS
  <2> QED
    BY <2>1, <2>2, <2>3 DEF InsertAt
<1>3. ASSUME NEW k \in 1..n, NEW j \in 1..n PROVE [s EXCEPT ![k] = s[j], ![j] = s[k]] \in Seq(S)
  <2>1. s[k] \in S /\ s[j] \in S
    OBVIOUS
  <2>2. [s EXCEPT ![k] = s[j]] \in Seq(S) /\ Len([s EXCEPT ![k] = s[j]]) = Len(s)
    BY <2>1, ExceptSeq
  <2> QED
    BY <2>1, <2>2, ExceptSeq
<1> QED
  BY <1>1, <1>2, <1>3

(* The types of the inputs, and that no step changes them.                 *)
LEMMA InputsKept ==
    ASSUME InputsOK, [TransferNext]_transferVars
    PROVE  InputsOK' /\ UNCHANGED <<segments, window, limits>>
<1> USE DEF InputsOK, Limit
<1>1. CASE UNCHANGED transferVars
  BY <1>1 DEF transferVars
<1>2. CASE WriteCapture
  BY <1>2 DEF WriteCapture, WriteRefused, WriteEntry, WriteClose, WriteBroken
<1>3. CASE DaemonStops \/ Cancel \/ Analyze \/ Ended
  BY <1>3 DEF DaemonStops, Cancel, Analyze, Ended, transferVars
<1>4. CASE Publish
  BY <1>4 DEF Publish, Copy, CopyDone, Aborted, Validated, Sync, LinkFile, SyncDirectory
<1>5. CASE Read
  BY <1>5 DEF Read, ReadEntry, ReadEnd
<1> QED
  BY <1>1, <1>2, <1>3, <1>4, <1>5 DEF TransferNext

LEMMA WriterTyped ==
    ASSUME TransferAssumption, TransferInv, [TransferNext]_transferVars
    PROVE  writer' \in Writers
<1>0. InputsOK /\ writer \in Writers
  BY DEF TransferInv, ItemsOK
<1>1. CASE UNCHANGED writer
  BY <1>0, <1>1
<1>2. CASE WriteEntry
  <2>1. writer.i \in 1..(N + 3) /\ TarEntries[writer.i] \in Items
    BY <1>0, <1>2, StreamFacts, ElementOfSeq, ItemFacts DEF WriteEntry, Writers
  <2>2. Cost(TarEntries[writer.i]) \in Nat
    BY <1>0, <2>1, CostFacts
  <2> DEFINE cost == Cost(TarEntries[writer.i])
  <2>3. \/ writer' = [writer EXCEPT !.pc = "close", !.err = TRUE]
        \/ writer' = [writer EXCEPT !.i = writer.i + 1, !.total = writer.total + cost]
        \/ writer' = [writer EXCEPT !.pc = "broken", !.err = TRUE]
    BY <1>2 DEF WriteEntry
  <2>4. cost \in Nat
    BY <2>2
  <2> HIDE DEF cost
  <2>5. CASE writer' = [writer EXCEPT !.pc = "close", !.err = TRUE]
    BY <1>0, <2>5 DEF Writers
  <2>6. CASE writer' = [writer EXCEPT !.i = writer.i + 1, !.total = writer.total + cost]
    <3>1. writer.i + 1 \in Nat \ {0} /\ writer.total + cost \in Int
      BY <1>0, <2>4 DEF Writers
    <3> QED
      BY <1>0, <2>6, <3>1 DEF Writers
  <2>7. CASE writer' = [writer EXCEPT !.pc = "broken", !.err = TRUE]
    BY <1>0, <2>7 DEF Writers
  <2> QED
    BY <2>3, <2>5, <2>6, <2>7
<1>3. CASE WriteClose
  BY <1>0, <1>3 DEF WriteClose, Writers
<1>4. CASE WriteRefused \/ WriteBroken
  BY <1>0, <1>4 DEF WriteRefused, WriteBroken, Writers
<1>5. CASE DaemonStops \/ Cancel \/ Read \/ Analyze \/ Ended
  BY <1>1, <1>5 DEF DaemonStops, Cancel, Read, ReadEntry, ReadEnd, Analyze, Ended, transferVars
<1>6. CASE Publish
  BY <1>1, <1>6 DEF Publish, Copy, CopyDone, Aborted, Validated, Sync, LinkFile, SyncDirectory
<1>7. CASE UNCHANGED transferVars
  BY <1>1, <1>7 DEF transferVars
<1> QED
  BY <1>2, <1>3, <1>4, <1>5, <1>6, <1>7 DEF TransferNext, WriteCapture

LEMMA SentTyped ==
    ASSUME TransferAssumption, TransferInv, [TransferNext]_transferVars
    PROVE  sent' \in Seq(Items)
<1>0. InputsOK /\ sent \in Seq(Items) /\ writer \in Writers /\ client \in Clients
  BY DEF TransferInv, ItemsOK, ClientOK
<1>1. CASE UNCHANGED sent
  BY <1>0, <1>1
<1>2. CASE WriteEntry
  <2>1. writer.i \in 1..Len(TarEntries)
    BY <1>0, <1>2, StreamFacts, ItemFacts DEF WriteEntry, Writers
  <2>2. TarEntries[writer.i] \in Items
    BY <1>0, <2>1, StreamFacts, ElementOfSeq
  <2>3. sent' = sent \/ sent' = Append(sent, TarEntries[writer.i])
    BY <1>2 DEF WriteEntry
  <2> QED
    BY <1>0, <2>2, <2>3
<1>3. CASE WriteClose
  <2>1. PICK k \in 0..2 : sent' = sent \o SubSeq(<<End, Trailer>>, 1, k)
    BY <1>3 DEF WriteClose
  <2>2. <<End, Trailer>> \in Seq(Items) /\ Len(<<End, Trailer>>) = 2
    BY DEF Items
  <2>3. SubSeq(<<End, Trailer>>, 1, k) \in Seq(Items)
    BY <2>2, Cut
  <2> QED
    BY <1>0, <2>1, <2>3, ConcatProperties, Zenon
<1>4. CASE DaemonStops
  <2>1. PICK k \in client.n..Len(sent) : sent' = SubSeq(sent, 1, k)
    BY <1>4 DEF DaemonStops
  <2>2. k \in Nat /\ k <= Len(sent)
    BY <1>0 DEF Clients
  <2> QED
    BY <1>0, <2>1, <2>2, Cut
<1>5. CASE WriteRefused \/ WriteBroken \/ Cancel \/ Read \/ Analyze \/ Ended
  BY <1>1, <1>5 DEF WriteRefused, WriteBroken, Cancel, Read, ReadEntry, ReadEnd, Analyze, Ended, transferVars
<1>6. CASE Publish
  BY <1>1, <1>6 DEF Publish, Copy, CopyDone, Aborted, Validated, Sync, LinkFile, SyncDirectory
<1>7. CASE UNCHANGED transferVars
  BY <1>1, <1>7 DEF transferVars
<1> QED
  BY <1>2, <1>3, <1>4, <1>5, <1>6, <1>7 DEF TransferNext, WriteCapture

LEMMA ContentTyped ==
    ASSUME TransferAssumption, TransferInv, [TransferNext]_transferVars
    PROVE  content' \in Seq(Items)
<1>0. /\ InputsOK /\ sent \in Seq(Items) /\ content \in Seq(Items)
      /\ client \in Clients
  BY DEF TransferInv, ItemsOK, ClientOK
<1>1. CASE UNCHANGED content
  BY <1>0, <1>1
<1>2. CASE Copy
  <2>1. client.n + 1 \in 1..Len(sent)
    BY <1>0, <1>2 DEF Copy, Clients
  <2>2. sent[client.n + 1] \in Items
    BY <1>0, <2>1, ElementOfSeq
  <2> QED
    BY <1>0, <1>2, <2>2 DEF Copy
<1>3. CASE Analyze
  <2>1. PICK n : n = Len(content) - 2
    OBVIOUS
  <2>2. /\ \A k \in 1..n : RemoveAt(content, k) \in Seq(Items)
        /\ \A k \in 1..(n + 1), j \in 1..n : InsertAt(content, k, content[j]) \in Seq(Items)
        /\ \A k, j \in 1..n : [content EXCEPT ![k] = content[j], ![j] = content[k]] \in Seq(Items)
    BY <1>0, <2>1, Repacking
  <2>3. \/ content' = content
        \/ \E k \in 1..n : content' = RemoveAt(content, k)
        \/ \E k \in 1..(n + 1), j \in 1..n : content' = InsertAt(content, k, content[j])
        \/ \E k, j \in 1..n : content' = [content EXCEPT ![k] = content[j], ![j] = content[k]]
    BY <1>3, <2>1 DEF Analyze, Repacked
  <2>4. CASE \E k \in 1..(n + 1), j \in 1..n : content' = InsertAt(content, k, content[j])
    <3>1. PICK k \in 1..(n + 1), j \in 1..n : content' = InsertAt(content, k, content[j])
      BY <2>4
    <3> QED
      BY <2>2, <3>1
  <2>5. CASE \E k, j \in 1..n : content' = [content EXCEPT ![k] = content[j], ![j] = content[k]]
    <3>1. PICK k \in 1..n, j \in 1..n :
              content' = [content EXCEPT ![k] = content[j], ![j] = content[k]]
      BY <2>5
    <3> QED
      BY <2>2, <3>1
  <2> QED
    BY <1>0, <2>2, <2>3, <2>4, <2>5
<1>4. CASE WriteCapture
  BY <1>1, <1>4 DEF WriteCapture, WriteRefused, WriteEntry, WriteClose, WriteBroken
<1>5. CASE DaemonStops \/ Cancel \/ Read \/ Ended
  BY <1>1, <1>5 DEF DaemonStops, Cancel, Read, ReadEntry, ReadEnd, Ended, transferVars
<1>6. CASE CopyDone \/ Aborted \/ Validated \/ Sync \/ LinkFile \/ SyncDirectory
  BY <1>1, <1>6 DEF CopyDone, Aborted, Validated, Sync, LinkFile, SyncDirectory
<1>7. CASE UNCHANGED transferVars
  BY <1>1, <1>7 DEF transferVars
<1> QED
  BY <1>2, <1>3, <1>4, <1>5, <1>6, <1>7 DEF TransferNext, Publish

LEMMA ItemsKept ==
    ASSUME TransferAssumption, TransferInv, [TransferNext]_transferVars
    PROVE  ItemsOK'
<1>1. Items' = Items
  BY InputsKept, Same DEF TransferInv
<1> QED
  BY <1>1, WriterTyped, SentTyped, ContentTyped DEF ItemsOK

-----------------------------------------------------------------------------
(* The reader.                                                             *)

\* The reader that Unread is, before anything of the file is consumed.
LEMMA UnreadFacts ==
    ASSUME NEW c
    PROVE  /\ Unread \in Readers /\ Unread.pos = 1 /\ Unread.decoded = 0 /\ Unread.total = 0
           /\ Unread.segs = <<>> /\ ~Unread.completed /\ Unread.result = "reading"
           /\ Unread.seen = {} /\ IsFiniteSet(Unread.seen) /\ Cardinality(Unread.seen) = 0
           /\ {<<c[k].name, c[k].index>> : k \in 1..0} = {}
BY FS_EmptySet DEF Unread, Readers

\* Nothing has been read of any file.
LEMMA ReaderStart ==
    ASSUME TransferAssumption, InputsOK', reader' = Unread, content' \in Seq(Items')
    PROVE  ReaderOK'
<1> DEFINE c == content'
<1>1. /\ Unread \in Readers /\ Unread.pos = 1 /\ Unread.decoded = 0 /\ Unread.total = 0
      /\ Unread.segs = <<>> /\ ~Unread.completed /\ Unread.result = "reading"
      /\ Unread.seen = {} /\ IsFiniteSet(Unread.seen) /\ Cardinality(Unread.seen) = 0
      /\ {<<c[k].name, c[k].index>> : k \in 1..0} = {}
  BY UnreadFacts
<1>2. N' \in Nat
  BY LenProperties DEF InputsOK, N
<1>3. Len(content') \in Nat
  BY LenProperties
<1> QED
  BY <1>1, <1>2, <1>3 DEF ReaderOK

\* The step over an entry in its place.
LEMMA EntryRead ==
    ASSUME TransferAssumption, TransferInv, UNCHANGED <<segments, window, content>>,
           Reading, ~AtEnd, reader.pos <= Len(content),
           InOrder(content[reader.pos]), Fits(content[reader.pos]),
           reader' = [reader EXCEPT
                     !.pos = @ + 1, !.decoded = @ + Occupied(content[reader.pos]),
                     !.total = @ + content[reader.pos].size,
                     !.seen = @ \cup {<<content[reader.pos].name, content[reader.pos].index>>},
                     !.segs = IF content[reader.pos].name = "segment"
                              THEN Append(@, content[reader.pos].size) ELSE @,
                     !.completed = content[reader.pos].name = "complete",
                     !.expected = IF content[reader.pos].name = "complete"
                                  THEN content[reader.pos].index ELSE @]
    PROVE  ReaderOK'
<1> DEFINE e == content[reader.pos]
           pos == reader.pos
           segs == reader.segs
<1>1. /\ InputsOK /\ content \in Seq(Items) /\ reader \in Readers
      /\ pos \in 1..Len(content) /\ Len(content) \in Nat /\ pos \in Nat \ {0}
  BY LenProperties DEF TransferInv, ItemsOK, ReaderOK, Readers
<1>2. e \in Items
  BY <1>1, ElementOfSeq
<1>3. /\ N \in Nat /\ e.name \in Names /\ e.index \in Nat /\ e.size \in Nat
      /\ Occupied(e) \in Nat /\ e.size <= Occupied(e)
  BY <1>1, <1>2, ItemFacts, CostFacts
<1>4. /\ reader.pos <= Len(content) + 1 /\ reader.total <= reader.decoded
      /\ reader.seen = {<<content[k].name, content[k].index>> : k \in 1..(pos - 1)}
      /\ IsFiniteSet(reader.seen) /\ Cardinality(reader.seen) = pos - 1
      /\ Len(segs) <= N /\ \A i \in 1..Len(segs) : segs[i] = segments[i]
      /\ \A k \in 1..(pos - 1) : k <= Len(segs) + 2 => content[k] = Expected(k)
      /\ ~reader.completed
      /\ (pos <= 2 /\ Len(segs) = 0) \/ pos = Len(segs) + 3
      /\ segs \in Seq(Nat) /\ Len(segs) \in Nat
      /\ reader.total \in Nat /\ reader.decoded \in Nat
  <2>1. reader.segs \in Seq(Nat) /\ reader.total \in Nat /\ reader.decoded \in Nat
    BY <1>1 DEF Readers
  <2>2. ~reader.completed
    BY DEF InOrder
  <2> QED
    BY <2>1, <2>2, LenProperties DEF TransferInv, ReaderOK
<1>5. /\ reader'.pos = pos + 1 /\ reader'.decoded = reader.decoded + Occupied(e)
      /\ reader'.total = reader.total + e.size
      /\ reader'.seen = reader.seen \cup {<<e.name, e.index>>}
      /\ reader'.segs = IF e.name = "segment" THEN Append(segs, e.size) ELSE segs
      /\ reader'.completed = (e.name = "complete")
      /\ reader'.expected = IF e.name = "complete" THEN e.index ELSE reader.expected
      /\ reader'.result = "reading"
      /\ reader' \in Readers
  <2>1. reader.result = "reading"
    BY DEF Reading
  <2> DEFINE newSegs == IF e.name = "segment" THEN Append(segs, e.size) ELSE segs
             newSeen == reader.seen \cup {<<e.name, e.index>>}
             newExpected == IF e.name = "complete" THEN e.index ELSE reader.expected
             newDone == e.name = "complete"
             cost == Occupied(e)
             size == e.size
  <2>2. newSegs \in Seq(Nat) /\ newSeen \in SUBSET (Names \X Int) /\ newExpected \in Int
    BY <1>1, <1>3, <1>4, SMTT(30) DEF Readers
  <2>3. newDone \in BOOLEAN /\ cost \in Nat /\ size \in Nat
    BY <1>3
  <2>4. reader' = [reader EXCEPT !.pos = reader.pos + 1, !.decoded = reader.decoded + cost,
                      !.total = reader.total + size, !.seen = newSeen, !.segs = newSegs,
                      !.completed = newDone, !.expected = newExpected]
    OBVIOUS
  <2> HIDE DEF newSegs, newSeen, newExpected, newDone, cost, size
  <2>5. /\ reader'.pos = reader.pos + 1 /\ reader'.decoded = reader.decoded + cost
        /\ reader'.total = reader.total + size /\ reader'.seen = newSeen /\ reader'.segs = newSegs
        /\ reader'.completed = newDone /\ reader'.expected = newExpected
        /\ reader'.result = reader.result
    BY <1>1, <2>4 DEF Readers
  <2>6. reader' \in Readers
    <3>1. /\ reader.pos + 1 \in Nat \ {0} /\ reader.decoded + cost \in Nat
          /\ reader.total + size \in Nat
      BY <1>1, <2>3 DEF Readers
    <3> QED
      BY <1>1, <2>2, <2>3, <2>4, <3>1, ZenonT(30) DEF Readers
  <2> QED
    BY <2>1, <2>5, <2>6 DEF newSegs, newSeen, newExpected, newDone, cost, size
<1>6. /\ <<e.name, e.index>> \notin reader.seen
      /\ pos = 1 => e.name = "manifest"
      /\ pos = 2 => e.name = "host"
      /\ pos > 2 => (e.name = "segment" /\ e.index = Len(segs)) \/ e.name = "complete"
  <2>1. Cardinality(reader.seen) = pos - 1
    BY <1>4
  <2>2. /\ <<e.name, e.index>> \notin reader.seen
        /\ CASE pos - 1 = 0 -> e.name = "manifest"
             [] pos - 1 = 1 -> e.name = "host"
             [] OTHER -> \/ e.name = "segment" /\ e.index = Len(reader.segs)
                         \/ e.name = "complete"
    BY <2>1 DEF InOrder
  <2> QED
    BY <1>1, <2>2
<1>7. reader'.seen = {<<content[k].name, content[k].index>> : k \in 1..pos}
  <2>1. 1..pos = 1..(pos - 1) \cup {pos}
    BY <1>1
  <2> QED
    BY <1>4, <1>5, <2>1
<1>8. IsFiniteSet(reader'.seen) /\ Cardinality(reader'.seen) = pos
  <2>1. reader'.seen = reader.seen \cup {<<e.name, e.index>>}
    BY <1>5
  <2>2. /\ IsFiniteSet(reader.seen \cup {<<e.name, e.index>>})
        /\ Cardinality(reader.seen \cup {<<e.name, e.index>>}) = Cardinality(reader.seen) + 1
    BY <1>4, <1>6, FS_AddElement
  <2> QED
    BY <1>1, <1>4, <2>1, <2>2
<1>9. N' = N /\ \A k : Expected(k)' = Expected(k)
  BY Same
<1>10. /\ Complete(N)' = Complete(N)
  BY <1>9 DEF Complete, Entry
<1>14. /\ reader' \in Readers /\ reader'.pos <= Len(content)' + 1
       /\ reader'.total <= reader'.decoded
       /\ reader'.seen = {<<content[k].name, content[k].index>> : k \in 1..(reader'.pos - 1)}
       /\ IsFiniteSet(reader'.seen) /\ Cardinality(reader'.seen) = reader'.pos - 1
       /\ reader'.result # "accepted" /\ content' = content /\ segments' = segments
  <2>1. reader'.pos - 1 = pos
    BY <1>1, <1>5
  <2>2. reader'.pos <= Len(content)' + 1 /\ content' = content /\ segments' = segments
    BY <1>1, <1>5
  <2>3. reader'.total <= reader'.decoded
    <3> HIDE DEF e
    <3> QED
      BY <1>3, <1>4, <1>5
  <2> HIDE DEF e
  <2> QED
    BY <1>5, <1>7, <1>8, <2>1, <2>2, <2>3
<1>11. CASE pos <= 2
  <2>1. Len(segs) = 0 /\ e = Expected(pos) /\ e.name # "segment" /\ e.name # "complete"
    BY <1>1, <1>2, <1>4, <1>6, <1>11, ItemByName DEF Expected
  <2>2. reader'.segs = segs /\ ~reader'.completed
    BY <1>5, <2>1
  <2>3. \A k \in 1..pos : k <= Len(segs) + 2 => content[k] = Expected(k)
    BY <1>1, <1>4, <2>1
  <2>4. reader'.pos - 1 = pos
    BY <1>1, <1>5
  <2>5. \A k \in 1..(reader'.pos - 1) : k <= Len(reader'.segs) + 2 => content'[k] = Expected(k)'
    BY <1>9, <1>14, <2>2, <2>3, <2>4
  <2>6. /\ Len(reader'.segs) <= N'
        /\ \A i \in 1..Len(reader'.segs) : reader'.segs[i] = segments'[i]
        /\ (reader'.pos <= 2 /\ Len(reader'.segs) = 0) \/ reader'.pos = Len(reader'.segs) + 3
    BY <1>1, <1>3, <1>4, <1>5, <1>9, <1>11, <2>1, <2>2
  <2> QED
    BY <1>14, <2>2, <2>5, <2>6 DEF ReaderOK
<1>12. CASE pos > 2 /\ e.name = "segment"
  <2>1. e.index = Len(segs) /\ e.index \in 0..(N - 1) /\ e = Segment(e.index)
    BY <1>1, <1>2, <1>6, <1>12, ItemByName
  <2>2. pos = Len(segs) + 3 /\ e = Expected(pos)
    <3>1. pos = Len(segs) + 3 /\ Len(segs) \in Nat /\ Len(segs) <= N - 1
      BY <1>1, <1>3, <1>4, <1>12, <2>1
    <3>2. pos # 1 /\ pos # 2 /\ pos <= N + 2 /\ pos - 3 = Len(segs)
      BY <1>3, <3>1
    <3> QED
      BY <2>1, <3>1, <3>2 DEF Expected
  <2>3. e.size = segments[Len(segs) + 1]
    BY <1>1, <2>1, ItemFacts
  <2>4. reader'.segs = Append(segs, e.size) /\ ~reader'.completed
    BY <1>5, <1>12
  <2>5. /\ Len(reader'.segs) = Len(segs) + 1
        /\ \A i \in 1..(Len(segs) + 1) : reader'.segs[i] = segments[i]
    <3>1. segs \in Seq(Nat) /\ e.size \in Nat /\ reader'.segs = Append(segs, e.size)
      BY <1>3, <1>4, <2>4
    <3>2. /\ Len(Append(segs, e.size)) = Len(segs) + 1
          /\ Append(segs, e.size)[Len(segs) + 1] = e.size
          /\ \A i \in 1..Len(segs) : Append(segs, e.size)[i] = segs[i]
      BY <3>1, AppendProperties
    <3>3. \A i \in 1..Len(segs) : segs[i] = segments[i]
      BY <1>4
    <3>4. Len(segs) \in Nat
      BY <1>4
    <3> HIDE DEF e, segs
    <3>5. \A i \in 1..(Len(segs) + 1) : i = Len(segs) + 1 \/ i \in 1..Len(segs)
      BY <3>4
    <3> QED
      BY <2>3, <3>1, <3>2, <3>3, <3>5, Zenon
  <2>6. \A k \in 1..pos : content[k] = Expected(k)
    BY <1>1, <1>4, <2>2
  <2>7. reader'.pos - 1 = pos
    BY <1>1, <1>5
  <2>8. \A k \in 1..(reader'.pos - 1) : k <= Len(reader'.segs) + 2 => content'[k] = Expected(k)'
    BY <1>9, <1>14, <2>6, <2>7
  <2>9. /\ Len(reader'.segs) <= N'
        /\ \A i \in 1..Len(reader'.segs) : reader'.segs[i] = segments'[i]
        /\ reader'.pos = Len(reader'.segs) + 3
    <3>1. Len(segs) <= N - 1 /\ Len(segs) \in Nat
      BY <1>3, <1>4, <2>1
    <3>2. reader'.pos = Len(segs) + 3 + 1
      BY <1>5, <2>2
    <3> HIDE DEF segs, e
    <3> QED
      BY <1>3, <1>9, <1>14, <2>5, <3>1, <3>2, SMTT(30)
  <2> QED
    BY <1>14, <2>4, <2>8, <2>9 DEF ReaderOK
<1>13. CASE pos > 2 /\ e.name = "complete"
  <2>1. e = Complete(N) /\ e.index = N
    BY <1>1, <1>2, <1>13, ItemByName DEF Complete, Entry
  <2>2. pos = Len(segs) + 3
    BY <1>4, <1>13, <1>1
  <2>3. reader'.segs = segs /\ reader'.completed /\ reader'.expected = N
    BY <1>5, <1>13, <2>1
  <2>4. \A k \in 1..pos : k <= Len(segs) + 2 => content[k] = Expected(k)
    BY <1>1, <1>4, <2>2
  <2>5. content[pos] = Complete(N)
    BY <2>1
  <2>7. reader'.pos - 1 = pos
    BY <1>1, <1>5
  <2>8. \A k \in 1..(reader'.pos - 1) : k <= Len(reader'.segs) + 2 => content'[k] = Expected(k)'
    BY <1>9, <1>14, <2>3, <2>4, <2>7
  <2>9. /\ Len(reader'.segs) <= N'
        /\ \A i \in 1..Len(reader'.segs) : reader'.segs[i] = segments'[i]
        /\ reader'.pos = Len(reader'.segs) + 4
    <3>1. reader'.pos = Len(segs) + 3 + 1 /\ Len(segs) \in Nat /\ Len(segs) <= N
      BY <1>4, <1>5, <2>2
    <3>2. \A i \in 1..Len(segs) : segs[i] = segments[i]
      BY <1>4
    <3> HIDE DEF segs, e
    <3> QED
      BY <1>3, <1>9, <1>14, <2>3, <3>1, <3>2, SMTT(30)
  <2>10. content'[reader'.pos - 1] = Complete(N)' /\ reader'.expected = N'
    BY <1>9, <1>10, <1>14, <2>3, <2>5, <2>7
  <2> QED
    BY <1>14, <2>3, <2>8, <2>9, <2>10 DEF ReaderOK
<1> QED
  BY <1>1, <1>6, <1>11, <1>12, <1>13

\* The end of an accepted file: it is the stream that was written.
LEMMA EndRead ==
    ASSUME TransferAssumption, TransferInv, Reading, AtEnd, Drained, AllSegments
    PROVE  content = Stream /\ reader.segs = segments
<1> DEFINE pos == reader.pos
           segs == reader.segs
<1>1. /\ InputsOK /\ content \in Seq(Items) /\ reader \in Readers
      /\ pos \in 1..Len(content) /\ Len(content) = pos + 1 /\ pos \in Nat \ {0}
  BY LenProperties DEF TransferInv, ItemsOK, ReaderOK, Readers, AtEnd, Drained
<1>2. N \in Nat /\ segs \in Seq(Nat) /\ Len(segs) \in Nat
  BY <1>1, ItemFacts, LenProperties DEF Readers
<1>3. /\ Len(segs) = N /\ pos = N + 4 /\ content[N + 3] = Complete(N)
      /\ \A i \in 1..N : segs[i] = segments[i]
      /\ \A k \in 1..(N + 3) : k <= N + 2 => content[k] = Expected(k)
  <2>1. reader.completed /\ reader.expected = Len(segs)
    BY DEF AllSegments
  <2>2. /\ pos = Len(segs) + 4 /\ content[pos - 1] = Complete(N) /\ reader.expected = N
        /\ \A i \in 1..Len(segs) : segs[i] = segments[i]
        /\ \A k \in 1..(pos - 1) : k <= Len(segs) + 2 => content[k] = Expected(k)
    BY <2>1 DEF TransferInv, ReaderOK
  <2> QED
    BY <1>2, <2>1, <2>2
<1>4. content[N + 4] = End /\ content[N + 5] = Trailer
  <2>1. content[N + 4].name = "end" /\ content[N + 5].name = "trailer"
    BY <1>2, <1>3 DEF AtEnd, Drained
  <2>2. content[N + 4] \in Items /\ content[N + 5] \in Items
    BY <1>1, <1>2, <1>3, ElementOfSeq
  <2> QED
    BY <1>1, <2>1, <2>2, ItemByName
<1>5. ASSUME NEW k \in 1..(N + 5) PROVE content[k] = Expected(k)
  BY <1>2, <1>3, <1>4 DEF Expected
<1>6. content = Stream
  <2>1. /\ Stream \in Seq(Items) /\ Len(Stream) = N + 5
        /\ \A k \in 1..(N + 5) : Stream[k] = Expected(k)
    BY <1>1, StreamFacts
  <2>2. Len(content) = N + 5
    BY <1>1, <1>2, <1>3
  <2>3. \A k \in 1..Len(content) : content[k] = Stream[k]
    BY <1>5, <2>1, <2>2
  <2> QED
    BY <1>1, <2>1, <2>2, <2>3, SeqEqual
<1>7. segs = segments
  <2>1. segments \in Seq(Nat) /\ Len(segments) = N
    <3>1. segments \in Seq(SegmentSizes) /\ Len(segments) = N
      BY <1>1 DEF InputsOK, N
    <3>2. \A k \in 1..N : segments[k] \in Nat
      BY <1>2, <3>1, ElementOfSeq DEF TransferAssumption
    <3> QED
      BY <3>1, <3>2, SeqDef, LenProperties
  <2> QED
    BY <1>2, <1>3, <2>1, SeqEqual
<1> QED
  BY <1>6, <1>7

LEMMA ReaderKept ==
    ASSUME TransferAssumption, TransferInv, [TransferNext]_transferVars
    PROVE  ReaderOK'
<1>0. /\ InputsOK' /\ UNCHANGED <<segments, window, limits>>
      /\ InputsOK /\ content \in Seq(Items) /\ ReaderOK /\ reader \in Readers
      /\ Items' = Items /\ Stream' = Stream /\ N' = N /\ \A k : Expected(k)' = Expected(k)
  BY InputsKept, Same DEF TransferInv, ItemsOK, ReaderOK
<1>00. Complete(N)' = Complete(N)
  BY <1>0 DEF Complete, Entry
<1>1. CASE UNCHANGED <<reader, content>>
  BY <1>0, <1>00, <1>1 DEF ReaderOK
<1>2. CASE ReadEntry
  <2>1. UNCHANGED content
    BY <1>2 DEF ReadEntry
  <2>2. CASE Reject
    <3>1. /\ reader'.result = "rejected" /\ reader'.pos = reader.pos
          /\ reader'.decoded = reader.decoded /\ reader'.total = reader.total
          /\ reader'.seen = reader.seen /\ reader'.segs = reader.segs
          /\ reader'.completed = reader.completed /\ reader'.expected = reader.expected
          /\ reader' \in Readers
      BY <1>0, <2>2 DEF Reject, Readers
    <3> QED
      BY <1>0, <1>00, <2>1, <3>1 DEF ReaderOK
  <2>3. CASE ~Reject
    <3>1. /\ Reading /\ ~AtEnd /\ ~(reader.pos > Len(content))
          /\ InOrder(content[reader.pos]) /\ Fits(content[reader.pos])
          /\ reader' = [reader EXCEPT
                     !.pos = @ + 1, !.decoded = @ + Occupied(content[reader.pos]),
                     !.total = @ + content[reader.pos].size,
                     !.seen = @ \cup {<<content[reader.pos].name, content[reader.pos].index>>},
                     !.segs = IF content[reader.pos].name = "segment"
                              THEN Append(@, content[reader.pos].size) ELSE @,
                     !.completed = content[reader.pos].name = "complete",
                     !.expected = IF content[reader.pos].name = "complete"
                                  THEN content[reader.pos].index ELSE @]
      BY <1>2, <2>3, Zenon DEF ReadEntry
    <3>2. reader.pos <= Len(content)
      BY <1>0, <3>1, LenProperties DEF Readers
    <3> QED
      BY <1>0, <2>1, <3>1, <3>2, EntryRead
  <2> QED
    BY <2>2, <2>3
<1>3. CASE ReadEnd
  <2>1. UNCHANGED content /\ Reading /\ AtEnd
    BY <1>3 DEF ReadEnd
  <2>2. CASE Reject
    <3>1. /\ reader'.result = "rejected" /\ reader'.pos = reader.pos
          /\ reader'.decoded = reader.decoded /\ reader'.total = reader.total
          /\ reader'.seen = reader.seen /\ reader'.segs = reader.segs
          /\ reader'.completed = reader.completed /\ reader'.expected = reader.expected
          /\ reader' \in Readers
      BY <1>0, <2>2 DEF Reject, Readers
    <3> QED
      BY <1>0, <1>00, <2>1, <3>1 DEF ReaderOK
  <2>3. CASE ~Reject
    <3>1. Drained /\ AllSegments /\ window /\ reader' = [reader EXCEPT !.result = "accepted"]
      BY <1>3, <2>3 DEF ReadEnd
    <3>2. content = Stream /\ reader.segs = segments
      BY <2>1, <3>1, EndRead
    <3>3. /\ reader'.result = "accepted" /\ reader'.pos = reader.pos
          /\ reader'.decoded = reader.decoded /\ reader'.total = reader.total
          /\ reader'.seen = reader.seen /\ reader'.segs = reader.segs
          /\ reader'.completed = reader.completed /\ reader'.expected = reader.expected
          /\ reader' \in Readers
      BY <1>0, <3>1 DEF Readers
    <3> QED
      BY <1>0, <1>00, <2>1, <3>1, <3>2, <3>3 DEF ReaderOK
  <2> QED
    BY <2>2, <2>3
<1>4. CASE Analyze
  <2>1. reader' = Unread
    BY <1>4 DEF Analyze
  <2>2. content' \in Seq(Items')
    BY ContentTyped, <1>0
  <2> QED
    BY <1>0, <2>1, <2>2, ReaderStart
<1>5. CASE Copy
  <2>1. reader = Unread /\ reader' = Unread
    BY <1>5 DEF Copy, TransferInv, ClientOK
  <2>2. content' \in Seq(Items')
    BY ContentTyped, <1>0
  <2> QED
    BY <1>0, <2>1, <2>2, ReaderStart
<1>6. CASE WriteCapture
  BY <1>1, <1>6 DEF WriteCapture, WriteRefused, WriteEntry, WriteClose, WriteBroken
<1>7. CASE DaemonStops \/ Cancel \/ Ended
  BY <1>1, <1>7 DEF DaemonStops, Cancel, Ended, transferVars
<1>8. CASE CopyDone \/ Aborted \/ Validated \/ Sync \/ LinkFile \/ SyncDirectory
  BY <1>1, <1>8 DEF CopyDone, Aborted, Validated, Sync, LinkFile, SyncDirectory
<1>9. CASE UNCHANGED transferVars
  BY <1>1, <1>9 DEF transferVars
<1> QED
  BY <1>2, <1>3, <1>4, <1>5, <1>6, <1>7, <1>8, <1>9 DEF TransferNext, Publish, Read

-----------------------------------------------------------------------------
(* The command.                                                            *)

LEMMA SentGrows ==
    ASSUME TransferAssumption, TransferInv, WriteCapture
    PROVE  \/ sent' = sent
           \/ /\ sent' \in Seq(Items) /\ Len(sent') >= Len(sent) /\ conn = "open"
              /\ \A k \in 1..Len(sent) : sent'[k] = sent[k]
<1>1. sent \in Seq(Items) /\ InputsOK /\ writer \in Writers
  BY DEF TransferInv, ItemsOK
<1>2. CASE WriteEntry
  <2>1. writer.i \in 1..Len(TarEntries)
    BY <1>1, <1>2, StreamFacts, ItemFacts DEF WriteEntry, Writers
  <2>2. TarEntries[writer.i] \in Items
    BY <1>1, <2>1, StreamFacts, ElementOfSeq
  <2>3. sent' = sent \/ (sent' = Append(sent, TarEntries[writer.i]) /\ conn = "open")
    <3>1. Accepts => conn = "open"
      BY DEF Accepts
    <3>2. sent' = sent \/ (Accepts /\ sent' = Append(sent, TarEntries[writer.i]))
      BY <1>2 DEF WriteEntry
    <3> QED
      BY <3>1, <3>2
  <2>4. CASE sent' = Append(sent, TarEntries[writer.i]) /\ conn = "open"
    BY <1>1, <2>2, <2>4, AppendProperties, LenProperties
  <2> QED
    BY <2>3, <2>4
<1>3. CASE WriteClose
  <2>1. PICK k \in 0..2 : /\ sent' = sent \o SubSeq(<<End, Trailer>>, 1, k)
                          /\ conn # "open" => k = 0
    BY <1>3 DEF WriteClose
  <2>2. SubSeq(<<End, Trailer>>, 1, k) \in Seq(Items)
    <3>1. <<End, Trailer>> \in Seq(Items) /\ Len(<<End, Trailer>>) = 2
      BY DEF Items
    <3> QED
      BY <3>1, Cut
  <2>3. CASE k = 0
    <3>1. SubSeq(<<End, Trailer>>, 1, 0) = <<>>
      BY SubSeqEmpty
    <3> QED
      BY <1>1, <2>1, <2>3, <3>1, ConcatEmptySeq
  <2>4. CASE k # 0
    <3>1. conn = "open"
      BY <2>1, <2>4
    <3>2. PICK t \in Seq(Items) : sent' = sent \o t
      BY <2>1, <2>2
    <3>3. Len(sent) \in Nat /\ Len(t) \in Nat
      BY <1>1, LenProperties
    <3>4. Joins(sent', Items, sent, t, Len(sent), Len(t))
      BY <1>1, <3>2, <3>3, Joined
    <3> QED
      BY <3>1, <3>3, <3>4 DEF Joins
  <2> QED
    BY <2>3, <2>4
<1>4. CASE WriteRefused \/ WriteBroken
  BY <1>4 DEF WriteRefused, WriteBroken
<1> QED
  BY <1>2, <1>3, <1>4 DEF WriteCapture

LEMMA SentCut ==
    ASSUME TransferInv, DaemonStops
    PROVE  /\ Len(sent') \in Nat /\ client.n <= Len(sent')
           /\ \A k \in 1..Len(sent') : sent'[k] = sent[k]
<1>1. sent \in Seq(Items) /\ client \in Clients
  BY DEF TransferInv, ItemsOK, ClientOK
<1>2. PICK m \in client.n..Len(sent) : sent' = SubSeq(sent, 1, m)
  BY DEF DaemonStops
<1>3. m \in Nat /\ m <= Len(sent) /\ client.n <= m /\ Len(sent) \in Nat
  BY <1>1, LenProperties DEF Clients
<1>4. \A k \in 1..m : sent[k] \in Items
  BY <1>1, <1>3, ElementOfSeq
<1>5. Len(sent') = m /\ \A k \in 1..m : sent'[k] = sent[k]
  BY <1>2, <1>3, <1>4, SubSeqProperties
<1> QED
  BY <1>3, <1>5

LEMMA ClientKept ==
    ASSUME TransferAssumption, TransferInv, [TransferNext]_transferVars
    PROVE  ClientOK'
<1>0. /\ UNCHANGED <<segments, window, limits>> /\ Limit(limits.client)
      /\ ClientOK /\ client \in Clients /\ client.n \in Nat /\ client.n <= Len(sent)
      /\ sent \in Seq(Items) /\ Len(sent) \in Nat /\ Len(sent') \in Nat
      /\ limits.client.wire \in Nat
  <2>1. sent' \in Seq(Items)
    BY SentTyped
  <2>2. client \in Clients /\ client.n \in 0..Len(sent)
    BY DEF TransferInv, ClientOK
  <2> QED
    BY <2>1, <2>2, InputsKept, LenProperties DEF TransferInv, ItemsOK, InputsOK, Limit
<1>1. CASE UNCHANGED <<client, reader, destination>> /\ Len(sent') >= client.n
  BY <1>0, <1>1 DEF ClientOK
<1>2. CASE Copy
  <2>1. /\ client' = [client EXCEPT !.n = client.n + 1] /\ client.pc = "copy"
        /\ client.n < Len(sent) /\ client.n <= limits.client.wire
        /\ UNCHANGED <<sent, reader, destination>>
    BY <1>2 DEF Copy
  <2>2. /\ client' \in Clients /\ client'.n = client.n + 1 /\ client'.pc = client.pc
        /\ client'.why = client.why
    BY <1>0, <2>1 DEF Clients
  <2> QED
    BY <1>0, <2>1, <2>2 DEF ClientOK
<1>3. CASE \E pc, why : client' = [client EXCEPT !.pc = pc, !.why = why] /\ pc = "failed"
                /\ UNCHANGED <<sent, reader, destination>>
                /\ why \in {"transport", "cancelled", "deadline", "validate", "sync", "exists", "sync_dir"}
                /\ client.pc # "analyze"
  <2>1. PICK why : client' = [client EXCEPT !.pc = "failed", !.why = why]
                /\ why \in {"transport", "cancelled", "deadline", "validate", "sync", "exists", "sync_dir"}
    BY <1>3
  <2>2. client' \in Clients /\ client'.pc = "failed" /\ client'.n = client.n
    BY <1>0, <2>1 DEF Clients
  <2> QED
    BY <1>0, <1>3, <2>2 DEF ClientOK
<1>4. CASE CopyDone
  <2>1. CASE client.n > limits.client.wire
    <3>1. client.pc = "copy" /\ Failed("transport") /\ UNCHANGED <<sent, reader, destination>>
      BY <1>4, <2>1 DEF CopyDone
    <3> QED
      BY <1>3, <3>1 DEF Failed
  <2>2. CASE client' = [client EXCEPT !.pc = "validate"]
    <3>1. client' \in Clients /\ client'.pc = "validate" /\ client'.n = client.n
          /\ UNCHANGED <<sent, reader, destination>>
      BY <1>0, <1>4, <2>2 DEF Clients, CopyDone
    <3>2. client.pc = "copy"
      BY <1>4 DEF CopyDone
    <3> QED
      BY <1>0, <3>1, <3>2 DEF ClientOK
  <2> QED
    BY <1>4, <2>1, <2>2 DEF CopyDone
<1>5. CASE Aborted
  <2>1. \E why \in {"cancelled", "deadline"} : Failed(why)
    BY <1>5 DEF Aborted
  <2>2. client.pc # "analyze" /\ UNCHANGED <<sent, reader, destination>>
    BY <1>5 DEF Aborted
  <2> QED
    BY <1>3, <2>1, <2>2 DEF Failed
<1>6. CASE \E pc \in {"sync", "link", "saved"} :
                /\ client' = [client EXCEPT !.pc = pc] /\ reader.result = "accepted"
                /\ UNCHANGED <<sent, reader, destination>>
  <2>1. PICK pc \in {"sync", "link", "saved"} : client' = [client EXCEPT !.pc = pc]
    BY <1>6
  <2>2. client' \in Clients /\ client'.pc = pc /\ client'.n = client.n
    BY <1>0, <2>1 DEF Clients
  <2> QED
    BY <1>0, <1>6, <2>1, <2>2 DEF ClientOK
<1>7. CASE Validated
  <2>1. client.pc = "validate" /\ UNCHANGED <<sent, reader, destination>>
    BY <1>7 DEF Validated
  <2>2. \/ reader.result = "accepted" /\ client' = [client EXCEPT !.pc = "sync"]
        \/ Failed("validate")
    BY <1>7 DEF Validated
  <2> QED
    BY <1>3, <1>6, <2>1, <2>2 DEF Failed
<1>8. CASE Sync
  <2>1. client.pc = "sync" /\ reader.result = "accepted" /\ UNCHANGED <<sent, reader, destination>>
    BY <1>0, <1>8 DEF Sync, ClientOK
  <2>2. CASE client' = [client EXCEPT !.pc = "link"]
    BY <1>6, <2>1, <2>2
  <2>3. CASE Failed("sync")
    BY <1>3, <2>1, <2>3 DEF Failed
  <2> QED
    BY <1>8, <2>2, <2>3 DEF Sync
<1>9. CASE LinkFile
  <2>1. client.pc = "link" /\ reader.result = "accepted" /\ UNCHANGED <<sent, reader>>
    BY <1>0, <1>9 DEF LinkFile, ClientOK
  <2>2. CASE destination = "absent"
    <3>1. destination' = "capture" /\ client' = [client EXCEPT !.pc = "sync_dir"]
      BY <1>9, <2>2 DEF LinkFile
    <3>2. client' \in Clients /\ client'.pc = "sync_dir" /\ client'.n = client.n
      BY <1>0, <3>1 DEF Clients
    <3> QED
      BY <1>0, <2>1, <3>1, <3>2 DEF ClientOK
  <2>3. CASE destination # "absent"
    <3>1. Failed("exists") /\ UNCHANGED destination
      BY <1>9, <2>3 DEF LinkFile
    <3> QED
      BY <1>3, <2>1, <3>1 DEF Failed
  <2> QED
    BY <2>2, <2>3
<1>10. CASE SyncDirectory
  <2>1. client.pc = "sync_dir" /\ reader.result = "accepted" /\ UNCHANGED <<sent, reader, destination>>
    BY <1>0, <1>10 DEF SyncDirectory, ClientOK
  <2>2. CASE client' = [client EXCEPT !.pc = "saved"]
    BY <1>6, <2>1, <2>2
  <2>3. CASE Failed("sync_dir")
    BY <1>3, <2>1, <2>3 DEF Failed
  <2> QED
    BY <1>10, <2>2, <2>3 DEF SyncDirectory
<1>11. CASE Read
  <2>1. /\ client.pc \in {"validate", "analyze"} /\ reader.result = "reading"
        /\ UNCHANGED <<client, sent, destination>>
    BY <1>11 DEF Read, ReadEntry, ReadEnd, Reading
  <2> QED
    BY <1>0, <2>1 DEF ClientOK
<1>12. CASE Analyze
  <2>1. client' = [client EXCEPT !.pc = "analyze"] /\ UNCHANGED <<sent, destination>>
    BY <1>12 DEF Analyze
  <2>2. client' \in Clients /\ client'.pc = "analyze" /\ client'.n = client.n
    BY <1>0, <2>1 DEF Clients
  <2> QED
    BY <1>0, <2>1, <2>2 DEF ClientOK
<1>13. CASE WriteCapture
  <2>1. UNCHANGED <<client, reader, destination>>
    BY <1>13 DEF WriteCapture, WriteRefused, WriteEntry, WriteClose, WriteBroken
  <2>2. Len(sent') >= client.n
    BY <1>0, <1>13, SentGrows
  <2> QED
    BY <1>1, <2>1, <2>2
<1>14. CASE DaemonStops
  <2>1. UNCHANGED <<client, reader, destination>>
    BY <1>14 DEF DaemonStops
  <2>2. Len(sent') >= client.n
    BY <1>0, <1>14, SentCut
  <2> QED
    BY <1>1, <2>1, <2>2
<1>15. CASE Cancel \/ Ended \/ UNCHANGED transferVars
  BY <1>0, <1>1, <1>15 DEF Cancel, Ended, transferVars
<1> QED
  BY <1>2, <1>4, <1>5, <1>7, <1>8, <1>9, <1>10, <1>11, <1>12, <1>13, <1>14, <1>15
  DEF TransferNext, Publish

LEMMA TransferInvKept ==
    ASSUME TransferAssumption, TransferInv, [TransferNext]_transferVars
    PROVE  TransferInv'
BY InputsKept, ItemsKept, ClientKept, ReaderKept DEF TransferInv

-----------------------------------------------------------------------------
(* The writer.                                                             *)

LEMMA WriterFrame ==
    ASSUME WriterOK, UNCHANGED <<segments, limits, writer>>,
           (conn' = conn /\ sent' = sent) \/ conn' = "lost"
    PROVE  WriterOK'
<1>1. N' = N /\ Used' = Used /\ \A k : Expected(k)' = Expected(k)
  BY Same
<1>2. CASE conn' = conn /\ sent' = sent
  BY <1>1, <1>2 DEF WriterOK
<1>3. CASE conn' = "lost"
  BY <1>1, <1>3 DEF WriterOK
<1> QED
  BY <1>2, <1>3

\* A writer that gives up keeps its totals.
LEMMA WriterFails ==
    ASSUME TransferAssumption, TransferInv, WriterOK, UNCHANGED <<segments, limits>>,
           NEW pc \in {"close", "broken", "done"},
           writer' = [writer EXCEPT !.pc = pc, !.err = TRUE],
           conn' \in {"open", "closed", "lost"}, conn' = "closed" => pc = "done"
    PROVE  WriterOK'
<1>1. N' = N /\ Used' = Used
  BY Same
<1>2. writer \in Writers
  BY DEF TransferInv, ItemsOK
<1>3. /\ writer'.pc = pc /\ writer'.err /\ writer'.i = writer.i /\ writer'.total = writer.total
  BY <1>2 DEF Writers
<1>4. /\ writer.i \in 1..(N + 4)
      /\ writer.i > 1 => N <= limits.server.entries - 3 /\ writer.total <= limits.server.decoded
      /\ writer.total = 2 * Block + Used[writer.i - 1]
  BY DEF WriterOK
<1>5. pc # "entries"
  OBVIOUS
<1> QED
  BY <1>1, <1>3, <1>4, <1>5, Zenon DEF WriterOK

LEMMA WriterKept ==
    ASSUME TransferAssumption, TransferInv, WriterOK, [TransferNext]_transferVars
    PROVE  WriterOK'
<1>0. /\ UNCHANGED <<segments, limits>> /\ InputsOK /\ N \in Nat
      /\ sent \in Seq(Items) /\ writer \in Writers
      /\ Len(sent) \in Nat
  BY InputsKept, ItemFacts, LenProperties DEF TransferInv, ItemsOK
<1>00. N' = N /\ Used' = Used /\ \A k : Expected(k)' = Expected(k)
  BY <1>0, Same
<1>01. conn \in {"open", "closed", "lost"} /\ (conn = "closed" => writer.pc = "done")
  BY DEF WriterOK
<1>1. CASE WriteRefused
  <2>1. /\ writer' = [writer EXCEPT !.pc = "done", !.err = TRUE]
        /\ conn' = IF conn = "open" THEN "closed" ELSE conn
    BY <1>1 DEF WriteRefused
  <2> QED
    BY <1>0, <1>01, <2>1, WriterFails
<1>2. CASE WriteEntry
  <2>1. /\ writer.pc = "entries" /\ writer.i \in 1..(N + 3) /\ conn' = conn
        /\ N <= limits.server.entries - 3 /\ writer.i \in Nat
    BY <1>0, <1>2, StreamFacts DEF WriteEntry, Writers, N
  <2>2. /\ TarEntries[writer.i] = Expected(writer.i) /\ Expected(writer.i) \in Items
        /\ Cost(Expected(writer.i)) \in Nat
        /\ Used[writer.i] = Used[writer.i - 1] + Cost(Expected(writer.i))
        /\ Used[writer.i - 1] \in Nat
    <3>1. TarEntries[writer.i] = Expected(writer.i)
      BY <1>0, <2>1, StreamFacts
    <3>2. Expected(writer.i) \in Items
      BY <1>0, <2>1, ItemFacts
    <3>3. Used[writer.i] = Used[writer.i - 1] + Cost(Expected(writer.i)) /\ Used[writer.i - 1] \in Nat
      <4>1. writer.i - 1 \in 0..(N + 3)
        BY <1>0, <2>1
      <4> QED
        BY <1>0, <2>1, <4>1, UsedFacts
    <3> QED
      BY <1>0, <3>1, <3>2, <3>3, CostFacts
  <2> DEFINE e == Expected(writer.i)
             total == writer.total + Cost(e)
  <2>3. \/ writer' = [writer EXCEPT !.pc = "close", !.err = TRUE]
        \/ /\ ~(total > limits.server.decoded) /\ Accepts
           /\ writer' = [writer EXCEPT !.i = writer.i + 1, !.total = total]
           /\ sent' = Append(sent, e)
        \/ writer' = [writer EXCEPT !.pc = "broken", !.err = TRUE]
    BY <1>2, <2>2 DEF WriteEntry
  <2>4. conn # "closed"
    BY <1>01, <2>1
  <2>5. CASE writer' = [writer EXCEPT !.pc = "close", !.err = TRUE]
    BY <1>0, <1>01, <2>1, <2>4, <2>5, WriterFails
  <2>6. CASE writer' = [writer EXCEPT !.pc = "broken", !.err = TRUE]
    BY <1>0, <1>01, <2>1, <2>4, <2>6, WriterFails
  <2>7. CASE /\ ~(total > limits.server.decoded) /\ Accepts
             /\ writer' = [writer EXCEPT !.i = writer.i + 1, !.total = total]
             /\ sent' = Append(sent, e)
    <3>1. /\ conn = "open" /\ ~writer.err /\ Len(sent) = writer.i - 1
          /\ \A k \in 1..Len(sent) : sent[k] = Expected(k)
          /\ writer.total = 2 * Block + Used[writer.i - 1]
      BY <2>1, <2>7 DEF WriterOK, Accepts
    <3>2. /\ writer'.i = writer.i + 1 /\ writer'.total = total /\ writer'.pc = "entries"
          /\ ~writer'.err
      BY <1>0, <2>1, <2>7, <3>1 DEF Writers
    <3>3. /\ Len(sent') = writer.i
          /\ \A k \in 1..Len(sent) : sent'[k] = sent[k]
          /\ sent'[Len(sent) + 1] = Expected(writer.i)
      <4>1. Append(sent, e) \in Seq(Items) /\ Len(Append(sent, e)) = Len(sent) + 1
            /\ (\A k \in 1..Len(sent) : Append(sent, e)[k] = sent[k])
            /\ Append(sent, e)[Len(sent) + 1] = e
        BY <1>0, <2>2, AppendProperties
      <4> QED
        BY <1>0, <2>1, <2>7, <3>1, <4>1
    <3>4. \A k \in 1..Len(sent') : sent'[k] = Expected(k)
      <4>1. writer.i - 1 = Len(sent) /\ Len(sent) + 1 = writer.i
        BY <1>0, <2>1, <3>1
      <4>2. \A k \in 1..writer.i : k = writer.i \/ k \in 1..Len(sent)
        BY <1>0, <2>1, <4>1
      <4> HIDE DEF e, total
      <4> QED
        BY <3>1, <3>3, <4>1, <4>2, Zenon
    <3>5. total = 2 * Block + Used[writer.i] /\ total <= limits.server.decoded
      <4>1. Block \in Nat /\ limits.server.decoded \in Nat
        BY <1>0 DEF TransferAssumption, InputsOK, Limit
      <4> QED
        BY <2>2, <2>7, <3>1, <4>1
    <3>6. writer'.i - 1 = writer.i /\ writer'.i \in 1..(N + 4)
      BY <1>0, <2>1, <3>2
    <3> HIDE DEF total
    <3> QED
      BY <1>0, <1>00, <2>1, <3>1, <3>2, <3>3, <3>4, <3>5, <3>6 DEF WriterOK
  <2> QED
    BY <2>3, <2>5, <2>6, <2>7
<1>3. CASE WriteClose
  <2> DEFINE tail == <<End, Trailer>>
  <2>1. PICK k \in 0..2 :
            /\ sent' = sent \o SubSeq(tail, 1, k)
            /\ writer' = [writer EXCEPT !.pc = "done", !.err = writer.err \/ k < 2]
            /\ k = 2 => conn = "open"
    <3>1. PICK k \in 0..2 :
            /\ IF conn = "open" /\ Len(sent) + 2 <= limits.server.wire
               THEN k = 2
               ELSE Len(sent) + k <= limits.server.wire /\ k < 2 /\ (conn # "open" => k = 0)
            /\ sent' = sent \o SubSeq(tail, 1, k)
            /\ writer' = [writer EXCEPT !.pc = "done", !.err = writer.err \/ k < 2]
      BY <1>3, Zenon DEF WriteClose
    <3>2. k = 2 => conn = "open"
      BY <3>1
    <3> QED
      BY <3>1, <3>2, Zenon
  <2>2. conn' = IF conn = "open" THEN "closed" ELSE conn
    BY <1>3 DEF WriteClose
  <2>3. CASE writer.err \/ k < 2
    <3>1. writer' = [writer EXCEPT !.pc = "done", !.err = TRUE]
      BY <2>1, <2>3
    <3> QED
      BY <1>0, <1>01, <2>2, <3>1, WriterFails
  <2>4. CASE ~(writer.err \/ k < 2)
    <3>1. k = 2 /\ ~writer.err /\ conn = "open" /\ conn' = "closed"
      BY <2>1, <2>2, <2>4
    <3>2. /\ writer.pc = "entries" /\ writer.i = N + 4
          /\ writer.i > 1 => N <= limits.server.entries - 3 /\ writer.total <= limits.server.decoded
          /\ writer.total = 2 * Block + Used[writer.i - 1]
          /\ Len(sent) = N + 3 /\ \A j \in 1..Len(sent) : sent[j] = Expected(j)
      <4>1. writer.pc # "close"
        BY <3>1 DEF WriterOK
      <4>2. writer.pc = "entries" /\ writer.i > N + 3
        BY <1>0, <1>3, <4>1, StreamFacts DEF WriteClose
      <4> QED
        <5>1. /\ writer.i \in 1..(N + 4)
              /\ writer.i > 1 => N <= limits.server.entries - 3 /\ writer.total <= limits.server.decoded
              /\ writer.total = 2 * Block + Used[writer.i - 1]
              /\ Len(sent) = writer.i - 1 /\ \A j \in 1..Len(sent) : sent[j] = Expected(j)
          BY <3>1, <4>2 DEF WriterOK
        <5>2. writer.i = N + 4
          BY <1>0, <4>2, <5>1
        <5>3. Len(sent) = N + 3
          BY <1>0, <5>1, <5>2
        <5> HIDE DEF tail
        <5> QED
          BY <4>2, <5>1, <5>2, <5>3, Zenon
    <3>3. tail \in Seq(Items) /\ Len(tail) = 2 /\ tail[1] = End /\ tail[2] = Trailer
      BY DEF Items
    <3>4. sent' = sent \o tail
      <4>1. SubSeq(tail, 1, 2) = tail
        <5>1. \A j \in 1..2 : tail[j] \in Items
          BY <3>3
        <5>2. /\ SubSeq(tail, 1, 2) \in Seq(Items) /\ Len(SubSeq(tail, 1, 2)) = 2
              /\ \A j \in 1..2 : SubSeq(tail, 1, 2)[j] = tail[1 + j - 1]
          <6> HIDE DEF tail
          <6>1. SubSeq(tail, 1, 2) \in Seq(Items) /\ Len(SubSeq(tail, 1, 2)) = 2 - 1 + 1
            BY <5>1, SubSeqProperties
          <6>2. \A j \in 1..(2 - 1 + 1) : SubSeq(tail, 1, 2)[j] = tail[1 + j - 1]
            BY <5>1, SubSeqProperties
          <6> QED
            BY <6>1, <6>2
        <5> HIDE DEF tail
        <5> QED
          BY <3>3, <5>2, SeqEqual
      <4> QED
        BY <2>1, <3>1, <4>1
    <3>5. /\ Len(sent') = (N + 3) + 2
          /\ \A j \in 1..(N + 3) : sent'[j] = sent[j]
          /\ \A j \in 1..2 : sent'[(N + 3) + j] = tail[j]
      <4>1. N + 3 \in Nat /\ 2 \in Nat
        BY <1>0
      <4> HIDE DEF tail
      <4>2. Joins(sent', Items, sent, tail, N + 3, 2)
        BY <1>0, <3>2, <3>3, <3>4, <4>1, Joined, Zenon
      <4> QED
        BY <4>2 DEF Joins
    <3>6. \A j \in 1..(N + 5) : sent'[j] = Expected(j)
      <4> SUFFICES ASSUME NEW j \in 1..(N + 5) PROVE sent'[j] = Expected(j)
        OBVIOUS
      <4>1. CASE j <= N + 3
        BY <1>0, <3>2, <3>5, <4>1
      <4>2. CASE j = N + 4
        BY <1>0, <3>3, <3>5, <4>2 DEF Expected
      <4>3. CASE j = N + 5
        BY <1>0, <3>3, <3>5, <4>3 DEF Expected
      <4> QED
        BY <1>0, <4>1, <4>2, <4>3
    <3>7. /\ writer'.pc = "done" /\ ~writer'.err /\ writer'.i = writer.i
          /\ writer'.total = writer.total
      <4>1. writer' = [writer EXCEPT !.pc = "done", !.err = FALSE]
        BY <2>1, <2>4
      <4> QED
        BY <1>0, <4>1 DEF Writers
    <3>8. Len(sent') = N + 5 /\ writer.i \in 1..(N + 4)
      BY <1>0, <3>2, <3>5
    <3> HIDE DEF tail
    <3> QED
      BY <1>00, <1>0, <3>1, <3>2, <3>6, <3>7, <3>8 DEF WriterOK
  <2> QED
    BY <2>3, <2>4
<1>4. CASE WriteBroken
  <2>1. /\ writer' = [writer EXCEPT !.pc = "done"] /\ writer.err
        /\ conn' = IF conn = "open" THEN "closed" ELSE conn
    BY <1>4 DEF WriteBroken, WriterOK
  <2>2. writer' = [writer EXCEPT !.pc = "done", !.err = TRUE]
    BY <1>0, <2>1 DEF Writers
  <2> QED
    BY <1>0, <1>01, <2>1, <2>2, WriterFails
<1>5. CASE UNCHANGED writer /\ ((conn' = conn /\ sent' = sent) \/ conn' = "lost")
  BY <1>0, <1>5, WriterFrame
<1>6. CASE DaemonStops \/ Cancel \/ Read \/ Analyze \/ Ended \/ UNCHANGED transferVars
  BY <1>5, <1>6 DEF DaemonStops, Cancel, Read, ReadEntry, ReadEnd, Analyze, Ended, transferVars
<1>7. CASE Publish
  BY <1>5, <1>7 DEF Publish, Copy, CopyDone, Aborted, Validated, Sync, LinkFile, SyncDirectory
<1> QED
  BY <1>1, <1>2, <1>3, <1>4, <1>6, <1>7 DEF TransferNext, WriteCapture

-----------------------------------------------------------------------------
(* The copy and its validation.                                            *)

\* A cause for a rejection does not go away.
LEMMA ExcusedStays ==
    ASSUME TransferAssumption, TransferInv, WriterOK, Excused, [TransferNext]_transferVars
    PROVE  Excused'
<1>0. UNCHANGED <<segments, window, limits>> /\ writer \in Writers
  BY InputsKept DEF TransferInv, ItemsOK
<1>1. CASE UNCHANGED writer /\ (conn' = conn \/ conn' = "lost")
  BY <1>0, <1>1 DEF Excused
<1>2. CASE writer.err' /\ UNCHANGED <<window, limits>>
  BY <1>2 DEF Excused
<1>3. CASE WriteCapture
  <2>1. conn = "lost" => conn' = "lost"
    BY <1>3 DEF WriteCapture, WriteRefused, WriteEntry, WriteClose, WriteBroken
  <2>2. CASE ~writer.err
    BY <1>0, <2>1, <2>2 DEF Excused
  <2>3. CASE writer.err
    <3>1. CASE WriteRefused
      BY <1>0, <1>2, <3>1 DEF WriteRefused, Writers
    <3>2. CASE WriteEntry
      BY <2>3, <3>2 DEF WriteEntry, WriterOK
    <3>3. CASE WriteClose
      <4>1. PICK k \in 0..2 : writer' = [writer EXCEPT !.pc = "done", !.err = writer.err \/ k < 2]
        BY <3>3, Zenon DEF WriteClose
      <4>2. writer' = [writer EXCEPT !.pc = "done", !.err = TRUE]
        BY <2>3, <4>1
      <4> QED
        BY <1>0, <1>2, <4>2 DEF Writers
    <3>4. CASE WriteBroken
      BY <1>0, <1>2, <2>3, <3>4 DEF WriteBroken, Writers
    <3> QED
      BY <1>3, <3>1, <3>2, <3>3, <3>4 DEF WriteCapture
  <2> QED
    BY <2>2, <2>3
<1>4. CASE DaemonStops \/ Cancel \/ Read \/ Analyze \/ Ended \/ UNCHANGED transferVars
  BY <1>1, <1>4 DEF DaemonStops, Cancel, Read, ReadEntry, ReadEnd, Analyze, Ended, transferVars
<1>5. CASE Publish
  BY <1>1, <1>5 DEF Publish, Copy, CopyDone, Aborted, Validated, Sync, LinkFile, SyncDirectory
<1> QED
  BY <1>3, <1>4, <1>5 DEF TransferNext

\* Without a cause, what the command validates is the stream, and the reader's limits hold it.
LEMMA FullStream ==
    ASSUME TransferAssumption, TransferInv, WriterOK, CopyOK, client.pc = "validate", ~Excused
    PROVE  /\ Len(content) = N + 5 /\ \A k \in 1..(N + 5) : content[k] = Expected(k)
           /\ N <= limits.client.entries - 3
           /\ 2 * Block + Used[N + 3] <= limits.client.decoded
           /\ reader.result # "rejected" /\ reader.decoded = Used[reader.pos - 1] /\ window
<1>1. /\ ~writer.err /\ conn # "lost" /\ window
      /\ ~(limits.client.decoded < limits.server.decoded)
      /\ ~(limits.client.entries < limits.server.entries)
  BY DEF Excused
<1>2. /\ conn = "closed" /\ client.n = Len(sent) /\ Len(content) = client.n
      /\ \A k \in 1..client.n : content[k] = sent[k]
      /\ reader.result # "rejected" /\ reader.decoded = Used[reader.pos - 1]
  BY <1>1 DEF CopyOK
<1>3. /\ writer.pc = "done" /\ writer.i = N + 4 /\ Len(sent) = N + 5
      /\ \A k \in 1..Len(sent) : sent[k] = Expected(k)
      /\ writer.i > 1 => N <= limits.server.entries - 3 /\ writer.total <= limits.server.decoded
      /\ writer.total = 2 * Block + Used[writer.i - 1]
  BY <1>1, <1>2 DEF WriterOK
<1>4. /\ N \in Nat /\ Limit(limits.server) /\ Limit(limits.client) /\ Block \in Nat
      /\ Used[N + 3] \in Nat
  <2>1. InputsOK
    BY DEF TransferInv
  <2>2. N + 3 \in 0..(N + 3)
    BY <2>1, ItemFacts
  <2> QED
    BY <2>1, <2>2, ItemFacts, UsedFacts DEF InputsOK, TransferAssumption
<1>5. N + 4 > 1 /\ (N + 4) - 1 = N + 3
  BY <1>4
<1>6. /\ limits.server.decoded \in Nat /\ limits.client.decoded \in Nat
      /\ limits.server.entries \in Nat /\ limits.client.entries \in Nat
  BY <1>4 DEF Limit
<1>7. N <= limits.server.entries - 3 /\ 2 * Block + Used[N + 3] <= limits.server.decoded
  BY <1>3, <1>5
<1>8. N <= limits.client.entries - 3
  BY <1>1, <1>4, <1>6, <1>7
<1>9. 2 * Block + Used[N + 3] <= limits.client.decoded
  BY <1>1, <1>4, <1>6, <1>7
<1>10. Len(content) = N + 5 /\ \A k \in 1..(N + 5) : content[k] = Expected(k)
  BY <1>2, <1>3
<1> QED
  BY <1>1, <1>2, <1>8, <1>9, <1>10

\* It rejects no entry of it.
LEMMA EntryAccepted ==
    ASSUME TransferAssumption, TransferInv, WriterOK, CopyOK, client.pc = "validate", ~Excused,
           ~AtEnd
    PROVE  /\ reader.pos <= Len(content) /\ reader.pos \in 1..(N + 3)
           /\ InOrder(content[reader.pos]) /\ Fits(content[reader.pos])
           /\ content[reader.pos] = Expected(reader.pos)
<1> DEFINE pos == reader.pos
           segs == reader.segs
           e == Expected(pos)
<1>1. /\ Len(content) = N + 5 /\ \A k \in 1..(N + 5) : content[k] = Expected(k)
      /\ N <= limits.client.entries - 3
      /\ 2 * Block + Used[N + 3] <= limits.client.decoded
      /\ reader.decoded = Used[pos - 1]
  BY FullStream
<1>2. /\ InputsOK /\ N \in Nat /\ pos \in Nat \ {0} /\ pos <= N + 6
      /\ Len(segs) \in Nat /\ Len(segs) <= N
      /\ reader.seen = {<<content[k].name, content[k].index>> : k \in 1..(pos - 1)}
      /\ Cardinality(reader.seen) = pos - 1
      /\ reader.total <= reader.decoded /\ reader.total \in Nat
      /\ IF reader.completed
         THEN pos = Len(segs) + 4 /\ content[pos - 1] = Complete(N)
         ELSE (pos <= 2 /\ Len(segs) = 0) \/ pos = Len(segs) + 3
  <2>1. InputsOK /\ reader \in Readers
    BY DEF TransferInv, ReaderOK
  <2>2. N \in Nat /\ pos \in Nat \ {0} /\ Len(segs) \in Nat /\ reader.total \in Nat
    BY <2>1, ItemFacts, LenProperties DEF Readers
  <2>3. pos <= N + 6
    BY <1>1, <2>2 DEF TransferInv, ReaderOK
  <2> QED
    BY <2>1, <2>2, <2>3 DEF TransferInv, ReaderOK
<1>3. /\ \A k \in 1..(N + 5) : Expected(k).name = "complete" => k = N + 3
      /\ Complete(N).name = "complete" /\ Expected(N + 4).name = "end"
      /\ Expected(1).name = "manifest" /\ Expected(2).name = "host"
      /\ Expected(N + 3).name = "complete"
      /\ \A k \in 3..(N + 2) : Expected(k).name = "segment" /\ Expected(k).index = k - 3
  BY <1>2 DEF Expected, Manifest, Host, Segment, Complete, End, Trailer, Entry
<1>4. ~reader.completed /\ pos \in 1..(N + 3)
  <2>1. ASSUME reader.completed PROVE FALSE
    <3>1. pos = Len(segs) + 4 /\ content[pos - 1] = Complete(N)
      BY <1>2, <2>1
    <3>2. pos - 1 \in 1..(N + 5)
      BY <1>2, <3>1
    <3>3. pos - 1 = N + 3
      BY <1>1, <1>3, <3>1, <3>2
    <3>4. pos = N + 4 /\ content[pos].name = "end"
      BY <1>1, <1>2, <1>3, <3>3
    <3> QED
      BY <1>1, <1>2, <3>4 DEF AtEnd
  <2> QED
    BY <1>2, <2>1
<1>5. pos \in 1..(N + 5) /\ content[pos] = e /\ pos <= Len(content)
  BY <1>1, <1>2, <1>4
<1>6. e \in Items /\ Occupied(e) \in Nat /\ e.size <= Occupied(e) /\ Occupied(e) = Cost(e) /\ e.size \in Nat
  <2>1. e \in Items
    BY <1>2, <1>5, ItemFacts
  <2> QED
    BY <1>2, <2>1, CostFacts, ItemFacts
<1>7. <<e.name, e.index>> \notin reader.seen
  <2> SUFFICES ASSUME NEW k \in 1..(pos - 1),
                      <<e.name, e.index>> = <<content[k].name, content[k].index>>
               PROVE FALSE
    BY <1>2
  <2>1. k \in 1..(N + 3) /\ k < pos /\ k \in 1..(N + 5)
    BY <1>2, <1>4
  <2>2. content[k] = Expected(k)
    BY <1>1, <2>1
  <2>3. Expected(k).name = e.name /\ Expected(k).index = e.index
    BY <2>2
  <2>4. k \in 3..(N + 2) \/ k = 1 \/ k = 2
    BY <1>2, <1>4, <2>1
  <2>5. pos \in 3..(N + 2) \/ pos = 1 \/ pos = 2 \/ pos = N + 3
    BY <1>2, <1>4
  <2> HIDE DEF e, pos
  <2>6. e = Expected(pos)
    BY DEF e
  <2>7. CASE pos = 1 \/ pos = 2
    <3>1. k = 1 /\ pos = 2
      BY <1>2, <2>1, <2>7
    <3> QED
      BY <1>3, <2>3, <2>6, <3>1
  <2>8. CASE pos = N + 3
    BY <1>3, <2>3, <2>4, <2>6, <2>8
  <2>9. CASE pos \in 3..(N + 2)
    <3>1. e.name = "segment" /\ e.index = pos - 3
      BY <1>3, <2>6, <2>9
    <3>2. k \in 3..(N + 2)
      BY <1>3, <2>3, <2>4, <3>1
    <3>3. k - 3 = pos - 3
      BY <1>3, <2>3, <3>1, <3>2
    <3> QED
      BY <2>1, <2>9, <3>2, <3>3
  <2> QED
    BY <2>5, <2>7, <2>8, <2>9
<1>8. Cardinality(reader.seen) < limits.client.entries
  <2>1. limits.client.entries \in Nat
    BY <1>2 DEF InputsOK, Limit
  <2> QED
    BY <1>1, <1>2, <1>4, <2>1, SMTT(30)
<1>9. /\ pos - 1 = 0 => e.name = "manifest"
      /\ pos - 1 = 1 => e.name = "host"
      /\ (pos - 1 # 0 /\ pos - 1 # 1) => \/ e.name = "segment" /\ e.index = Len(segs)
                                       \/ e.name = "complete"
  <2>1. CASE pos = 1
    BY <1>3, <2>1
  <2>2. CASE pos = 2
    BY <1>3, <2>2
  <2>3. CASE pos > 2
    <3>1. pos = Len(segs) + 3 /\ pos - 1 # 0 /\ pos - 1 # 1
      BY <1>2, <1>4, <2>3
    <3>2. (pos \in 3..(N + 2) /\ pos - 3 = Len(segs)) \/ pos = N + 3
      BY <1>2, <1>4, <3>1
    <3>3. (e.name = "segment" /\ e.index = Len(segs)) \/ e.name = "complete"
      BY <1>3, <3>2
    <3> QED
      BY <3>1, <3>3
  <2> QED
    BY <1>2, <2>1, <2>2, <2>3
<1>10. InOrder(e)
  <2>1. Cardinality(reader.seen) = pos - 1
    BY <1>2
  <2> HIDE DEF e, pos
  <2> QED
    BY <1>4, <1>7, <1>8, <1>9, <2>1 DEF InOrder, pos
<1>11. Fits(e)
  <2>1. /\ Used[pos] = Used[pos - 1] + Cost(e) /\ Used[pos] <= Used[N + 3]
        /\ Used[pos - 1] \in Nat /\ Used[N + 3] \in Nat
    <3>1. pos \in 0..(N + 3) /\ pos - 1 \in 0..(N + 3) /\ N + 3 \in 0..(N + 3)
      BY <1>2, <1>4
    <3> QED
      BY <1>2, <1>4, <3>1, UsedFacts
  <2>2. limits.client.decoded \in Nat /\ Block \in Nat
    BY <1>2 DEF InputsOK, Limit, TransferAssumption
  <2> HIDE DEF e
  <2>3. Used[pos - 1] + Occupied(e) <= limits.client.decoded
    BY <1>1, <1>6, <2>1, <2>2, SMTT(30)
  <2> QED
    <3>1. e.size <= limits.client.decoded - reader.total
      <4>1. reader.total <= Used[pos - 1] /\ reader.total \in Nat
        BY <1>1, <1>2
      <4>2. e.size <= Occupied(e) /\ Occupied(e) \in Nat /\ e.size \in Nat
        BY <1>6
      <4> QED
        BY <2>1, <2>2, <2>3, <4>1, <4>2
    <3>2. reader.decoded + Occupied(e) <= limits.client.decoded + 1
      BY <1>1, <1>6, <2>1, <2>2, <2>3
    <3> QED
      BY <3>1, <3>2 DEF Fits
<1> QED
  BY <1>4, <1>5, <1>10, <1>11

\* Nor the end of it.
LEMMA EndAccepted ==
    ASSUME TransferAssumption, TransferInv, WriterOK, CopyOK, client.pc = "validate", ~Excused,
           AtEnd
    PROVE  Drained /\ AllSegments /\ window
<1> DEFINE pos == reader.pos
           segs == reader.segs
<1>1. /\ Len(content) = N + 5 /\ \A k \in 1..(N + 5) : content[k] = Expected(k)
      /\ 2 * Block + Used[N + 3] <= limits.client.decoded
      /\ reader.decoded = Used[pos - 1] /\ window
  BY FullStream
<1>2. /\ N \in Nat /\ pos \in 1..(N + 5) /\ content[pos].name = "end"
      /\ Len(segs) \in Nat /\ Len(segs) <= N
      /\ IF reader.completed
         THEN pos = Len(segs) + 4 /\ reader.expected = N
         ELSE (pos <= 2 /\ Len(segs) = 0) \/ pos = Len(segs) + 3
  <2>1. InputsOK /\ reader \in Readers
    BY DEF TransferInv, ReaderOK
  <2>2. N \in Nat /\ pos \in Nat \ {0} /\ Len(segs) \in Nat
    BY <2>1, ItemFacts, LenProperties DEF Readers
  <2>3. pos \in 1..(N + 5) /\ content[pos].name = "end"
    BY <1>1, <2>2 DEF AtEnd
  <2> QED
    BY <2>2, <2>3 DEF TransferInv, ReaderOK
<1>3. /\ \A k \in 1..(N + 5) : Expected(k).name = "end" => k = N + 4
      /\ Expected(N + 5).name = "trailer"
  BY <1>2 DEF Expected, Manifest, Host, Segment, Complete, End, Trailer, Entry
<1>4. pos = N + 4
  BY <1>1, <1>2, <1>3
<1>5. AllSegments
  BY <1>2, <1>4 DEF AllSegments
<1>6. Drained
  <2>1. pos - 1 = N + 3 /\ pos + 1 = N + 5 /\ N + 5 \in 1..(N + 5)
    BY <1>2, <1>4
  <2>2. content[pos + 1].name = "trailer"
    BY <1>1, <1>3, <2>1
  <2>3. reader.decoded = Used[N + 3] /\ Used[N + 3] \in Nat /\ Block \in Nat
    <3>1. N + 3 \in 0..(N + 3) /\ InputsOK
      BY <1>2 DEF TransferInv
    <3> QED
      BY <1>1, <2>1, <3>1, UsedFacts DEF TransferAssumption
  <2>4. reader.decoded + 2 * Block <= limits.client.decoded
    BY <1>1, <2>3
  <2> QED
    BY <1>1, <2>1, <2>2, <2>4 DEF Drained
<1> QED
  BY <1>1, <1>5, <1>6

LEMMA CopyKept ==
    ASSUME TransferAssumption, TransferInv, WriterOK, CopyOK, [TransferNext]_transferVars
    PROVE  CopyOK'
<1>0. /\ UNCHANGED <<segments, window, limits>> /\ InputsOK /\ client \in Clients
      /\ Used' = Used /\ client.n \in Nat /\ content \in Seq(Items) /\ sent \in Seq(Items)
      /\ Len(sent) \in Nat /\ client.n <= Len(sent) /\ reader \in Readers
  <2>1. client \in Clients /\ content \in Seq(Items) /\ sent \in Seq(Items)
        /\ client.n <= Len(sent) /\ reader \in Readers
    BY DEF TransferInv, ItemsOK, ClientOK, ReaderOK
  <2> QED
    BY <2>1, InputsKept, Same, LenProperties DEF TransferInv, Clients
<1>00. Excused => Excused'
  BY ExcusedStays
<1>1. CASE client'.pc \notin {"copy", "validate"} /\ (client'.why = "validate" => Excused')
  BY <1>1 DEF CopyOK
<1>2. CASE UNCHANGED <<client, content, reader, sent, conn>>
  BY <1>0, <1>00, <1>2 DEF CopyOK
<1>3. CASE WriteCapture
  <2>1. UNCHANGED <<client, content, reader>>
    BY <1>3 DEF WriteCapture, WriteRefused, WriteEntry, WriteClose, WriteBroken
  <2>2. CASE client.pc = "validate"
    <3>1. conn # "closed"
      BY <1>3 DEF WriterOK, WriteCapture, WriteRefused, WriteEntry, WriteClose, WriteBroken
    <3>2. conn = "lost"
      BY <2>2, <3>1 DEF CopyOK
    <3>3. conn' = "lost"
      BY <1>3, <3>2 DEF WriteCapture, WriteRefused, WriteEntry, WriteClose, WriteBroken
    <3>4. sent' = sent
      BY <1>3, <3>2, SentGrows
    <3> QED
      BY <1>0, <2>1, <2>2, <3>3, <3>4 DEF CopyOK, Excused
  <2>3. CASE client.pc # "validate"
    <3>1. \A k \in 1..client.n : sent'[k] = sent[k]
      BY <1>0, <1>3, SentGrows
    <3> QED
      BY <1>00, <2>1, <2>3, <3>1 DEF CopyOK
  <2> QED
    BY <2>2, <2>3
<1>4. CASE DaemonStops
  <2>1. UNCHANGED <<client, content, reader>> /\ conn = "open" /\ conn' = "lost"
    BY <1>4 DEF DaemonStops
  <2>2. client.pc # "validate"
    BY <2>1 DEF CopyOK
  <2>3. \A k \in 1..client.n : sent'[k] = sent[k]
    BY <1>0, <1>4, SentCut
  <2> QED
    BY <1>00, <2>1, <2>2, <2>3 DEF CopyOK
<1>5. CASE Copy
  <2>1. /\ client.pc = "copy" /\ client.n < Len(sent) /\ UNCHANGED <<sent, reader, conn>>
        /\ content' = Append(content, sent[client.n + 1])
        /\ client' = [client EXCEPT !.n = client.n + 1]
    BY <1>5 DEF Copy
  <2>2. /\ client'.n = client.n + 1 /\ client'.pc = client.pc /\ client'.why = client.why
    BY <1>0, <2>1 DEF Clients
  <2>3. Len(content) = client.n /\ \A k \in 1..client.n : content[k] = sent[k]
    BY <2>1 DEF CopyOK
  <2>4. sent[client.n + 1] \in Items
    BY <1>0, <2>1, ElementOfSeq
  <2>5. /\ Len(content') = client.n + 1 /\ content'[client.n + 1] = sent[client.n + 1]
        /\ \A k \in 1..client.n : content'[k] = content[k]
    BY <1>0, <2>1, <2>3, <2>4, AppendProperties
  <2>6. \A k \in 1..(client.n + 1) : content'[k] = sent[k]
    BY <1>0, <2>3, <2>5
  <2> QED
    BY <1>00, <2>1, <2>2, <2>5, <2>6 DEF CopyOK
<1>6. CASE CopyDone
  <2>1. client.pc = "copy" /\ reader = Unread /\ UNCHANGED <<sent, content, reader, conn>>
    BY <1>6 DEF CopyDone, TransferInv, ClientOK
  <2>2. CASE client.n > limits.client.wire
    <3>1. client' = [client EXCEPT !.pc = "failed", !.why = "transport"]
      BY <1>6, <2>2 DEF CopyDone, Failed
    <3>2. client'.pc = "failed" /\ client'.why = "transport"
      BY <1>0, <3>1 DEF Clients
    <3> QED
      BY <1>1, <3>2
  <2>3. CASE ~(client.n > limits.client.wire)
    <3>1. /\ client' = [client EXCEPT !.pc = "validate"] /\ conn # "open" /\ client.n = Len(sent)
      BY <1>6, <2>3 DEF CopyDone
    <3>2. client'.pc = "validate" /\ client'.why = client.why /\ client'.n = client.n
      BY <1>0, <3>1 DEF Clients
    <3>3. client.why # "validate"
      BY <2>1 DEF TransferInv, ClientOK
    <3>4. reader'.result # "rejected" /\ reader'.decoded = Used'[reader'.pos - 1]
      <4>1. reader'.result = "reading" /\ reader'.pos = 1 /\ reader'.decoded = 0
        BY <2>1, UnreadFacts
      <4>2. Used'[0] = 0
        BY <1>0, UsedFacts
      <4> QED
        BY <4>1, <4>2
    <3>5. conn \in {"closed", "lost"}
      BY <3>1 DEF WriterOK
    <3> QED
      BY <1>0, <2>1, <3>1, <3>2, <3>3, <3>4, <3>5 DEF CopyOK
  <2> QED
    BY <2>2, <2>3
<1>7. CASE ReadEntry
  <2>1. /\ UNCHANGED <<client, content, sent, conn, writer>> /\ reader.result = "reading"
    BY <1>7 DEF ReadEntry, Reading
  <2>2. CASE client.pc # "validate" \/ Excused
    BY <1>00, <2>1, <2>2, Zenon DEF CopyOK, ReadEntry, Reading, TransferInv, ClientOK
  <2>3. CASE client.pc = "validate" /\ ~Excused
    <3>1. ~AtEnd
      BY <1>7 DEF ReadEntry
    <3>2. /\ reader.pos <= Len(content) /\ reader.pos \in 1..(N + 3)
          /\ InOrder(content[reader.pos]) /\ Fits(content[reader.pos])
          /\ content[reader.pos] = Expected(reader.pos)
      BY <2>3, <3>1, EntryAccepted
    <3>3. ~(reader.pos > Len(content))
      BY <1>0, <3>2, LenProperties
    <3> DEFINE e == content[reader.pos]
    <3>4. reader' = [reader EXCEPT
                     !.pos = @ + 1, !.decoded = @ + Occupied(e), !.total = @ + e.size,
                     !.seen = @ \cup {<<e.name, e.index>>},
                     !.segs = IF e.name = "segment" THEN Append(@, e.size) ELSE @,
                     !.completed = e.name = "complete",
                     !.expected = IF e.name = "complete" THEN e.index ELSE @]
      BY <1>7, <3>2, <3>3, Zenon DEF ReadEntry
    <3>5. /\ reader'.pos = reader.pos + 1 /\ reader'.decoded = reader.decoded + Occupied(e)
          /\ reader'.result = "reading"
      BY <1>0, <2>1, <3>4 DEF Readers
    <3>6. reader.decoded = Used[reader.pos - 1]
      BY <2>3, FullStream
    <3>7. Used[reader.pos] = Used[reader.pos - 1] + Cost(Expected(reader.pos))
      BY <1>0, <3>2, UsedFacts
    <3>8. Occupied(e) = Cost(Expected(reader.pos))
      BY <1>0, <3>2, ItemFacts, CostFacts
    <3>9. reader'.decoded = Used'[reader'.pos - 1]
      BY <1>0, <3>2, <3>5, <3>6, <3>7, <3>8
    <3> QED
      BY <1>00, <2>1, <2>3, <3>5, <3>9 DEF CopyOK
  <2> QED
    BY <2>2, <2>3
<1>8. CASE ReadEnd
  <2>1. /\ UNCHANGED <<client, content, sent, conn, writer>> /\ reader.result = "reading"
    BY <1>8 DEF ReadEnd, Reading
  <2>2. CASE client.pc # "validate" \/ Excused
    BY <1>00, <2>1, <2>2, Zenon DEF CopyOK, ReadEnd, Reading, TransferInv, ClientOK
  <2>3. CASE client.pc = "validate" /\ ~Excused
    <3>1. AtEnd
      BY <1>8 DEF ReadEnd
    <3>2. reader' = [reader EXCEPT !.result = "accepted"]
      BY <1>8, <2>3, <3>1, EndAccepted DEF ReadEnd
    <3>3. reader'.pos = reader.pos /\ reader'.decoded = reader.decoded /\ reader'.result = "accepted"
      BY <1>0, <3>2 DEF Readers
    <3> QED
      BY <1>00, <1>0, <2>1, <2>3, <3>3 DEF CopyOK
  <2> QED
    BY <2>2, <2>3
<1>9. CASE Aborted
  <2>1. PICK why \in {"cancelled", "deadline"} : client' = [client EXCEPT !.pc = "failed", !.why = why]
    BY <1>9 DEF Aborted, Failed
  <2>2. client'.pc = "failed" /\ client'.why = why
    BY <1>0, <2>1 DEF Clients
  <2> QED
    BY <1>1, <2>2
<1>10. CASE Validated
  <2>1. client.pc = "validate" /\ reader.result # "reading"
    BY <1>10 DEF Validated
  <2>2. CASE client' = [client EXCEPT !.pc = "sync"]
    <3>1. client'.pc = "sync" /\ client'.why = client.why
      BY <1>0, <2>2 DEF Clients
    <3> QED
      BY <1>1, <1>00, <3>1 DEF CopyOK
  <2>3. CASE Failed("validate") /\ reader.result # "accepted"
    <3>1. client'.pc = "failed"
      BY <1>0, <2>3 DEF Clients, Failed
    <3>2. reader.result = "rejected"
      BY <1>0, <1>10, <2>3 DEF Readers, Validated
    <3>3. Excused
      BY <1>10, <3>2 DEF CopyOK, Validated
    <3> QED
      BY <1>1, <1>00, <3>1, <3>3
  <2> QED
    BY <1>10, <2>2, <2>3 DEF Validated
<1>11. CASE Sync \/ LinkFile \/ SyncDirectory
  <2>1. \/ \E pc \in {"link", "sync_dir", "saved"} : client' = [client EXCEPT !.pc = pc]
        \/ \E why \in {"sync", "exists", "sync_dir"} :
              client' = [client EXCEPT !.pc = "failed", !.why = why]
    BY <1>11 DEF Sync, LinkFile, SyncDirectory, Failed
  <2>2. CASE \E pc \in {"link", "sync_dir", "saved"} : client' = [client EXCEPT !.pc = pc]
    <3>1. PICK pc \in {"link", "sync_dir", "saved"} : client' = [client EXCEPT !.pc = pc]
      BY <2>2
    <3>2. client'.pc = pc /\ client'.why = client.why
      BY <1>0, <3>1 DEF Clients
    <3> QED
      BY <1>1, <1>00, <3>1, <3>2 DEF CopyOK
  <2>3. CASE \E why \in {"sync", "exists", "sync_dir"} :
              client' = [client EXCEPT !.pc = "failed", !.why = why]
    <3>1. PICK why \in {"sync", "exists", "sync_dir"} :
              client' = [client EXCEPT !.pc = "failed", !.why = why]
      BY <2>3
    <3>2. client'.pc = "failed" /\ client'.why = why
      BY <1>0, <3>1 DEF Clients
    <3> QED
      BY <1>1, <3>1, <3>2
  <2> QED
    BY <2>1, <2>2, <2>3
<1>12. CASE Analyze
  <2>1. client'.pc = "analyze" /\ client'.why = client.why
    BY <1>0, <1>12 DEF Analyze, Clients
  <2> QED
    BY <1>1, <1>00, <2>1 DEF CopyOK
<1>13. CASE Cancel \/ Ended \/ UNCHANGED transferVars
  BY <1>2, <1>13 DEF Cancel, Ended, transferVars
<1> QED
  BY <1>3, <1>4, <1>5, <1>6, <1>7, <1>8, <1>9, <1>10, <1>11, <1>12, <1>13
  DEF TransferNext, Publish, Read

LEMMA DecodedKept ==
    ASSUME TransferAssumption, TransferInv, DecodedOK, [TransferNext]_transferVars
    PROVE  DecodedOK'
<1>0. UNCHANGED limits /\ reader \in Readers /\ limits.client.decoded \in Nat
  BY InputsKept DEF TransferInv, ReaderOK, InputsOK, Limit
<1>1. CASE UNCHANGED reader
  BY <1>0, <1>1 DEF DecodedOK
<1>2. CASE Reject
  <2>1. reader'.decoded = reader.decoded
    BY <1>0, <1>2 DEF Reject, Readers
  <2> QED
    BY <1>0, <2>1 DEF DecodedOK
<1>3. CASE ReadEntry
  <2>1. CASE ~Reject
    <3> DEFINE e == content[reader.pos]
    <3>1. /\ Fits(e)
          /\ reader' = [reader EXCEPT
                     !.pos = @ + 1, !.decoded = @ + Occupied(e), !.total = @ + e.size,
                     !.seen = @ \cup {<<e.name, e.index>>},
                     !.segs = IF e.name = "segment" THEN Append(@, e.size) ELSE @,
                     !.completed = e.name = "complete",
                     !.expected = IF e.name = "complete" THEN e.index ELSE @]
      BY <1>3, <2>1, Zenon DEF ReadEntry
    <3>2. reader'.decoded = reader.decoded + Occupied(e)
      BY <1>0, <3>1 DEF Readers
    <3> HIDE DEF e
    <3> QED
      BY <1>0, <3>1, <3>2 DEF Fits, DecodedOK
  <2> QED
    BY <1>2, <2>1
<1>4. CASE ReadEnd
  <2>1. CASE reader' = [reader EXCEPT !.result = "accepted"]
    <3>1. reader'.decoded = reader.decoded
      BY <1>0, <2>1 DEF Readers
    <3> QED
      BY <1>0, <3>1 DEF DecodedOK
  <2> QED
    BY <1>2, <1>4, <2>1 DEF ReadEnd
<1>5. CASE Analyze
  <2>1. reader'.decoded = 0
    BY <1>5, UnreadFacts DEF Analyze
  <2> QED
    BY <1>0, <2>1 DEF DecodedOK
<1>6. CASE WriteCapture
  BY <1>1, <1>6 DEF WriteCapture, WriteRefused, WriteEntry, WriteClose, WriteBroken
<1>7. CASE DaemonStops \/ Cancel \/ Ended \/ UNCHANGED transferVars
  BY <1>1, <1>7 DEF DaemonStops, Cancel, Ended, transferVars
<1>8. CASE Publish
  BY <1>1, <1>8 DEF Publish, Copy, CopyDone, Aborted, Validated, Sync, LinkFile, SyncDirectory
<1> QED
  BY <1>3, <1>4, <1>5, <1>6, <1>7, <1>8 DEF TransferNext, Read

-----------------------------------------------------------------------------
LEMMA TransferStart ==
    ASSUME TransferAssumption, TransferInit
    PROVE  LimitsInv
<1>1. InputsOK
  <2>1. segments \in Seq(SegmentSizes)
    <3>1. PICK n \in 0..MaxSegments : segments \in [1..n -> SegmentSizes]
      BY DEF TransferInit
    <3> QED
      BY <3>1 DEF TransferAssumption
  <2>2. Limit(limits.server) /\ Limit(limits.client)
    BY DEF TransferInit, TransferAssumption, Limit
  <2> QED
    BY <2>1, <2>2 DEF InputsOK
<1>2. /\ N \in Nat /\ Block \in Nat /\ Used[0] = 0
      /\ limits.client.wire \in Nat /\ limits.client.decoded \in Nat
  BY <1>1, ItemFacts, UsedFacts DEF InputsOK, Limit, TransferAssumption
<1>3. /\ writer = [pc |-> "entries", i |-> 1, total |-> 2 * Block, err |-> FALSE]
      /\ sent = <<>> /\ content = <<>> /\ conn = "open" /\ reader = Unread
      /\ client = [pc |-> "copy", why |-> "none", n |-> 0]
      /\ destination \in {"absent", "other"}
  BY DEF TransferInit
<1>4. ItemsOK
  BY <1>2, <1>3 DEF ItemsOK, Writers
<1>5. ClientOK
  BY <1>2, <1>3 DEF ClientOK, Clients
<1>6. ReaderOK
  <2>1. /\ Unread \in Readers /\ Unread.pos = 1 /\ Unread.decoded = 0 /\ Unread.total = 0
        /\ Unread.segs = <<>> /\ ~Unread.completed /\ Unread.result = "reading"
        /\ Unread.seen = {} /\ IsFiniteSet(Unread.seen) /\ Cardinality(Unread.seen) = 0
        /\ {<<content[k].name, content[k].index>> : k \in 1..0} = {}
    BY UnreadFacts
  <2> QED
    BY <1>2, <1>3, <2>1 DEF ReaderOK
<1>7. WriterOK
  BY <1>2, <1>3 DEF WriterOK
<1>8. CopyOK
  BY <1>3 DEF CopyOK
<1>9. DecodedOK
  BY <1>2, <1>3, UnreadFacts DEF DecodedOK
<1> QED
  BY <1>1, <1>4, <1>5, <1>6, <1>7, <1>8, <1>9 DEF LimitsInv, TransferInv

LEMMA TransferInductive ==
    ASSUME TransferAssumption
    PROVE  TransferSpec => []LimitsInv
<1>1. TransferInit => LimitsInv
  BY TransferStart
<1>2. LimitsInv /\ [TransferNext]_transferVars => LimitsInv'
  BY TransferInvKept, WriterKept, CopyKept, DecodedKept DEF LimitsInv
<1> QED
  BY <1>1, <1>2, PTL DEF TransferSpec

LEMMA TransferSteps ==
    ASSUME TransferAssumption, LimitsInv, LimitsInv', [TransferNext]_transferVars
    PROVE  [TransferStep]_transferVars
<1>0. TransferInv /\ TransferInv' /\ client \in Clients
  BY DEF LimitsInv, TransferInv, ClientOK
<1>1. CASE UNCHANGED transferVars
  BY <1>1
<1>2. FailureLeavesNothing
  <2>1. CASE LinkFile
    <3>1. destination' # destination => /\ destination = "absent" /\ ~cancelled
                                       /\ client' = [client EXCEPT !.pc = "sync_dir"]
      BY <2>1 DEF LinkFile
    <3> QED
      BY <1>0, <3>1 DEF FailureLeavesNothing, Clients
  <2>2. CASE UNCHANGED destination
    BY <2>2 DEF FailureLeavesNothing
  <2>3. CASE WriteCapture
    BY <2>2, <2>3 DEF WriteCapture, WriteRefused, WriteEntry, WriteClose, WriteBroken
  <2>4. CASE DaemonStops \/ Cancel \/ Read \/ Analyze \/ Ended \/ UNCHANGED transferVars
    BY <2>2, <2>4 DEF DaemonStops, Cancel, Read, ReadEntry, ReadEnd, Analyze, Ended, transferVars
  <2>5. CASE Copy \/ CopyDone \/ Aborted \/ Validated \/ Sync \/ SyncDirectory
    BY <2>2, <2>5 DEF Copy, CopyDone, Aborted, Validated, Sync, SyncDirectory
  <2> QED
    BY <2>1, <2>3, <2>4, <2>5 DEF TransferNext, Publish
<1>3. (PublishedWhole /\ AcceptedExact)'
  <2>1. ClientOK' /\ ReaderOK'
    BY <1>0 DEF TransferInv
  <2> QED
    BY <2>1 DEF ClientOK, ReaderOK, PublishedWhole, AcceptedExact
<1> QED
  BY <1>2, <1>3 DEF TransferStep

(* PublishWithContext, Container.Write and Container.Read: however much of *)
(* a capture the daemon wrote, the connection took or the command read,    *)
(* whatever was repacked later, and whichever call failed, the destination *)
(* changes only from a free name to a capture the reader accepted, and     *)
(* what it accepts are the segments that were written, all and in order.   *)
THEOREM TransferPublishesWhole ==
    ASSUME TransferAssumption
    PROVE  TransferSpec => TransferAtomic
<1>1. TransferSpec => []LimitsInv
  BY TransferInductive
<1>2. LimitsInv /\ LimitsInv' /\ [TransferNext]_transferVars => [TransferStep]_transferVars
  BY TransferSteps
<1> QED
  BY <1>1, <1>2, PTL DEF TransferSpec, TransferAtomic

(* boundedWriter and the reader's limits (capture.go): a capture that the  *)
(* writer completes within its limits is never rejected by a reader with   *)
(* the same or wider ones, and a reader decodes at most a byte more than   *)
(* its own limit, of any capture and of any repacked file.                 *)
THEOREM TransferLimitsAgree ==
    ASSUME TransferAssumption
    PROVE  TransferSpec => []LimitsAgree
<1>1. TransferSpec => []LimitsInv
  BY TransferInductive
<1>2. LimitsInv => LimitsAgree
  <2> SUFFICES ASSUME LimitsInv PROVE LimitsAgree
    OBVIOUS
  <2>1. TransferTypeOK
    <3>1. writer \in Writers /\ reader \in Readers
      BY DEF LimitsInv, TransferInv, ItemsOK, ReaderOK
    <3>2. /\ client.n <= Len(sent) /\ client.n <= limits.client.wire + 1
          /\ destination \in {"absent", "other", "capture"}
      BY DEF LimitsInv, TransferInv, ClientOK
    <3>3. conn \in {"open", "closed", "lost"}
      BY DEF LimitsInv, WriterOK
    <3> QED
      BY <3>1, <3>2, <3>3 DEF TransferTypeOK, Writers, Readers
  <2>2. WrittenReadable
    BY DEF LimitsInv, CopyOK, Excused, WrittenReadable
  <2>3. DecodedBounded
    BY DEF LimitsInv, DecodedOK, DecodedBounded
  <2> QED
    BY <2>1, <2>2, <2>3 DEF LimitsAgree
<1> QED
  BY <1>1, <1>2, PTL
=============================================================================
