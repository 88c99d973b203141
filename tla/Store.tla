------------------------------- MODULE Store -------------------------------
(***************************************************************************)
(* Publication and rotation of automatic captures in one directory         *)
(* (internal/autocapture/store.go with the publication half of             *)
(* internal/capture/capture.go).  Several daemons share the directory; a   *)
(* shipper removes or rewrites published captures without taking the lock; *)
(* a daemon may die at any step and the machine may lose power.            *)
(*                                                                         *)
(* A capture is its number, in order of creation; sizes are in units of    *)
(* one Write call.  durable is what the storage device is known to hold.   *)
(***************************************************************************)
EXTENDS Integers, FiniteSets

CONSTANTS
    Daemons, NoDaemon,
    MaxFiles, MaxStorage, MaxCaptureBytes,   \* the configured limits
    Sizes,            \* bound: encoded sizes of the captures to save
    Existing,         \* bound: captures an earlier configuration may have left
    MaxSaves,         \* bound: captures staged
    MaxFaults         \* bound: deaths, power losses and shipper actions

(* What the configuration guarantees.                                      *)
StoreAssumption ==
    /\ MaxFiles \in Nat \ {0} /\ MaxStorage \in Nat \ {0} /\ MaxCaptureBytes \in Nat \ {0}
    /\ Sizes \subseteq Nat \ {0} /\ Existing \in Nat /\ MaxSaves \in Nat /\ MaxFaults \in Nat
    /\ NoDaemon \notin Daemons

VARIABLES
    disk,      \* directory entries and the files they name
    durable,   \* the same, as a power loss would at least find it
    lock,      \* holder of the flock on .lock
    proc,      \* each daemon's Save in progress
    issued,    \* captures staged so far
    reported,  \* history: captures whose path Save returned
    gone,      \* history: captures removed by rotation or by the shipper
    faults     \* deaths, power losses and shipper actions so far

vars == <<disk, durable, lock, proc, issued, reported, gone, faults>>

Captures == 1..(Existing + MaxSaves)
Final(n) == <<"final", n>>
Partial(n) == <<"partial", n>>
Entries == {Final(n) : n \in Captures} \cup {Partial(n) : n \in Captures}
Finals(d) == {n \in Captures : Final(n) \in DOMAIN d}
File == [size : Nat, complete : BOOLEAN, synced : BOOLEAN, modified : Nat]
With(d, e, f) == [x \in DOMAIN d \cup {e} |-> IF x = e THEN f ELSE d[x]]
Without(d, e) == [x \in DOMAIN d \ {e} |-> d[x]]
(* The sum of the files' sizes: the number of their units.                 *)
Bytes(ns) == Cardinality(UNION {{<<n, i>> : i \in 1..disk[Final(n)].size} : n \in ns})

\* err: the rotation failed; repair: the rotation precedes the new capture.
Idle == [pc |-> "idle", todo |-> {}, files |-> {}, total |-> 0, name |-> 0, size |-> 0,
         written |-> 0, repair |-> FALSE, removed |-> FALSE, err |-> FALSE]

Init ==
    /\ \E k \in 0..Existing :
         disk = [e \in {Final(n) : n \in 1..k} |->
                   [size |-> 1, complete |-> TRUE, synced |-> TRUE, modified |-> e[2]]]
    /\ durable = disk
    /\ lock = NoDaemon
    /\ proc = [d \in Daemons |-> Idle]
    /\ issued = 0 /\ reported = {} /\ gone = {} /\ faults = 0

(* Save returns: its deferred Closes release the lock.                     *)
Leave(d) == proc' = [proc EXCEPT ![d] = Idle] /\ lock' = NoDaemon

-----------------------------------------------------------------------------
(* The checks before the lock, LOCK_NB, and the listing of the directory:  *)
(* an entry that vanishes later is skipped by ScanEntry.                   *)
Lock(d) ==
    /\ proc[d].pc = "idle" /\ lock = NoDaemon
    /\ lock' = d
    /\ proc' = [proc EXCEPT ![d] = [Idle EXCEPT !.pc = "scan", !.todo = DOMAIN disk]]
    /\ UNCHANGED <<disk, durable, issued, reported, gone, faults>>

(* An invalid incident, a cancelled context, an unusable directory or a    *)
(* busy lock.                                                              *)
Refuse(d) == proc[d].pc = "idle" /\ UNCHANGED vars

(* A published capture that is still there when scan examines it becomes a *)
(* storedFile.                                                             *)
Present(e) == e \in DOMAIN disk /\ e[1] = "final"
Scanned(e) == [name |-> e[2], size |-> disk[e].size, modified |-> disk[e].modified]

ScanEntry(d, e) ==
    /\ proc[d].pc = "scan" /\ e \in proc[d].todo
    /\ proc' = [proc EXCEPT
           ![d].todo = @ \ {e},
           ![d].files = IF Present(e) THEN @ \cup {Scanned(e)} ELSE @,
           ![d].total = IF Present(e) THEN @ + Scanned(e).size ELSE @]
    /\ disk' = IF e[1] = "partial" THEN Without(disk, e) ELSE disk
    /\ UNCHANGED <<durable, lock, issued, reported, gone, faults>>

Exceeded(n, total) == n > MaxFiles \/ total > MaxStorage

(* The end of scan; an already exceeded quota is repaired first.           *)
ScanDone(d) ==
    LET over == Exceeded(Cardinality(proc[d].files), proc[d].total)
    IN  /\ proc[d].pc = "scan" /\ proc[d].todo = {}
        /\ proc' = [proc EXCEPT ![d].repair = over, ![d].pc = IF over THEN "rotate" ELSE "create"]
        /\ UNCHANGED <<disk, durable, lock, issued, reported, gone, faults>>

-----------------------------------------------------------------------------
(* rotate.                                                                 *)

(* scan's sort, and the first of the sorted files.                         *)
Older(a, b) == a.modified < b.modified \/ (a.modified = b.modified /\ a.name < b.name)
Oldest(p, f) == f \in p.files /\ \A g \in p.files \ {f} : Older(f, g)

Incoming(p) == IF p.repair THEN 0 ELSE 1
Added(p) == IF p.repair THEN 0 ELSE p.written

(* Mutant: the incoming file is not counted.                               *)
OverIgnoringIncoming(p) ==
    Cardinality(p.files) > MaxFiles \/ p.total > MaxStorage \/ Added(p) > MaxStorage - p.total

(* The loop's condition.                                                   *)
Over(p) ==
    \/ Cardinality(p.files) > MaxFiles - Incoming(p)
    \/ p.total > MaxStorage
    \/ Added(p) > MaxStorage - p.total

Debited(p, f) == [p EXCEPT !.total = @ - f.size, !.files = @ \ {f}]

(* Lstat of the oldest file: it has vanished, it is the one scanned, or it *)
(* has changed (or cannot be examined).                                    *)
RotateMissing(d, old) ==
    /\ proc[d].pc = "rotate" /\ Over(proc[d]) /\ Oldest(proc[d], old)
    /\ Final(old.name) \notin DOMAIN disk
    /\ proc' = [proc EXCEPT ![d] = Debited(@, old)]
    /\ UNCHANGED <<disk, durable, lock, issued, reported, gone, faults>>

RotateStat(d, old) ==
    /\ proc[d].pc = "rotate" /\ Over(proc[d]) /\ Oldest(proc[d], old)
    /\ Final(old.name) \in DOMAIN disk
    /\ Scanned(Final(old.name)) = old
    /\ proc' = [proc EXCEPT ![d].pc = "remove"]
    /\ UNCHANGED <<disk, durable, lock, issued, reported, gone, faults>>

RotateError(d) ==
    /\ proc[d].pc \in {"rotate", "remove"} /\ Over(proc[d]) /\ proc[d].files # {}
    /\ proc' = [proc EXCEPT ![d].pc = "rotated", ![d].err = TRUE]
    /\ UNCHANGED <<disk, durable, lock, issued, reported, gone, faults>>

(* Remove, which a file that has vanished since Lstat does not fail.       *)
RotateRemove(d, old) ==
    /\ proc[d].pc = "remove" /\ Oldest(proc[d], old)
    /\ disk' = Without(disk, Final(old.name))
    /\ gone' = gone \cup {old.name}
    /\ proc' = [proc EXCEPT ![d] = [Debited(@, old) EXCEPT !.pc = "rotate", !.removed = TRUE]]
    /\ UNCHANGED <<durable, lock, issued, reported, faults>>

RotateEnd(d) ==
    /\ proc[d].pc = "rotate" /\ (Over(proc[d]) => proc[d].files = {})
    /\ proc' = [proc EXCEPT ![d].pc = "rotated", ![d].err = Over(proc[d])]
    /\ UNCHANGED <<disk, durable, lock, issued, reported, gone, faults>>

(* The directory is synced when something was removed; after a repair Save *)
(* goes on or refuses the capture, after a publication it returns the path.*)
RotateSynced(d, synced) ==
    LET failed == proc[d].err \/ (proc[d].removed /\ ~synced) IN
    /\ proc[d].pc = "rotated"
    /\ durable' = IF proc[d].removed /\ synced THEN disk ELSE durable
    /\ IF proc[d].repair /\ ~failed
       THEN /\ proc' = [proc EXCEPT ![d].pc = "create", ![d].repair = FALSE, ![d].removed = FALSE]
            /\ UNCHANGED <<lock, reported>>
       ELSE /\ Leave(d)
            /\ reported' = IF proc[d].repair THEN reported ELSE reported \cup {proc[d].name}
    /\ UNCHANGED <<disk, issued, gone, faults>>

-----------------------------------------------------------------------------
(* PublishInRootWithLimits.                                                *)

Create(d, size) ==
    /\ proc[d].pc = "create" /\ issued < MaxSaves
    /\ issued' = issued + 1
    /\ disk' = With(disk, Partial(Existing + issued'),
                    [size |-> 0, complete |-> FALSE, synced |-> FALSE, modified |-> Existing + issued'])
    /\ proc' = [proc EXCEPT ![d].pc = "write", ![d].name = Existing + issued', ![d].size = size]
    /\ UNCHANGED <<durable, lock, reported, gone, faults>>

MaxFile == IF MaxStorage < MaxCaptureBytes THEN MaxStorage ELSE MaxCaptureBytes

(* storageWriter.Write: one unit, within the single-file limit.            *)
Write(d) ==
    LET e == Partial(proc[d].name) IN
    /\ proc[d].pc = "write" /\ proc[d].written < proc[d].size /\ proc[d].written < MaxFile
    /\ disk' = [disk EXCEPT ![e].size = @ + 1, ![e].complete = (proc[d].written + 1 = proc[d].size)]
    /\ proc' = [proc EXCEPT ![d].written = @ + 1]
    /\ UNCHANGED <<durable, lock, issued, reported, gone, faults>>

(* finishPublication: the reader accepts the file, which is then synced.   *)
Validate(d) ==
    LET e == Partial(proc[d].name) IN
    /\ proc[d].pc = "write" /\ disk[e].complete
    /\ disk' = [disk EXCEPT ![e].synced = TRUE]
    /\ proc' = [proc EXCEPT ![d].pc = "link"]
    /\ UNCHANGED <<durable, lock, issued, reported, gone, faults>>

Link(d) ==
    /\ proc[d].pc = "link"
    /\ disk' = With(disk, Final(proc[d].name), disk[Partial(proc[d].name)])
    /\ proc' = [proc EXCEPT ![d].pc = "dirsync"]
    /\ UNCHANGED <<durable, lock, issued, reported, gone, faults>>

(* The deferred Remove of the partial; its error is ignored.               *)
Unstaged(d) == {disk, Without(disk, Partial(proc[d].name))}

(* A cancelled context, a full disk, the single-file limit, an I/O error,  *)
(* or, after the link, a directory that cannot be synced.                  *)
Fail(d) ==
    /\ proc[d].pc \in {"scan", "create", "write", "link", "dirsync"}
    /\ disk' \in Unstaged(d)
    /\ Leave(d)
    /\ UNCHANGED <<durable, issued, reported, gone, faults>>

(* Mutant: the new name is not synced before files are removed for it.     *)
PublishedUnsynced(d) ==
    /\ proc[d].pc = "dirsync"
    /\ disk' \in Unstaged(d)
    /\ proc' = [proc EXCEPT ![d].pc = "rotate"]
    /\ UNCHANGED <<durable, lock, issued, reported, gone, faults>>

Published(d) ==
    /\ proc[d].pc = "dirsync"
    /\ durable' = disk
    /\ disk' \in Unstaged(d)
    /\ proc' = [proc EXCEPT ![d].pc = "rotate"]
    /\ UNCHANGED <<lock, issued, reported, gone, faults>>

-----------------------------------------------------------------------------
(* The environment.                                                        *)

Die(d) ==
    /\ faults < MaxFaults /\ proc[d].pc # "idle"
    /\ Leave(d)
    /\ faults' = faults + 1
    /\ UNCHANGED <<disk, durable, issued, reported, gone>>

(* What a power loss leaves of a file: unsynced contents are torn.         *)
Torn(f) == [f EXCEPT !.complete = @ /\ f.synced, !.synced = TRUE]

(* An unsynced change of the directory is kept or not.                     *)
PowerLoss ==
    /\ faults < MaxFaults
    /\ \E unsure \in SUBSET ((DOMAIN disk \ DOMAIN durable) \cup (DOMAIN durable \ DOMAIN disk)) :
         disk' = [e \in (DOMAIN disk \cap DOMAIN durable) \cup unsure |->
                    Torn(IF e \in DOMAIN disk THEN disk[e] ELSE durable[e])]
    /\ durable' = disk'
    /\ proc' = [d \in Daemons |-> Idle] /\ lock' = NoDaemon
    /\ faults' = faults + 1
    /\ UNCHANGED <<issued, reported, gone>>

Ship(n) ==
    /\ faults < MaxFaults /\ n \in Finals(disk)
    /\ disk' = Without(disk, Final(n))
    /\ gone' = gone \cup {n}
    /\ faults' = faults + 1
    /\ UNCHANGED <<durable, lock, proc, issued, reported>>

(* A capture replaced by one that is no larger, with a later time or with  *)
(* the same one; one that grows may exceed the quota by itself.            *)
Smaller(n) == 1..(disk[Final(n)].size - 1)
Replaced(n, size, modified) ==
    disk' = [disk EXCEPT ![Final(n)] = [@ EXCEPT !.size = size, !.modified = modified]]

Rewrite(n) ==
    /\ faults < MaxFaults /\ n \in Finals(disk)
    /\ LET f == disk[Final(n)]
           now == Existing + MaxSaves + 1
       IN  \/ Replaced(n, f.size, now)
           \/ \E size \in Smaller(n), modified \in {f.modified, now} : Replaced(n, size, modified)
    /\ faults' = faults + 1
    /\ UNCHANGED <<durable, lock, proc, issued, reported, gone>>

Save(d) ==
    \/ Refuse(d) \/ Lock(d) \/ ScanDone(d) \/ Fail(d)
    \/ \E e \in Entries : ScanEntry(d, e)
    \/ \E old \in proc[d].files : RotateMissing(d, old) \/ RotateStat(d, old) \/ RotateRemove(d, old)
    \/ RotateError(d) \/ RotateEnd(d)
    \/ \E synced \in BOOLEAN : RotateSynced(d, synced)
    \/ \E size \in Sizes : Create(d, size)
    \/ Write(d) \/ Validate(d) \/ Link(d) \/ Published(d)

Next ==
    \/ \E d \in Daemons : Save(d) \/ Die(d)
    \/ PowerLoss
    \/ \E n \in Captures : Ship(n) \/ Rewrite(n)

Spec == Init /\ [][Next]_vars

-----------------------------------------------------------------------------
(* The directory, the Saves and the histories have their types.            *)
TypeOK ==
    /\ \A d \in {disk, durable} : DOMAIN d \subseteq Entries /\ \A e \in DOMAIN d : d[e] \in File
    /\ lock \in Daemons \cup {NoDaemon}
    /\ \A d \in Daemons :
         /\ proc[d].pc \in {"idle", "scan", "create", "write", "link", "dirsync",
                            "rotate", "remove", "rotated"}
         /\ proc[d].todo \subseteq Entries /\ proc[d].total \in Nat
    /\ issued \in 0..MaxSaves /\ reported \subseteq Captures /\ gone \subseteq Captures

Staging(d) == proc[d].pc \in {"create", "write", "link", "dirsync"}
Partials == {n \in Captures : Partial(n) \in DOMAIN disk}

(* A rotation that ends without an error leaves the directory within both  *)
(* quotas, whatever the shipper did meanwhile.                             *)
QuotaRestored ==
    \A d \in Daemons :
        proc[d].pc = "rotated" /\ ~proc[d].err =>
            ~Exceeded(Cardinality(Finals(disk)), Bytes(Finals(disk)))

(* Store.save: "A previous post-publication rotation failure must not      *)
(* accumulate files."  A new capture is staged and linked only while the   *)
(* others are within the quotas, so the excess is never more than one.     *)
NoAccumulation ==
    \A d \in Daemons :
        Staging(d) =>
            LET others == Finals(disk) \ {proc[d].name}
            IN  ~Exceeded(Cardinality(others), Bytes(others))

(* The flock keeps the scan of one daemon from the live partial of another.*)
LivePartialKept ==
    \A d \in Daemons :
        proc[d].pc \in {"write", "link", "dirsync"} => proc[d].name \in Partials

(* The partials of dead daemons do not pile up: once a scan is over, the   *)
(* only one left is its own.                                               *)
OrphansCollected ==
    \A d \in Daemons :
        proc[d].pc \notin {"idle", "scan"} => Partials \subseteq {proc[d].name}

(* Every published name holds a complete capture, after a power loss too.  *)
PublishedComplete == \A n \in Finals(disk) : disk[Final(n)].complete

(* rotate: "Rotate only after the replacement is valid and published."     *)
(* While files are removed to make room for a capture, that capture would  *)
(* survive a power loss, or the shipper has already taken it.              *)
ReplacementDurable ==
    \A d \in Daemons :
        proc[d].pc \in {"rotate", "remove", "rotated"} /\ ~proc[d].repair =>
            \/ proc[d].name \in gone
            \/ /\ proc[d].name \in Finals(disk) \cap Finals(durable)
               /\ durable[Final(proc[d].name)].complete

(* A capture whose path Save returned stays until rotation or the shipper  *)
(* removes it.                                                             *)
ReportedSurvives == reported \subseteq Finals(disk) \cup gone

(* The directory stays within its quotas but for the capture being saved,  *)
(* and holds no partial that nobody is writing, across failed rotations,   *)
(* deaths and a shipper that takes no lock.                                *)
StorageBounded == TypeOK /\ QuotaRestored /\ NoAccumulation /\ OrphansCollected

(* No crash, failed sync or other daemon costs a published capture: names  *)
(* hold complete captures, and older ones are removed only for one that is *)
(* durable.                                                                *)
PublicationDurable ==
    PublishedComplete /\ LivePartialKept /\ ReplacementDurable /\ ReportedSurvives
=============================================================================
