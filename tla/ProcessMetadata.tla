--------------------------- MODULE ProcessMetadata ---------------------------
(***************************************************************************)
(* The process metadata resolver of one sensor reader                      *)
(* (internal/process/metadata.go): a bounded LRU cache keyed by process    *)
(* identity and cgroup, filled from three separate reads of /proc while    *)
(* processes exit, move to other cgroups, and have their PIDs reused, and  *)
(* while any read may fail.                                                *)
(***************************************************************************)
EXTENDS Integers, Sequences, SequencesExt

CONSTANTS
    Pids,       \* process ids
    Paths,      \* cgroups, by their path
    LongPaths,  \* those of them longer than MetadataPathBytes
    Limit,      \* MetadataEntries
    Tick,       \* procStartTickNS
    MaxTime,    \* bound: time
    MaxPending  \* bound: details waiting in the ring

(* The empty path: of a process whose cgroup could not be resolved.        *)
NoPath == "none"

(* What the configuration guarantees.                                      *)
MetadataAssumption ==
    /\ LongPaths \subseteq Paths /\ NoPath \notin Paths
    /\ {Limit, Tick, MaxTime, MaxPending} \subseteq Nat \ {0}

VARIABLES
    now,      \* boot time
    procs,    \* the live process of each pid: start and cgroup; start 0: none
    was,      \* history: the cgroups each process has been in
    steady,   \* history: processes that have neither exited nor moved
    unified,  \* the host has the cgroup v2 hierarchy, for good
    pending,  \* details in the ring, by their identity
    lru,      \* the cache, most recently used first
    enrich,   \* Enrich in progress
    failures, \* Resolver.Failures: the keys counted, each with the reason
    out,      \* the last detail handed on
    cancelled \* the sensor's context

vars == <<now, procs, was, steady, unified, pending, lru, enrich, failures, out, cancelled>>

Idle == [pc |-> "idle", key |-> [pid |-> 0, start |-> 0, cgroup |-> NoPath], before |-> 0, path |-> NoPath]
Nothing == [key |-> Idle.key, path |-> NoPath]
Identity(key) == <<key.pid, key.start>>

Init ==
    /\ now = Tick
    /\ procs = [p \in Pids |-> [start |-> 0, cgroup |-> NoPath]]
    /\ was = {} /\ steady = {}
    /\ unified \in BOOLEAN
    /\ pending = <<>> /\ lru = <<>> /\ enrich = Idle
    /\ failures = {} /\ out = Nothing
    /\ cancelled = FALSE

-----------------------------------------------------------------------------
(* The host.  A PID is not reused within the tick of its last start.       *)
Fork(p, c) ==
    /\ procs[p].start = 0
    /\ \A q \in was : q[1] = p => q[2] \div Tick < now \div Tick
    /\ procs' = [procs EXCEPT ![p] = [start |-> now, cgroup |-> c]]
    /\ was' = was \cup {<<p, now, c>>} /\ steady' = steady \cup {<<p, now>>}
    /\ UNCHANGED <<now, unified, pending, lru, enrich, failures, out, cancelled>>

Exit(p) ==
    /\ procs[p].start # 0
    /\ procs' = [procs EXCEPT ![p].start = 0]
    /\ steady' = steady \ {<<p, procs[p].start>>}
    /\ UNCHANGED <<now, was, unified, pending, lru, enrich, failures, out, cancelled>>

Move(p, c) ==
    /\ procs[p].start # 0 /\ procs[p].cgroup # c
    /\ procs' = [procs EXCEPT ![p].cgroup = c]
    /\ was' = was \cup {<<p, procs[p].start, c>>}
    /\ steady' = steady \ {<<p, procs[p].start>>}
    /\ UNCHANGED <<now, unified, pending, lru, enrich, failures, out, cancelled>>

Pass == now < MaxTime /\ now' = now + 1
        /\ UNCHANGED <<procs, was, steady, unified, pending, lru, enrich, failures, out, cancelled>>

(* A sensor reports a detail of a live process.                            *)
Detail(p) ==
    /\ procs[p].start # 0 /\ Len(pending) < MaxPending
    /\ pending' = Append(pending, [pid |-> p, start |-> procs[p].start, cgroup |-> procs[p].cgroup])
    /\ UNCHANGED <<now, procs, was, steady, unified, lru, enrich, failures, out, cancelled>>

Cancel == ~cancelled /\ cancelled' = TRUE
          /\ UNCHANGED <<now, procs, was, steady, unified, pending, lru, enrich, failures, out>>

-----------------------------------------------------------------------------
(* The sensor's sink.                                                      *)

Cached(key) == {i \in 1..Len(lru) : lru[i].key = key}

(* After Enrich the sink hands the detail on, unless it is cancelled.      *)
Handed(key, path) == out' = IF cancelled THEN out ELSE [key |-> key, path |-> path]

Hit ==
    /\ enrich.pc = "idle" /\ pending # <<>> /\ ~cancelled
    /\ \E i \in Cached(Head(pending)) :
          /\ lru' = <<lru[i]>> \o RemoveAt(lru, i)
          /\ Handed(lru[i].key, lru[i].path)
    /\ pending' = Tail(pending)
    /\ UNCHANGED <<now, procs, was, steady, unified, enrich, failures, cancelled>>

Miss ==
    /\ enrich.pc = "idle" /\ pending # <<>> /\ ~cancelled
    /\ Cached(Head(pending)) = {}
    /\ enrich' = [Idle EXCEPT !.pc = "before", !.key = Head(pending)]
    /\ pending' = Tail(pending)
    /\ UNCHANGED <<now, procs, was, steady, unified, lru, failures, out, cancelled>>

Skip ==
    /\ enrich.pc = "idle" /\ pending # <<>> /\ cancelled
    /\ pending' = Tail(pending)
    /\ UNCHANGED <<now, procs, was, steady, unified, lru, enrich, failures, out, cancelled>>

Evicted(s) == SubSeq(s, 1, IF Len(s) > Limit THEN Limit ELSE Len(s))

(* resolve returns; a failure is counted, and cached as an empty path.     *)
Resolved(path, reasons) ==
    /\ lru' = Evicted(<<[key |-> enrich.key, path |-> path]>> \o lru)
    /\ failures' = failures \cup {<<enrich.key, why>> : why \in reasons}
    /\ Handed(enrich.key, path)
    /\ enrich' = Idle
    /\ UNCHANGED <<now, procs, was, steady, unified, pending, cancelled>>

(* resolve goes on to the next read.                                       *)
ReadOn(progress) ==
    /\ enrich' = progress
    /\ UNCHANGED <<now, procs, was, steady, unified, pending, lru, failures, out, cancelled>>

(* Any read may fail, that of a process that is alive too.                 *)
ReadFails == enrich.pc # "idle" /\ Resolved(NoPath, {"read"})

\* A read of /proc/<pid>/stat: the start time in ticks; -1: no such process.
Stat(p) == IF procs[p].start = 0 THEN -1 ELSE procs[p].start \div Tick

SameStart(k, ticks) == ticks = k.start \div Tick

StatBefore ==
    /\ enrich.pc = "before"
    /\ \/ /\ SameStart(enrich.key, Stat(enrich.key.pid))
          /\ ReadOn([enrich EXCEPT !.pc = "cgroup", !.before = Stat(enrich.key.pid)])
       \/ /\ ~SameStart(enrich.key, Stat(enrich.key.pid))
          /\ Resolved(NoPath, {"gone"})

(* The file names the controllers' cgroups, and on the unified hierarchy   *)
(* the one that is looked for, which it gives until it is parsed.          *)
ReadCgroup ==
    /\ enrich.pc = "cgroup"
    /\ \/ /\ Stat(enrich.key.pid) # -1
          /\ ReadOn([enrich EXCEPT !.pc = "after", !.path = procs[enrich.key.pid].cgroup])
       \/ Stat(enrich.key.pid) = -1 /\ Resolved(NoPath, {"gone"})

(* Mutant: the process is not looked at again after its cgroup was read.   *)
UnchangedSinceAssumed == TRUE

UnchangedSince == enrich.before = Stat(enrich.key.pid)

(* A file without the line of the unified hierarchy is no failure.         *)
StatAfter ==
    /\ enrich.pc = "after"
    /\ \/ ~UnchangedSince /\ Resolved(NoPath, {"gone"})
       \/ UnchangedSince /\ ~unified /\ Resolved(NoPath, {})
       \/ /\ UnchangedSince /\ unified
          /\ \/ enrich.path \in LongPaths /\ Resolved(NoPath, {"long"})
             \/ enrich.path \notin LongPaths /\ Resolved(enrich.path, {})

-----------------------------------------------------------------------------
Host ==
    \/ \E p \in Pids, c \in Paths : Fork(p, c) \/ Move(p, c)
    \/ \E p \in Pids : Exit(p) \/ Detail(p)
    \/ Pass \/ Cancel
Next == Host \/ Hit \/ Miss \/ Skip \/ StatBefore \/ ReadCgroup \/ StatAfter \/ ReadFails

Spec == Init /\ [][Next]_vars

-----------------------------------------------------------------------------
(* The cache is bounded, and its list and index agree: no key twice.       *)
TypeOK ==
    /\ Len(lru) <= Limit
    /\ \A i, j \in 1..Len(lru) : lru[i].key = lru[j].key => i = j
    /\ enrich.pc \in {"idle", "before", "cgroup", "after"}

Given == {out} \cup {lru[i] : i \in 1..Len(lru)}

(* However reads of /proc interleave with exits and PID reuse, a detail,   *)
(* and a cache entry, carries a path only of a cgroup that its own process *)
(* was in.                                                                 *)
PathOfProcess ==
    \A e \in Given : e.path # NoPath => <<e.key.pid, e.key.start, e.path>> \in was

(* On the unified hierarchy a detail, or an entry, is without a path only  *)
(* if metadata_failures has counted that for its key.                      *)
UnresolvedCounted ==
    unified => \A e \in Given \ {Nothing} :
                   e.path = NoPath => \E f \in failures : f[1] = e.key

(* Why the path of a process that is still there can be missing.           *)
MayBeMissing(key) ==
    \/ ~unified
    \/ <<key, "read">> \in failures
    \/ key.cgroup \in LongPaths /\ <<key, "long">> \in failures

(* A process that neither exited nor moved since its detail is never taken *)
(* for one that is gone: the detail has exactly its path, unless the host  *)
(* has no unified hierarchy, a read failed or the path exceeds the limit.  *)
SteadyResolved ==
    Identity(out.key) \in steady =>
        (out.path = NoPath /\ MayBeMissing(out.key)) \/ (out.path = out.key.cgroup /\ out.path \notin LongPaths)

(* A cgroup path is given to the process it belongs to, or to none, and    *)
(* then it is known why.                                                   *)
MetadataTruthful == TypeOK /\ PathOfProcess /\ UnresolvedCounted /\ SteadyResolved
==============================================================================
