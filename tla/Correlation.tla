----------------------------- MODULE Correlation -----------------------------
(***************************************************************************)
(* firstCoincidence (internal/analyzer/correlation.go): one pass over the  *)
(* sorted timeline with two indexes, of block and of other events, that    *)
(* hold for every process and cgroup the latest event of the last second,  *)
(* and a queue of the indexed events that is compacted as they expire.     *)
(* Checked, after every step of the pass, against the definition of what   *)
(* the indexes stand for.                                                  *)
(***************************************************************************)
EXTENDS Integers, Sequences, FiniteSets, FiniteSetsExt

CONSTANTS
    Times,     \* event times
    Window,    \* coincidenceWindow
    Processes, \* process identities; 0: no TGID or no start time
    Cgroups,   \* cgroup ids; 0 and 1, the shared root, identify nothing
    MaxEvents  \* bound: length of a timeline

(* What the configuration guarantees.                                      *)
CorrelationAssumption ==
    /\ Times \subseteq Nat /\ Window \in Nat /\ MaxEvents \in Nat
    /\ Processes \subseteq Nat /\ Cgroups \subseteq Nat

VARIABLES
    timeline, \* sorted events, as far as the pass has come
    at,       \* the next event
    index,    \* blocks and others: process and cgroup to position; 0: absent
    active,   \* positions of indexed events, in order
    head,     \* expired entries at the front of active
    result    \* the pair returned

passVars == <<timeline, at, index, active, head, result>>

Kinds == {"block", "other"}
Opposite(kind) == IF kind = "block" THEN "other" ELSE "block"

Events == [t : Times, kind : Kinds, process : Processes, cgroup : Cgroups]
Empty == [process |-> [p \in Processes |-> 0], cgroup |-> [c \in Cgroups |-> 0]]

PassInit ==
    /\ timeline = <<>> /\ at = 1 /\ index = [x \in Kinds |-> Empty]
    /\ active = <<>> /\ head = 0 /\ result = <<>>

-----------------------------------------------------------------------------
(* The pass looks no further than the next event, which is any that keeps  *)
(* the timeline sorted.                                                    *)
Continue(e) ==
    /\ at > Len(timeline) /\ result = <<>> /\ Len(timeline) < MaxEvents
    /\ timeline # <<>> => timeline[Len(timeline)].t <= e.t
    /\ timeline' = Append(timeline, e)
    /\ UNCHANGED <<at, index, active, head, result>>

HasProcess(e) == e.process # 0
HasCgroup(e) == e.cgroup > 1

(* match: the earlier of the latest events of the process and the cgroup.  *)
match(x, e) ==
    LET found == (IF HasProcess(e) THEN {x.process[e.process]} ELSE {})
                   \cup (IF HasCgroup(e) THEN {x.cgroup[e.cgroup]} ELSE {})
    IN  found \ {0}

add(x, e, k) ==
    [process |-> IF HasProcess(e) THEN [x.process EXCEPT ![e.process] = k] ELSE x.process,
     cgroup |-> IF HasCgroup(e) THEN [x.cgroup EXCEPT ![e.cgroup] = k] ELSE x.cgroup]

(* Mutant: an expired event removes its key whatever is indexed by now.    *)
removeAny(x, e, k) ==
    [process |-> IF HasProcess(e) THEN [x.process EXCEPT ![e.process] = 0] ELSE x.process,
     cgroup |-> IF HasCgroup(e) THEN [x.cgroup EXCEPT ![e.cgroup] = 0] ELSE x.cgroup]

(* remove: only where the index still names this event.                    *)
remove(x, e, k) ==
    [process |-> IF HasProcess(e) /\ x.process[e.process] = k
                 THEN [x.process EXCEPT ![e.process] = 0] ELSE x.process,
     cgroup |-> IF HasCgroup(e) /\ x.cgroup[e.cgroup] = k
                THEN [x.cgroup EXCEPT ![e.cgroup] = 0] ELSE x.cgroup]

expired(k) == timeline[at].t - timeline[k].t > Window

Running == at <= Len(timeline) /\ result = <<>>
Stale == head < Len(active) /\ expired(active[head + 1])

(* One expired event leaves the indexes.                                   *)
Expire ==
    LET old == active[head + 1]
        e == timeline[old]
    IN
    /\ Running /\ Stale
    /\ index' = [index EXCEPT ![e.kind] = remove(@, e, old)]
    /\ head' = head + 1
    /\ UNCHANGED <<timeline, at, active, result>>

(* The expired half of the queue is dropped.                               *)
Compacted ==
    IF head = Len(active) THEN <<>>
    ELSE IF head >= Len(active) \div 2 /\ head > 0 THEN SubSeq(active, head + 1, Len(active))
    ELSE active

(* The event meets the index of the other kind, or joins its own.          *)
Visit ==
    LET e == timeline[at]
        prior == match(index[Opposite(e.kind)], e)
        indexed == HasProcess(e) \/ HasCgroup(e)
    IN
    /\ Running /\ ~Stale
    /\ IF prior # {}
       THEN /\ result' = <<Min(prior), at>>
            /\ active' = Compacted
            /\ UNCHANGED <<at, index>>
       ELSE /\ index' = [index EXCEPT ![e.kind] = add(@, e, at)]
            /\ active' = IF indexed THEN Append(Compacted, at) ELSE Compacted
            /\ at' = at + 1 /\ result' = result
    /\ head' = IF Compacted = active THEN head ELSE 0
    /\ UNCHANGED timeline

Done == ~Running /\ (result # <<>> \/ Len(timeline) = MaxEvents) /\ UNCHANGED passVars

PassNext == (\E e \in Events : Continue(e)) \/ Expire \/ Visit \/ Done

PassSpec == PassInit /\ [][PassNext]_passVars

-----------------------------------------------------------------------------
(* The queue holds the indexed events that have been visited and not yet   *)
(* expired, in order.                                                      *)
PassTypeOK ==
    /\ head \in 0..Len(active)
    /\ \A k \in 1..Len(active) - 1 : active[k] < active[k + 1]
    /\ (Running /\ ~Stale) =>
           {active[k] : k \in head + 1..Len(active)} =
               {k \in 1..at - 1 : ~expired(k) /\ (HasProcess(timeline[k]) \/ HasCgroup(timeline[k]))}

Related(j, k) ==
    /\ timeline[j].kind # timeline[k].kind
    /\ timeline[k].t - timeline[j].t <= Window
    /\ \/ HasProcess(timeline[j]) /\ timeline[j].process = timeline[k].process
       \/ HasCgroup(timeline[j]) /\ timeline[j].cgroup = timeline[k].cgroup
Pairs(n) == {p \in (1..n) \X (1..n) : p[1] < p[2] /\ Related(p[1], p[2])}

(* firstCoincidence: the pair returned is related within the window, and   *)
(* no pair is completed by an earlier event; without a result there is no  *)
(* related pair at all.                                                    *)
FirstPair ==
    IF result # <<>>
    THEN /\ result \in Pairs(Len(timeline))
         /\ Pairs(result[2] - 1) = {}
    ELSE Pairs(at - 1) = {}

Latest(S) == IF S = {} THEN 0 ELSE Max(S)

(* "Both indexes contain only entries from the current one-second window": *)
(* once the expired have left, every key names its latest event of the     *)
(* window, and no other.                                                   *)
IndexExact ==
    (Running /\ ~Stale) =>
        \A b \in Kinds :
            LET live == {k \in 1..at - 1 : timeline[k].kind = b /\ ~expired(k)}
            IN  /\ \A p \in Processes \ {0} :
                      index[b].process[p] = Latest({k \in live : timeline[k].process = p})
                /\ \A c \in {c \in Cgroups : c > 1} :
                      index[b].cgroup[c] = Latest({k \in live : timeline[k].cgroup = c})

(* The pass over the timeline finds the first related pair, and no other,  *)
(* with indexes that hold the window only.                                 *)
CoincidenceExact == PassTypeOK /\ FirstPair /\ IndexExact
==============================================================================
