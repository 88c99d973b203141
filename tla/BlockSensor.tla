---------------------------- MODULE BlockSensor ----------------------------
(***************************************************************************)
(* The block I/O sensor (bpf/block.c, bpf/request_timing.h): the issue,    *)
(* requeue and complete handlers and the map that carries a request's      *)
(* first issue to its completion.  The map is keyed by the address of the  *)
(* request, which the kernel reuses; start_time_ns tells one allocation    *)
(* from another, unless time stamping is off and it is zero.               *)
(*                                                                         *)
(* The block layer is the environment: it runs the handlers of one request *)
(* one at a time, may complete a request in parts, requeue it, merge a     *)
(* requeued one into another, and complete a flush-sequenced write again.  *)
(***************************************************************************)
EXTENDS Integers, FiniteSets

CONSTANTS
    Slots,                        \* addresses of requests
    Capacity,                     \* max_entries of starts
    Threshold, CriticalThreshold,
    MaxTime,                      \* bound: the clock
    MaxAllocs                     \* bound: allocations

(* What the configuration guarantees.                                      *)
BlockAssumption ==
    /\ Capacity \in Nat /\ Threshold \in Nat /\ CriticalThreshold \in Nat
    /\ Threshold <= CriticalThreshold /\ MaxTime \in Nat \ {0} /\ MaxAllocs \in Nat

VARIABLES
    now,       \* bpf_ktime_get_ns, in arbitrary units, never zero
    allocs,    \* allocations so far
    req,       \* the block layer's requests
    starts,    \* the map: address to inflight
    stats,     \* the counters of struct stats that this sensor uses
    last       \* history: the outcome of the last final completion

vars == <<now, allocs, req, starts, stats, last>>

Ops == {"read", "write", "flush"}

\* first: the first issue, or 0; tracked: no issue was missed.
Free(born) == [st |-> "free", born |-> born, gen |-> 0, op |-> "read", left |-> 0, size |-> 0,
               first |-> 0, tracked |-> TRUE]

Empty == [s \in {} |-> 0]
With(m, s, v) == [x \in DOMAIN m \cup {s} |-> IF x = s THEN v ELSE m[x]]
Without(m, s) == [x \in DOMAIN m \ {s} |-> m[x]]

(* The sensor is attached while requests are in flight.                    *)
Init ==
    /\ now = 1 /\ allocs = 0
    /\ req \in [Slots -> {Free(0)} \cup
                         {[Free(1) EXCEPT !.st = "issued", !.gen = g, !.left = 2, !.size = 2,
                                          !.first = 1, !.tracked = FALSE] : g \in {0, 1}}]
    /\ starts = Empty
    /\ stats = [count |-> 0, bytes |-> 0, anomalies |-> 0, critical |-> 0,
                tracking_failures |-> 0, unmatched |-> 0, bookkeeping_completions |-> 0]
    /\ last = [kind |-> "none"]

-----------------------------------------------------------------------------
(* request_timing.h.                                                       *)

(* Mutant: any requeued timing is taken for this request's.                *)
resumes_any(t, generation) == t.requeued

resume_request(t, generation) == t.requeued /\ t.generation = generation

requeue_request(t, generation) ==
    IF t.generation # generation THEN t
    ELSE [t EXCEPT !.requeued = TRUE, !.start = IF generation = 0 THEN 0 ELSE @]

request_timing_valid(t, generation) == t.start # 0 /\ t.generation = generation

-----------------------------------------------------------------------------
(* The handlers.                                                           *)

(* bpf_map_update_elem with BPF_ANY succeeds.                              *)
Fits(s) == s \in DOMAIN starts \/ Cardinality(DOMAIN starts) < Capacity

Resumed(s) == [starts[s] EXCEPT !.requeued = FALSE]

issue(s) ==
    LET v == [start |-> now, generation |-> req[s].gen, requeued |-> FALSE, bytes |-> req[s].left]
    IN  /\ IF s \in DOMAIN starts /\ resume_request(starts[s], req[s].gen)
           THEN /\ starts' = [starts EXCEPT ![s] = Resumed(s)]
                /\ stats' = stats
           ELSE /\ starts' = IF Fits(s) THEN With(starts, s, v) ELSE starts
                /\ stats' = IF Fits(s) THEN stats ELSE [stats EXCEPT !.tracking_failures = @ + 1]
        /\ req' = [req EXCEPT ![s].st = "issued", ![s].tracked = @ /\ Fits(s),
                              ![s].first = IF @ = 0 THEN now ELSE @]

requeue(s) ==
    starts' = IF s \in DOMAIN starts
              THEN [starts EXCEPT ![s] = requeue_request(@, req[s].gen)]
              ELSE starts

Timed(s, latency) ==
    [stats EXCEPT !.count = @ + 1, !.bytes = @ + starts[s].bytes,
                  !.anomalies = IF latency >= Threshold THEN @ + 1 ELSE @,
                  !.critical = IF latency >= CriticalThreshold THEN @ + 1 ELSE @]

(* What the properties need to know of a final completion.                 *)
Outcome(s, kind) ==
    [kind |-> kind, dispatched |-> req[s].st = "issued", tracked |-> req[s].tracked,
     stamped |-> req[s].gen # 0]

TimedOutcome(s) ==
    [kind |-> "timed", dispatched |-> req[s].st = "issued", tracked |-> req[s].tracked,
     fresh |-> starts[s].start >= req[s].first, exact |-> starts[s].start = req[s].first,
     whole |-> starts[s].bytes = req[s].size]

Forgotten(s) == Without(starts, s)

(* A partial completion, bookkeeping of the flush machinery, a completion  *)
(* without a valid start, or a timed one.                                  *)
complete(s, completed) ==
    IF completed < req[s].left THEN UNCHANGED <<starts, stats, last>>
    ELSE IF s \notin DOMAIN starts
         THEN /\ stats' = IF req[s].left = 0 /\ completed = 0 /\ req[s].op = "write"
                          THEN [stats EXCEPT !.bookkeeping_completions = @ + 1]
                          ELSE [stats EXCEPT !.unmatched = @ + 1]
              /\ last' = Outcome(s, IF stats'.unmatched = stats.unmatched THEN "bookkeeping" ELSE "unmatched")
              /\ starts' = starts
    ELSE IF ~request_timing_valid(starts[s], req[s].gen)
         THEN /\ stats' = [stats EXCEPT !.unmatched = @ + 1]
              /\ last' = Outcome(s, "unmatched")
              /\ starts' = Forgotten(s)
         ELSE /\ stats' = Timed(s, now - starts[s].start)
              /\ last' = TimedOutcome(s)
              /\ starts' = Forgotten(s)

-----------------------------------------------------------------------------
(* The block layer and the clock.                                          *)

Tick == now < MaxTime /\ now' = now + 1 /\ UNCHANGED <<allocs, req, starts, stats, last>>

\* A write of size 0 is the logical write of an empty flush.
Alloc(s, op, size, stamped) ==
    /\ req[s].st = "free" /\ req[s].born < now /\ allocs < MaxAllocs
    /\ (op = "read" => size > 0) /\ (op = "flush" => size = 0)
    /\ allocs' = allocs + 1
    /\ req' = [req EXCEPT ![s] = [Free(now) EXCEPT !.st = "queued", !.op = op, !.left = size,
                                                   !.size = size, !.gen = IF stamped THEN now ELSE 0]]
    /\ UNCHANGED <<now, starts, stats, last>>

Issue(s) ==
    /\ req[s].st = "queued" /\ (req[s].op = "write" => req[s].size > 0)
    /\ issue(s)
    /\ UNCHANGED <<now, allocs, last>>

Requeue(s) ==
    /\ req[s].st = "issued"
    /\ requeue(s)
    /\ req' = [req EXCEPT ![s].st = "queued"]
    /\ UNCHANGED <<now, allocs, stats, last>>

Complete(s, completed) ==
    /\ req[s].st = "issued" /\ completed <= req[s].left /\ (completed = 0 => req[s].left = 0)
    /\ complete(s, completed)
    /\ req' = [req EXCEPT ![s].left = @ - completed,
                          ![s].st = IF completed = req[s].left THEN "done" ELSE @]
    /\ UNCHANGED <<now, allocs>>

\* The flush machinery ends the logical write, dispatched or not.
EndWrite(s) ==
    /\ req[s].op = "write" /\ req[s].left = 0
    /\ req[s].st = "done" \/ (req[s].st = "queued" /\ req[s].size = 0)
    /\ complete(s, 0)
    /\ req' = [req EXCEPT ![s] = Free(req[s].born)]
    /\ UNCHANGED <<now, allocs>>

\* A request ends, or a requeued one is merged into another.
Release(s) ==
    /\ req[s].st = "done" \/ (req[s].st = "queued" /\ req[s].first # 0)
    /\ req' = [req EXCEPT ![s] = Free(req[s].born)]
    /\ UNCHANGED <<now, allocs, starts, stats, last>>

Next ==
    \/ Tick
    \/ \E s \in Slots :
         \/ \E op \in Ops, size \in 0..2, stamped \in BOOLEAN : Alloc(s, op, size, stamped)
         \/ \E completed \in 0..2 : Complete(s, completed)
         \/ Issue(s) \/ Requeue(s) \/ EndWrite(s) \/ Release(s)

Spec == Init /\ [][Next]_vars

-----------------------------------------------------------------------------
(* The map stays within its capacity; its entries are timings.             *)
TypeOK ==
    /\ now \in 1..MaxTime /\ allocs \in 0..MaxAllocs
    /\ DOMAIN starts \subseteq Slots /\ Cardinality(DOMAIN starts) <= Capacity
    /\ \A s \in DOMAIN starts : starts[s].start \in 0..now /\ starts[s].generation \in 0..now
    /\ \A c \in DOMAIN stats : stats[c] \in Nat

(* request_timing.h: "Exclude this ambiguous request instead of reporting  *)
(* a stale latency."  A reported latency is counted from the request's own *)
(* first issue, through any partial completions, requeues and reuse of its *)
(* address; only when an issue was missed may it start at a later issue.   *)
LatencyExact ==
    last.kind = "timed" => last.fresh /\ (last.tracked => last.exact)

(* The bytes of a request are those of its first issue, not of the rest    *)
(* that a requeue after a partial completion dispatches again.             *)
BytesExact == last.kind = "timed" /\ last.tracked => last.whole

(* A dispatched request goes unmatched only when one of its issues was not *)
(* recorded or time stamping is off.                                       *)
UnmatchedExcused ==
    last.kind = "unmatched" /\ last.dispatched => ~(last.tracked /\ last.stamped)

(* The completion of a dispatched request is never taken for bookkeeping,  *)
(* and the second completion of a flush-sequenced write is never timed.    *)
BookkeepingApart ==
    /\ last.kind = "bookkeeping" => ~last.dispatched
    /\ last.kind = "timed" => last.dispatched

(* What the block sensor counts is true of the requests behind it: exact   *)
(* latencies and bytes, no excuse for an unmatched one but a lost issue,   *)
(* bookkeeping apart, and a map within its capacity.                       *)
LatencyTruthful ==
    TypeOK /\ LatencyExact /\ BytesExact /\ UnmatchedExcused /\ BookkeepingApart
=============================================================================
