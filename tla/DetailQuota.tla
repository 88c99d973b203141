---------------------------- MODULE DetailQuota ----------------------------
(***************************************************************************)
(* The per-second budget of detail events (allowed and reserve in          *)
(* bpf/common.h) and the poll that reads the counters and prunes expired   *)
(* budgets (Snapshot and pruneDetailBudgets in                             *)
(* internal/sensor/sensor_linux.go).  Every CPU looks up, inserts, checks  *)
(* and charges the budget of its second in separate steps, without a lock. *)
(*                                                                         *)
(* Time is in seconds.  A handler runs for less than two of them.          *)
(***************************************************************************)
EXTENDS Integers, FiniteSets

CONSTANTS
    Cpus,
    Rate, Divisor,    \* detail_rate and BLACKBOX_CRITICAL_DETAIL_DIVISOR
    BudgetSlots,      \* max_entries of detail_budgets
    Poll, Lag,        \* longest time between two polls, and in one poll
    MaxMissed,        \* sweeps that fail in a row
    Word,             \* 2^64: seconds are unsigned
    LastSecond,       \* bound: the clock
    MaxAnomalies      \* bound: anomalies in all

(* What the configuration guarantees.                                      *)
DetailAssumption ==
    /\ IsFiniteSet(Cpus) /\ Rate \in Nat \ {0} /\ Divisor \in Nat \ {0} /\ BudgetSlots \in Nat \ {0}
    /\ Poll \in Nat \ {0} /\ Lag \in Nat /\ MaxMissed \in Nat /\ MaxAnomalies \in Nat
    /\ Word \in Nat /\ LastSecond \in Nat /\ LastSecond < Word

Seconds == 0..LastSecond
Counters == {"anomalies", "suppressed", "ring_failures", "detail_budget_failures"}

VARIABLES
    second,     \* bpf_ktime_get_boot_ns, in seconds
    budgets,    \* the map: second to details used
    cpu,        \* the handler each CPU is in
    tally,      \* the per-CPU counters
    submitted,  \* history: details submitted to the ring buffer
    admitted,   \* history: per second and severity, details charged
    poll,       \* the poll in progress
    previous,   \* the sensor's previous sums
    reported    \* history: the sum of all deltas returned

quotaVars == <<second, budgets, cpu, tally, submitted, admitted, poll, previous, reported>>
kernelVars == <<budgets, cpu, tally, submitted, admitted>>
pollVars == <<poll, previous, reported>>

(* The sum of counter k over the CPUs: the number of single counts.        *)
Counts(m, k) == UNION {{<<c, i>> : i \in 1..m[c][k]} : c \in Cpus}
Total(m, k) == Cardinality(Counts(m, k))

Off == [pc |-> "idle", sec |-> 0, critical |-> FALSE]
Zero == [k \in Counters |-> 0]

QuotaInit ==
    /\ second = 0
    /\ budgets = [s \in {} |-> 0]
    /\ cpu = [c \in Cpus |-> Off]
    /\ tally = [c \in Cpus |-> Zero]
    /\ submitted = 0
    /\ admitted = [s \in Seconds |-> [critical |-> 0, normal |-> 0]]
    /\ poll = [pc |-> "idle", end |-> 0, seen |-> [c \in Cpus |-> Zero], todo |-> Cpus,
               stale |-> {}, swept |-> 0, missed |-> 0]
    /\ previous = Zero /\ reported = Zero

-----------------------------------------------------------------------------
(* The kernel side.                                                        *)

Count(c, k) == tally' = [tally EXCEPT ![c][k] = @ + 1]

(* A handler has found an anomaly and calls reserve.                       *)
Anomaly(c, critical) ==
    /\ cpu[c].pc = "idle"
    /\ Total(tally, "anomalies") < MaxAnomalies
    /\ Count(c, "anomalies")
    /\ cpu' = [cpu EXCEPT ![c] = [pc |-> "lookup", sec |-> second, critical |-> critical]]
    /\ UNCHANGED <<second, budgets, submitted, admitted, pollVars>>

Lookup(c) ==
    /\ cpu[c].pc = "lookup"
    /\ cpu' = [cpu EXCEPT ![c].pc = IF cpu[c].sec \in DOMAIN budgets THEN "check" ELSE "insert"]
    /\ UNCHANGED <<second, budgets, tally, submitted, admitted, pollVars>>

(* Mutant: the insertion replaces a budget another CPU has inserted.       *)
Inserted(s) == [x \in DOMAIN budgets \cup {s} |-> IF x = s THEN 0 ELSE budgets[x]]

(* BPF_NOEXIST: an existing budget (-EEXIST) is kept.                      *)
InsertedOnce(s) == IF s \in DOMAIN budgets THEN budgets ELSE Inserted(s)

Full(s) == s \notin DOMAIN budgets /\ Cardinality(DOMAIN budgets) >= BudgetSlots

Insert(c) ==
    LET full == Full(cpu[c].sec) IN
    /\ cpu[c].pc = "insert"
    /\ IF full
       THEN Count(c, "detail_budget_failures") /\ budgets' = budgets
       ELSE tally' = tally /\ budgets' = InsertedOnce(cpu[c].sec)
    /\ cpu' = [cpu EXCEPT ![c] = IF full THEN Off ELSE [@ EXCEPT !.pc = "again"]]
    /\ UNCHANGED <<second, submitted, admitted, pollVars>>

LookupAgain(c) ==
    LET found == cpu[c].sec \in DOMAIN budgets IN
    /\ cpu[c].pc = "again"
    /\ IF found THEN tally' = tally ELSE Count(c, "detail_budget_failures")
    /\ cpu' = [cpu EXCEPT ![c] = IF found THEN [@ EXCEPT !.pc = "check"] ELSE Off]
    /\ UNCHANGED <<second, budgets, submitted, admitted, pollVars>>

limit(critical) == IF critical THEN Rate ELSE Rate - (Rate + Divisor - 1) \div Divisor

spent(used, l) == used >= l

Check(c) ==
    LET over == spent(budgets[cpu[c].sec], limit(cpu[c].critical)) IN
    /\ cpu[c].pc = "check"
    /\ IF over THEN Count(c, "suppressed") ELSE tally' = tally
    /\ cpu' = [cpu EXCEPT ![c] = IF over THEN Off ELSE [@ EXCEPT !.pc = "charge"]]
    /\ UNCHANGED <<second, budgets, submitted, admitted, pollVars>>

Charge(c) ==
    /\ cpu[c].pc = "charge"
    /\ budgets' = [budgets EXCEPT ![cpu[c].sec] = @ + 1]
    /\ admitted' = IF cpu[c].critical THEN [admitted EXCEPT ![cpu[c].sec].critical = @ + 1]
                                      ELSE [admitted EXCEPT ![cpu[c].sec].normal = @ + 1]
    /\ cpu' = [cpu EXCEPT ![c].pc = "reserve"]
    /\ UNCHANGED <<second, tally, submitted, pollVars>>

(* Mutant: a full ring buffer is not counted.                              *)
ReserveUncounted(c, room) ==
    /\ cpu[c].pc = "reserve"
    /\ submitted' = IF room THEN submitted + 1 ELSE submitted
    /\ cpu' = [cpu EXCEPT ![c] = Off]
    /\ UNCHANGED <<second, budgets, tally, admitted, pollVars>>

(* bpf_ringbuf_reserve; the ring buffer may be full.                       *)
Reserve(c, room) ==
    /\ cpu[c].pc = "reserve"
    /\ submitted' = IF room THEN submitted + 1 ELSE submitted
    /\ IF room THEN tally' = tally ELSE Count(c, "ring_failures")
    /\ cpu' = [cpu EXCEPT ![c] = Off]
    /\ UNCHANGED <<second, budgets, admitted, pollVars>>

-----------------------------------------------------------------------------
(* The poll: Snapshot.                                                     *)

(* The loop's timer, or a query, polls; both may in the same second.       *)
StartPoll ==
    /\ poll.pc = "idle"
    /\ poll' = [poll EXCEPT !.pc = "read", !.end = second, !.todo = Cpus]
    /\ UNCHANGED <<second, kernelVars, previous, reported>>

(* The kernel copies the counters of one CPU after another.                *)
ReadCpu(c) ==
    /\ poll.pc = "read" /\ c \in poll.todo
    /\ poll' = [poll EXCEPT !.seen[c] = tally[c], !.todo = @ \ {c},
                            !.pc = IF poll.todo = {c} THEN "sweep" ELSE @]
    /\ UNCHANGED <<second, kernelVars, previous, reported>>

(* A look-up fails: nothing is reported, and the sensor is closed within   *)
(* the time of a poll.                                                     *)
ReadFails ==
    /\ poll.pc = "read"
    /\ poll' = [poll EXCEPT !.pc = "failed"]
    /\ UNCHANGED <<second, kernelVars, previous, reported>>

(* Mutant: sec - 2 wraps around in the first seconds.                      *)
expiredUnguarded(s, sec) == s < (sec - 2) % Word

(* Mutant: a sweep keeps one second more.                                  *)
expiredLate(s, sec) == sec > 3 /\ s < sec - 3

expired(s, sec) == sec > 2 /\ s < sec - 2

(* pruneDetailBudgets collects the expired keys, unless this second has    *)
(* been swept.                                                             *)
Sweep ==
    /\ poll.pc = "sweep"
    /\ poll' = IF poll.end = poll.swept THEN [poll EXCEPT !.pc = "report"]
               ELSE [poll EXCEPT !.pc = "delete",
                                 !.stale = {s \in DOMAIN budgets : expired(s, poll.end)}]
    /\ UNCHANGED <<second, kernelVars, previous, reported>>

Delete(s) ==
    /\ poll.pc = "delete" /\ s \in poll.stale
    /\ budgets' = [x \in DOMAIN budgets \ {s} |-> budgets[x]]
    /\ poll' = [poll EXCEPT !.stale = @ \ {s}]
    /\ UNCHANGED <<second, cpu, tally, submitted, admitted, previous, reported>>

Swept ==
    /\ poll.pc = "delete" /\ poll.stale = {}
    /\ poll' = [poll EXCEPT !.pc = "report", !.swept = poll.end, !.missed = 0]
    /\ UNCHANGED <<second, kernelVars, previous, reported>>

(* The iteration is perturbed, or it or a deletion fails: the sweep is     *)
(* left to the next poll and the counters are reported all the same.       *)
Abandon ==
    /\ poll.pc \in {"sweep", "delete"} /\ poll.end # poll.swept /\ poll.missed < MaxMissed
    /\ poll' = [poll EXCEPT !.pc = "report", !.stale = {}, !.missed = @ + 1]
    /\ UNCHANGED <<second, kernelVars, previous, reported>>

sum == [k \in Counters |-> Total(poll.seen, k)]

delta(n, p) == IF n < p THEN 0 ELSE n - p

Report ==
    /\ poll.pc = "report"
    /\ previous' = sum
    /\ reported' = [k \in Counters |-> reported[k] + delta(sum[k], previous[k])]
    /\ poll' = [poll EXCEPT !.pc = "idle"]
    /\ UNCHANGED <<second, kernelVars>>

-----------------------------------------------------------------------------
QuotaTick ==
    /\ second < LastSecond /\ second + 1 - poll.end <= IF poll.pc = "idle" THEN Poll ELSE Lag
    /\ \A c \in Cpus : cpu[c].pc # "idle" => second - cpu[c].sec < 2
    /\ second' = second + 1
    /\ UNCHANGED <<kernelVars, pollVars>>

QuotaNext ==
    \/ QuotaTick \/ StartPoll \/ ReadFails \/ Sweep \/ Swept \/ Abandon \/ Report
    \/ \E s \in Seconds : Delete(s)
    \/ \E c \in Cpus :
         \/ \E critical \in BOOLEAN : Anomaly(c, critical)
         \/ \E room \in BOOLEAN : Reserve(c, room)
         \/ Lookup(c) \/ Insert(c) \/ LookupAgain(c) \/ Check(c) \/ Charge(c) \/ ReadCpu(c)

QuotaSpec == QuotaInit /\ [][QuotaNext]_quotaVars

-----------------------------------------------------------------------------
(* The map stays within its capacity and holds seconds that have begun.    *)
QuotaTypeOK ==
    /\ second \in Seconds
    /\ DOMAIN budgets \subseteq 0..second /\ Cardinality(DOMAIN budgets) <= BudgetSlots
    /\ \A s \in DOMAIN budgets : budgets[s] \in Nat
    /\ \A c \in Cpus : tally[c] \in [Counters -> Nat]
    /\ previous \in [Counters -> Nat] /\ submitted \in Nat

(* What a second may admit under a limit: "A race near the limit can admit *)
(* up to one extra detail per concurrent CPU."                             *)
AtMost(l) == IF l = 0 THEN 0 ELSE l + Cardinality(Cpus) - 1

(* No second admits more details than its quota and that race, and normal  *)
(* details never take the critical share: no insertion resets a budget and *)
(* no sweep removes one in use.                                            *)
QuotaHeld ==
    \A s \in Seconds :
        /\ admitted[s].critical + admitted[s].normal <= AtMost(Rate)
        /\ admitted[s].normal <= AtMost(limit(FALSE))

(* A detail_budget whose second can still be charged is in the map, and    *)
(* says what that second has admitted.                                     *)
BudgetExact ==
    /\ \A c \in Cpus : cpu[c].pc \in {"check", "charge"} => cpu[c].sec \in DOMAIN budgets
    /\ \A s \in DOMAIN budgets :
         budgets[s] = admitted[s].critical + admitted[s].normal

(* Every anomaly is submitted, or counted as suppressed or lost, or still  *)
(* in a handler.                                                           *)
AnomaliesAccounted ==
    Total(tally, "anomalies") =
        submitted + Total(tally, "suppressed") + Total(tally, "ring_failures")
            + Total(tally, "detail_budget_failures") + Cardinality({c \in Cpus : cpu[c].pc # "idle"})

(* The deltas of all polls add up to what has been read, never more than   *)
(* has been counted, although the CPUs are read at different times.        *)
DeltasExact ==
    /\ reported = previous
    /\ \A k \in Counters : reported[k] <= Total(tally, k)

(* Once a sweep is complete, no budget is left of a second that had       *)
(* expired when its poll began, whatever handlers of that time still do.   *)
SweptAway == \A s \in DOMAIN budgets : poll.swept <= s + 2

(* The budgets do what they are for without a lock: no second exceeds its  *)
(* quota by more than the documented race, a budget in use is never reset  *)
(* or swept, and an expired one does not outlive the next complete sweep.  *)
BudgetsSound == QuotaHeld /\ BudgetExact /\ SweptAway

(* common.h: "Leave one extra minute of slots after the longest supported  *)
(* one-minute poll."  With slots for the polls between two sweeps, for the *)
(* three seconds a sweep keeps and for those that pass during a poll, none *)
(* of which outlasts the time between two, no detail is lost to a full     *)
(* map: 128 slots let one sweep in a row fail.                             *)
Provisioned == Lag <= Poll /\ BudgetSlots >= (1 + MaxMissed) * Poll + 3 + Lag

BudgetsSuffice == Provisioned => \A c \in Cpus : tally[c].detail_budget_failures = 0

(* No anomaly disappears silently between the handler and the counters the *)
(* poll reports.                                                           *)
LossAccounted == QuotaTypeOK /\ AnomaliesAccounted /\ DeltasExact
=============================================================================
