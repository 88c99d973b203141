----------------------------- MODULE MCKernel -----------------------------
(***************************************************************************)
(* The kernel side of the sensors.  The block sensor, the scheduler sensor *)
(* and the detail budgets do not interact, so one run checks them side by  *)
(* side: part is the component a behaviour is about, and the properties    *)
(* are the components' own.                                                *)
(*                                                                         *)
(* The budgets come in three configurations: a map that can fill up        *)
(* (quota), the same for the accounting (losses), and one active CPU with  *)
(* slots and time for several sweeps (wide).                               *)
(***************************************************************************)
EXTENDS BlockSensor, SchedSensor, DetailQuota, Bags

VARIABLE part

\* QuotaInit does not depend on what the configurations differ in.
Quota == INSTANCE DetailQuota
    WITH BudgetSlots <- 2, Poll <- 4, LastSecond <- 3, MaxAnomalies <- 3
Losses == INSTANCE DetailQuota
    WITH BudgetSlots <- 1, Poll <- 2, LastSecond <- 2, MaxAnomalies <- 2
Wide == INSTANCE DetailQuota WITH Rate <- 1

ASSUME /\ BlockAssumption /\ SchedAssumption
       /\ DetailAssumption /\ Quota!DetailAssumption /\ Losses!DetailAssumption /\ Wide!DetailAssumption

mcVars == <<part, vars, schedVars, quotaVars>>

\* Beside the other components the block layer has no request and the
\* scheduler no task; the budgets have one initial state.
NoBlock == Init /\ \A s \in Slots : req[s] = Free(0)
NoSched == SchedInit /\ \A t \in Tasks : task[t] = Gone

MCInit ==
    /\ QuotaInit
    /\ \/ part = "block" /\ Init /\ NoSched
       \/ part = "sched" /\ SchedInit /\ NoBlock
       \/ part \in {"quota", "losses", "wide"} /\ NoBlock /\ NoSched

MCNext ==
    /\ \/ part = "block" /\ Next /\ UNCHANGED <<schedVars, quotaVars>>
       \/ part = "sched" /\ SchedNext /\ UNCHANGED <<vars, quotaVars>>
       \/ part = "quota" /\ Quota!QuotaNext /\ UNCHANGED <<vars, schedVars>>
       \/ part = "losses" /\ Losses!QuotaNext /\ UNCHANGED <<vars, schedVars>>
       \/ /\ part = "wide" /\ Wide!QuotaNext /\ UNCHANGED <<vars, schedVars>>
          /\ Cardinality({c \in Cpus : tally'[c].anomalies > 0}) <= 1
    /\ UNCHANGED part

MCSpec == MCInit /\ [][MCNext]_mcVars

(* Slots, CPUs and tasks are interchangeable, and what each of them looks  *)
(* like says everything but which is which: the view stands for a symmetry *)
(* set, without trying every permutation.                                  *)
Looks(S, Look(_)) == BagOfAll(Look, SetToBag(S))

At(map, x) == IF x \in DOMAIN map THEN <<map[x]>> ELSE <<>>

Slot(s) == <<req[s], At(starts, s)>>
Task(t) == <<task[t], At(runnable, t)>>

(* No handler reads the counters or the history of the last completion or  *)
(* switch, which count only by whether they satisfy the invariant, the     *)
(* budgets never read what only the accounting does, and what a poll has   *)
(* read counts from its read to its report.                                *)
PollView == <<poll.pc, poll.end, poll.stale, poll.swept, poll.missed>>
Anomalous(c) == <<tally[c].anomalies > 0, tally[c].detail_budget_failures > 0>>
ToRead(c) == poll.pc = "read" /\ c \in poll.todo
Seen(c) == IF poll.pc \in {"idle", "failed"} \/ ToRead(c) THEN Zero ELSE poll.seen[c]

View ==
    CASE part = "block" -> <<part, now, allocs, LatencyTruthful, Looks(Slots, Slot)>>
      [] part = "sched" -> <<part, clock, WaitsTruthful, Looks(Tasks, Task)>>
      [] part = "quota" ->
           <<part, second, budgets, admitted, PollView, Total(tally, "anomalies"),
             Looks(Cpus, LAMBDA c : <<cpu[c], ToRead(c)>>)>>
      [] part = "losses" ->
           <<part, second, budgets, submitted, admitted, previous, reported, PollView,
             Looks(Cpus, LAMBDA c : <<cpu[c], tally[c], Seen(c), ToRead(c)>>)>>
      [] part = "wide" ->
           <<part, second, budgets, PollView,
             Looks(Cpus, LAMBDA c : <<cpu[c], ToRead(c), Anomalous(c)>>)>>

(* The slots suffice where they are provisioned: however polls and sweeps  *)
(* that fail in between follow each other, no detail is lost to a full map *)
(* of budgets, whose size bpf/common.h derives from the longest poll.      *)
SlotsSuffice == part = "wide" => Wide!BudgetsSuffice
=============================================================================
