----------------------------- MODULE Assessment -----------------------------
(***************************************************************************)
(* The verdict of a report (internal/analyzer/assessment.go) against what  *)
(* really happened on the host.  The recorder's polls are followed one     *)
(* family and one interval at a time, with everything that can be lost on  *)
(* the way: untimed operations, suppressed details, drops in user space,   *)
(* boundary intervals left out of the window, sensors that fail, details   *)
(* compacted and history evicted; and with resets that a kernel's          *)
(* tracepoint does not show at all.  A capture may be taken, and assessed, *)
(* in every state.                                                         *)
(*                                                                         *)
(* TCP's two signals count as one; wording, evidence references and        *)
(* lifetime diagnostics, which decide nothing, are left out.               *)
(***************************************************************************)
EXTENDS Integers, FiniteSets, FiniteSetsExt

CONSTANT
    Setups  \* the families that can be enabled, TCPResetCoverage, whether the
            \* capture is an automatic one and, a bound, how many intervals it
            \* can span

Latency == {"block_io", "scheduler"}

(* What the configuration guarantees.                                      *)
AssessmentAssumption ==
    \A c \in Setups :
        /\ c.families \subseteq Latency \cup {"tcp", "oom"} /\ c.families # {}
        /\ c.coverage \in {"supported", "limited", "unknown"}
        /\ c.automatic \in BOOLEAN /\ c.intervals \in Nat

VARIABLES
    setup,     \* which of the setups it is, for good
    signals,   \* per family: Summary and the details in the timeline
    window,    \* length of the window, in poll intervals
    todo,      \* families whose current interval is still to be polled
    closing,   \* an interval was cut by the window's end: it is the last
    manifest,  \* what the manifest says of history and trigger
    drops,     \* has IngressDrops or RecorderDrops counted anything?
    missingEndpoints,  \* does a TCP event of the timeline lack its endpoints?
    happened,  \* per family: what happened outside boundary intervals
    unseen     \* history: a reset that the tracepoint does not show

assessVars ==
    <<setup, signals, window, todo, closing, manifest, drops, missingEndpoints, happened, unseen>>

Families == setup.families

NoSignals == [state |-> "healthy", count |-> 0, anomalies |-> 0, critical |-> 0, covered |-> 0,
              loss |-> 0, details |-> 0, criticalDetails |-> 0]
\* slow, critical: observations over the thresholds; all: also in boundary intervals.
NoTruth == [slow |-> 0, critical |-> 0, all |-> 0, lost |-> FALSE]

AssessInit ==
    /\ setup \in Setups
    /\ signals = [f \in Families |-> NoSignals]
    /\ window = 0 /\ todo = {} /\ closing = FALSE
    /\ manifest = [truncated |-> FALSE, compacted |-> FALSE, triggers |-> {}, before |-> FALSE]
    /\ drops = FALSE
    /\ happened = [f \in Families |-> NoTruth]
    /\ missingEndpoints = FALSE /\ unseen = FALSE

-----------------------------------------------------------------------------
(* The recording.                                                          *)

Happening(f) ==
    CASE f \in Latency -> {"idle", "normal", "slow", "critical", "untimed"}
      [] f = "tcp" -> {"idle", "slow"}
      [] OTHER -> {"idle", "critical"}

NextInterval ==
    /\ todo = {} /\ window < setup.intervals /\ ~closing
    /\ window' = window + 1 /\ todo' = Families
    /\ UNCHANGED <<signals, closing, manifest, drops, missingEndpoints, happened, unseen>>

(* A reset without a full socket, on a kernel that may not show those.     *)
UnseenReset ==
    /\ "tcp" \in Families /\ setup.coverage # "supported"
    /\ window > 0 /\ ~unseen
    /\ unseen' = TRUE
    /\ UNCHANGED <<signals, window, todo, closing, manifest, drops, missingEndpoints, happened>>

Anomaly(what) == what \in {"slow", "critical"}
InTimeline(detail) == detail \in {"kept", "nameless"}

(* Analyze sums the metrics of a family and counts its details.            *)
Summed(s, what, metric, detail) ==
    LET m == IF metric = "kept" THEN 1 ELSE 0
        d == IF InTimeline(detail) THEN 1 ELSE 0
        n(b) == IF b THEN m ELSE 0
    IN
    [s EXCEPT
        !.covered = @ + m,
        !.count = @ + n(what \in {"normal", "slow", "critical"}),
        !.anomalies = @ + n(Anomaly(what)),
        !.critical = @ + n(what = "critical"),
        !.loss = @ + n(detail = "suppressed" \/ what = "untimed"),
        !.details = @ + d,
        !.criticalDetails = @ + IF what = "critical" THEN d ELSE 0]

(* One family's poll: what happened, whether its metric is in the capture  *)
(* ("partial": cut by a boundary of the window), what became of the detail *)
(* of an anomaly ("nameless": without the addresses of a TCP event), and   *)
(* whether the automatic controller triggered on it.                       *)
Poll(f, what, metric, detail) ==
    LET inside == metric # "partial"
        outright(b) == IF b /\ inside THEN 1 ELSE 0
    IN
    /\ f \in todo /\ signals[f].state = "healthy"
    /\ what \in Happening(f)
    /\ Anomaly(what) <=> detail # "none"
    /\ detail = "nameless" => f = "tcp"
    /\ todo' = todo \ {f}
    /\ closing' = (closing \/ (metric = "partial" /\ window > 1))
    /\ drops' = (drops \/ "dropped" \in {metric, detail})
    /\ missingEndpoints' = (missingEndpoints \/ detail = "nameless")
    /\ signals' = [signals EXCEPT ![f] = Summed(@, what, metric, detail)]
    /\ happened' = [happened EXCEPT ![f] =
           [slow |-> @.slow + outright(Anomaly(what) \/ what = "untimed"),
            critical |-> @.critical + outright(what = "critical"),
            all |-> @.all + IF Anomaly(what) THEN 1 ELSE 0,
            lost |-> @.lost \/ (inside /\ (\/ metric = "dropped" \/ what = "untimed"
                                           \/ detail \in {"suppressed", "dropped", "nameless"}))]]
    /\ \/ manifest' = manifest
       \/ /\ setup.automatic /\ what = "critical"
          /\ manifest' = [manifest EXCEPT !.triggers = @ \cup {f}]
    /\ UNCHANGED <<window, unseen>>

(* A sensor has failed: nothing of this interval or a later one is seen.   *)
Fail(f, what) ==
    /\ f \in todo /\ what \in Happening(f)
    /\ signals' = [signals EXCEPT ![f].state = "error"]
    /\ todo' = todo \ {f}
    /\ happened' = [happened EXCEPT ![f].slow = IF what \in {"slow", "critical", "untimed"} THEN @ + 1 ELSE @,
                              ![f].lost = @ \/ Anomaly(what),
                              ![f].all = IF Anomaly(what) THEN @ + 1 ELSE @]
    /\ UNCHANGED <<window, closing, manifest, drops, missingEndpoints, unseen>>

(* The recorder compacts the details it has, keeping their aggregates.     *)
Compact ==
    /\ todo = {} /\ window > 0
    /\ \E f \in Families : signals[f].details > 0
    /\ signals' = [f \in Families |-> [signals[f] EXCEPT !.details = 0, !.criticalDetails = 0]]
    /\ manifest' = [manifest EXCEPT !.compacted = TRUE]
    /\ missingEndpoints' = FALSE
    /\ happened' = [f \in Families |-> [happened[f] EXCEPT !.lost = @ \/ signals[f].details > 0]]
    /\ UNCHANGED <<window, todo, closing, drops, unseen>>

(* The history so far is evicted, or lies before the requested start.      *)
Evict(requested) ==
    /\ todo = {} /\ window > 0 /\ ~closing
    /\ window' = 0
    /\ signals' = [f \in Families |-> [NoSignals EXCEPT !.state = signals[f].state]]
    /\ happened' = [f \in Families |-> NoTruth]
    /\ missingEndpoints' = FALSE /\ unseen' = FALSE
    /\ manifest' = [truncated |-> manifest.truncated \/ requested, compacted |-> FALSE,
                    triggers |-> manifest.triggers,
                    before |-> manifest.before \/ manifest.triggers # {}]
    /\ UNCHANGED <<todo, closing, drops>>

-----------------------------------------------------------------------------
(* assess.                                                                 *)

criticalCount(f) == Max({signals[f].critical, signals[f].criticalDetails})

(* Observed lower bounds: slow latencies, TCP signals or OOM victims.      *)
Observed(f) ==
    CASE f \in Latency -> Max({signals[f].anomalies, signals[f].details, criticalCount(f)})
      [] f = "tcp" -> Max({signals[f].anomalies, signals[f].details})
      [] OTHER -> Max({signals[f].count, signals[f].details})

tolerance == 2

(* Mutant: a sensor that failed after it had delivered is not a gap.       *)
GapCoveredOnly(f) == signals[f].covered = 0

(* sensor_unavailable, no_metric_intervals or metric_gap.                  *)
Gap(f) ==
    \/ signals[f].state # "healthy"
    \/ signals[f].covered = 0
    \/ window > tolerance /\ window - signals[f].covered > tolerance

(* Trigger evidence that outlived its intervals.                           *)
retained(f) == IF f = "oom" THEN Observed(f) > 0 ELSE criticalCount(f) > 0
triggerEvidenceMissing == \E f \in manifest.triggers : ~retained(f)

(* anomaly_details_missing.                                                *)
DetailsMissing(f) ==
    /\ (IF f = "oom" THEN signals[f].count ELSE signals[f].anomalies) > 0
    /\ signals[f].details = 0

(* tcp_socketless_resets_unavailable: a note where the kernel is known not *)
(* to show such resets, and a limit where that is not known.               *)
ResetNote == "tcp" \in Families /\ setup.coverage \in {"limited", "unknown"}
ResetLimit == "tcp" \in Families /\ setup.coverage = "unknown"

(* A reason that limits the evidence.                                      *)
Limited ==
    \/ manifest.compacted \/ manifest.truncated \/ manifest.before \/ drops
    \/ triggerEvidenceMissing \/ missingEndpoints \/ ResetLimit
    \/ \E f \in Families : Gap(f) \/ signals[f].loss > 0 \/ DetailsMissing(f)

activity == \E f \in Families : signals[f].count > 0

(* A critical observation: an OOM victim or a latency over the critical    *)
(* threshold.                                                              *)
CriticalSeen(f) ==
    (f = "oom" /\ Observed(f) > 0) \/ (f \in Latency /\ criticalCount(f) > 0)

SignalState ==
    IF triggerEvidenceMissing \/ \E f \in Families : CriticalSeen(f) THEN "critical"
    ELSE IF \E f \in Families : Observed(f) > 0 THEN "review"
    ELSE IF activity THEN "clear" ELSE "no_activity"

EvidenceState ==
    IF ~Limited THEN "complete"
    ELSE IF \A f \in Families : signals[f].covered = 0 /\ signals[f].details = 0 THEN "unavailable"
    ELSE "limited"

-----------------------------------------------------------------------------
AssessNext ==
    /\ UNCHANGED setup
    /\ \/ NextInterval \/ Compact \/ UnseenReset
       \/ \E f \in Families, what \in {"idle", "normal", "slow", "critical", "untimed"} :
             \/ Fail(f, what)
             \/ \E metric \in {"kept", "dropped", "partial"},
                   detail \in {"none", "kept", "nameless", "suppressed", "dropped"} : Poll(f, what, metric, detail)
       \/ \E requested \in BOOLEAN : Evict(requested)

AssessSpec == AssessInit /\ [][AssessNext]_assessVars

-----------------------------------------------------------------------------
(* The counters stay within what the window can hold.                      *)
WithinWindow ==
    /\ window \in 0..setup.intervals /\ todo \subseteq Families
    /\ \A f \in Families : signals[f].covered <= window /\ signals[f].details <= happened[f].all

(* Snapshots are taken between polls.                                      *)
Settled == todo = {} /\ window > 0

(* "no anomalies observed" with complete evidence: in the window, except   *)
(* in the intervals its two boundaries cut, nothing slow, critical or      *)
(* untimed happened that the sensors' tracepoints show.  A TCP reset that  *)
(* they do not show can have happened, but then the report says so, and it *)
(* is known that the kernel is one of those.                               *)
NoFalseClear ==
    (Settled /\ EvidenceState = "complete" /\ SignalState \in {"clear", "no_activity"}) =>
        /\ \A f \in Families : happened[f].slow = 0
        /\ unseen => ResetNote /\ ~ResetLimit

(* Evidence is complete only when no interval, and no detail of an anomaly *)
(* or its addresses, was lost, by any of the ways in which the pipeline    *)
(* loses them.                                                             *)
CompleteIsComplete ==
    (Settled /\ EvidenceState = "complete") => \A f \in Families : ~happened[f].lost

(* A critical observation that was polled, or that triggered an automatic  *)
(* capture, makes the verdict critical, whatever was evicted, compacted or *)
(* dropped since.                                                          *)
CriticalNeverHidden ==
    (manifest.triggers # {} \/ \E f \in Families : signals[f].critical > 0) =>
        SignalState = "critical"

(* observed_lower_bounds: aggregates and details overlap and are never     *)
(* added up to more than happened.                                         *)
LowerBounds == \A f \in Families : Observed(f) <= happened[f].all

(* The verdict of internal/analyzer/assessment.go is sound: neither a      *)
(* clear signal nor complete evidence hides what the tracepoints showed or *)
(* the pipeline lost, what they may not show is noted, nothing critical is *)
(* passed over, and nothing is counted twice.                              *)
VerdictSound ==
    WithinWindow /\ NoFalseClear /\ CompleteIsComplete /\ CriticalNeverHidden /\ LowerBounds
=============================================================================
