----------------------------- MODULE MCDaemon -----------------------------
(***************************************************************************)
(* The life of the processes: the sensors of a standalone capture, strict  *)
(* or not, where reads of /proc may block for ever (blocking) or return    *)
(* (capture), and the daemons that follow each other at one control socket *)
(* (socket: starts over a live daemon, stops, kills at every system call   *)
(* and the starts after them, no two at once).                             *)
(* These share no state, so one run checks them side by side: part is what *)
(* a behaviour is about.  The safety properties, LoopReturns and           *)
(* StaleSocketRecovered are the components' own definitions.               *)
(***************************************************************************)
EXTENDS SensorLifecycle, SocketOwnership

VARIABLE part

ASSUME LifecycleAssumption /\ SocketAssumption

mcVars == <<part, vars, socketVars>>

\* Beside a daemon no capture is taken, and beside a capture no daemon has
\* ever started.
NoLife == Init /\ ~main.strict
NoSocket == SocketInit /\ path = None

MCInit ==
    \/ part \in {"capture", "blocking"} /\ Init /\ NoSocket
    \/ part = "socket" /\ SocketInit /\ NoLife

Capturing(p, A) == part = p /\ A /\ UNCHANGED <<part, socketVars>>
Serving(A) == part = "socket" /\ A /\ UNCHANGED <<part, vars>>

MCNext ==
    \/ \E p \in {"capture", "blocking"} : Capturing(p, Next)
    \/ Serving(SocketNext)

(* The fairness of each part: Spec of SensorLifecycle where reads may      *)
(* block, FairSpec where they return, and SocketSpec.                      *)
Fairness ==
    /\ \A p \in {"capture", "blocking"} :
         /\ WF_mcVars(Capturing(p, Command)) /\ WF_mcVars(Capturing(p, Loop))
         /\ SF_mcVars(Capturing(p, LoopDone)) /\ SF_mcVars(Capturing(p, Asking))
    /\ \A i \in Sensors :
         WF_mcVars(Capturing("capture", Cleanup(i))) /\ WF_mcVars(Capturing("capture", Reader(i)))
    /\ \A d \in Daemons : WF_mcVars(Serving(Serve(d)))

MCSpec == MCInit /\ [][MCNext]_mcVars /\ Fairness

-----------------------------------------------------------------------------
(* CommandEnds of SensorLifecycle, where reads of /proc return: the command*)
(* ends once it is cancelled or has asked for the capture, no result is    *)
(* awaited twice and no cleanup waits for ever.                            *)
CaptureEnds ==
    (part = "capture" /\ (main.pc \in {"ask", "asked"} \/ cancelled)) ~> (main.pc = "done")
=============================================================================
