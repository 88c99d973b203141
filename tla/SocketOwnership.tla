--------------------------- MODULE SocketOwnership ---------------------------
(***************************************************************************)
(* Daemons that share one control socket path (internal/control/           *)
(* control.go, Serve).  A daemon looks at the path, probes the socket it   *)
(* finds there, removes it when nobody listens, listens itself, and removes*)
(* the path again when it stops.  Each of these is a separate system call  *)
(* on a name that the other daemons use too; a daemon that is killed       *)
(* leaves its socket behind.                                               *)
(***************************************************************************)
EXTENDS Integers, FiniteSets

CONSTANTS
    Daemons,     \* the daemon processes of a history; each runs once
    None,        \* nothing at the path
    File,        \* something at the path that is not a socket
    Supervised   \* TRUE: a supervisor lets no start or stop overlap another

\* What the configuration guarantees.
SocketAssumption ==
    /\ None \notin Daemons /\ File \notin Daemons /\ None # File
    /\ Supervised \in BOOLEAN

VARIABLES
    path,       \* what the path names: None, File or the socket of a daemon
    pc,         \* where each daemon is in Serve
    listening   \* the daemons whose socket accepts connections

socketVars == <<path, pc, listening>>

Over == {"off", "refused", "exited", "killed"}
Steps == {"lstat", "dial", "remove", "listen", "bound", "chmod", "serving",
          "close", "unlinked", "drain", "undo", "abort", "aborted"}
\* Between two system calls of its start or of its stop.
Busy(d) == pc[d] \notin Over \cup {"serving"}

SocketInit ==
    /\ path \in {None, File}
    /\ pc = [d \in Daemons |-> "off"]
    /\ listening = {}

Go(d, from, to) == pc[d] = from /\ pc' = [pc EXCEPT ![d] = to]

Alone(d) == Supervised => \A e \in Daemons \ {d} : ~Busy(e)

Start(d) ==
    /\ Alone(d)
    /\ Go(d, "off", "lstat")
    /\ UNCHANGED <<path, listening>>

-----------------------------------------------------------------------------
(* Serve, up to the first Accept.                                          *)
Lstat(d) ==
    /\ Go(d, "lstat", CASE path = None -> "listen"
                        [] path = File -> "refused"
                        [] OTHER -> "dial")
    /\ UNCHANGED <<path, listening>>

\* ECONNREFUSED: the name is there and nobody listens behind it.  Any other
\* outcome, a connection or a name that is gone by now, ends the start.
DialRefused == path # None /\ path \notin listening

(* Mutant: the socket is not probed.                                       *)
DialAnyway(d) ==
    /\ Go(d, "dial", "remove")
    /\ UNCHANGED <<path, listening>>

Dial(d) ==
    /\ Go(d, "dial", IF DialRefused THEN "remove" ELSE "refused")
    /\ UNCHANGED <<path, listening>>

(* Mutant: the stale socket stays.                                         *)
RemoveSkipped(d) ==
    /\ Go(d, "remove", IF path = None THEN "refused" ELSE "listen")
    /\ UNCHANGED <<path, listening>>

Remove(d) ==
    /\ Go(d, "remove", IF path = None THEN "refused" ELSE "listen")
    /\ path' = None
    /\ UNCHANGED listening

\* net.Listen binds, which fails when the name exists, and then listens.
Bind(d) ==
    /\ Go(d, "listen", IF path = None THEN "bound" ELSE "refused")
    /\ path' = IF path = None THEN d ELSE path
    /\ UNCHANGED listening

Listen(d) ==
    /\ Go(d, "bound", "chmod")
    /\ listening' = listening \cup {d}
    /\ UNCHANGED path

\* Chmod works on the name; a failure runs the deferred calls.
Chmod(d) ==
    /\ Go(d, "chmod", IF path = None THEN "undo" ELSE "serving")
    /\ UNCHANGED <<path, listening>>

-----------------------------------------------------------------------------
(* The context ends, or Accept fails for good.                             *)
Stop(d) ==
    /\ Alone(d)
    /\ Go(d, "serving", "close")
    /\ UNCHANGED <<path, listening>>

\* The listener's first Close unlinks the name it was bound to, whatever
\* that names now, and then closes the descriptor.
Unlink(d) ==
    /\ pc[d] \in {"close", "abort"}
    /\ pc' = [pc EXCEPT ![d] = IF @ = "close" THEN "unlinked" ELSE "aborted"]
    /\ path' = None
    /\ UNCHANGED listening

CloseListener(d) ==
    /\ pc[d] \in {"unlinked", "aborted"}
    /\ pc' = [pc EXCEPT ![d] = IF @ = "unlinked" THEN "drain" ELSE "refused"]
    /\ listening' = listening \ {d}
    /\ UNCHANGED path

\* The deferred os.Remove: of a daemon that stops, after its connections have
\* ended; of one whose Chmod failed, before the deferred Close.
Removed(d) ==
    /\ pc[d] \in {"drain", "undo"}
    /\ pc' = [pc EXCEPT ![d] = IF @ = "drain" THEN "exited" ELSE "abort"]
    /\ path' = None
    /\ UNCHANGED listening

Kill(d) ==
    /\ pc[d] \notin Over
    /\ pc' = [pc EXCEPT ![d] = "killed"]
    /\ listening' = listening \ {d}
    /\ UNCHANGED path

Serve(d) ==
    \/ Lstat(d) \/ Dial(d) \/ Remove(d) \/ Bind(d) \/ Listen(d) \/ Chmod(d)
    \/ Unlink(d) \/ CloseListener(d) \/ Removed(d)

SocketNext == \E d \in Daemons : Start(d) \/ Stop(d) \/ Kill(d) \/ Serve(d)

SocketSpec == SocketInit /\ [][SocketNext]_socketVars /\ \A d \in Daemons : WF_socketVars(Serve(d))

-----------------------------------------------------------------------------
Bound == {"chmod", "serving", "close", "unlinked", "undo", "abort", "aborted"}

\* A descriptor is open exactly from the listen call to the close call.
SocketTypeOK ==
    /\ path \in Daemons \cup {None, File}
    /\ pc \in [Daemons -> Steps \cup Over]
    /\ listening = {d \in Daemons : pc[d] \in Bound}

\* A daemon that serves is the one clients reach: no other daemon's start or
\* stop takes the name from it (TestBusySocketCannotBeReplaced).
BusySocketKept == \A d \in Daemons : pc[d] = "serving" => path = d

\* A start that finds no live daemon at the path, however the last one ended,
\* gets to serve unless it is killed: Serve recovers a stale socket.
StaleSocketRecovered ==
    \A d \in Daemons :
        pc[d] = "lstat" /\ path # File /\ listening = {} ~> pc[d] \in {"serving", "killed"}
=============================================================================
