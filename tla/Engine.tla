------------------------------- MODULE Engine -------------------------------
(***************************************************************************)
(* The goroutines of the daemon and what they share: the recorder loop     *)
(* (Engine.RunWithReady), the automatic file worker (newAutomatic), the    *)
(* control connections (serveListener, Engine.Ask), the control server and *)
(* the daemon command that joins them.  They meet at the query queue, the  *)
(* unbuffered reply, the two one-slot channels of the worker, the snapshot *)
(* lease and the contexts.                                                 *)
(*                                                                         *)
(* Incident windows are reduced to "none", "open" (before the deadline or  *)
(* not yet collected) and "due"; AutoCapture.tla has their contents.  The  *)
(* poll ticker and the automatic timer are one Wake, with or without a     *)
(* collection.                                                             *)
(***************************************************************************)
EXTENDS Integers, Sequences, FiniteSets

CONSTANTS
    Clients,      \* names of control connections, used again for later ones
    QueryQueue,   \* capacity of Engine.Queries
    MaxClients,   \* client slots of the control server
    NoClient

ASSUME EngineAssumption ==
    /\ QueryQueue \in Nat \ {0}
    /\ MaxClients \in Nat \ {0}
    /\ NoClient \notin Clients
    /\ {"loop", "jobs", "worker", "free"} \cap Clients = {}

VARIABLES
    root,        \* the daemon's context is cancelled
    loop,        \* where the recorder loop stands
    replyTo,     \* the client it replies to
    replyLease,  \* whether the reply carries ReleaseSnapshot
    after,       \* where the loop goes after the reply
    current, next, writing,  \* the controller's windows and write flag
    dropped,     \* history: a result was received and never passed to Finish
    busy,        \* Engine.snapshotBusy
    jobs,        \* the one-slot jobs channel is full
    results,     \* the one-slot results channel is full
    worker,      \* where the worker stands
    queue,       \* Engine.Queries
    client,      \* where each connection stands
    expired,     \* connections whose query timeout has passed
    server,      \* the control server
    daemon       \* the daemon command

controllerVars == <<current, next, writing, dropped>>
replyVars == <<replyTo, replyLease, after>>
workerVars == <<jobs, results, worker>>
clientVars == <<queue, client, expired>>
vars == <<root, loop, replyVars, controllerVars, busy, workerVars, clientVars, server, daemon>>

Windows == {"none", "open", "due"}
LoopStates == {"select", "reply", "progress", "enqueue", "closing", "joining", "stopped"}
WorkerStates == {"idle", "saving", "sending", "done"}
ClientStates == {"new", "open", "waiting", "streaming", "leaving", "closed", "refused"}

TypeOK ==
    /\ root \in BOOLEAN
    /\ loop \in LoopStates
    /\ replyTo \in Clients \cup {NoClient}
    /\ replyLease \in BOOLEAN
    /\ after \in {"select", "progress", "closing"}
    /\ current \in Windows /\ next \in Windows
    /\ writing \in BOOLEAN /\ dropped \in BOOLEAN
    /\ busy \in BOOLEAN
    /\ jobs \in BOOLEAN /\ results \in BOOLEAN
    /\ worker \in WorkerStates
    /\ queue \in Seq(Clients)
    /\ client \in [Clients -> ClientStates]
    /\ expired \subseteq Clients
    /\ server \in {"serving", "draining", "done"}
    /\ daemon \in {"running", "waiting", "exited"}

Init ==
    /\ root = FALSE
    /\ loop = "select"
    /\ replyTo = NoClient /\ replyLease = FALSE /\ after = "select"
    /\ current = "none" /\ next = "none"
    /\ writing = FALSE /\ dropped = FALSE
    /\ busy = FALSE
    /\ jobs = FALSE /\ results = FALSE /\ worker = "idle"
    /\ queue = <<>>
    /\ client = [c \in Clients |-> "new"]
    /\ expired = {}
    /\ server = "serving"
    /\ daemon = "running"

(* A query's context descends from the server's, which descends from root. *)
Cancelled(c) == root \/ server # "serving" \/ c \in expired

(* Mutant: close does not cancel the worker.                               *)
WorkerCancelledByRoot == root

(* The worker's context descends from root; automatic.close cancels it too.*)
WorkerCancelled == root \/ loop \in {"joining", "stopped"}

-----------------------------------------------------------------------------
(* What one collection can do to the windows (Controller.tla): open the    *)
(* current one, let its deadline pass, and behind a window that has ended  *)
(* open the waiting one, let it end or push it out again.  With no         *)
(* post-window a new window is due at once.                                *)
Collect ==
    /\ current' \in CASE current = "none" -> Windows
                      [] current = "open" -> {"open", "due"}
                      [] current = "due" -> {"due"}
    /\ next' \in IF current = "none" \/ current' # "due" THEN {next}
                 ELSE IF next = "none" THEN Windows ELSE {"open", "due"}

(* The poll ticker or the automatic timer.                                 *)
Wake ==
    /\ loop = "select"
    /\ Collect
    /\ loop' = "progress"
    /\ UNCHANGED <<root, replyVars, writing, dropped, busy, workerVars, clientVars, server, daemon>>

(* A permanent sensor failure or a failed clock reading ends the loop.     *)
WakeFails ==
    /\ loop = "select"
    /\ Collect
    /\ loop' = "closing"
    /\ UNCHANGED <<root, replyVars, writing, dropped, busy, workerVars, clientVars, server, daemon>>

ContextDone ==
    /\ loop = "select"
    /\ root
    /\ loop' = "closing"
    /\ UNCHANGED <<root, replyVars, controllerVars, busy, workerVars, clientVars, server, daemon>>

Completed ==
    /\ loop = "select"
    /\ results
    /\ results' = FALSE
    /\ writing' = FALSE
    /\ loop' = "progress"
    /\ UNCHANGED <<root, replyVars, current, next, dropped, busy, jobs, worker, clientVars, server, daemon>>

(* The clock reading after the receive fails: the loop ends before Finish. *)
CompletedLost ==
    /\ loop = "select"
    /\ results
    /\ results' = FALSE
    /\ dropped' = TRUE
    /\ loop' = "closing"
    /\ UNCHANGED <<root, replyVars, current, next, writing, busy, jobs, worker, clientVars,
                   server, daemon>>

ReplyThen(c, lease, then) ==
    /\ replyTo' = c
    /\ replyLease' = lease
    /\ after' = then
    /\ loop' = "reply"

(* Mutant: live queries are skipped too.                                   *)
SkipQueryAny ==
    /\ loop = "select"
    /\ queue # <<>>
    /\ queue' = Tail(queue)
    /\ UNCHANGED <<root, loop, replyVars, controllerVars, busy, workerVars, client, expired,
                   server, daemon>>

(* A query whose context has ended is skipped.                             *)
SkipQuery ==
    /\ loop = "select"
    /\ queue # <<>>
    /\ Cancelled(Head(queue))
    /\ queue' = Tail(queue)
    /\ UNCHANGED <<root, loop, replyVars, controllerVars, busy, workerVars, client, expired,
                   server, daemon>>

TakeQuery ==
    /\ loop = "select"
    /\ queue # <<>>
    /\ ~Cancelled(Head(queue))
    /\ queue' = Tail(queue)

(* The clock reading for the query fails: the loop ends without a reply.   *)
QueryLost ==
    /\ TakeQuery
    /\ loop' = "closing"
    /\ UNCHANGED <<root, replyVars, controllerVars, busy, workerVars, client, expired,
                   server, daemon>>

RejectQuery ==
    /\ TakeQuery
    /\ ReplyThen(Head(queue), FALSE, "select")
    /\ UNCHANGED <<root, controllerVars, busy, workerVars, client, expired, server, daemon>>

StatusQuery ==
    /\ TakeQuery
    /\ ReplyThen(Head(queue), FALSE, "progress")
    /\ UNCHANGED <<root, controllerVars, busy, workerVars, client, expired, server, daemon>>

(* Mutant: snapshotBusy is set without a compare-and-swap.                 *)
SnapshotQueryTakes ==
    /\ TakeQuery
    /\ Collect
    /\ ReplyThen(Head(queue), TRUE, "progress")
    /\ busy' = TRUE
    /\ UNCHANGED <<root, writing, dropped, workerVars, client, expired, server, daemon>>

(* Collect, then try the lease: a busy lease is an error reply, and        *)
(* scheduling still runs.                                                  *)
SnapshotQuery ==
    /\ TakeQuery
    /\ Collect
    /\ ReplyThen(Head(queue), ~busy, "progress")
    /\ busy' = TRUE
    /\ UNCHANGED <<root, writing, dropped, workerVars, client, expired, server, daemon>>

SnapshotQueryFails ==
    /\ TakeQuery
    /\ Collect
    /\ ReplyThen(Head(queue), FALSE, "closing")
    /\ UNCHANGED <<root, writing, dropped, busy, workerVars, client, expired, server, daemon>>

(* reply: the client takes the result, and with it the lease ...           *)
ReplyDelivered ==
    /\ loop = "reply"
    /\ client[replyTo] = "waiting"
    /\ client' = [client EXCEPT ![replyTo] = IF replyLease THEN "streaming" ELSE "leaving"]
    /\ loop' = after
    /\ replyTo' = NoClient /\ replyLease' = FALSE
    /\ UNCHANGED <<root, after, controllerVars, busy, workerVars, queue, expired, server, daemon>>

(* Mutant: an abandoned reply leaks the lease.                             *)
ReplyAbandonedLeaks ==
    /\ loop = "reply"
    /\ Cancelled(replyTo)
    /\ loop' = after
    /\ replyTo' = NoClient /\ replyLease' = FALSE
    /\ UNCHANGED <<root, after, controllerVars, busy, workerVars, clientVars, server, daemon>>

(* ... or its context has ended and the loop gives the lease back.         *)
ReplyAbandoned ==
    /\ loop = "reply"
    /\ Cancelled(replyTo)
    /\ busy' = IF replyLease THEN FALSE ELSE busy
    /\ loop' = after
    /\ replyTo' = NoClient /\ replyLease' = FALSE
    /\ UNCHANGED <<root, after, controllerVars, workerVars, clientVars, server, daemon>>

(* automatic.progress without a file to begin: nothing is due, a write is  *)
(* running, or another snapshot holds the lease.                           *)
ProgressWaits ==
    /\ loop = "progress"
    /\ current # "due" \/ writing \/ busy
    /\ loop' = "select"
    /\ UNCHANGED <<root, replyVars, controllerVars, busy, workerVars, clientVars, server, daemon>>

(* Mutant: a file is begun while another one is being written.             *)
ProgressBeginsWriting ==
    /\ loop = "progress"
    /\ current = "due" /\ ~busy
    /\ busy' = TRUE
    /\ writing' = TRUE
    /\ current' = next /\ next' = "none"
    /\ loop' = "enqueue"
    /\ UNCHANGED <<root, replyVars, dropped, workerVars, clientVars, server, daemon>>

ProgressBegins ==
    /\ loop = "progress"
    /\ current = "due" /\ ~writing /\ ~busy
    /\ busy' = TRUE
    /\ writing' = TRUE
    /\ current' = next /\ next' = "none"
    /\ loop' = "enqueue"
    /\ UNCHANGED <<root, replyVars, dropped, workerVars, clientVars, server, daemon>>

(* The send on jobs, which blocks the loop while the slot is taken.        *)
Enqueue ==
    /\ loop = "enqueue"
    /\ ~jobs
    /\ jobs' = TRUE
    /\ loop' = "select"
    /\ UNCHANGED <<root, replyVars, controllerVars, busy, results, worker, clientVars,
                   server, daemon>>

(* automatic.close: cancel, join the worker, settle a queued job or a last *)
(* result; then the stopped channel is closed.                             *)
CloseCancels ==
    /\ loop = "closing"
    /\ loop' = "joining"
    /\ UNCHANGED <<root, replyVars, controllerVars, busy, workerVars, clientVars, server, daemon>>

(* Mutant: a job left in the queue is released but not finished.           *)
CloseJoinsForgets ==
    /\ loop = "joining"
    /\ worker = "done"
    /\ busy' = IF jobs THEN FALSE ELSE busy
    /\ writing' = IF results THEN FALSE ELSE writing
    /\ jobs' = FALSE
    /\ results' = FALSE
    /\ loop' = "stopped"
    /\ UNCHANGED <<root, replyVars, current, next, dropped, worker, clientVars, server, daemon>>

CloseJoins ==
    /\ loop = "joining"
    /\ worker = "done"
    /\ busy' = IF jobs THEN FALSE ELSE busy
    /\ writing' = IF jobs \/ results THEN FALSE ELSE writing
    /\ jobs' = FALSE
    /\ results' = FALSE
    /\ loop' = "stopped"
    /\ UNCHANGED <<root, replyVars, current, next, dropped, worker, clientVars, server, daemon>>

-----------------------------------------------------------------------------
WorkerTakes ==
    /\ worker = "idle"
    /\ jobs
    /\ jobs' = FALSE
    /\ worker' = "saving"
    /\ UNCHANGED <<root, loop, replyVars, controllerVars, busy, results, clientVars, server, daemon>>

(* Save returned; the lease is released before the result is sent.         *)
WorkerReleases ==
    /\ worker = "saving"
    /\ busy' = FALSE
    /\ worker' = "sending"
    /\ UNCHANGED <<root, loop, replyVars, controllerVars, jobs, results, clientVars, server, daemon>>

WorkerSends ==
    /\ worker = "sending"
    /\ ~results
    /\ results' = TRUE
    /\ worker' = "idle"
    /\ UNCHANGED <<root, loop, replyVars, controllerVars, busy, jobs, clientVars, server, daemon>>

WorkerExits ==
    /\ worker = "idle"
    /\ WorkerCancelled
    /\ worker' = "done"
    /\ UNCHANGED <<root, loop, replyVars, controllerVars, busy, jobs, results, clientVars,
                   server, daemon>>

-----------------------------------------------------------------------------
Active == {c \in Clients : client[c] \notin {"new", "closed", "refused"}}

SlotFree == Cardinality(Active) < MaxClients

ClientAt(c, from, to) ==
    /\ client[c] = from
    /\ client' = [client EXCEPT ![c] = to]

(* The loop has nothing left of an earlier connection of this name.        *)
Forgotten(c) == replyTo # c /\ \A i \in DOMAIN queue : queue[i] # c

(* A new connection, any number of times.                                  *)
Accept(c) ==
    /\ server = "serving"
    /\ Forgotten(c)
    /\ \E from \in {"new", "closed", "refused"} :
          ClientAt(c, from, IF SlotFree THEN "open" ELSE "refused")
    /\ expired' = expired \ {c}
    /\ UNCHANGED <<root, loop, replyVars, controllerVars, busy, workerVars, queue, server, daemon>>

(* A malformed request, or a connection that ends before its request.      *)
BadRequest(c) ==
    /\ ClientAt(c, "open", "leaving")
    /\ UNCHANGED <<root, loop, replyVars, controllerVars, busy, workerVars, queue, expired,
                   server, daemon>>

(* Ask: the query enters the queue.                                        *)
AskEnqueues(c) ==
    /\ Len(queue) < QueryQueue
    /\ ClientAt(c, "open", "waiting")
    /\ queue' = Append(queue, c)
    /\ UNCHANGED <<root, loop, replyVars, controllerVars, busy, workerVars, expired, server, daemon>>

(* Ask returns an error: its context ended or the recorder stopped.        *)
AskFails(c) ==
    /\ Cancelled(c) \/ loop = "stopped"
    /\ \E from \in {"open", "waiting"} : ClientAt(c, from, "leaving")
    /\ UNCHANGED <<root, loop, replyVars, controllerVars, busy, workerVars, queue, expired,
                   server, daemon>>

(* The query timeout.                                                      *)
Expire(c) ==
    /\ client[c] \in {"open", "waiting", "streaming"}
    /\ c \notin expired
    /\ expired' = expired \cup {c}
    /\ UNCHANGED <<root, loop, replyVars, controllerVars, busy, workerVars, queue, client,
                   server, daemon>>

(* Mutant: the handler does not release the lease.                         *)
StreamEndsLeaks(c) ==
    /\ ClientAt(c, "streaming", "leaving")
    /\ UNCHANGED <<root, loop, replyVars, controllerVars, busy, workerVars, queue, expired,
                   server, daemon>>

(* The capture is streamed, or the connection fails; the deferred          *)
(* ReleaseSnapshot runs either way.                                        *)
StreamEnds(c) ==
    /\ ClientAt(c, "streaming", "leaving")
    /\ busy' = FALSE
    /\ UNCHANGED <<root, loop, replyVars, controllerVars, workerVars, queue, expired, server, daemon>>

(* The remaining deferred calls: the slot is freed, the handler is done.   *)
Leave(c) ==
    /\ ClientAt(c, "leaving", "closed")
    /\ UNCHANGED <<root, loop, replyVars, controllerVars, busy, workerVars, queue, expired,
                   server, daemon>>

(* Accept fails for good, or the listener was closed by the context.       *)
ServerDrains ==
    /\ server = "serving"
    /\ server' = "draining"
    /\ UNCHANGED <<root, loop, replyVars, controllerVars, busy, workerVars, clientVars, daemon>>

ServerDone ==
    /\ server = "draining"
    /\ Active = {}
    /\ server' = "done"
    /\ UNCHANGED <<root, loop, replyVars, controllerVars, busy, workerVars, clientVars, daemon>>

(* A signal cancels the command's context.                                 *)
Signal ==
    /\ ~root
    /\ root' = TRUE
    /\ UNCHANGED <<loop, replyVars, controllerVars, busy, workerVars, clientVars, server, daemon>>

(* The daemon's select: whatever ends first cancels the rest.              *)
DaemonCancels ==
    /\ daemon = "running"
    /\ loop = "stopped" \/ server = "done" \/ root
    /\ root' = TRUE
    /\ daemon' = "waiting"
    /\ UNCHANGED <<loop, replyVars, controllerVars, busy, workerVars, clientVars, server>>

(* Mutant: the daemon does not wait for the control server.                *)
DaemonExitsEarly ==
    /\ daemon = "waiting"
    /\ loop = "stopped"
    /\ daemon' = "exited"
    /\ UNCHANGED <<root, loop, replyVars, controllerVars, busy, workerVars, clientVars, server>>

DaemonExits ==
    /\ daemon = "waiting"
    /\ loop = "stopped" /\ server = "done"
    /\ daemon' = "exited"
    /\ UNCHANGED <<root, loop, replyVars, controllerVars, busy, workerVars, clientVars, server>>

Terminated == daemon = "exited" /\ UNCHANGED vars

-----------------------------------------------------------------------------
LoopNext ==
    \/ Wake \/ WakeFails \/ ContextDone \/ Completed \/ CompletedLost
    \/ SkipQuery \/ QueryLost \/ RejectQuery \/ StatusQuery \/ SnapshotQuery \/ SnapshotQueryFails
    \/ ReplyDelivered \/ ReplyAbandoned
    \/ ProgressWaits \/ ProgressBegins \/ Enqueue
    \/ CloseCancels \/ CloseJoins

WorkerNext == WorkerTakes \/ WorkerReleases \/ WorkerSends \/ WorkerExits

ClientNext(c) ==
    \/ Accept(c) \/ BadRequest(c) \/ AskEnqueues(c) \/ AskFails(c) \/ Expire(c)
    \/ StreamEnds(c) \/ Leave(c)

DaemonNext == ServerDrains \/ ServerDone \/ Signal \/ DaemonCancels \/ DaemonExits

Next ==
    \/ LoopNext
    \/ WorkerNext
    \/ \E c \in Clients : ClientNext(c)
    \/ DaemonNext
    \/ Terminated

Query == SkipQuery \/ RejectQuery \/ StatusQuery \/ SnapshotQuery

(* The loop runs, and Go's select picks uniformly among its ready cases,   *)
(* so a case that keeps becoming ready is taken.  Save returns (its context*)
(* times out), a stream ends (its connection has a deadline and is closed  *)
(* on shutdown), goroutines are scheduled.  No fairness is asked of        *)
(* clients, signals, query timeouts or failures.                           *)
Fairness ==
    /\ SF_vars(Wake) /\ SF_vars(Completed) /\ SF_vars(Query) /\ SF_vars(ContextDone)
    /\ WF_vars(ReplyDelivered \/ ReplyAbandoned)
    /\ WF_vars(ProgressWaits \/ ProgressBegins \/ Enqueue \/ CloseCancels \/ CloseJoins)
    /\ WF_vars(WorkerNext)
    /\ \A c \in Clients : /\ SF_vars(AskEnqueues(c))
                          /\ WF_vars(AskFails(c) \/ StreamEnds(c) \/ Leave(c))
    /\ WF_vars((root /\ ServerDrains) \/ ServerDone)
    /\ WF_vars(DaemonCancels \/ DaemonExits)

Spec == Init /\ [][Next]_vars
FairSpec == Spec /\ Fairness

-----------------------------------------------------------------------------
(* Who holds the release function of the snapshot lease.                   *)
Holders ==
    {c \in Clients : client[c] = "streaming"}
    \cup {h \in {"loop"} : loop = "enqueue" \/ (loop = "reply" /\ replyLease)}
    \cup {h \in {"jobs"} : jobs}
    \cup {h \in {"worker"} : worker = "saving"}

(* The lease is busy exactly while one holder can still release it: it is  *)
(* never leaked by a cancelled query, an abandoned reply or a shutdown, and*)
(* never held twice.                                                       *)
LeaseExact ==
    /\ busy <=> Holders # {}
    /\ \A g, h \in Holders : g = h

(* A file the controller has begun is in exactly one place until Finish:   *)
(* about to be queued, queued, with the worker, a result, or a result that *)
(* a failed clock reading kept from Finish.                                *)
WritePlaces ==
    {p \in {"enqueue"} : loop = "enqueue"} \cup {p \in {"jobs"} : jobs}
    \cup {p \in {"worker"} : worker \in {"saving", "sending"}}
    \cup {p \in {"results"} : results} \cup {p \in {"dropped"} : dropped}

WriteAccounted ==
    /\ writing <=> WritePlaces # {}
    /\ \A p, q \in WritePlaces : p = q

(* The sends on the one-slot channels never block: not the loop's on jobs, *)
(* which would stop recording, nor the worker's on results, which would    *)
(* keep close waiting for it.                                              *)
SendsNeverBlock ==
    /\ loop = "enqueue" => ~jobs
    /\ worker = "sending" => ~results

(* No query is lost and none is answered twice: the loop only replies to a *)
(* client that is there or whose context ended, and a client that waits    *)
(* with a live context has its query in exactly one place, queued or being *)
(* answered, unless the loop is ending and its stopped channel frees it.   *)
ReplyHasReceiver ==
    /\ loop = "reply" =>
           replyTo \in Clients /\ (client[replyTo] = "waiting" \/ Cancelled(replyTo))
    /\ \A c \in Clients : client[c] = "waiting" /\ ~Cancelled(c)
                            /\ loop \notin {"closing", "joining", "stopped"} =>
           Cardinality({i \in DOMAIN queue : queue[i] = c})
               = IF loop = "reply" /\ replyTo = c THEN 0 ELSE 1

(* When the daemon has exited nothing is left behind: no lease, no queued  *)
(* file, no result, no worker and no connection; a write that Finish never *)
(* settled is one whose result was dropped.                                *)
CleanExit ==
    daemon = "exited" =>
        /\ ~busy /\ ~jobs /\ ~results
        /\ writing => dropped
        /\ worker = "done"
        /\ Active = {}

(* "Report publication or cancellation failures rather than losing the     *)
(* log": when the loop has stopped, every begun file has been passed to    *)
(* finish.                                                                 *)
ResultReported == loop = "stopped" => ~writing

(* Engine implements the abstract lease.                                   *)
LeaseOwner ==
    IF Holders = {} THEN "free"
    ELSE IF "loop" \in Holders THEN "loop"
    ELSE IF Holders \cap {"jobs", "worker"} # {} THEN "worker"
    ELSE CHOOSE c \in Clients : c \in Holders

Lease == INSTANCE SnapshotLease
    WITH owner <- LeaseOwner, Free <- "free", Loop <- "loop", Writer <- "worker"

LeaseSpec == Lease!Spec

(* A manual snapshot holds the lease.                                      *)
ManualHolds ==
    \/ loop = "reply" /\ replyLease
    \/ \E c \in Clients : client[c] = "streaming"

(* A window that is due is handed to the writer, or the recorder stops,    *)
(* whatever earlier write, reply, cancelled query or stream was in the way.*)
(* The writer does not queue for the lease, it retries: only manual        *)
(* snapshots that keep coming and win it every time can put it off forever.*)
DueIsWritten ==
    <>[]~ManualHolds => (current = "due" ~> (loop = "enqueue" \/ loop = "stopped"))

(* Every accepted connection is answered and closed, even if the query     *)
(* timeout never fires and even if the recorder stops under it.            *)
ClientServed == \A c \in Clients : client[c] = "open" ~> client[c] = "closed"

(* Once the context is cancelled or the loop fails, everything joins.      *)
ShutdownCompletes == (root \/ loop = "closing" \/ server = "draining") ~> daemon = "exited"
=============================================================================
