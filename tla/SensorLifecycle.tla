-------------------------- MODULE SensorLifecycle --------------------------
(***************************************************************************)
(* The life of the sensors under a standalone capture: opening, startup in *)
(* the engine's loop, permanent failures while it polls, and cleanup.      *)
(* Four kinds of goroutine take part: the command (internal/cli/cli.go),   *)
(* the recorder loop and the cleanup of each sensor (internal/app/app.go), *)
(* and the ring reader of each sensor (internal/sensor/sensor_linux.go).   *)
(*                                                                         *)
(* What the loop records is in Recorder, how it serves queries in Engine.  *)
(***************************************************************************)
EXTENDS Integers, FiniteSets

CONSTANTS
    N,            \* sensors, in the order of definitions
    MaxFaults     \* bound: failures of sensors and of the clock

(* What the configuration guarantees.                                      *)
LifecycleAssumption == N \in Nat \ {0} /\ MaxFaults \in Nat

Sensors == 1..N

VARIABLES
    sensor,    \* each sensor's resources, reader goroutine and health
    cleanup,   \* where the cleanup goroutine of each sensor is in Close
    opened,    \* e.sensors
    loop,      \* the recorder loop
    main,      \* the command and its strict setting
    run,       \* the channel of the loop's result
    ready,     \* the closed ready channel
    cancelled, \* the command's context
    faults     \* failures so far

vars == <<sensor, cleanup, opened, loop, main, run, ready, cancelled, faults>>

\* stopped: its own context is cancelled; failed, history: a read of it failed.
Unopened == [collection |-> FALSE, links |-> FALSE, reader |-> FALSE, go |-> "none",
             state |-> "healthy", stopped |-> FALSE, failed |-> FALSE]
Open == [Unopened EXCEPT !.collection = TRUE, !.links = TRUE, !.reader = TRUE]
Released(s) == ~s.collection /\ ~s.links /\ ~s.reader /\ s.go \in {"none", "exited"}

Init ==
    /\ sensor = [i \in Sensors |-> Unopened]
    /\ cleanup = [i \in Sensors |-> "none"]
    /\ opened = {}
    /\ loop = [pc |-> "none", i |-> 1, h |-> "healthy", disabled |-> {}, query |-> FALSE]
    /\ main \in [pc : {"open"}, i : {1}, result : {"none"}, strict : BOOLEAN]
    /\ run = "empty" /\ ready = FALSE /\ cancelled = FALSE /\ faults = 0

-----------------------------------------------------------------------------
(* openDefinitions: a sensor whose collection, hooks or reader fail is     *)
(* closed and reported as unavailable.                                     *)
OpenSensor(ok) ==
    /\ main.pc = "open" /\ main.i <= N
    /\ ok \/ faults < MaxFaults
    /\ faults' = IF ok THEN faults ELSE faults + 1
    /\ sensor' = [sensor EXCEPT ![main.i] = IF ok THEN Open ELSE Unopened]
    /\ opened' = IF ok THEN opened \cup {main.i} ELSE opened
    /\ main' = [main EXCEPT !.i = @ + 1]
    /\ UNCHANGED <<cleanup, loop, run, ready, cancelled>>

(* Strict mode and a system without sensors are refused; otherwise the     *)
(* command starts the loop.                                                *)
OpenDone ==
    /\ main.pc = "open" /\ main.i > N
    /\ IF opened = {} \/ (main.strict /\ opened # Sensors)
       THEN /\ sensor' = [i \in Sensors |-> Unopened]
            /\ main' = [main EXCEPT !.pc = "done", !.result = "error"]
            /\ UNCHANGED loop
       ELSE /\ main' = [main EXCEPT !.pc = "wait_ready"]
            /\ loop' = [loop EXCEPT !.pc = "start"]
            /\ UNCHANGED sensor
    /\ UNCHANGED <<cleanup, opened, run, ready, cancelled, faults>>

-----------------------------------------------------------------------------
(* The recorder loop.                                                      *)

(* Mutant: the loop waits for a cleanup that is still in /proc.            *)
closeSensorInline(i) == cleanup[i] = "done" /\ UNCHANGED cleanup

(* closeSensor starts one cleanup goroutine per sensor.                    *)
closeSensor(i) ==
    cleanup' = [cleanup EXCEPT ![i] = IF @ = "none" THEN "links" ELSE @]

(* RunWithReady returns: its defers cancel every sensor's context.         *)
Return(result) ==
    /\ loop' = [loop EXCEPT !.pc = "returned"]
    /\ run' = result

Cancelled(i) == cancelled \/ sensor[i].stopped
StopAll(f) == [i \in Sensors |-> [f[i] EXCEPT !.stopped = TRUE]]
Stopped(result, f) == Return(result) /\ sensor' = StopAll(f)

(* collect fails: a query it was made for is told so first.                *)
CollectFails(f) ==
    IF loop.query
    THEN loop' = [loop EXCEPT !.pc = "refuse"] /\ sensor' = f /\ run' = run
    ELSE Stopped("error", f)

(* A first Snapshot and Start of the next sensor.                          *)
StartSensor(ok) ==
    LET i == loop.i IN
    /\ loop.pc = "start" /\ i \in opened
    /\ ok \/ faults < MaxFaults
    /\ faults' = IF ok THEN faults ELSE faults + 1
    /\ IF ok
       THEN /\ sensor' = [sensor EXCEPT ![i].go = "reading"]
            /\ loop' = [loop EXCEPT !.i = @ + 1]
            /\ UNCHANGED <<cleanup, run>>
       ELSE /\ closeSensor(i)
            /\ IF main.strict
               THEN Stopped("error", [sensor EXCEPT ![i].state = "error", ![i].failed = TRUE])
               ELSE /\ loop' = [loop EXCEPT !.i = @ + 1]
                    /\ sensor' = [sensor EXCEPT ![i].state = "error", ![i].failed = TRUE,
                                                ![i].stopped = TRUE]
                    /\ run' = run
    /\ UNCHANGED <<opened, main, ready, cancelled>>

SkipUnopened ==
    /\ loop.pc = "start" /\ loop.i \in Sensors \ opened
    /\ loop' = [loop EXCEPT !.i = @ + 1]
    /\ UNCHANGED <<sensor, cleanup, opened, main, run, ready, cancelled, faults>>

StartDone ==
    LET up == {i \in opened : sensor[i].go # "none"} IN
    /\ loop.pc = "start" /\ loop.i > N
    /\ opened' = up
    /\ IF up = {}
       THEN Stopped("error", sensor) /\ ready' = ready
       ELSE /\ loop' = [loop EXCEPT !.pc = "select"]
            /\ ready' = TRUE
            /\ UNCHANGED <<sensor, run>>
    /\ UNCHANGED <<cleanup, main, cancelled, faults>>

LoopDone ==
    /\ loop.pc = "select" /\ cancelled
    /\ Stopped("nil", sensor)
    /\ UNCHANGED <<cleanup, opened, main, ready, cancelled, faults>>

(* The clock cannot be read when the loop wakes up.                        *)
ClockFails ==
    /\ loop.pc = "select" /\ faults < MaxFaults
    /\ Stopped("error", sensor)
    /\ faults' = faults + 1
    /\ UNCHANGED <<cleanup, opened, main, ready, cancelled>>

Poll ==
    /\ loop.pc = "select"
    /\ loop' = [loop EXCEPT !.pc = "collect", !.i = 1]
    /\ UNCHANGED <<sensor, cleanup, opened, main, run, ready, cancelled, faults>>

polled == opened \ loop.disabled

(* collect reads the health of a sensor before its aggregates.             *)
CollectHealth ==
    /\ loop.pc = "collect" /\ loop.i <= N
    /\ loop' = IF loop.i \in polled
               THEN [loop EXCEPT !.pc = "snapshot", !.h = sensor[loop.i].state]
               ELSE [loop EXCEPT !.i = @ + 1]
    /\ UNCHANGED <<sensor, cleanup, opened, main, run, ready, cancelled, faults>>

(* Snapshot; a sensor that has failed or now fails is disabled and closed. *)
CollectSnapshot(ok) ==
    LET i == loop.i
        marked == IF ok THEN sensor[i]
                  ELSE [sensor[i] EXCEPT !.state = "error", !.failed = TRUE]
    IN
    /\ loop.pc = "snapshot"
    /\ ok \/ faults < MaxFaults
    /\ faults' = IF ok THEN faults ELSE faults + 1
    /\ IF ok /\ loop.h = "healthy"
       THEN /\ loop' = [loop EXCEPT !.pc = "collect", !.i = @ + 1]
            /\ UNCHANGED <<sensor, cleanup, run>>
       ELSE /\ closeSensor(i)
            /\ IF main.strict
               THEN CollectFails([sensor EXCEPT ![i] = marked])
               ELSE /\ loop' = [loop EXCEPT !.pc = "collect", !.i = @ + 1,
                                            !.disabled = @ \cup {i}]
                    /\ sensor' = [sensor EXCEPT ![i] = [marked EXCEPT !.stopped = TRUE]]
                    /\ run' = run
    /\ UNCHANGED <<opened, main, ready, cancelled>>

(* A query is answered, and otherwise the loop waits for work again.       *)
CollectDone ==
    /\ loop.pc = "collect" /\ loop.i > N
    /\ IF loop.disabled = opened
       THEN CollectFails(sensor)
       ELSE /\ loop' = [loop EXCEPT !.pc = IF loop.query THEN "answer" ELSE "select"]
            /\ UNCHANGED <<sensor, run>>
    /\ UNCHANGED <<cleanup, opened, main, ready, cancelled, faults>>

(* After its reply the loop goes on, or returns what collect has returned. *)
Replied ==
    IF loop.pc = "answer"
    THEN loop' = [loop EXCEPT !.pc = "select", !.query = FALSE] /\ UNCHANGED <<sensor, run>>
    ELSE Stopped("error", sensor)

(* reply: the command receives it, and cancels; or it has been cancelled.  *)
Reply ==
    /\ loop.pc \in {"answer", "refuse"} /\ main.pc = "asked"
    /\ main' = [main EXCEPT !.pc = "join",
                            !.result = IF loop.pc = "answer" THEN "captured" ELSE "error"]
    /\ cancelled' = TRUE
    /\ Replied
    /\ UNCHANGED <<cleanup, opened, ready, faults>>

ReplyAbandoned ==
    /\ loop.pc \in {"answer", "refuse"} /\ cancelled
    /\ Replied
    /\ UNCHANGED <<cleanup, opened, main, ready, cancelled, faults>>

-----------------------------------------------------------------------------
(* The ring reader of a sensor.                                            *)

\* An event: the sink may block in a read of /proc.
ReadEvent(i) ==
    /\ sensor[i].go = "reading" /\ sensor[i].reader
    /\ sensor' = [sensor EXCEPT ![i].go = "sink"]
    /\ UNCHANGED <<cleanup, opened, loop, main, run, ready, cancelled, faults>>

SinkReturns(i) ==
    /\ sensor[i].go = "sink"
    /\ sensor' = [sensor EXCEPT ![i].go = "reading"]
    /\ UNCHANGED <<cleanup, opened, loop, main, run, ready, cancelled, faults>>

\* ErrClosed.
ReadClosed(i) ==
    /\ sensor[i].go = "reading" /\ ~sensor[i].reader
    /\ sensor' = [sensor EXCEPT ![i].go = "exited"]
    /\ UNCHANGED <<cleanup, opened, loop, main, run, ready, cancelled, faults>>

ReadFails(i) ==
    /\ sensor[i].go = "reading" /\ sensor[i].reader /\ faults < MaxFaults
    /\ faults' = faults + 1
    /\ sensor' = [sensor EXCEPT ![i].go = "exited", ![i].failed = TRUE,
                                ![i].state = IF Cancelled(i) THEN @ ELSE "error"]
    /\ UNCHANGED <<cleanup, opened, loop, main, run, ready, cancelled>>

(* kernelSensor.Close, once: the links, the reader, the reader goroutine,  *)
(* the collection.                                                         *)
CloseLinks(i) ==
    /\ cleanup[i] = "links"
    /\ sensor' = [sensor EXCEPT ![i].links = FALSE]
    /\ cleanup' = [cleanup EXCEPT ![i] = "reader"]
    /\ UNCHANGED <<opened, loop, main, run, ready, cancelled, faults>>

(* Mutant: the goroutine is awaited before its reader is closed.           *)
CloseReaderLate(i) ==
    /\ cleanup[i] = "reader"
    /\ cleanup' = [cleanup EXCEPT ![i] = "collection"]
    /\ UNCHANGED <<sensor, opened, loop, main, run, ready, cancelled, faults>>

CloseReader(i) ==
    /\ cleanup[i] = "reader"
    /\ sensor' = [sensor EXCEPT ![i].reader = FALSE]
    /\ cleanup' = [cleanup EXCEPT ![i] = "collection"]
    /\ UNCHANGED <<opened, loop, main, run, ready, cancelled, faults>>

(* Mutant: the maps are closed under a reader that is still in its sink.   *)
CloseCollectionEarly(i) ==
    /\ cleanup[i] = "collection"
    /\ sensor' = [sensor EXCEPT ![i].collection = FALSE]
    /\ cleanup' = [cleanup EXCEPT ![i] = "done"]
    /\ UNCHANGED <<opened, loop, main, run, ready, cancelled, faults>>

CloseCollection(i) ==
    /\ cleanup[i] = "collection" /\ sensor[i].go \in {"none", "exited"}
    /\ sensor' = [sensor EXCEPT ![i].collection = FALSE]
    /\ cleanup' = [cleanup EXCEPT ![i] = "done"]
    /\ UNCHANGED <<opened, loop, main, run, ready, cancelled, faults>>

-----------------------------------------------------------------------------
(* The command.                                                            *)

Signal ==
    /\ ~cancelled /\ main.pc \in {"wait_ready", "wait_period", "ask", "asked"}
    /\ cancelled' = TRUE
    /\ UNCHANGED <<sensor, cleanup, opened, loop, main, run, ready, faults>>

(* waitCapturePeriod: the recorder is ready, then the period has passed.   *)
Await ==
    /\ \/ main.pc = "wait_ready" /\ ready /\ main' = [main EXCEPT !.pc = "wait_period"]
       \/ main.pc = "wait_period" /\ main' = [main EXCEPT !.pc = "ask"]
    /\ UNCHANGED <<sensor, cleanup, opened, loop, run, ready, cancelled, faults>>

(* The loop's result arrives instead; it is not received again.            *)
AwaitStopped ==
    /\ main.pc \in {"wait_ready", "wait_period"} /\ run # "empty"
    /\ run' = "empty"
    /\ main' = [main EXCEPT !.pc = "close", !.i = 1, !.result = "error"]
    /\ cancelled' = TRUE
    /\ UNCHANGED <<sensor, cleanup, opened, loop, ready, faults>>

AwaitCancelled ==
    /\ main.pc \in {"wait_ready", "wait_period"} /\ cancelled
    /\ main' = [main EXCEPT !.pc = "join", !.result = "error"]
    /\ UNCHANGED <<sensor, cleanup, opened, loop, run, ready, cancelled, faults>>

(* Ask: the loop takes the query, unless its context has ended, and        *)
(* collects for it.                                                        *)
Ask ==
    /\ main.pc = "ask" /\ loop.pc = "select" /\ ~cancelled
    /\ main' = [main EXCEPT !.pc = "asked"]
    /\ loop' = [loop EXCEPT !.pc = "collect", !.i = 1, !.query = TRUE]
    /\ UNCHANGED <<sensor, cleanup, opened, run, ready, cancelled, faults>>

(* The clock cannot be read before that: the loop returns; if it was the   *)
(* reading after the queued details (told), it answers the query first.    *)
AskFails(told) ==
    /\ main.pc = "ask" /\ loop.pc = "select" /\ ~cancelled /\ faults < MaxFaults
    /\ main' = [main EXCEPT !.pc = "asked"]
    /\ IF told THEN loop' = [loop EXCEPT !.pc = "refuse"] /\ UNCHANGED <<sensor, run>>
               ELSE Stopped("error", sensor)
    /\ faults' = faults + 1
    /\ UNCHANGED <<cleanup, opened, ready, cancelled>>

Asking == Ask \/ \E told \in BOOLEAN : AskFails(told)

(* Ask gives up: its context has ended, or the loop has returned; cancel.  *)
GiveUp ==
    /\ main.pc \in {"ask", "asked"} /\ (cancelled \/ loop.pc = "returned")
    /\ main' = [main EXCEPT !.pc = "join", !.result = "error"]
    /\ cancelled' = TRUE
    /\ UNCHANGED <<sensor, cleanup, opened, loop, run, ready, faults>>

(* The command receives the loop's result, and saves the capture when      *)
(* neither failed.                                                         *)
Join ==
    /\ main.pc = "join" /\ run # "empty"
    /\ main' = [main EXCEPT !.pc = "close", !.i = 1,
                            !.result = IF @ = "captured" /\ run = "nil" THEN "saved" ELSE "error"]
    /\ run' = "empty"
    /\ UNCHANGED <<sensor, cleanup, opened, loop, ready, cancelled, faults>>

(* Engine.Close starts the cleanups that have not started, ...             *)
CloseAll ==
    /\ main.pc = "close"
    /\ cleanup' = [i \in Sensors |-> IF i \in opened /\ cleanup[i] = "none" THEN "links"
                                     ELSE cleanup[i]]
    /\ main' = [main EXCEPT !.pc = "wait_closed"]
    /\ UNCHANGED <<sensor, opened, loop, run, ready, cancelled, faults>>

closed == \A i \in Sensors : cleanup[i] \in {"none", "done"}

(* ... and waits for all of them.                                          *)
Closed ==
    /\ main.pc = "wait_closed" /\ closed
    /\ main' = [main EXCEPT !.pc = "done"]
    /\ UNCHANGED <<sensor, cleanup, opened, loop, run, ready, cancelled, faults>>

Finished == main.pc = "done" /\ UNCHANGED vars

-----------------------------------------------------------------------------
Command ==
    \/ \E ok \in BOOLEAN : OpenSensor(ok)
    \/ OpenDone \/ Await \/ AwaitStopped \/ AwaitCancelled
    \/ Asking \/ GiveUp \/ Join \/ CloseAll \/ Closed
Loop ==
    \/ \E ok \in BOOLEAN : StartSensor(ok) \/ CollectSnapshot(ok)
    \/ SkipUnopened \/ StartDone \/ LoopDone \/ CollectHealth \/ CollectDone
    \/ Reply \/ ReplyAbandoned
Cleanup(i) == CloseLinks(i) \/ CloseReader(i) \/ CloseCollection(i)
Reader(i) == SinkReturns(i) \/ ReadClosed(i)

Next ==
    \/ Command \/ Loop \/ Poll \/ ClockFails \/ Signal \/ Finished
    \/ \E i \in Sensors : Cleanup(i) \/ Reader(i) \/ ReadEvent(i) \/ ReadFails(i)

(* The scheduler runs every goroutine that can run, and the loop's select, *)
(* which chooses at random, does not pass over the done context or a query *)
(* for the poll timer for ever.  Nothing is assumed of reads of /proc.     *)
LoopFairness ==
    WF_vars(Command) /\ WF_vars(Loop) /\ SF_vars(LoopDone) /\ SF_vars(Asking)
Spec == Init /\ [][Next]_vars /\ LoopFairness

(* When reads of /proc return, too.                                        *)
FairSpec == Spec /\ \A i \in Sensors : WF_vars(Cleanup(i)) /\ WF_vars(Reader(i))

-----------------------------------------------------------------------------
(* The resources, goroutines and channels have their types.                *)
TypeOK ==
    /\ \A i \in Sensors : sensor[i].go \in {"none", "reading", "sink", "exited"}
                          /\ sensor[i].state \in {"healthy", "error"}
    /\ cleanup \in [Sensors -> {"none", "links", "reader", "collection", "done"}]
    /\ opened \subseteq Sensors /\ loop.disabled \subseteq opened
    /\ run \in {"empty", "nil", "error"} /\ {loop.i, main.i} \subseteq 1..N + 1

(* The maps of a sensor are open while the loop reads them and while its   *)
(* reader goroutine is alive: "Close owns its resources until the reader   *)
(* exits."                                                                 *)
MapsOpenInUse ==
    /\ loop.pc = "snapshot" => sensor[loop.i].collection
    /\ \A i \in Sensors : sensor[i].go \in {"reading", "sink"} => sensor[i].collection

(* When the command ends no sensor is attached, no map is open and no      *)
(* goroutine runs, whichever of opening, startup, polling or a signal      *)
(* ended it.                                                               *)
AllReleased == main.pc = "done" => \A i \in Sensors : Released(sensor[i])

(* A sensor reports an error only when one of its reads failed, never      *)
(* because it was closed.                                                  *)
NoFalseError == \A i \in Sensors : sensor[i].state = "error" => sensor[i].failed

(* A capture is saved only while a sensor is still attached that no read   *)
(* or start has disabled; in strict mode, only while all of them are.      *)
SavedCoverage ==
    (main.result = "saved" /\ main.pc = "close") =>
        LET attached == {i \in opened : cleanup[i] = "none" /\ sensor[i].links}
        IN  attached # {} /\ (main.strict => attached = Sensors)

(* Whichever of opening, startup, polling, a failing sensor or a signal    *)
(* ends the command: no map is used after its close, nothing stays open,   *)
(* no error is invented, and what is saved had sensors behind it.          *)
ResourcesSafe == TypeOK /\ MapsOpenInUse /\ AllReleased /\ NoFalseError /\ SavedCoverage

(* closeSensor: "A blocked metadata read must not hold the recorder loop." *)
(* A cancelled loop returns even when no sink ever does.                   *)
LoopReturns == (cancelled /\ loop.pc # "none") ~> (loop.pc = "returned")

(* The command ends once it is cancelled: no result is awaited twice and   *)
(* no cleanup waits for ever.                                              *)
CommandEnds == (main.pc \in {"ask", "asked"} \/ cancelled) ~> (main.pc = "done")
=============================================================================
