---------------------------- MODULE DaemonProofs ----------------------------
(***************************************************************************)
(* Proofs about SensorLifecycle: for any number of sensors, strict or not, *)
(* however opening, startup, polling, failures, the ring readers, the      *)
(* cleanups and a signal interleave, no map is used after it is closed,    *)
(* nothing stays open when the command ends, no error is invented and a    *)
(* saved capture had sensors behind it.                                    *)
(*                                                                         *)
(* The argument: the stage of a sensor's cleanup says which of its         *)
(* resources are open (ResourcesOK); the loop only works with sensors      *)
(* whose cleanup has not begun (Starting, Serving); and the command starts *)
(* the other cleanups only after it has taken the loop's result, when the  *)
(* loop has returned (Phases).                                             *)
(*                                                                         *)
(* And proofs about the daemons at one control socket, for every number of *)
(* them: under a supervisor that lets no start or stop overlap another, a  *)
(* daemon that serves keeps its name, whatever is killed in between.       *)
(***************************************************************************)
EXTENDS SensorLifecycle, SocketOwnership, TLAPS

Records ==
    [collection : BOOLEAN, links : BOOLEAN, reader : BOOLEAN,
     go : {"none", "reading", "sink", "exited"}, state : {"healthy", "error"},
     stopped : BOOLEAN, failed : BOOLEAN]
Loops == [pc : {"none", "start", "select", "collect", "snapshot", "answer", "refuse", "returned"},
          i : 1..N + 1, h : {"healthy", "error"}, disabled : SUBSET Sensors, query : BOOLEAN]
Mains == [pc : {"open", "wait_ready", "wait_period", "ask", "asked", "join", "close",
                "wait_closed", "done"},
          i : 1..N + 1, result : {"none", "error", "captured", "saved"}, strict : BOOLEAN]

LifeTypes ==
    /\ sensor \in [Sensors -> Records]
    /\ cleanup \in [Sensors -> {"none", "links", "reader", "collection", "done"}]
    /\ opened \subseteq Sensors
    /\ loop \in Loops /\ main \in Mains
    /\ run \in {"empty", "nil", "error"} /\ cancelled \in BOOLEAN

(* Who may be where: the loop starts when all is open, it answers once,    *)
(* and the command closes only after it has taken that answer.             *)
Phases ==
    /\ loop.pc = "none" => /\ main.pc \in {"open", "done"} /\ loop.i = 1 /\ loop.disabled = {}
                           /\ \A i \in Sensors : cleanup[i] = "none"
    /\ main.pc = "open" => /\ loop.pc = "none"
                           /\ \A i \in opened : i < main.i
    /\ loop.pc # "returned" => run = "empty"
    /\ main.pc \in {"close", "wait_closed", "done"} => run = "empty"
    /\ main.pc \in {"close", "wait_closed"} => loop.pc = "returned"
    /\ main.pc = "done" => loop.pc \in {"none", "returned"}
    /\ main.result = "saved" => main.pc \in {"close", "wait_closed", "done"}

Held(i) == sensor[i].collection /\ sensor[i].links /\ sensor[i].reader
Bare(i) == ~sensor[i].collection /\ ~sensor[i].links /\ ~sensor[i].reader

(* The resources of a sensor at each stage of its cleanup.                 *)
ResourceOK(i) ==
    /\ cleanup[i] = "none" => IF i \in opened THEN Held(i) ELSE Bare(i) /\ sensor[i].go = "none"
    /\ cleanup[i] = "links" => Held(i)
    /\ cleanup[i] = "reader" => sensor[i].collection /\ ~sensor[i].links /\ sensor[i].reader
    /\ cleanup[i] = "collection" => sensor[i].collection /\ ~sensor[i].links /\ ~sensor[i].reader
    /\ cleanup[i] = "done" => Bare(i) /\ sensor[i].go \in {"none", "exited"}

(* openDefinitions has refused the sensors and closed them.                *)
Refused == loop.pc = "none" /\ main.pc = "done"

ResourcesOK ==
    \A i \in Sensors : /\ IF Refused THEN Bare(i) /\ sensor[i].go = "none" ELSE ResourceOK(i)
                       /\ loop.pc = "none" => sensor[i].go = "none"
                       /\ sensor[i].state = "error" => sensor[i].failed

Starting ==
    loop.pc = "start" =>
        /\ loop.disabled = {} /\ (main.strict => opened = Sensors)
        /\ \A i \in Sensors :
             /\ i >= loop.i => sensor[i].go = "none" /\ cleanup[i] = "none"
             /\ i < loop.i /\ i \in opened => \/ sensor[i].go # "none" /\ cleanup[i] = "none"
                                              \/ /\ sensor[i].go = "none" /\ cleanup[i] # "none"
                                                 /\ ~main.strict

(* The sensors the loop still polls are attached.                          *)
Attached ==
    /\ loop.disabled \subseteq opened
    /\ \A i \in opened \ loop.disabled : cleanup[i] = "none"
    /\ main.strict => opened = Sensors /\ loop.disabled = {}

Serving ==
    /\ loop.pc \in {"select", "collect", "snapshot", "answer"} => Attached
    /\ loop.pc = "snapshot" => loop.i \in opened \ loop.disabled
    /\ loop.disabled \subseteq opened

(* The loop waits for work, answers a query, or has returned without an    *)
(* error, only with a sensor left; so has a command that saves.            *)
Covered ==
    (loop.pc \in {"select", "answer"} \/ run = "nil" \/ (main.pc = "close" /\ main.result = "saved")) =>
        Attached /\ loop.disabled # opened

Ended ==
    loop.pc = "returned" =>
        /\ main.pc \in {"wait_closed", "done"} => \A i \in opened : cleanup[i] # "none"
        /\ main.pc = "done" => \A i \in Sensors : cleanup[i] \in {"none", "done"}

LifeInv == LifeTypes /\ Phases /\ ResourcesOK /\ Starting /\ Serving /\ Covered /\ Ended

LEMMA LifeImplies == LifecycleAssumption /\ LifeInv => ResourcesSafe
<1> SUFFICES ASSUME LifecycleAssumption, LifeInv PROVE ResourcesSafe
  OBVIOUS
<1>1. /\ sensor \in [Sensors -> Records] /\ loop \in Loops /\ main \in Mains
      /\ cleanup \in [Sensors -> {"none", "links", "reader", "collection", "done"}]
  BY DEF LifeInv, LifeTypes
<1>2. TypeOK
  BY <1>1 DEF LifeInv, LifeTypes, TypeOK, Serving, Records, Loops, Mains
<1>3. ASSUME NEW i \in Sensors
      PROVE  /\ sensor[i].go \in {"reading", "sink"} => sensor[i].collection
             /\ sensor[i].state = "error" => sensor[i].failed
  BY <1>1 DEF LifeInv, ResourcesOK, ResourceOK, Held, Bare, Refused
<1>4. loop.pc = "snapshot" => sensor[loop.i].collection
  BY <1>1 DEF LifeInv, LifeTypes, Serving, Attached, ResourcesOK, ResourceOK, Held, Refused
<1>5. AllReleased
  <2> SUFFICES ASSUME main.pc = "done", NEW i \in Sensors PROVE Released(sensor[i])
    BY DEF AllReleased
  <2>1. CASE Refused
    BY <2>1 DEF LifeInv, ResourcesOK, Bare, Released
  <2>2. CASE ~Refused
    <3>1. /\ loop.pc = "returned" /\ run = "empty" /\ ResourceOK(i)
          /\ i \in opened => cleanup[i] # "none"
      BY <2>2 DEF LifeInv, Phases, Refused, Ended, ResourcesOK
    <3>2. cleanup[i] \in {"none", "done"}
      BY <3>1 DEF LifeInv, Ended
    <3> QED
      BY <3>1, <3>2 DEF ResourceOK, Bare, Released
  <2> QED
    BY <2>1, <2>2
<1>6. SavedCoverage
  <2> SUFFICES ASSUME main.result = "saved", main.pc = "close",
                      NEW attached, attached = {i \in opened : cleanup[i] = "none" /\ sensor[i].links}
               PROVE  attached # {} /\ (main.strict => attached = Sensors)
    BY DEF SavedCoverage
  <2>1. /\ \A i \in opened \ loop.disabled : i \in attached
        /\ loop.disabled \subseteq opened /\ loop.disabled # opened
        /\ main.strict => opened = Sensors /\ loop.disabled = {}
    BY DEF LifeInv, LifeTypes, Covered, Attached, ResourcesOK, ResourceOK, Held, Refused
  <2> QED
    BY <2>1
<1> QED
  BY <1>2, <1>3, <1>4, <1>5, <1>6 DEF ResourcesSafe, MapsOpenInUse, NoFalseError

-----------------------------------------------------------------------------
(* The command.                                                            *)

LEMMA LifeInit == LifecycleAssumption /\ Init => LifeInv
<1> SUFFICES ASSUME LifecycleAssumption, Init PROVE LifeInv
  OBVIOUS
<1> USE DEF Init
<1>1. 1 \in 1..N + 1
  BY DEF LifecycleAssumption
<1>2. /\ Unopened \in Records /\ ~Unopened.collection /\ ~Unopened.links /\ ~Unopened.reader
      /\ Unopened.go = "none" /\ Unopened.state = "healthy"
  BY DEF Unopened, Records
<1>3. loop \in Loops /\ loop.pc = "none" /\ loop.i = 1 /\ loop.disabled = {}
  BY <1>1 DEF Loops
<1>4. main \in Mains /\ main.pc = "open" /\ main.result = "none"
  BY <1>1 DEF Mains
<1>5. LifeTypes
  BY <1>2, <1>3, <1>4 DEF LifeTypes
<1>6. ResourcesOK
  BY <1>2, <1>4 DEF ResourcesOK, ResourceOK, Bare, Refused
<1> QED
  BY <1>3, <1>4, <1>5, <1>6 DEF LifeInv, Phases, Starting, Serving, Covered, Ended

(* A step of the command that leaves the sensors and the loop alone.       *)
LEMMA CommandFrame ==
    ASSUME LifeInv, UNCHANGED <<sensor, cleanup, opened, loop>>, loop.pc # "none",
           main' \in Mains, main'.strict = main.strict,
           main'.pc # "open", run' \in {run, "empty"}, cancelled' \in BOOLEAN,
           main'.pc \in {"close", "wait_closed", "done"} => run' = "empty" /\ loop.pc = "returned",
           main'.result = "saved" =>
               /\ main'.pc \in {"close", "wait_closed", "done"}
               /\ main'.pc = "close" => run = "nil" \/ (main.pc = "close" /\ main.result = "saved"),
           main'.pc \in {"wait_closed", "done"} => main.pc \in {main'.pc, "wait_closed"},
           main'.pc = "done" => main.pc = "done" \/ closed
    PROVE  LifeInv'
<1>1. LifeTypes'
  BY DEF LifeInv, LifeTypes
<1>2. Phases'
  BY DEF LifeInv, Phases
<1>3. ResourcesOK' /\ Starting' /\ Serving'
  BY DEF LifeInv, ResourcesOK, ResourceOK, Held, Bare, Refused, Starting, Serving, Attached
<1>4. Covered'
  BY DEF LifeInv, Covered, Attached
<1>5. Ended'
  BY DEF LifeInv, Ended, closed
<1> QED
  BY <1>1, <1>2, <1>3, <1>4, <1>5 DEF LifeInv

LEMMA LifeCommand ==
    ASSUME LifecycleAssumption, LifeInv,
           Signal \/ Await \/ AwaitStopped \/ AwaitCancelled \/ Join \/ Closed
    PROVE  LifeInv'
<1>1. main \in Mains /\ 1 \in 1..N + 1 /\ cancelled \in BOOLEAN
  BY DEF LifeInv, LifeTypes, LifecycleAssumption
<1>2. /\ loop.pc = "none" => main.pc \in {"open", "done"}
      /\ main.result = "saved" => main.pc \in {"close", "wait_closed", "done"}
      /\ main.pc \in {"close", "wait_closed"} => loop.pc = "returned"
      /\ loop.pc # "returned" => run = "empty"
      /\ main.pc \in {"close", "wait_closed", "done"} => run = "empty"
  BY DEF LifeInv, Phases
<1>3. UNCHANGED <<sensor, cleanup, opened, loop>>
  BY DEF Signal, Await, AwaitStopped, AwaitCancelled, Join, Closed
<1>4. CASE Signal
  <2>1. main' = main /\ run' = run /\ cancelled' = TRUE
        /\ main.pc \in {"wait_ready", "wait_period", "ask", "asked"}
    BY <1>4 DEF Signal
  <2> QED
    BY <1>1, <1>2, <1>3, <2>1, CommandFrame
<1>5. CASE Await
  <2>1. /\ UNCHANGED <<run, cancelled>> /\ main.pc \in {"wait_ready", "wait_period"}
        /\ main' = [main EXCEPT !.pc = "wait_period"] \/ main' = [main EXCEPT !.pc = "ask"]
    BY <1>5 DEF Await
  <2>2. /\ main' \in Mains /\ main'.strict = main.strict
        /\ main'.pc \in {"wait_period", "ask"} /\ main'.result = main.result
    BY <1>1, <2>1 DEF Mains
  <2> QED
    BY <1>1, <1>2, <1>3, <2>1, <2>2, CommandFrame
<1>6. CASE AwaitStopped
  <2>1. /\ run' = "empty" /\ run # "empty" /\ cancelled' = TRUE
        /\ main.pc \in {"wait_ready", "wait_period"}
        /\ main' = [main EXCEPT !.pc = "close", !.i = 1, !.result = "error"]
    BY <1>6 DEF AwaitStopped
  <2>2. /\ main' \in Mains /\ main'.strict = main.strict
        /\ main'.pc = "close" /\ main'.result = "error"
    BY <1>1, <2>1 DEF Mains
  <2> QED
    BY <1>1, <1>2, <1>3, <2>1, <2>2, CommandFrame
<1>7. CASE AwaitCancelled
  <2>1. /\ UNCHANGED <<run, cancelled>> /\ main.pc \in {"wait_ready", "wait_period"}
        /\ main' = [main EXCEPT !.pc = "join", !.result = "error"]
    BY <1>7 DEF AwaitCancelled
  <2>2. main' \in Mains /\ main'.strict = main.strict /\ main'.pc = "join" /\ main'.result = "error"
    BY <1>1, <2>1 DEF Mains
  <2> QED
    BY <1>1, <1>2, <1>3, <2>1, <2>2, CommandFrame
<1>8. CASE Join
  <2>1. PICK v : v = IF main.result = "captured" /\ run = "nil" THEN "saved" ELSE "error"
    OBVIOUS
  <2>2. /\ run' = "empty" /\ run # "empty" /\ cancelled' = cancelled /\ main.pc = "join"
        /\ main' = [main EXCEPT !.pc = "close", !.i = 1, !.result = v]
    BY <1>8, <2>1 DEF Join
  <2>3. /\ main' \in Mains /\ main'.strict = main.strict
        /\ main'.pc = "close" /\ main'.result = v /\ (v = "saved" => run = "nil")
    BY <1>1, <2>1, <2>2 DEF Mains
  <2> QED
    BY <1>1, <1>2, <1>3, <2>2, <2>3, CommandFrame
<1>9. CASE Closed
  <2>1. /\ UNCHANGED <<run, cancelled>> /\ main.pc = "wait_closed" /\ closed
        /\ main' = [main EXCEPT !.pc = "done"]
    BY <1>9 DEF Closed
  <2>2. /\ main' \in Mains /\ main'.strict = main.strict
        /\ main'.pc = "done" /\ main'.result = main.result
    BY <1>1, <2>1 DEF Mains
  <2> QED
    BY <1>1, <1>2, <1>3, <2>1, <2>2, CommandFrame
<1> QED
  BY <1>4, <1>5, <1>6, <1>7, <1>8, <1>9

LEMMA LifeGiveUp ==
    ASSUME LifeInv, GiveUp
    PROVE  LifeInv'
<1>1. main \in Mains /\ loop.pc # "none"
  BY DEF LifeInv, LifeTypes, Phases, GiveUp
<1>2. /\ UNCHANGED <<sensor, cleanup, opened, loop, run>> /\ cancelled' = TRUE
      /\ main' = [main EXCEPT !.pc = "join", !.result = "error"]
  BY DEF GiveUp
<1>3. /\ main' \in Mains /\ main'.strict = main.strict
      /\ main'.pc = "join" /\ main'.result = "error"
  BY <1>1, <1>2 DEF Mains
<1> QED
  BY <1>1, <1>2, <1>3, CommandFrame

(* Engine.Close starts the cleanups that the loop has not started.         *)
LEMMA LifeCloseAll ==
    ASSUME LifeInv, CloseAll
    PROVE  LifeInv'
<1>1. /\ main.pc = "close" /\ loop.pc = "returned" /\ run = "empty" /\ main \in Mains
      /\ UNCHANGED <<sensor, opened, loop, run, ready, cancelled, faults>>
      /\ main' = [main EXCEPT !.pc = "wait_closed"]
  BY DEF CloseAll, LifeInv, LifeTypes, Phases
<1>2. /\ main' \in Mains /\ main'.strict = main.strict
      /\ main'.pc = "wait_closed" /\ main'.result = main.result
  BY <1>1 DEF Mains
<1>3. /\ cleanup' \in [Sensors -> {"none", "links", "reader", "collection", "done"}]
      /\ \A i \in Sensors : \/ cleanup'[i] = cleanup[i] /\ (i \in opened => cleanup[i] # "none")
                            \/ cleanup'[i] = "links" /\ cleanup[i] = "none" /\ i \in opened
  BY DEF CloseAll, LifeInv, LifeTypes
<1>4. LifeTypes'
  BY <1>1, <1>2, <1>3 DEF LifeInv, LifeTypes
<1>5. ResourcesOK'
  BY <1>1, <1>3 DEF LifeInv, ResourcesOK, ResourceOK, Held, Bare, Refused
<1>6. Phases' /\ Covered'
  BY <1>1, <1>2 DEF LifeInv, Phases, Covered
<1>7. Starting' /\ Serving' /\ Ended'
  BY <1>1, <1>2, <1>3 DEF LifeInv, LifeTypes, Starting, Serving, Ended
<1> QED
  BY <1>4, <1>5, <1>6, <1>7 DEF LifeInv

(* openDefinitions.                                                        *)
LEMMA LifeOpen ==
    ASSUME LifecycleAssumption, LifeInv, NEW ok \in BOOLEAN, OpenSensor(ok)
    PROVE  LifeInv'
<1>1. PICK m : m = main.i
  OBVIOUS
<1>2. /\ main \in Mains /\ m \in Sensors /\ m + 1 \in 1..N + 1 /\ m \in Nat /\ main.pc = "open"
      /\ loop.pc = "none" /\ m \notin opened /\ main.result # "saved"
      /\ \A i \in opened : i < m
  BY <1>1 DEF LifeInv, LifeTypes, Phases, OpenSensor, Mains, Sensors, LifecycleAssumption
<1>3. main' = [main EXCEPT !.i = m + 1]
  BY <1>1 DEF OpenSensor
<1>4. /\ main' \in Mains /\ main'.strict = main.strict
      /\ main'.pc = "open" /\ main'.i = m + 1 /\ main'.result = main.result
  BY <1>2, <1>3 DEF Mains
<1>5. UNCHANGED <<cleanup, loop, run, ready, cancelled>>
  BY DEF OpenSensor
<1>6. PICK r : r = IF ok THEN Open ELSE Unopened
  OBVIOUS
<1>7. /\ r \in Records /\ r.go = "none" /\ r.state = "healthy"
      /\ ok => r.collection /\ r.links /\ r.reader
      /\ ~ok => ~r.collection /\ ~r.links /\ ~r.reader
  BY <1>6 DEF Open, Unopened, Records
<1>8. sensor' = [sensor EXCEPT ![m] = r] /\ opened' = IF ok THEN opened \cup {m} ELSE opened
  BY <1>1, <1>6 DEF OpenSensor
<1>9. LifeTypes'
  BY <1>2, <1>4, <1>5, <1>7, <1>8 DEF LifeInv, LifeTypes
<1>10. Phases'
  <2>1. \A i \in opened' : i < m + 1
    BY <1>2, <1>8 DEF LifeInv, LifeTypes, Sensors
  <2> QED
    BY <1>2, <1>4, <1>5, <2>1 DEF LifeInv, Phases
<1>11. ResourcesOK'
  <2> SUFFICES ASSUME NEW i \in Sensors
               PROVE  /\ ResourceOK(i)' /\ sensor'[i].go = "none"
                      /\ sensor'[i].state = "error" => sensor'[i].failed
    BY <1>4, <1>5 DEF ResourcesOK, Refused
  <2>1. cleanup[i] = "none" /\ cleanup' = cleanup
    BY <1>2, <1>5 DEF LifeInv, Phases
  <2>2. CASE i = m
    <3>1. sensor'[i] = r /\ (i \in opened' <=> ok)
      BY <1>2, <1>8, <2>2 DEF LifeInv, LifeTypes
    <3> QED
      BY <1>7, <2>1, <3>1 DEF ResourceOK, Held, Bare
  <2>3. CASE i # m
    <3>1. sensor'[i] = sensor[i] /\ (i \in opened' <=> i \in opened)
      BY <1>8, <2>3 DEF LifeInv, LifeTypes
    <3>2. /\ ResourceOK(i) /\ sensor[i].go = "none"
          /\ sensor[i].state = "error" => sensor[i].failed
      BY <1>2 DEF LifeInv, ResourcesOK, Refused
    <3> QED
      BY <2>1, <3>1, <3>2 DEF ResourceOK, Held, Bare
  <2> QED
    BY <2>2, <2>3
<1>12. Starting' /\ Serving' /\ Covered' /\ Ended'
  BY <1>2, <1>4, <1>5 DEF LifeInv, Phases, Starting, Serving, Covered, Ended
<1> QED
  BY <1>9, <1>10, <1>11, <1>12 DEF LifeInv

LEMMA LifeOpenDone ==
    ASSUME LifecycleAssumption, LifeInv, OpenDone
    PROVE  LifeInv'
<1>1. /\ main \in Mains /\ loop \in Loops /\ main.pc = "open" /\ loop.pc = "none" /\ run = "empty"
      /\ loop.i = 1 /\ loop.disabled = {} /\ main.result # "saved"
      /\ \A i \in Sensors : cleanup[i] = "none" /\ sensor[i].go = "none"
      /\ UNCHANGED <<cleanup, opened, run, ready, cancelled, faults>>
  BY DEF LifeInv, LifeTypes, Phases, ResourcesOK, OpenDone
<1>2. CASE opened = {} \/ (main.strict /\ opened # Sensors)
  <2>1. /\ main' = [main EXCEPT !.pc = "done", !.result = "error"] /\ loop' = loop
        /\ sensor' = [i \in Sensors |-> Unopened]
    BY <1>2 DEF OpenDone
  <2>2. main' \in Mains /\ main'.strict = main.strict /\ main'.pc = "done" /\ main'.result = "error"
    BY <1>1, <2>1 DEF Mains
  <2>3. /\ Unopened \in Records /\ ~Unopened.collection /\ ~Unopened.links /\ ~Unopened.reader
        /\ Unopened.go = "none" /\ Unopened.state = "healthy"
    BY DEF Unopened, Records
  <2>4. LifeTypes'
    BY <1>1, <2>1, <2>2, <2>3 DEF LifeInv, LifeTypes
  <2>5. ResourcesOK'
    BY <1>1, <2>1, <2>2, <2>3 DEF ResourcesOK, Refused, Bare
  <2>6. Phases' /\ Starting' /\ Serving' /\ Covered' /\ Ended'
    BY <1>1, <2>1, <2>2 DEF LifeInv, Phases, Starting, Serving, Covered, Ended
  <2> QED
    BY <2>4, <2>5, <2>6 DEF LifeInv
<1>3. CASE ~(opened = {} \/ (main.strict /\ opened # Sensors))
  <2>1. /\ main' = [main EXCEPT !.pc = "wait_ready"] /\ loop' = [loop EXCEPT !.pc = "start"]
        /\ sensor' = sensor
    BY <1>3 DEF OpenDone
  <2>2. /\ main' \in Mains /\ main'.strict = main.strict
        /\ main'.pc = "wait_ready" /\ main'.result = main.result
    BY <1>1, <2>1 DEF Mains
  <2>3. loop' \in Loops /\ loop'.pc = "start" /\ loop'.i = 1 /\ loop'.disabled = {}
    BY <1>1, <2>1 DEF Loops
  <2>4. LifeTypes'
    BY <1>1, <2>1, <2>2, <2>3 DEF LifeInv, LifeTypes
  <2>5. ResourcesOK'
    BY <1>1, <2>1, <2>2, <2>3 DEF LifeInv, ResourcesOK, ResourceOK, Refused, Bare, Held
  <2>6. Phases' /\ Serving' /\ Covered' /\ Ended'
    BY <1>1, <2>1, <2>2, <2>3 DEF LifeInv, Phases, Serving, Covered, Ended
  <2>7. Starting'
    BY <1>1, <1>3, <2>1, <2>3 DEF Starting, Sensors, LifecycleAssumption
  <2> QED
    BY <2>4, <2>5, <2>6, <2>7 DEF LifeInv
<1> QED
  BY <1>2, <1>3

-----------------------------------------------------------------------------
(* The recorder loop.                                                      *)

SameUse(i) ==
    /\ sensor'[i].collection = sensor[i].collection /\ sensor'[i].links = sensor[i].links
    /\ sensor'[i].reader = sensor[i].reader /\ sensor'[i].go = sensor[i].go
    /\ sensor'[i].state = "error" => sensor'[i].failed

(* What the command may do in a step of the loop, while the loop runs: it  *)
(* does not close.                                                         *)
Asks ==
    /\ main' \in Mains /\ main'.strict = main.strict /\ cancelled' \in BOOLEAN
    /\ main'.pc \in {"wait_ready", "wait_period", "ask", "asked", "join"} /\ main'.result # "saved"

LEMMA AsksNothing ==
    ASSUME LifeInv, UNCHANGED <<main, cancelled>>, loop.pc \notin {"none", "returned"}
    PROVE  Asks
  BY DEF LifeInv, LifeTypes, Phases, Mains, Asks

(* What a step of the loop must keep.                                      *)
LEMMA QueryFrame ==
    ASSUME LifeInv, Asks, loop.pc \notin {"none", "returned"},
           loop' \in Loops, loop'.pc # "none", opened' \subseteq Sensors,
           sensor' \in [Sensors -> Records],
           cleanup' \in [Sensors -> {"none", "links", "reader", "collection", "done"}],
           loop'.pc # "returned" => run' = run,
           loop'.pc = "returned" => run' \in {"nil", "error"},
           \A i \in Sensors : ResourceOK(i)' /\ (sensor'[i].state = "error" => sensor'[i].failed),
           Starting', Serving',
           loop'.pc \in {"select", "answer"} \/ run' = "nil" => Attached' /\ loop'.disabled # opened'
    PROVE  LifeInv'
<1>1. /\ run = "empty" /\ main'.pc \notin {"open", "close", "wait_closed", "done"}
      /\ main'.result # "saved"
  BY DEF LifeInv, Phases, Asks
<1>2. LifeTypes'
  BY <1>1 DEF LifeInv, LifeTypes, Asks
<1>3. Phases' /\ Ended'
  BY <1>1 DEF Phases, Ended
<1>4. ResourcesOK'
  BY DEF ResourcesOK, Refused
<1>5. Covered'
  BY <1>1 DEF Covered
<1> QED
  BY <1>2, <1>3, <1>4, <1>5 DEF LifeInv

LEMMA LoopFrame ==
    ASSUME LifeInv, UNCHANGED <<main, cancelled>>, loop.pc \notin {"none", "returned"},
           loop' \in Loops, loop'.pc # "none", opened' \subseteq Sensors,
           sensor' \in [Sensors -> Records],
           cleanup' \in [Sensors -> {"none", "links", "reader", "collection", "done"}],
           loop'.pc # "returned" => run' = run,
           loop'.pc = "returned" => run' \in {"nil", "error"},
           \A i \in Sensors : ResourceOK(i)' /\ (sensor'[i].state = "error" => sensor'[i].failed),
           Starting', Serving',
           loop'.pc \in {"select", "answer"} \/ run' = "nil" => Attached' /\ loop'.disabled # opened'
    PROVE  LifeInv'
  BY AsksNothing, QueryFrame

LEMMA LoopHas ==
    ASSUME LifecycleAssumption, LifeInv, loop.pc \notin {"none", "returned"}
    PROVE  /\ loop \in Loops /\ main \in Mains /\ sensor \in [Sensors -> Records]
           /\ cleanup \in [Sensors -> {"none", "links", "reader", "collection", "done"}]
           /\ opened \subseteq Sensors /\ loop.disabled \subseteq opened /\ run = "empty"
           /\ \A i \in Sensors : ResourceOK(i) /\ (sensor[i].state = "error" => sensor[i].failed)
           /\ loop.i \in 1..N + 1 /\ N \in Nat /\ main.strict \in BOOLEAN
  BY DEF LifeInv, LifeTypes, Phases, ResourcesOK, Refused, Serving, Loops, Mains, LifecycleAssumption

LEMMA ResourceKept ==
    ASSUME NEW i \in Sensors, ResourceOK(i), SameUse(i),
           \/ cleanup'[i] = cleanup[i] /\ (i \in opened' <=> i \in opened)
           \/ cleanup'[i] = "links" /\ cleanup[i] = "none" /\ i \in opened
           \/ cleanup'[i] = cleanup[i] /\ cleanup[i] # "none"
    PROVE  ResourceOK(i)' /\ (sensor'[i].state = "error" => sensor'[i].failed)
  BY DEF ResourceOK, SameUse, Held, Bare

LEMMA UseUnchanged ==
    ASSUME LifecycleAssumption, LifeInv, loop.pc \notin {"none", "returned"}, sensor' = sensor
    PROVE  \A i \in Sensors : SameUse(i)
  BY LoopHas DEF SameUse

(* StopAll changes neither the resources nor the goroutine of a sensor.    *)
LEMMA StopAllUse ==
    ASSUME NEW f \in [Sensors -> Records]
    PROVE  /\ StopAll(f) \in [Sensors -> Records]
           /\ \A i \in Sensors :
                /\ StopAll(f)[i].collection = f[i].collection /\ StopAll(f)[i].links = f[i].links
                /\ StopAll(f)[i].reader = f[i].reader /\ StopAll(f)[i].go = f[i].go
                /\ StopAll(f)[i].state = f[i].state /\ StopAll(f)[i].failed = f[i].failed
<1>1. ASSUME NEW r \in Records
      PROVE  /\ [r EXCEPT !.stopped = TRUE] \in Records
             /\ [r EXCEPT !.stopped = TRUE].collection = r.collection
             /\ [r EXCEPT !.stopped = TRUE].links = r.links
             /\ [r EXCEPT !.stopped = TRUE].reader = r.reader
             /\ [r EXCEPT !.stopped = TRUE].go = r.go
             /\ [r EXCEPT !.stopped = TRUE].state = r.state
             /\ [r EXCEPT !.stopped = TRUE].failed = r.failed
  BY DEF Records
<1>2. \A i \in Sensors : f[i] \in Records /\ StopAll(f)[i] = [f[i] EXCEPT !.stopped = TRUE]
  BY DEF StopAll
<1>3. StopAll(f) \in [Sensors -> Records]
  BY <1>1 DEF StopAll
<1> QED
  BY <1>1, <1>2, <1>3

(* The steps that only move the loop.                                      *)
LEMMA LifeMove ==
    ASSUME LifecycleAssumption, LifeInv, SkipUnopened \/ Poll \/ CollectHealth
    PROVE  LifeInv'
<1>1. loop.pc \notin {"none", "returned"}
  BY DEF SkipUnopened, Poll, CollectHealth
<1>2. PICK k : k = loop.i
  OBVIOUS
<1>3. loop \in Loops /\ k \in 1..N + 1 /\ N \in Nat /\ k \in Nat /\ opened \subseteq Sensors
  BY <1>1, <1>2, LoopHas
<1>4. UNCHANGED <<sensor, cleanup, opened, main, run, cancelled>>
  BY DEF SkipUnopened, Poll, CollectHealth
<1>5. \A i \in Sensors : ResourceOK(i)' /\ (sensor'[i].state = "error" => sensor'[i].failed)
  BY <1>1, <1>4, LoopHas, UseUnchanged, ResourceKept
<1>6. CASE SkipUnopened
  <2>1. /\ loop' = [loop EXCEPT !.i = k + 1] /\ loop.pc = "start" /\ k \in Sensors \ opened
        /\ k + 1 \in 1..N + 1
    BY <1>2, <1>3, <1>6 DEF SkipUnopened, Sensors
  <2>2. loop' \in Loops /\ loop'.pc = "start" /\ loop'.i = k + 1 /\ loop'.disabled = loop.disabled
    BY <1>3, <2>1 DEF Loops
  <2>3. Starting'
    <3>1. \A i \in Sensors : /\ i >= k + 1 => i >= k
                             /\ i < k + 1 /\ i \in opened => i < k
      BY <1>3, <2>1 DEF Sensors
    <3> QED
      BY <1>2, <1>4, <2>1, <2>2, <3>1 DEF LifeInv, Starting
  <2>4. Serving'
    BY <1>4, <2>2 DEF LifeInv, Serving
  <2>5. run' # "nil"
    BY <1>1, <1>4, LoopHas
  <2> QED
    BY <1>1, <1>3, <1>4, <1>5, <2>2, <2>3, <2>4, <2>5, LoopHas, LoopFrame
<1>7. CASE Poll
  <2>1. loop' = [loop EXCEPT !.pc = "collect", !.i = 1] /\ loop.pc = "select" /\ 1 \in 1..N + 1
    BY <1>3, <1>7 DEF Poll
  <2>2. loop' \in Loops /\ loop'.pc = "collect" /\ loop'.disabled = loop.disabled
    BY <1>3, <2>1 DEF Loops
  <2>3. Starting' /\ Serving'
    BY <1>4, <2>1, <2>2 DEF LifeInv, Starting, Serving, Attached
  <2>4. run' # "nil"
    BY <1>1, <1>4, LoopHas
  <2> QED
    BY <1>1, <1>3, <1>4, <1>5, <2>2, <2>3, <2>4, LoopHas, LoopFrame
<1>8. CASE CollectHealth
  <2>1. loop.pc = "collect" /\ k <= N
    BY <1>2, <1>8 DEF CollectHealth
  <2>2. sensor[k].state \in {"healthy", "error"} /\ k + 1 \in 1..N + 1
    BY <1>1, <1>3, <2>1, LoopHas DEF Records, Sensors
  <2>3. /\ loop' \in Loops /\ loop'.disabled = loop.disabled
        /\ \/ loop'.pc = "collect"
           \/ loop'.pc = "snapshot" /\ loop'.i = k /\ k \in opened \ loop.disabled
    <3>1. CASE k \in polled
      <4>1. loop' = [loop EXCEPT !.pc = "snapshot", !.h = sensor[k].state]
        BY <1>2, <1>8, <3>1 DEF CollectHealth
      <4> QED
        BY <1>2, <1>3, <2>2, <3>1, <4>1 DEF Loops, polled
    <3>2. CASE k \notin polled
      <4>1. loop' = [loop EXCEPT !.i = k + 1]
        BY <1>2, <1>8, <3>2 DEF CollectHealth
      <4> QED
        BY <1>3, <2>1, <2>2, <4>1 DEF Loops
    <3> QED
      BY <3>1, <3>2
  <2>4. Starting' /\ Serving'
    BY <1>4, <2>1, <2>3 DEF LifeInv, Starting, Serving, Attached
  <2>5. run' # "nil"
    BY <1>1, <1>4, LoopHas
  <2> QED
    BY <1>1, <1>3, <1>4, <1>5, <2>3, <2>4, <2>5, LoopHas, LoopFrame
<1> QED
  BY <1>6, <1>7, <1>8

(* The loop returns.                                                       *)
LEMMA ReturnStep ==
    ASSUME LifecycleAssumption, LifeInv, loop.pc \notin {"none", "returned"},
           NEW res \in {"nil", "error"}, Return(res), Asks,
           opened' \subseteq Sensors, loop.disabled \subseteq opened',
           sensor' \in [Sensors -> Records],
           cleanup' \in [Sensors -> {"none", "links", "reader", "collection", "done"}],
           \A i \in Sensors :
              /\ SameUse(i)
              /\ \/ cleanup'[i] = cleanup[i] /\ (i \in opened' <=> i \in opened)
                 \/ cleanup'[i] = "links" /\ cleanup[i] = "none" /\ i \in opened
                 \/ cleanup'[i] = cleanup[i] /\ cleanup[i] # "none",
           res = "nil" => /\ Attached /\ loop.disabled # opened
                          /\ UNCHANGED <<cleanup, opened>>
    PROVE  LifeInv'
<1>1. loop \in Loops /\ loop' = [loop EXCEPT !.pc = "returned"] /\ run' = res
  BY LoopHas DEF Return
<1>2. loop' \in Loops /\ loop'.pc = "returned" /\ loop'.i = loop.i /\ loop'.disabled = loop.disabled
  BY <1>1 DEF Loops
<1>3. \A i \in Sensors : ResourceOK(i)' /\ (sensor'[i].state = "error" => sensor'[i].failed)
  BY LoopHas, ResourceKept
<1>4. Starting' /\ Serving'
  BY <1>2 DEF Starting, Serving
<1>5. run' = "nil" => Attached' /\ loop'.disabled # opened'
  BY <1>1, <1>2 DEF Attached, Asks
<1> QED
  BY <1>1, <1>2, <1>3, <1>4, <1>5, QueryFrame

(* The loop returns, and so its sensors' contexts end.                     *)
LEMMA StoppedStep ==
    ASSUME LifecycleAssumption, LifeInv, loop.pc \notin {"none", "returned"},
           NEW res \in {"nil", "error"}, Asks, UNCHANGED <<cleanup, opened>>, Stopped(res, sensor),
           res = "nil" => Attached /\ loop.disabled # opened
    PROVE  LifeInv'
<1>1. /\ sensor \in [Sensors -> Records] /\ opened \subseteq Sensors
      /\ cleanup \in [Sensors -> {"none", "links", "reader", "collection", "done"}]
      /\ loop.disabled \subseteq opened
      /\ \A i \in Sensors : sensor[i].state = "error" => sensor[i].failed
  BY LoopHas
<1>2. Return(res) /\ sensor' = StopAll(sensor)
  BY DEF Stopped
<1>3. sensor' \in [Sensors -> Records] /\ \A i \in Sensors : SameUse(i)
  BY <1>1, <1>2, StopAllUse DEF SameUse
<1> QED
  BY <1>1, <1>2, <1>3, ReturnStep


LEMMA LifeLoopDone ==
    ASSUME LifecycleAssumption, LifeInv, LoopDone \/ ClockFails
    PROVE  LifeInv'
<1>1. loop.pc = "select" /\ UNCHANGED <<cleanup, opened, main, cancelled>>
  BY DEF LoopDone, ClockFails
<1>2. PICK res \in {"nil", "error"} : Stopped(res, sensor)
  BY DEF LoopDone, ClockFails
<1>3. Attached /\ loop.disabled # opened
  BY <1>1 DEF LifeInv, Covered
<1> QED
  BY <1>1, <1>2, <1>3, AsksNothing, StoppedStep

(* Only the loop moves, to answer or refuse a query.                       *)
LEMMA RefuseStep ==
    ASSUME LifecycleAssumption, LifeInv, loop.pc \notin {"none", "returned"},
           loop' = [loop EXCEPT !.pc = "refuse"], UNCHANGED <<sensor, cleanup, opened, run>>,
           Asks \/ UNCHANGED <<main, cancelled>>
    PROVE  LifeInv'
<1>1. loop \in Loops /\ run = "empty" /\ loop.disabled \subseteq opened /\ opened \subseteq Sensors
      /\ sensor \in [Sensors -> Records]
      /\ cleanup \in [Sensors -> {"none", "links", "reader", "collection", "done"}]
      /\ \A i \in Sensors : ResourceOK(i) /\ (sensor[i].state = "error" => sensor[i].failed)
  BY LoopHas
<1>2. loop' \in Loops /\ loop'.pc = "refuse" /\ loop'.disabled = loop.disabled
  BY <1>1 DEF Loops
<1>3. Starting' /\ Serving'
  BY <1>1, <1>2 DEF Starting, Serving
<1>4. \A i \in Sensors : ResourceOK(i)' /\ (sensor'[i].state = "error" => sensor'[i].failed)
  BY <1>1, UseUnchanged, ResourceKept
<1> QED
  BY <1>1, <1>2, <1>3, <1>4, AsksNothing, QueryFrame

LEMMA LifeCollectDone ==
    ASSUME LifecycleAssumption, LifeInv, CollectDone
    PROVE  LifeInv'
<1>1. loop.pc = "collect" /\ UNCHANGED <<cleanup, opened, main, cancelled>>
  BY DEF CollectDone
<1>2. /\ sensor \in [Sensors -> Records] /\ opened \subseteq Sensors
      /\ cleanup \in [Sensors -> {"none", "links", "reader", "collection", "done"}]
      /\ loop.disabled \subseteq opened /\ loop \in Loops /\ run = "empty"
      /\ \A i \in Sensors : ResourceOK(i) /\ (sensor[i].state = "error" => sensor[i].failed)
  BY <1>1, LoopHas
<1>3. CASE loop.disabled = opened
  <2>1. CollectFails(sensor)
    BY <1>3 DEF CollectDone
  <2>2. CASE ~loop.query
    <3>1. Stopped("error", sensor)
      BY <2>1, <2>2 DEF CollectFails
    <3> QED
      BY <1>1, <3>1, AsksNothing, StoppedStep
  <2>3. CASE loop.query
    <3>1. loop' = [loop EXCEPT !.pc = "refuse"] /\ UNCHANGED <<sensor, run>>
      BY <2>1, <2>3 DEF CollectFails
    <3> QED
      BY <1>1, <3>1, RefuseStep
  <2> QED
    BY <2>2, <2>3
<1>4. CASE loop.disabled # opened
  <2>1. PICK step \in {"select", "answer"} : loop' = [loop EXCEPT !.pc = step] /\ UNCHANGED <<sensor, run>>
    BY <1>4 DEF CollectDone
  <2>2. loop' \in Loops /\ loop'.pc = step /\ loop'.disabled = loop.disabled
    BY <1>2, <2>1 DEF Loops
  <2>3. Attached'
    BY <1>1, <2>2 DEF LifeInv, Serving, Attached
  <2>4. Starting' /\ Serving'
    BY <1>1, <1>2, <2>2, <2>3 DEF Starting, Serving
  <2>5. \A i \in Sensors : ResourceOK(i)' /\ (sensor'[i].state = "error" => sensor'[i].failed)
    BY <1>1, <1>2, <2>1, UseUnchanged, ResourceKept
  <2> QED
    BY <1>1, <1>2, <1>4, <2>1, <2>2, <2>3, <2>4, <2>5, LoopFrame
<1> QED
  BY <1>3, <1>4

LEMMA LifeStartDone ==
    ASSUME LifecycleAssumption, LifeInv, StartDone
    PROVE  LifeInv'
<1>1. PICK up : up = {i \in opened : sensor[i].go # "none"}
  OBVIOUS
<1>2. loop.pc = "start" /\ loop.i > N /\ opened' = up /\ UNCHANGED <<cleanup, main, cancelled>>
  BY <1>1 DEF StartDone
<1>3. /\ sensor \in [Sensors -> Records] /\ opened \subseteq Sensors /\ N \in Nat
      /\ cleanup \in [Sensors -> {"none", "links", "reader", "collection", "done"}]
      /\ loop \in Loops /\ run = "empty" /\ loop.i \in 1..N + 1
      /\ \A i \in Sensors : ResourceOK(i) /\ (sensor[i].state = "error" => sensor[i].failed)
  BY <1>2, LoopHas
<1>4. up \subseteq opened /\ loop.disabled = {} /\ (main.strict => opened = Sensors)
  BY <1>1, <1>2 DEF LifeInv, Starting
<1>5. \A i \in opened : IF i \in up THEN cleanup[i] = "none" ELSE cleanup[i] # "none" /\ ~main.strict
  <2>1. \A i \in Sensors : i < loop.i
    BY <1>2, <1>3 DEF Sensors
  <2> QED
    BY <1>1, <1>2, <1>3, <2>1 DEF LifeInv, Starting
<1>6. \A i \in Sensors : \/ i \in up <=> i \in opened
                         \/ cleanup[i] # "none"
  BY <1>4, <1>5
<1>7. CASE up = {}
  <2>1. Return("error") /\ sensor' = StopAll(sensor)
    BY <1>1, <1>7 DEF StartDone, Stopped
  <2>2. sensor' \in [Sensors -> Records] /\ \A i \in Sensors : SameUse(i)
    BY <1>3, <2>1, StopAllUse DEF SameUse
  <2> QED
    BY <1>2, <1>3, <1>4, <1>6, <2>1, <2>2, AsksNothing, ReturnStep
<1>8. CASE up # {}
  <2>1. loop' = [loop EXCEPT !.pc = "select"] /\ UNCHANGED <<sensor, run>>
    BY <1>1, <1>8 DEF StartDone
  <2>2. loop' \in Loops /\ loop'.pc = "select" /\ loop'.disabled = {}
    BY <1>3, <1>4, <2>1 DEF Loops
  <2>3. Attached'
    BY <1>2, <1>4, <1>5, <2>2 DEF Attached
  <2>4. Starting' /\ Serving'
    BY <2>2, <2>3 DEF Starting, Serving
  <2>5. \A i \in Sensors : ResourceOK(i)' /\ (sensor'[i].state = "error" => sensor'[i].failed)
    BY <1>2, <1>3, <1>6, <2>1, UseUnchanged, ResourceKept
  <2> QED
    BY <1>2, <1>3, <1>4, <1>8, <2>1, <2>2, <2>3, <2>4, <2>5, LoopFrame
<1> QED
  BY <1>7, <1>8

(* The next sensor starts, or fails and is closed.                         *)
LEMMA LifeStart ==
    ASSUME LifecycleAssumption, LifeInv, NEW ok \in BOOLEAN, StartSensor(ok)
    PROVE  LifeInv'
<1>1. PICK k : k = loop.i
  OBVIOUS
<1>2. loop.pc = "start" /\ k \in opened /\ UNCHANGED <<opened, main, cancelled>>
  BY <1>1 DEF StartSensor
<1>3. /\ sensor \in [Sensors -> Records] /\ opened \subseteq Sensors /\ N \in Nat
      /\ cleanup \in [Sensors -> {"none", "links", "reader", "collection", "done"}]
      /\ loop \in Loops /\ run = "empty" /\ k \in 1..N + 1 /\ k \in Nat
      /\ \A i \in Sensors : ResourceOK(i) /\ (sensor[i].state = "error" => sensor[i].failed)
      /\ main.strict \in BOOLEAN
  BY <1>1, <1>2, LoopHas
<1>4. k + 1 \in 1..N + 1 /\ k \in Sensors
  BY <1>2, <1>3 DEF Sensors
<1>5. /\ loop.disabled = {} /\ (main.strict => opened = Sensors)
      /\ sensor[k].go = "none" /\ cleanup[k] = "none"
  BY <1>1, <1>2, <1>3, <1>4 DEF LifeInv, Starting
<1>6. \A i \in Sensors : /\ i >= k + 1 => i >= k /\ i # k
                         /\ i < k + 1 => i < k \/ i = k
  BY <1>3 DEF Sensors
<1>7. PICK r0 : r0 = sensor[k]
  OBVIOUS
<1>8. r0 \in Records
  BY <1>3, <1>4, <1>7
<1>9. CASE ok
  <2>1. PICK r : r = [r0 EXCEPT !.go = "reading"]
    OBVIOUS
  <2>2. /\ r \in Records /\ r.go = "reading" /\ r.collection = r0.collection /\ r.links = r0.links
        /\ r.reader = r0.reader /\ r.state = r0.state /\ r.failed = r0.failed
    BY <1>8, <2>1 DEF Records
  <2>3. /\ sensor' = [sensor EXCEPT ![k] = r] /\ loop' = [loop EXCEPT !.i = k + 1]
        /\ UNCHANGED <<cleanup, run>>
    BY <1>1, <1>7, <1>9, <2>1 DEF StartSensor
  <2>4. loop' \in Loops /\ loop'.pc = "start" /\ loop'.i = k + 1 /\ loop'.disabled = {}
    BY <1>2, <1>3, <1>4, <1>5, <2>3 DEF Loops
  <2>5. /\ sensor' \in [Sensors -> Records] /\ sensor'[k] = r
        /\ \A i \in Sensors \ {k} : sensor'[i] = sensor[i]
    BY <1>3, <1>4, <2>2, <2>3
  <2>6. \A i \in Sensors : ResourceOK(i)' /\ (sensor'[i].state = "error" => sensor'[i].failed)
    BY <1>2, <1>3, <1>5, <1>7, <2>2, <2>3, <2>5 DEF ResourceOK, Held, Bare
  <2>7. Starting'
    BY <1>1, <1>2, <1>5, <1>6, <2>2, <2>3, <2>4, <2>5 DEF LifeInv, Starting
  <2>8. Serving'
    BY <1>2, <2>4 DEF Serving
  <2> QED
    BY <1>2, <1>3, <2>3, <2>4, <2>5, <2>6, <2>7, <2>8, LoopFrame
<1>10. CASE ~ok
  <2>1. /\ cleanup' \in [Sensors -> {"none", "links", "reader", "collection", "done"}]
        /\ cleanup'[k] = "links" /\ \A i \in Sensors \ {k} : cleanup'[i] = cleanup[i]
    BY <1>1, <1>3, <1>4, <1>5, <1>10 DEF StartSensor, closeSensor
  <2>2. CASE main.strict
    <3>1. PICK f : f = [sensor EXCEPT ![k].state = "error", ![k].failed = TRUE]
      OBVIOUS
    <3>2. Return("error") /\ sensor' = StopAll(f)
      BY <1>1, <1>10, <2>2, <3>1 DEF StartSensor, Stopped
    <3>3. PICK r : r = [r0 EXCEPT !.state = "error", !.failed = TRUE]
      OBVIOUS
    <3>4. /\ r \in Records /\ r.collection = r0.collection /\ r.links = r0.links
          /\ r.reader = r0.reader /\ r.go = r0.go /\ r.failed
      BY <1>8, <3>3 DEF Records
    <3>5. f = [sensor EXCEPT ![k] = r]
      BY <1>3, <1>4, <1>7, <3>1, <3>3
    <3>6. /\ f \in [Sensors -> Records] /\ f[k] = r
          /\ \A i \in Sensors \ {k} : f[i] = sensor[i]
      BY <1>3, <1>4, <3>4, <3>5
    <3>7. sensor' \in [Sensors -> Records] /\ \A i \in Sensors : SameUse(i)
      BY <1>3, <1>7, <3>2, <3>4, <3>6, StopAllUse DEF SameUse
    <3> QED
      BY <1>2, <1>3, <1>5, <2>1, <3>2, <3>7, AsksNothing, ReturnStep
  <2>3. CASE ~main.strict
    <3>1. PICK r : r = [r0 EXCEPT !.state = "error", !.failed = TRUE, !.stopped = TRUE]
      OBVIOUS
    <3>2. /\ r \in Records /\ r.collection = r0.collection /\ r.links = r0.links
          /\ r.reader = r0.reader /\ r.go = r0.go /\ r.failed
      BY <1>8, <3>1 DEF Records
    <3>3. /\ loop' = [loop EXCEPT !.i = k + 1] /\ run' = run
          /\ sensor' = [sensor EXCEPT ![k].state = "error", ![k].failed = TRUE, ![k].stopped = TRUE]
      BY <1>1, <1>10, <2>3 DEF StartSensor
    <3>4. sensor' = [sensor EXCEPT ![k] = r]
      BY <1>3, <1>4, <1>7, <3>1, <3>3
    <3>5. /\ sensor' \in [Sensors -> Records] /\ sensor'[k] = r
          /\ \A i \in Sensors \ {k} : sensor'[i] = sensor[i]
      BY <1>3, <1>4, <3>2, <3>4
    <3>6. \A i \in Sensors : SameUse(i)
      BY <1>3, <1>7, <3>2, <3>5 DEF SameUse
    <3>7. \A i \in Sensors : ResourceOK(i)' /\ (sensor'[i].state = "error" => sensor'[i].failed)
      BY <1>2, <1>3, <1>5, <2>1, <3>6, ResourceKept
    <3>8. loop' \in Loops /\ loop'.pc = "start" /\ loop'.i = k + 1 /\ loop'.disabled = {}
      BY <1>2, <1>3, <1>4, <1>5, <3>3 DEF Loops
    <3>9. Starting'
      BY <1>1, <1>2, <1>5, <1>6, <1>7, <2>1, <2>3, <3>2, <3>5, <3>8 DEF LifeInv, Starting
    <3>10. Serving'
      BY <1>2, <3>8 DEF Serving
    <3> QED
      BY <1>2, <1>3, <2>1, <3>3, <3>5, <3>7, <3>8, <3>9, <3>10, LoopFrame
  <2> QED
    BY <2>2, <2>3
<1> QED
  BY <1>9, <1>10

(* A sensor that has failed, or whose Snapshot fails, is closed.           *)
LEMMA LifeSnapshot ==
    ASSUME LifecycleAssumption, LifeInv, NEW ok \in BOOLEAN, CollectSnapshot(ok)
    PROVE  LifeInv'
<1>1. PICK k, d : k = loop.i /\ d = loop.disabled
  OBVIOUS
<1>2. loop.pc = "snapshot" /\ UNCHANGED <<opened, main, cancelled>>
  BY DEF CollectSnapshot
<1>3. /\ sensor \in [Sensors -> Records] /\ opened \subseteq Sensors /\ N \in Nat
      /\ cleanup \in [Sensors -> {"none", "links", "reader", "collection", "done"}]
      /\ loop \in Loops /\ run = "empty" /\ d \subseteq opened
      /\ \A i \in Sensors : ResourceOK(i) /\ (sensor[i].state = "error" => sensor[i].failed)
      /\ main.strict \in BOOLEAN
  BY <1>1, <1>2, LoopHas
<1>4. k \in opened \ d /\ Attached /\ cleanup[k] = "none"
  BY <1>1, <1>2 DEF LifeInv, Serving, Attached
<1>5. k \in Sensors /\ k + 1 \in 1..N + 1
  BY <1>3, <1>4 DEF Sensors
<1>6. PICK r0 : r0 = sensor[k]
  OBVIOUS
<1>7. r0 \in Records /\ (r0.state = "error" => r0.failed)
  BY <1>3, <1>5, <1>6
<1>8. CASE ok /\ loop.h = "healthy"
  <2>1. /\ loop' = [loop EXCEPT !.pc = "collect", !.i = k + 1] /\ UNCHANGED <<sensor, cleanup, run>>
    BY <1>1, <1>8 DEF CollectSnapshot
  <2>2. loop' \in Loops /\ loop'.pc = "collect" /\ loop'.disabled = d
    BY <1>1, <1>3, <1>5, <2>1 DEF Loops
  <2>3. \A i \in Sensors : ResourceOK(i)' /\ (sensor'[i].state = "error" => sensor'[i].failed)
    BY <1>2, <1>3, <2>1, UseUnchanged, ResourceKept
  <2>4. Starting' /\ Serving'
    BY <1>1, <1>2, <1>4, <2>1, <2>2 DEF Starting, Serving, Attached
  <2> QED
    BY <1>2, <1>3, <2>1, <2>2, <2>3, <2>4, LoopFrame
<1>9. CASE ~(ok /\ loop.h = "healthy")
  <2>1. /\ cleanup' \in [Sensors -> {"none", "links", "reader", "collection", "done"}]
        /\ cleanup'[k] = "links" /\ \A i \in Sensors \ {k} : cleanup'[i] = cleanup[i]
    <3>1. closeSensor(k)
      BY <1>1, <1>9 DEF CollectSnapshot
    <3> QED
      BY <1>3, <1>4, <1>5, <3>1 DEF closeSensor
  <2>2. PICK m : m = IF ok THEN r0 ELSE [r0 EXCEPT !.state = "error", !.failed = TRUE]
    OBVIOUS
  <2>3. /\ m \in Records /\ m.collection = r0.collection /\ m.links = r0.links
        /\ m.reader = r0.reader /\ m.go = r0.go /\ (m.state = "error" => m.failed)
    <3>1. CASE ok
      BY <1>7, <2>2, <3>1
    <3>2. CASE ~ok
      <4>1. m = [r0 EXCEPT !.state = "error", !.failed = TRUE]
        BY <2>2, <3>2
      <4> QED
        BY <1>7, <4>1 DEF Records
    <3> QED
      BY <3>1, <3>2
  <2>4. CASE main.strict
    <3>1. PICK f : f = [sensor EXCEPT ![k] = m]
      OBVIOUS
    <3>2. CollectFails(f)
      BY <1>1, <1>6, <1>9, <2>2, <2>4, <3>1 DEF CollectSnapshot
    <3>3. f \in [Sensors -> Records] /\ f[k] = m /\ \A i \in Sensors \ {k} : f[i] = sensor[i]
      BY <1>3, <1>5, <2>3, <3>1
    <3>4. CASE ~loop.query
      <4>1. Return("error") /\ sensor' = StopAll(f)
        BY <3>2, <3>4 DEF CollectFails, Stopped
      <4>2. sensor' \in [Sensors -> Records] /\ \A i \in Sensors : SameUse(i)
        BY <1>3, <1>6, <2>3, <3>3, <4>1, StopAllUse DEF SameUse
      <4> QED
        BY <1>1, <1>2, <1>3, <1>4, <2>1, <4>1, <4>2, AsksNothing, ReturnStep
    <3>5. CASE loop.query
      <4>1. loop' = [loop EXCEPT !.pc = "refuse"] /\ sensor' = f /\ run' = run
        BY <3>2, <3>5 DEF CollectFails
      <4>2. \A i \in Sensors : SameUse(i)
        BY <1>3, <1>6, <2>3, <3>3, <4>1 DEF SameUse
      <4>3. \A i \in Sensors : ResourceOK(i)' /\ (sensor'[i].state = "error" => sensor'[i].failed)
        BY <1>2, <1>3, <1>4, <2>1, <4>2, ResourceKept
      <4>4. loop' \in Loops /\ loop'.pc = "refuse" /\ loop'.disabled = d
        BY <1>1, <1>3, <4>1 DEF Loops
      <4>5. Starting' /\ Serving'
        BY <1>2, <1>3, <4>4 DEF Starting, Serving
      <4> QED
        BY <1>2, <1>3, <2>1, <3>3, <4>1, <4>3, <4>4, <4>5, LoopFrame
    <3> QED
      BY <3>4, <3>5
  <2>5. CASE ~main.strict
    <3>1. PICK r : r = [m EXCEPT !.stopped = TRUE]
      OBVIOUS
    <3>2. /\ r \in Records /\ r.collection = m.collection /\ r.links = m.links
          /\ r.reader = m.reader /\ r.go = m.go /\ r.state = m.state /\ r.failed = m.failed
      BY <2>3, <3>1 DEF Records
    <3>3. /\ loop' = [loop EXCEPT !.pc = "collect", !.i = k + 1, !.disabled = d \cup {k}]
          /\ sensor' = [sensor EXCEPT ![k] = r] /\ run' = run
      BY <1>1, <1>6, <1>9, <2>2, <2>5, <3>1 DEF CollectSnapshot
    <3>4. /\ sensor' \in [Sensors -> Records] /\ sensor'[k] = r
          /\ \A i \in Sensors \ {k} : sensor'[i] = sensor[i]
      BY <1>3, <1>5, <3>2, <3>3
    <3>5. \A i \in Sensors : SameUse(i)
      BY <1>3, <1>6, <2>3, <3>2, <3>4 DEF SameUse
    <3>6. \A i \in Sensors : ResourceOK(i)' /\ (sensor'[i].state = "error" => sensor'[i].failed)
      BY <1>2, <1>3, <1>4, <2>1, <3>5, ResourceKept
    <3>7. d \cup {k} \in SUBSET Sensors
      BY <1>3, <1>5
    <3>8. loop' \in Loops /\ loop'.pc = "collect" /\ loop'.disabled = d \cup {k}
      BY <1>3, <1>5, <3>3, <3>7 DEF Loops
    <3>9. Starting' /\ Serving'
      BY <1>1, <1>2, <1>3, <1>4, <2>1, <2>5, <3>8 DEF Starting, Serving, Attached
    <3> QED
      BY <1>2, <1>3, <2>1, <3>3, <3>4, <3>6, <3>8, <3>9, LoopFrame
  <2> QED
    BY <2>4, <2>5
<1> QED
  BY <1>8, <1>9

(* The loop takes a query.                                                 *)
LEMMA LifeAsking ==
    ASSUME LifecycleAssumption, LifeInv, Asking
    PROVE  LifeInv'
<1>1. /\ main.pc = "ask" /\ loop.pc = "select" /\ main' = [main EXCEPT !.pc = "asked"]
      /\ UNCHANGED <<cleanup, opened, cancelled>>
  BY DEF Asking, Ask, AskFails
<1>2. /\ sensor \in [Sensors -> Records] /\ opened \subseteq Sensors
      /\ cleanup \in [Sensors -> {"none", "links", "reader", "collection", "done"}]
      /\ loop \in Loops /\ main \in Mains /\ run = "empty" /\ cancelled \in BOOLEAN
      /\ \A i \in Sensors : ResourceOK(i) /\ (sensor[i].state = "error" => sensor[i].failed)
      /\ 1 \in 1..N + 1 /\ main.result # "saved"
  BY <1>1, LoopHas DEF LifeInv, LifeTypes, Phases, LifecycleAssumption
<1>3. main'.pc = "asked" /\ main'.result = main.result /\ main'.strict = main.strict /\ main' \in Mains
  BY <1>1, <1>2 DEF Mains
<1>4. Asks
  BY <1>1, <1>2, <1>3 DEF Asks
<1>5. CASE Ask
  <2>1. loop' = [loop EXCEPT !.pc = "collect", !.i = 1, !.query = TRUE] /\ UNCHANGED <<sensor, run>>
    BY <1>5 DEF Ask
  <2>2. loop' \in Loops /\ loop'.pc = "collect" /\ loop'.disabled = loop.disabled
    BY <1>2, <2>1 DEF Loops
  <2>3. Starting' /\ Serving'
    BY <1>1, <1>3, <2>1, <2>2 DEF LifeInv, Starting, Serving, Attached
  <2>4. \A i \in Sensors : ResourceOK(i)' /\ (sensor'[i].state = "error" => sensor'[i].failed)
    BY <1>1, <1>2, <2>1, UseUnchanged, ResourceKept
  <2> QED
    BY <1>1, <1>2, <1>4, <2>1, <2>2, <2>3, <2>4, QueryFrame
<1>6. ASSUME NEW told \in BOOLEAN, AskFails(told)
      PROVE  LifeInv'
  <2>1. CASE told
    <3>1. loop' = [loop EXCEPT !.pc = "refuse"] /\ UNCHANGED <<sensor, run>>
      BY <1>6, <2>1 DEF AskFails
    <3> QED
      BY <1>1, <1>4, <3>1, RefuseStep
  <2>2. CASE ~told
    <3>1. Stopped("error", sensor)
      BY <1>6, <2>2 DEF AskFails
    <3> QED
      BY <1>1, <1>4, <3>1, StoppedStep
  <2> QED
    BY <2>1, <2>2
<1> QED
  BY <1>5, <1>6 DEF Asking

(* The loop has answered or refused a query, and goes on or returns.       *)
LEMMA LifeReply ==
    ASSUME LifecycleAssumption, LifeInv, Reply \/ ReplyAbandoned
    PROVE  LifeInv'
<1>1. loop.pc \in {"answer", "refuse"} /\ Replied /\ UNCHANGED <<cleanup, opened>>
  BY DEF Reply, ReplyAbandoned
<1>2. /\ sensor \in [Sensors -> Records] /\ opened \subseteq Sensors
      /\ cleanup \in [Sensors -> {"none", "links", "reader", "collection", "done"}]
      /\ loop \in Loops /\ main \in Mains /\ run = "empty"
      /\ \A i \in Sensors : ResourceOK(i) /\ (sensor[i].state = "error" => sensor[i].failed)
  BY <1>1, LoopHas
<1>3. Asks
  <2>1. CASE ReplyAbandoned
    BY <1>1, <2>1, AsksNothing DEF ReplyAbandoned
  <2>2. CASE Reply
    <3>1. PICK v \in {"captured", "error"} : main' = [main EXCEPT !.pc = "join", !.result = v]
      BY <2>2 DEF Reply
    <3>2. /\ main' \in Mains /\ main'.strict = main.strict
          /\ main'.pc = "join" /\ main'.result = v
      BY <1>2, <3>1 DEF Mains
    <3> QED
      BY <2>2, <3>1, <3>2 DEF Reply, Asks
  <2> QED
    BY <2>1, <2>2
<1>4. CASE loop.pc = "answer"
  <2>1. loop' = [loop EXCEPT !.pc = "select", !.query = FALSE] /\ UNCHANGED <<sensor, run>>
    BY <1>1, <1>4 DEF Replied
  <2>2. loop' \in Loops /\ loop'.pc = "select" /\ loop'.disabled = loop.disabled
    BY <1>2, <2>1 DEF Loops
  <2>3. Attached' /\ loop'.disabled # opened'
    BY <1>1, <1>3, <1>4, <2>2 DEF LifeInv, Covered, Attached, Asks
  <2>4. Starting' /\ Serving'
    BY <2>2, <2>3 DEF Starting, Serving, Attached
  <2>5. \A i \in Sensors : ResourceOK(i)' /\ (sensor'[i].state = "error" => sensor'[i].failed)
    BY <1>1, <1>2, <2>1, UseUnchanged, ResourceKept
  <2> QED
    BY <1>1, <1>2, <1>3, <2>1, <2>2, <2>3, <2>4, <2>5, QueryFrame
<1>5. CASE loop.pc = "refuse"
  <2>1. Stopped("error", sensor)
    BY <1>1, <1>5 DEF Replied
  <2> QED
    BY <1>1, <1>3, <2>1, StoppedStep
<1> QED
  BY <1>1, <1>4, <1>5

-----------------------------------------------------------------------------
(* The ring readers and the cleanups.                                      *)

(* A step of one sensor's reader or cleanup: it neither starts nor ends    *)
(* what the loop and the command go by.                                    *)
LEMMA SensorFrame ==
    ASSUME LifeInv, NEW z \in Sensors, NEW r \in Records,
           NEW st \in {"none", "links", "reader", "collection", "done"},
           sensor' = [sensor EXCEPT ![z] = r], cleanup' = [cleanup EXCEPT ![z] = st],
           UNCHANGED <<opened, loop, main, run, cancelled>>,
           st = "none" <=> cleanup[z] = "none",
           cleanup[z] \in {"none", "done"} => st = cleanup[z],
           r.go = "none" <=> sensor[z].go = "none",
           sensor[z].go # "none" \/ cleanup[z] # "none",
           r.state = "error" => r.failed,
           ResourceOK(z) => ResourceOK(z)'
    PROVE  LifeInv'
<1>1. /\ sensor \in [Sensors -> Records] /\ opened \subseteq Sensors
      /\ cleanup \in [Sensors -> {"none", "links", "reader", "collection", "done"}]
  BY DEF LifeInv, LifeTypes
<1>2. /\ sensor' \in [Sensors -> Records] /\ sensor'[z] = r
      /\ \A i \in Sensors \ {z} : sensor'[i] = sensor[i]
      /\ cleanup' \in [Sensors -> {"none", "links", "reader", "collection", "done"}]
      /\ cleanup'[z] = st /\ \A i \in Sensors \ {z} : cleanup'[i] = cleanup[i]
  BY <1>1
<1>3. \A i \in Sensors : /\ cleanup'[i] = "none" <=> cleanup[i] = "none"
                         /\ sensor'[i].go = "none" <=> sensor[i].go = "none"
  BY <1>2
<1>4. loop.pc # "none" /\ ~Refused /\ ~Refused'
  BY DEF LifeInv, ResourcesOK, Phases, Refused
<1>5. LifeTypes'
  BY <1>2 DEF LifeInv, LifeTypes
<1>6. Phases'
  BY <1>4 DEF LifeInv, Phases
<1>7. ResourcesOK'
  <2> SUFFICES ASSUME NEW i \in Sensors
               PROVE  ResourceOK(i)' /\ (sensor'[i].state = "error" => sensor'[i].failed)
    BY <1>4 DEF ResourcesOK, Refused
  <2>1. ResourceOK(i) /\ (sensor[i].state = "error" => sensor[i].failed)
    BY <1>4 DEF LifeInv, ResourcesOK
  <2>2. CASE i = z
    BY <1>2, <2>1, <2>2
  <2>3. CASE i # z
    <3>1. sensor'[i] = sensor[i] /\ cleanup'[i] = cleanup[i]
      BY <1>2, <2>3
    <3> QED
      BY <2>1, <3>1 DEF ResourceOK, Held, Bare
  <2> QED
    BY <2>2, <2>3
<1>8. Starting'
  BY <1>3 DEF LifeInv, Starting
<1>9. Serving' /\ Covered'
  BY <1>1, <1>3 DEF LifeInv, Serving, Covered, Attached
<1>10. Ended'
  BY <1>1, <1>2, <1>3 DEF LifeInv, Ended
<1> QED
  BY <1>5, <1>6, <1>7, <1>8, <1>9, <1>10 DEF LifeInv

LEMMA LifeReader ==
    ASSUME LifeInv, NEW z \in Sensors,
           ReadEvent(z) \/ SinkReturns(z) \/ ReadClosed(z) \/ ReadFails(z)
    PROVE  LifeInv'
<1>1. PICK r0, st : r0 = sensor[z] /\ st = cleanup[z]
  OBVIOUS
<1>2. /\ r0 \in Records /\ st \in {"none", "links", "reader", "collection", "done"}
      /\ r0.state = "error" => r0.failed
      /\ cleanup' = [cleanup EXCEPT ![z] = st]
  BY <1>1 DEF LifeInv, LifeTypes, ResourcesOK, ReadEvent, SinkReturns, ReadClosed, ReadFails
<1>3. /\ UNCHANGED <<opened, loop, main, run, cancelled>> /\ r0.go \in {"reading", "sink"}
      /\ cleanup' = cleanup
  BY <1>1 DEF ReadEvent, SinkReturns, ReadClosed, ReadFails
<1>4. \E r \in Records : /\ sensor' = [sensor EXCEPT ![z] = r] /\ r.go # "none"
                         /\ r.collection = r0.collection /\ r.links = r0.links
                         /\ r.reader = r0.reader /\ (r.state = "error" => r.failed)
  <2>1. CASE ReadFails(z)
    <3>1. PICK v : v = IF Cancelled(z) THEN r0.state ELSE "error"
      OBVIOUS
    <3>2. sensor' = [sensor EXCEPT ![z] = [r0 EXCEPT !.go = "exited", !.failed = TRUE, !.state = v]]
      BY <1>1, <2>1, <3>1 DEF ReadFails, LifeInv, LifeTypes
    <3>3. PICK r : r = [r0 EXCEPT !.go = "exited", !.failed = TRUE, !.state = v]
      OBVIOUS
    <3>4. /\ r \in Records /\ r.go = "exited" /\ r.collection = r0.collection
          /\ r.links = r0.links /\ r.reader = r0.reader /\ r.failed
      BY <1>2, <3>1, <3>3 DEF Records
    <3> QED
      BY <3>2, <3>3, <3>4
  <2>2. CASE ReadEvent(z) \/ SinkReturns(z) \/ ReadClosed(z)
    <3>1. PICK g \in {"reading", "sink", "exited"} : sensor' = [sensor EXCEPT ![z].go = g]
      BY <2>2 DEF ReadEvent, SinkReturns, ReadClosed
    <3>2. PICK r : r = [r0 EXCEPT !.go = g]
      OBVIOUS
    <3>3. sensor' = [sensor EXCEPT ![z] = r]
      BY <1>1, <3>1, <3>2 DEF LifeInv, LifeTypes
    <3>4. /\ r \in Records /\ r.go = g /\ r.collection = r0.collection /\ r.links = r0.links
          /\ r.reader = r0.reader /\ r.state = r0.state /\ r.failed = r0.failed
      BY <1>2, <3>2 DEF Records
    <3> QED
      BY <1>2, <3>3, <3>4
  <2> QED
    BY <2>1, <2>2
<1>5. PICK r \in Records : /\ sensor' = [sensor EXCEPT ![z] = r] /\ r.go # "none"
                           /\ r.collection = r0.collection /\ r.links = r0.links
                           /\ r.reader = r0.reader /\ (r.state = "error" => r.failed)
  BY <1>4
<1>6. ResourceOK(z) => ResourceOK(z)'
  <2>1. sensor'[z] = r
    BY <1>5 DEF LifeInv, LifeTypes
  <2> QED
    BY <1>1, <1>2, <1>3, <1>5, <2>1 DEF ResourceOK, Held, Bare
<1> QED
  BY <1>1, <1>2, <1>3, <1>5, <1>6, SensorFrame

LEMMA LifeCleanup ==
    ASSUME LifeInv, NEW z \in Sensors, Cleanup(z)
    PROVE  LifeInv'
<1>1. PICK r0 : r0 = sensor[z]
  OBVIOUS
<1>2. r0 \in Records /\ (r0.state = "error" => r0.failed) /\ sensor \in [Sensors -> Records]
      /\ cleanup \in [Sensors -> {"none", "links", "reader", "collection", "done"}]
  BY <1>1 DEF LifeInv, LifeTypes, ResourcesOK
<1>3. UNCHANGED <<opened, loop, main, run, cancelled>>
  BY DEF Cleanup, CloseLinks, CloseReader, CloseCollection
<1>4. CASE CloseLinks(z)
  <2>1. PICK r : r = [r0 EXCEPT !.links = FALSE]
    OBVIOUS
  <2>2. /\ r \in Records /\ ~r.links /\ r.collection = r0.collection /\ r.reader = r0.reader
        /\ r.go = r0.go /\ r.state = r0.state /\ r.failed = r0.failed
    BY <1>2, <2>1 DEF Records
  <2>3. /\ cleanup[z] = "links" /\ cleanup' = [cleanup EXCEPT ![z] = "reader"]
        /\ sensor' = [sensor EXCEPT ![z] = r]
    BY <1>1, <1>2, <1>4, <2>1 DEF CloseLinks
  <2>4. sensor'[z] = r /\ cleanup'[z] = "reader"
    BY <1>2, <2>3
  <2>5. ResourceOK(z) => ResourceOK(z)'
    BY <1>1, <2>2, <2>3, <2>4 DEF ResourceOK, Held, Bare
  <2> QED
    BY <1>1, <1>2, <1>3, <2>2, <2>3, <2>5, SensorFrame
<1>5. CASE CloseReader(z)
  <2>1. PICK r : r = [r0 EXCEPT !.reader = FALSE]
    OBVIOUS
  <2>2. /\ r \in Records /\ ~r.reader /\ r.collection = r0.collection /\ r.links = r0.links
        /\ r.go = r0.go /\ r.state = r0.state /\ r.failed = r0.failed
    BY <1>2, <2>1 DEF Records
  <2>3. /\ cleanup[z] = "reader" /\ cleanup' = [cleanup EXCEPT ![z] = "collection"]
        /\ sensor' = [sensor EXCEPT ![z] = r]
    BY <1>1, <1>2, <1>5, <2>1 DEF CloseReader
  <2>4. sensor'[z] = r /\ cleanup'[z] = "collection"
    BY <1>2, <2>3
  <2>5. ResourceOK(z) => ResourceOK(z)'
    BY <1>1, <2>2, <2>3, <2>4 DEF ResourceOK, Held, Bare
  <2> QED
    BY <1>1, <1>2, <1>3, <2>2, <2>3, <2>5, SensorFrame
<1>6. CASE CloseCollection(z)
  <2>1. PICK r : r = [r0 EXCEPT !.collection = FALSE]
    OBVIOUS
  <2>2. /\ r \in Records /\ ~r.collection /\ r.links = r0.links /\ r.reader = r0.reader
        /\ r.go = r0.go /\ r.state = r0.state /\ r.failed = r0.failed
    BY <1>2, <2>1 DEF Records
  <2>3. /\ cleanup[z] = "collection" /\ cleanup' = [cleanup EXCEPT ![z] = "done"]
        /\ sensor' = [sensor EXCEPT ![z] = r] /\ r0.go \in {"none", "exited"}
    BY <1>1, <1>2, <1>6, <2>1 DEF CloseCollection
  <2>4. sensor'[z] = r /\ cleanup'[z] = "done"
    BY <1>2, <2>3
  <2>5. ResourceOK(z) => ResourceOK(z)'
    BY <1>1, <2>2, <2>3, <2>4 DEF ResourceOK, Held, Bare
  <2> QED
    BY <1>1, <1>2, <1>3, <2>2, <2>3, <2>5, SensorFrame
<1> QED
  BY <1>4, <1>5, <1>6 DEF Cleanup

-----------------------------------------------------------------------------
(* A capture command (internal/cli/cli.go), its recorder loop and cleanups *)
(* (internal/app/app.go) and the ring readers of its sensors               *)
(* (internal/sensor/sensor_linux.go), for any number of sensors: no map is *)
(* used after kernelSensor.Close, nothing stays attached or open when the  *)
(* command ends, no error is invented by a close, and a saved capture had  *)
(* a sensor behind it, in strict mode every one.                           *)
THEOREM ResourcesKept ==
    ASSUME LifecycleAssumption
    PROVE  Spec => []ResourcesSafe
<1>1. LifeInv /\ [Next]_vars => LifeInv'
  <2> SUFFICES ASSUME LifeInv, [Next]_vars PROVE LifeInv'
    OBVIOUS
  <2>1. CASE UNCHANGED vars
    BY <2>1 DEF vars, LifeInv, LifeTypes, Phases, ResourcesOK, ResourceOK, Held, Bare, Refused,
                Starting, Serving, Attached, Covered, Ended
  <2>2. CASE Command
    BY <2>2, LifeOpen, LifeOpenDone, LifeCommand, LifeAsking, LifeGiveUp, LifeCloseAll DEF Command
  <2>3. CASE Loop
    BY <2>3, LifeStart, LifeSnapshot, LifeMove, LifeStartDone, LifeLoopDone, LifeCollectDone, LifeReply
       DEF Loop
  <2>4. CASE \E i \in Sensors : Cleanup(i) \/ Reader(i) \/ ReadEvent(i) \/ ReadFails(i)
    BY <2>4, LifeReader, LifeCleanup DEF Reader
  <2> QED
    BY <2>1, <2>2, <2>3, <2>4, LifeMove, LifeLoopDone, LifeCommand DEF Next, Finished
<1> QED
  BY <1>1, LifeInit, LifeImplies, PTL DEF Spec

-----------------------------------------------------------------------------
(* What a daemon between two system calls knows of the path, as long as it *)
(* is the only one there.                                                  *)
Claim(d) ==
    /\ pc[d] = "remove" => path \notin listening
    /\ pc[d] = "listen" => path = None
    /\ pc[d] \in {"bound", "chmod"} => path = d
    /\ pc[d] \notin {"undo", "abort", "aborted"}
    /\ pc[d] \in {"close", "unlinked", "drain"} => \A e \in Daemons : pc[e] # "serving"

OneBusy == \A d, e \in Daemons : Busy(d) /\ Busy(e) => d = e

SInv == SocketTypeOK /\ OneBusy /\ BusySocketKept /\ \A d \in Daemons : Claim(d)

(* Every step keeps the types, with or without a supervisor.               *)
LEMMA SocketTypeStep == SocketTypeOK /\ [SocketNext]_socketVars => SocketTypeOK'
<1> SUFFICES ASSUME SocketTypeOK, [SocketNext]_socketVars PROVE SocketTypeOK'
  OBVIOUS
<1> USE DEF SocketTypeOK, Bound, Steps, Over
<1>1. CASE UNCHANGED socketVars
  BY <1>1 DEF socketVars
<1>2. ASSUME NEW d \in Daemons, Start(d) \/ Stop(d) \/ Kill(d) PROVE SocketTypeOK'
  BY <1>2 DEF Start, Stop, Kill, Go
<1>3. ASSUME NEW d \in Daemons, Lstat(d) \/ Dial(d) \/ Remove(d) PROVE SocketTypeOK'
  BY <1>3 DEF Lstat, Dial, Remove, Go
<1>4. ASSUME NEW d \in Daemons, Bind(d) \/ Listen(d) \/ Chmod(d) PROVE SocketTypeOK'
  BY <1>4 DEF Bind, Listen, Chmod, Go
<1>5. ASSUME NEW d \in Daemons, Unlink(d) \/ CloseListener(d) \/ Removed(d) PROVE SocketTypeOK'
  BY <1>5 DEF Unlink, CloseListener, Removed, Go
<1> QED
  BY <1>1, <1>2, <1>3, <1>4, <1>5 DEF SocketNext, Serve

(* A socket listens exactly from its listen call to its close call, with   *)
(* or without a supervisor.                                                *)
THEOREM SocketTypes == SocketSpec => []SocketTypeOK
<1>1. SocketInit => SocketTypeOK
  BY DEF SocketInit, SocketTypeOK, Bound, Over, Steps
<1> QED
  BY <1>1, SocketTypeStep, PTL DEF SocketSpec

-----------------------------------------------------------------------------
(* Under a supervisor only the busy daemon moves, and others may be killed.*)
LEMMA SupervisedStep ==
    ASSUME SocketAssumption, Supervised
    PROVE  SInv /\ [SocketNext]_socketVars => SInv'
<1> SUFFICES ASSUME SInv, [SocketNext]_socketVars PROVE SInv'
  OBVIOUS
<1>1. SocketTypeOK'
  BY SocketTypeStep DEF SInv
<1>2. CASE UNCHANGED socketVars
  BY <1>2 DEF socketVars, SInv, SocketTypeOK, Bound, OneBusy, Busy, BusySocketKept, Claim
<1>3. ASSUME NEW d \in Daemons, Kill(d) PROVE SInv'
  BY <1>1, <1>3 DEF Kill, SInv, SocketTypeOK, Bound, OneBusy, Busy, BusySocketKept, Claim, Over
<1>4. ASSUME NEW d \in Daemons, Start(d) PROVE SInv'
  BY <1>1, <1>4 DEF Start, Go, Alone, SInv, SocketTypeOK, Bound, OneBusy, Busy, BusySocketKept, Claim, Over
<1>5. ASSUME NEW d \in Daemons, Stop(d) PROVE SInv'
  BY <1>1, <1>5 DEF Stop, Go, Alone, SInv, SocketTypeOK, Bound, OneBusy, Busy, BusySocketKept, Claim, Over
<1>6. ASSUME NEW d \in Daemons, NEW to, Busy(d), pc' = [pc EXCEPT ![d] = to],
             to \in Steps \cup Over
      PROVE  OneBusy' /\ \A e \in Daemons \ {d} : ~Busy(e) /\ pc'[e] = pc[e]
  BY <1>6 DEF SInv, SocketTypeOK, Bound, OneBusy, Busy
<1>7. ASSUME NEW d \in Daemons, Serve(d) PROVE SInv'
  <2>1. Busy(d) /\ OneBusy' /\ \A e \in Daemons \ {d} : ~Busy(e) /\ pc'[e] = pc[e]
    <3>1. Busy(d)
      BY <1>7 DEF Serve, Lstat, Dial, Remove, Bind, Listen, Chmod, Unlink, CloseListener,
                  Removed, Go, Busy, Over
    <3>2. PICK to : to \in Steps \cup Over /\ pc' = [pc EXCEPT ![d] = to]
      BY <1>7 DEF Serve, Lstat, Dial, Remove, Bind, Listen, Chmod, Unlink, CloseListener,
                  Removed, Go, Steps, Over
    <3> QED
      BY <1>6, <3>1, <3>2
  <2>2. \A e \in Daemons \ {d} : Claim(e)'
    BY <2>1 DEF Busy, Over, Claim
  <2> USE DEF SInv, SocketTypeOK, Bound, BusySocketKept, Claim, SocketAssumption
  <2>3. CASE Lstat(d)
    BY <1>1, <2>1, <2>2, <2>3 DEF Lstat, Go
  <2>4. CASE Dial(d)
    BY <1>1, <2>1, <2>2, <2>4 DEF Dial, Go, DialRefused
  <2>5. CASE Remove(d)
    BY <1>1, <2>1, <2>2, <2>5 DEF Remove, Go
  <2>6. CASE Bind(d)
    BY <1>1, <2>1, <2>2, <2>6 DEF Bind, Go
  <2>7. CASE Listen(d)
    BY <1>1, <2>1, <2>2, <2>7 DEF Listen, Go
  <2>8. CASE Chmod(d)
    BY <1>1, <2>1, <2>2, <2>8 DEF Chmod, Go
  <2>9. CASE Unlink(d)
    BY <1>1, <2>1, <2>2, <2>9 DEF Unlink, Go
  <2>10. CASE CloseListener(d) \/ Removed(d)
    BY <1>1, <2>1, <2>2, <2>10 DEF CloseListener, Removed, Go
  <2> QED
    BY <1>7, <2>3, <2>4, <2>5, <2>6, <2>7, <2>8, <2>9, <2>10 DEF Serve
<1> QED
  BY <1>2, <1>3, <1>4, <1>5, <1>7 DEF SocketNext

(* Serve of internal/control/control.go, started and stopped one at a time:*)
(* no other daemon's start, stop or crash takes the name of its socket     *)
(* from a daemon that serves.                                              *)
THEOREM SocketKept ==
    ASSUME SocketAssumption, Supervised
    PROVE  SocketSpec => []BusySocketKept
<1>1. SocketInit => SInv
  BY DEF SocketInit, SInv, SocketTypeOK, Bound, OneBusy, Busy, BusySocketKept, Claim, Over, Steps
<1>2. SInv => BusySocketKept
  BY DEF SInv
<1> QED
  BY <1>1, <1>2, SupervisedStep, PTL DEF SocketSpec
=============================================================================
