---------------------------- MODULE EngineProofs ----------------------------
(***************************************************************************)
(* Proofs about the goroutines of the daemon for every set of connections, *)
(* every queue capacity and every number of client slots: the lease is     *)
(* never leaked or held twice, a begun file is always in one place, the    *)
(* one-slot channels never block, no query is lost or answered twice, and  *)
(* Engine implements SnapshotLease.                                        *)
(***************************************************************************)
EXTENDS Engine, FiniteSetTheorems, TLAPS

(* Once the loop has stopped, the worker has too and its channels are      *)
(* empty; once the server is done no handler is left.                      *)
StopOrder ==
    /\ loop = "stopped" => worker = "done" /\ ~jobs /\ ~results
    /\ worker = "done" => root \/ loop \in {"joining", "stopped"}
    /\ server = "done" => \A c \in Clients : client[c] \in {"new", "closed", "refused"}
    /\ daemon = "exited" => loop = "stopped" /\ server = "done"

(* LeaseExact and WriteAccounted without the sets of holders and places.   *)
LoopHolds == loop = "enqueue" \/ (loop = "reply" /\ replyLease)

Streaming == \E c \in Clients : client[c] = "streaming"

LeaseFlat ==
    /\ busy => Streaming \/ LoopHolds \/ jobs \/ worker = "saving"
    /\ Streaming => busy /\ ~LoopHolds /\ ~jobs /\ worker # "saving"
    /\ LoopHolds => busy /\ ~jobs /\ worker # "saving"
    /\ jobs => busy /\ worker # "saving"
    /\ worker = "saving" => busy
    /\ \A c, d \in Clients : client[c] = "streaming" /\ client[d] = "streaming" => c = d

WriteFlat ==
    /\ writing => \/ loop = "enqueue" \/ jobs \/ worker \in {"saving", "sending"}
                  \/ results \/ dropped
    /\ loop = "enqueue" => writing /\ ~jobs /\ worker \notin {"saving", "sending"} /\ ~results
    /\ jobs => writing /\ worker \notin {"saving", "sending"} /\ ~results
    /\ worker \in {"saving", "sending"} => writing /\ ~results
    /\ results => writing
    /\ dropped => /\ writing /\ ~jobs /\ worker \notin {"saving", "sending"} /\ ~results
                  /\ loop \in {"closing", "joining", "stopped"}

Booleans ==
    /\ root \in BOOLEAN /\ replyLease \in BOOLEAN /\ writing \in BOOLEAN /\ dropped \in BOOLEAN
    /\ busy \in BOOLEAN /\ jobs \in BOOLEAN /\ results \in BOOLEAN

Others ==
    /\ loop \in LoopStates /\ replyTo \in Clients \cup {NoClient}
    /\ after \in {"select", "progress", "closing"}
    /\ current \in Windows /\ next \in Windows
    /\ worker \in WorkerStates
    /\ queue \in Seq(Clients)
    /\ client \in [Clients -> ClientStates]
    /\ expired \subseteq Clients
    /\ server \in {"serving", "draining", "done"}
    /\ daemon \in {"running", "waiting", "exited"}

ReplyOK == loop = "reply" => replyTo \in Clients

IInv == TypeOK /\ ReplyOK /\ LeaseFlat /\ WriteFlat /\ StopOrder

(* IInv implies the invariants of the specification.                       *)
LEMMA IInvImplies == IInv => LeaseExact /\ WriteAccounted /\ SendsNeverBlock /\ CleanExit
<1> SUFFICES ASSUME IInv PROVE LeaseExact /\ WriteAccounted /\ SendsNeverBlock /\ CleanExit
  OBVIOUS
<1>1. SendsNeverBlock
  BY DEF IInv, WriteFlat, SendsNeverBlock
<1>2. WriteAccounted
  BY DEF IInv, WriteFlat, WriteAccounted, WritePlaces
<1>3. LeaseExact
  <2>1. busy <=> Holders # {}
    <3>1. busy => Holders # {}
      BY DEF IInv, LeaseFlat, LoopHolds, Streaming, Holders
    <3>2. Holders # {} => busy
      BY DEF IInv, LeaseFlat, LoopHolds, Streaming, Holders
    <3> QED
      BY <3>1, <3>2 DEF IInv, TypeOK
  <2>2. ASSUME NEW g \in Holders, NEW h \in Holders PROVE g = h
    BY <2>2 DEF IInv, LeaseFlat, LoopHolds, Streaming, Holders
  <2> QED
    BY <2>1, <2>2 DEF LeaseExact
<1>4. ASSUME daemon = "exited" PROVE CleanExit
  <2>1. worker = "done" /\ ~jobs /\ ~results /\ loop = "stopped"
    BY <1>4 DEF IInv, StopOrder
  <2>2. Active = {} /\ ~Streaming
    BY <1>4 DEF IInv, StopOrder, Active, Streaming
  <2>3. (writing => dropped) /\ ~busy
    BY <2>1, <2>2 DEF IInv, WriteFlat, LeaseFlat, LoopHolds
  <2> QED
    BY <2>1, <2>2, <2>3 DEF CleanExit
<1> QED
  BY <1>1, <1>2, <1>3, <1>4 DEF CleanExit

-----------------------------------------------------------------------------
(* IInv holds initially.                                                   *)
LEMMA InitIInv == Init => IInv
<1> SUFFICES ASSUME Init PROVE IInv
  OBVIOUS
<1>1. TypeOK /\ ReplyOK
  <2>1. Booleans
    BY DEF Init, Booleans
  <2>2. queue \in Seq(Clients)
    BY DEF Init
  <2>3. client \in [Clients -> ClientStates]
    BY DEF Init, ClientStates
  <2>4. expired \subseteq Clients
    BY DEF Init
  <2>5. /\ loop \in LoopStates /\ replyTo \in Clients \cup {NoClient}
        /\ after \in {"select", "progress", "closing"}
        /\ current \in Windows /\ next \in Windows
        /\ worker \in WorkerStates
        /\ server \in {"serving", "draining", "done"}
        /\ daemon \in {"running", "waiting", "exited"}
        /\ ReplyOK
    BY DEF Init, LoopStates, Windows, WorkerStates, ReplyOK
  <2> QED
    BY <2>1, <2>2, <2>3, <2>4, <2>5 DEF TypeOK, Booleans
<1>2. LeaseFlat
  BY DEF Init, LeaseFlat, LoopHolds, Streaming
<1>3. WriteFlat
  BY DEF Init, WriteFlat
<1>4. StopOrder
  BY DEF Init, StopOrder
<1> QED
  BY <1>1, <1>2, <1>3, <1>4 DEF IInv

(* Taking a query leaves a well-typed queue and names a client.            *)
LEMMA TakeQueryType ==
    ASSUME TypeOK, queue # <<>>
    PROVE  Head(queue) \in Clients /\ Tail(queue) \in Seq(Clients)
BY DEF TypeOK

(* The flags stay Boolean.                                                 *)
LEMMA BooleanStep == Booleans /\ [Next]_vars => Booleans'
<1> SUFFICES ASSUME Booleans, [Next]_vars PROVE Booleans'
  OBVIOUS
<1> USE DEF Booleans, replyVars, controllerVars, workerVars, clientVars
<1>1. CASE LoopNext
  <2>1. CASE Wake \/ WakeFails
    BY <2>1 DEF Wake, WakeFails
  <2>2. CASE ContextDone \/ Completed \/ CompletedLost
    BY <2>2 DEF ContextDone, Completed, CompletedLost
  <2>3. CASE SkipQuery \/ QueryLost \/ RejectQuery \/ StatusQuery
    BY <2>3 DEF SkipQuery, QueryLost, TakeQuery, RejectQuery, StatusQuery, ReplyThen
  <2>4. CASE SnapshotQuery \/ SnapshotQueryFails
    BY <2>4 DEF SnapshotQuery, SnapshotQueryFails, ReplyThen
  <2>5. CASE ReplyDelivered \/ ReplyAbandoned
    BY <2>5 DEF ReplyDelivered, ReplyAbandoned
  <2>6. CASE ProgressWaits \/ ProgressBegins \/ Enqueue
    BY <2>6 DEF ProgressWaits, ProgressBegins, Enqueue
  <2>7. CASE CloseCancels \/ CloseJoins
    BY <2>7 DEF CloseCancels, CloseJoins
  <2> QED
    BY <1>1, <2>1, <2>2, <2>3, <2>4, <2>5, <2>6, <2>7 DEF LoopNext
<1>2. CASE WorkerNext
  BY <1>2 DEF WorkerNext, WorkerTakes, WorkerReleases, WorkerSends, WorkerExits
<1>3. ASSUME NEW c \in Clients, ClientNext(c) PROVE Booleans'
  BY <1>3 DEF ClientNext, Accept, BadRequest, AskEnqueues, AskFails, Expire, StreamEnds, Leave
<1>4. CASE DaemonNext
  BY <1>4 DEF DaemonNext, ServerDrains, ServerDone, Signal, DaemonCancels, DaemonExits
<1>5. CASE UNCHANGED vars
  BY <1>5 DEF vars
<1> QED
  BY <1>1, <1>2, <1>3, <1>4, <1>5 DEF Next, Terminated

(* The types of the other variables are preserved too.                     *)
LEMMA OtherStep == TypeOK /\ ReplyOK /\ [Next]_vars => Others' /\ ReplyOK'
<1> SUFFICES ASSUME TypeOK, ReplyOK, [Next]_vars PROVE Others' /\ ReplyOK'
  OBVIOUS
<1> USE DEF TypeOK, Others, ReplyOK, LoopStates, WorkerStates, ClientStates, Windows,
            replyVars, controllerVars, workerVars, clientVars
<1>1. CASE LoopNext
  <2>1. CASE Wake \/ WakeFails
    BY <2>1 DEF Wake, WakeFails, Collect
  <2>2. CASE ContextDone \/ Completed \/ CompletedLost
    BY <2>2 DEF ContextDone, Completed, CompletedLost
  <2>3. CASE SkipQuery \/ QueryLost
    BY <2>3 DEF SkipQuery, QueryLost, TakeQuery
  <2>4. CASE RejectQuery
    BY <2>4, TakeQueryType DEF RejectQuery, TakeQuery, ReplyThen
  <2>5. CASE StatusQuery
    BY <2>5, TakeQueryType DEF StatusQuery, TakeQuery, ReplyThen
  <2>6. CASE SnapshotQuery
    <3>1. current' \in Windows /\ next' \in Windows
      BY <2>6 DEF SnapshotQuery, Collect
    <3>2. replyTo' \in Clients /\ queue' \in Seq(Clients)
      BY <2>6, TakeQueryType DEF SnapshotQuery, TakeQuery, ReplyThen
    <3> QED
      BY <2>6, <3>1, <3>2 DEF SnapshotQuery, ReplyThen
  <2>7. CASE SnapshotQueryFails
    <3>1. current' \in Windows /\ next' \in Windows
      BY <2>7 DEF SnapshotQueryFails, Collect
    <3>2. replyTo' \in Clients /\ queue' \in Seq(Clients)
      BY <2>7, TakeQueryType DEF SnapshotQueryFails, TakeQuery, ReplyThen
    <3> QED
      BY <2>7, <3>1, <3>2 DEF SnapshotQueryFails, ReplyThen
  <2>8. CASE ReplyDelivered
    <3>1. client' \in [Clients -> ClientStates]
      BY <2>8 DEF ReplyDelivered
    <3> QED
      BY <2>8, <3>1 DEF ReplyDelivered
  <2>9. CASE ReplyAbandoned
    BY <2>9 DEF ReplyAbandoned
  <2>10. CASE ProgressWaits \/ ProgressBegins \/ Enqueue
    BY <2>10 DEF ProgressWaits, ProgressBegins, Enqueue
  <2>11. CASE CloseCancels \/ CloseJoins
    BY <2>11 DEF CloseCancels, CloseJoins
  <2> QED
    BY <1>1, <2>1, <2>2, <2>3, <2>4, <2>5, <2>6, <2>7, <2>8, <2>9, <2>10, <2>11 DEF LoopNext
<1>2. CASE WorkerTakes \/ WorkerReleases
  BY <1>2 DEF WorkerTakes, WorkerReleases
<1>3. CASE WorkerSends \/ WorkerExits
  BY <1>3 DEF WorkerSends, WorkerExits
<1>4. ASSUME NEW c \in Clients, ClientNext(c) PROVE Others' /\ ReplyOK'
  <2>1. ASSUME NEW from, NEW to \in ClientStates, ClientAt(c, from, to)
        PROVE  client' \in [Clients -> ClientStates]
    BY <2>1 DEF ClientAt
  <2>2. CASE Accept(c)
    <3>1. client' \in [Clients -> ClientStates]
      BY <2>1, <2>2 DEF Accept
    <3>2. expired' \subseteq Clients
      BY <2>2 DEF Accept
    <3> QED
      BY <2>2, <3>1, <3>2 DEF Accept
  <2>3. CASE BadRequest(c) \/ Leave(c)
    <3>1. client' \in [Clients -> ClientStates]
      BY <2>1, <2>3 DEF BadRequest, Leave
    <3> QED
      BY <2>3, <3>1 DEF BadRequest, Leave
  <2>4. CASE AskEnqueues(c)
    <3>1. client' \in [Clients -> ClientStates] /\ queue' \in Seq(Clients)
      BY <2>1, <2>4 DEF AskEnqueues
    <3> QED
      BY <2>4, <3>1 DEF AskEnqueues
  <2>5. CASE AskFails(c)
    <3>1. client' \in [Clients -> ClientStates]
      BY <2>1, <2>5 DEF AskFails
    <3> QED
      BY <2>5, <3>1 DEF AskFails
  <2>6. CASE Expire(c)
    BY <2>6 DEF Expire
  <2>7. CASE StreamEnds(c)
    <3>1. client' \in [Clients -> ClientStates]
      BY <2>1, <2>7 DEF StreamEnds
    <3> QED
      BY <2>7, <3>1 DEF StreamEnds
  <2> QED
    BY <1>4, <2>2, <2>3, <2>4, <2>5, <2>6, <2>7 DEF ClientNext
<1>5. CASE ServerDrains \/ ServerDone
  BY <1>5 DEF ServerDrains, ServerDone
<1>6. CASE Signal \/ DaemonCancels \/ DaemonExits
  BY <1>6 DEF Signal, DaemonCancels, DaemonExits
<1>7. CASE UNCHANGED vars
  BY <1>7 DEF vars
<1> QED
  BY <1>1, <1>2, <1>3, <1>4, <1>5, <1>6, <1>7 DEF Next, Terminated, WorkerNext, DaemonNext

(* Types are preserved by every step.                                      *)
LEMMA TypeStep == TypeOK /\ ReplyOK /\ [Next]_vars => TypeOK' /\ ReplyOK'
<1> SUFFICES ASSUME TypeOK, ReplyOK, [Next]_vars PROVE TypeOK' /\ ReplyOK'
  OBVIOUS
<1>1. Booleans'
  BY BooleanStep DEF TypeOK, Booleans
<1>2. Others' /\ ReplyOK'
  BY OtherStep
<1> QED
  BY <1>1, <1>2 DEF TypeOK, Booleans, Others

(* The lease stays with one holder.                                        *)
LEMMA LeaseStep == IInv /\ [Next]_vars => LeaseFlat'
<1> SUFFICES ASSUME IInv, [Next]_vars PROVE LeaseFlat'
  OBVIOUS
<1> USE DEF IInv, LeaseFlat, LoopHolds, Streaming, replyVars, controllerVars, workerVars, clientVars
<1>1. CASE Wake
  BY <1>1 DEF Wake
<1>2. CASE WakeFails
  BY <1>2 DEF WakeFails
<1>3. CASE ContextDone
  BY <1>3 DEF ContextDone
<1>4. CASE Completed
  BY <1>4 DEF Completed
<1>5. CASE SkipQuery
  BY <1>5 DEF SkipQuery
<1>6. CASE RejectQuery
  BY <1>6 DEF RejectQuery, TakeQuery, ReplyThen
<1>7. CASE StatusQuery
  BY <1>7 DEF StatusQuery, TakeQuery, ReplyThen
<1>8. CASE SnapshotQuery
  BY <1>8 DEF SnapshotQuery, TakeQuery, ReplyThen
<1>9. CASE SnapshotQueryFails
  BY <1>9 DEF SnapshotQueryFails, TakeQuery, ReplyThen
<1>10. CASE ReplyDelivered
  <2>1. after \in {"select", "progress", "closing"} /\ client \in [Clients -> ClientStates]
        /\ replyTo \in Clients
    BY <1>10 DEF TypeOK, ReplyOK, ReplyDelivered
  <2> QED
    BY <1>10, <2>1 DEF ReplyDelivered
<1>11. CASE ReplyAbandoned
  <2>1. after \in {"select", "progress", "closing"}
    BY DEF TypeOK
  <2> QED
    BY <1>11, <2>1 DEF ReplyAbandoned
<1>12. CASE ProgressWaits
  BY <1>12 DEF ProgressWaits
<1>13. CASE ProgressBegins
  BY <1>13 DEF ProgressBegins
<1>14. CASE Enqueue
  BY <1>14 DEF Enqueue
<1>15. CASE CloseCancels
  BY <1>15 DEF CloseCancels
<1>16. CASE CloseJoins
  BY <1>16 DEF CloseJoins
<1>17. CASE WorkerTakes
  BY <1>17 DEF WorkerTakes
<1>18. CASE WorkerReleases
  BY <1>18 DEF WorkerReleases
<1>19. CASE WorkerSends
  BY <1>19 DEF WorkerSends
<1>20. CASE WorkerExits
  BY <1>20 DEF WorkerExits
<1>21. ASSUME NEW c \in Clients, ClientNext(c) PROVE LeaseFlat'
  <2>1. CASE Accept(c)
    BY <2>1 DEF Accept, ClientAt, TypeOK, ClientStates
  <2>2. CASE BadRequest(c)
    BY <2>2 DEF BadRequest, ClientAt, TypeOK, ClientStates
  <2>3. CASE AskEnqueues(c)
    BY <2>3 DEF AskEnqueues, ClientAt, TypeOK, ClientStates
  <2>4. CASE AskFails(c)
    BY <2>4 DEF AskFails, ClientAt, TypeOK, ClientStates
  <2>5. CASE Expire(c)
    BY <2>5 DEF Expire, ClientAt, TypeOK, ClientStates
  <2>6. CASE StreamEnds(c)
    BY <2>6 DEF StreamEnds, ClientAt, TypeOK, ClientStates
  <2>7. CASE Leave(c)
    BY <2>7 DEF Leave, ClientAt, TypeOK, ClientStates
  <2> QED
    BY <1>21, <2>1, <2>2, <2>3, <2>4, <2>5, <2>6, <2>7 DEF ClientNext
<1>22. CASE ServerDrains
  BY <1>22 DEF ServerDrains
<1>23. CASE ServerDone
  BY <1>23 DEF ServerDone, Active
<1>24. CASE Signal
  BY <1>24 DEF Signal
<1>25. CASE DaemonCancels
  BY <1>25 DEF DaemonCancels
<1>26. CASE DaemonExits
  BY <1>26 DEF DaemonExits
<1>27. CASE UNCHANGED vars
  BY <1>27 DEF vars
<1>28. CASE CompletedLost
  BY <1>28 DEF CompletedLost
<1>29. CASE QueryLost
  BY <1>29 DEF QueryLost, TakeQuery
<1> QED
  BY <1>1, <1>2, <1>3, <1>4, <1>5, <1>6, <1>7, <1>8, <1>9, <1>10, <1>11, <1>12, <1>13, <1>14,
     <1>15, <1>16, <1>17, <1>18, <1>19, <1>20, <1>21, <1>22, <1>23, <1>24, <1>25, <1>26, <1>27, <1>28, <1>29
  DEF Next, LoopNext, WorkerNext, DaemonNext, Terminated

(* The file in flight stays in one place.                                  *)
LEMMA WriteStep == IInv /\ [Next]_vars => WriteFlat'
<1> SUFFICES ASSUME IInv, [Next]_vars PROVE WriteFlat'
  OBVIOUS
<1> USE DEF IInv, WriteFlat, replyVars, controllerVars, workerVars, clientVars
<1>1. CASE Wake
  BY <1>1 DEF Wake
<1>2. CASE WakeFails
  BY <1>2 DEF WakeFails
<1>3. CASE ContextDone
  BY <1>3 DEF ContextDone
<1>4. CASE Completed
  BY <1>4 DEF Completed
<1>5. CASE SkipQuery
  BY <1>5 DEF SkipQuery
<1>6. CASE RejectQuery
  BY <1>6 DEF RejectQuery, TakeQuery, ReplyThen
<1>7. CASE StatusQuery
  BY <1>7 DEF StatusQuery, TakeQuery, ReplyThen
<1>8. CASE SnapshotQuery
  BY <1>8 DEF SnapshotQuery, TakeQuery, ReplyThen
<1>9. CASE SnapshotQueryFails
  BY <1>9 DEF SnapshotQueryFails, TakeQuery, ReplyThen
<1>10. CASE ReplyDelivered
  <2>1. after \in {"select", "progress", "closing"} /\ client \in [Clients -> ClientStates]
        /\ replyTo \in Clients
    BY <1>10 DEF TypeOK, ReplyOK, ReplyDelivered
  <2> QED
    BY <1>10, <2>1 DEF ReplyDelivered
<1>11. CASE ReplyAbandoned
  <2>1. after \in {"select", "progress", "closing"}
    BY DEF TypeOK
  <2> QED
    BY <1>11, <2>1 DEF ReplyAbandoned
<1>12. CASE ProgressWaits
  BY <1>12 DEF ProgressWaits
<1>13. CASE ProgressBegins
  BY <1>13 DEF ProgressBegins
<1>14. CASE Enqueue
  BY <1>14 DEF Enqueue
<1>15. CASE CloseCancels
  BY <1>15 DEF CloseCancels
<1>16. CASE CloseJoins
  BY <1>16 DEF CloseJoins
<1>17. CASE WorkerTakes
  BY <1>17 DEF WorkerTakes
<1>18. CASE WorkerReleases
  BY <1>18 DEF WorkerReleases
<1>19. CASE WorkerSends
  BY <1>19 DEF WorkerSends
<1>20. CASE WorkerExits
  BY <1>20 DEF WorkerExits
<1>21. ASSUME NEW c \in Clients, ClientNext(c) PROVE WriteFlat'
  <2>1. CASE Accept(c)
    BY <2>1 DEF Accept, ClientAt, TypeOK, ClientStates
  <2>2. CASE BadRequest(c)
    BY <2>2 DEF BadRequest, ClientAt, TypeOK, ClientStates
  <2>3. CASE AskEnqueues(c)
    BY <2>3 DEF AskEnqueues, ClientAt, TypeOK, ClientStates
  <2>4. CASE AskFails(c)
    BY <2>4 DEF AskFails, ClientAt, TypeOK, ClientStates
  <2>5. CASE Expire(c)
    BY <2>5 DEF Expire, ClientAt, TypeOK, ClientStates
  <2>6. CASE StreamEnds(c)
    BY <2>6 DEF StreamEnds, ClientAt, TypeOK, ClientStates
  <2>7. CASE Leave(c)
    BY <2>7 DEF Leave, ClientAt, TypeOK, ClientStates
  <2> QED
    BY <1>21, <2>1, <2>2, <2>3, <2>4, <2>5, <2>6, <2>7 DEF ClientNext
<1>22. CASE ServerDrains
  BY <1>22 DEF ServerDrains
<1>23. CASE ServerDone
  BY <1>23 DEF ServerDone, Active
<1>24. CASE Signal
  BY <1>24 DEF Signal
<1>25. CASE DaemonCancels
  BY <1>25 DEF DaemonCancels
<1>26. CASE DaemonExits
  BY <1>26 DEF DaemonExits
<1>27. CASE UNCHANGED vars
  BY <1>27 DEF vars
<1>28. CASE CompletedLost
  BY <1>28 DEF CompletedLost
<1>29. CASE QueryLost
  BY <1>29 DEF QueryLost, TakeQuery
<1> QED
  BY <1>1, <1>2, <1>3, <1>4, <1>5, <1>6, <1>7, <1>8, <1>9, <1>10, <1>11, <1>12, <1>13, <1>14,
     <1>15, <1>16, <1>17, <1>18, <1>19, <1>20, <1>21, <1>22, <1>23, <1>24, <1>25, <1>26, <1>27, <1>28, <1>29
  DEF Next, LoopNext, WorkerNext, DaemonNext, Terminated

(* The order in which the goroutines stop is kept.                         *)
LEMMA StopStep == IInv /\ [Next]_vars => StopOrder'
<1> SUFFICES ASSUME IInv, [Next]_vars PROVE StopOrder'
  OBVIOUS
<1> USE DEF IInv, StopOrder, ReplyOK, replyVars, controllerVars, workerVars, clientVars
<1>1. CASE Wake
  BY <1>1 DEF Wake
<1>2. CASE WakeFails
  BY <1>2 DEF WakeFails
<1>3. CASE ContextDone
  BY <1>3 DEF ContextDone
<1>4. CASE Completed
  BY <1>4 DEF Completed
<1>5. CASE SkipQuery
  BY <1>5 DEF SkipQuery
<1>6. CASE RejectQuery
  BY <1>6 DEF RejectQuery, TakeQuery, ReplyThen
<1>7. CASE StatusQuery
  BY <1>7 DEF StatusQuery, TakeQuery, ReplyThen
<1>8. CASE SnapshotQuery
  BY <1>8 DEF SnapshotQuery, TakeQuery, ReplyThen
<1>9. CASE SnapshotQueryFails
  BY <1>9 DEF SnapshotQueryFails, TakeQuery, ReplyThen
<1>10. CASE ReplyDelivered
  <2>1. after \in {"select", "progress", "closing"} /\ client \in [Clients -> ClientStates]
        /\ replyTo \in Clients
    BY <1>10 DEF TypeOK, ReplyOK, ReplyDelivered
  <2> QED
    BY <1>10, <2>1 DEF ReplyDelivered
<1>11. CASE ReplyAbandoned
  <2>1. after \in {"select", "progress", "closing"}
    BY DEF TypeOK
  <2> QED
    BY <1>11, <2>1 DEF ReplyAbandoned
<1>12. CASE ProgressWaits
  BY <1>12 DEF ProgressWaits
<1>13. CASE ProgressBegins
  BY <1>13 DEF ProgressBegins
<1>14. CASE Enqueue
  BY <1>14 DEF Enqueue
<1>15. CASE CloseCancels
  BY <1>15 DEF CloseCancels
<1>16. CASE CloseJoins
  BY <1>16 DEF CloseJoins
<1>17. CASE WorkerTakes
  BY <1>17 DEF WorkerTakes
<1>18. CASE WorkerReleases
  BY <1>18 DEF WorkerReleases
<1>19. CASE WorkerSends
  BY <1>19 DEF WorkerSends
<1>20. CASE WorkerExits
  BY <1>20 DEF WorkerExits, WorkerCancelled
<1>21. ASSUME NEW c \in Clients, ClientNext(c) PROVE StopOrder'
  <2>1. CASE Accept(c)
    BY <2>1 DEF Accept, ClientAt, TypeOK, ClientStates
  <2>2. CASE BadRequest(c)
    BY <2>2 DEF BadRequest, ClientAt, TypeOK, ClientStates
  <2>3. CASE AskEnqueues(c)
    BY <2>3 DEF AskEnqueues, ClientAt, TypeOK, ClientStates
  <2>4. CASE AskFails(c)
    BY <2>4 DEF AskFails, ClientAt, TypeOK, ClientStates
  <2>5. CASE Expire(c)
    BY <2>5 DEF Expire, ClientAt, TypeOK, ClientStates
  <2>6. CASE StreamEnds(c)
    BY <2>6 DEF StreamEnds, ClientAt, TypeOK, ClientStates
  <2>7. CASE Leave(c)
    BY <2>7 DEF Leave, ClientAt, TypeOK, ClientStates
  <2> QED
    BY <1>21, <2>1, <2>2, <2>3, <2>4, <2>5, <2>6, <2>7 DEF ClientNext
<1>22. CASE ServerDrains
  BY <1>22 DEF ServerDrains
<1>23. CASE ServerDone
  BY <1>23 DEF ServerDone, Active
<1>24. CASE Signal
  BY <1>24 DEF Signal
<1>25. CASE DaemonCancels
  BY <1>25 DEF DaemonCancels
<1>26. CASE DaemonExits
  BY <1>26 DEF DaemonExits
<1>27. CASE UNCHANGED vars
  BY <1>27 DEF vars
<1>28. CASE CompletedLost
  BY <1>28 DEF CompletedLost
<1>29. CASE QueryLost
  BY <1>29 DEF QueryLost, TakeQuery
<1> QED
  BY <1>1, <1>2, <1>3, <1>4, <1>5, <1>6, <1>7, <1>8, <1>9, <1>10, <1>11, <1>12, <1>13, <1>14,
     <1>15, <1>16, <1>17, <1>18, <1>19, <1>20, <1>21, <1>22, <1>23, <1>24, <1>25, <1>26, <1>27, <1>28, <1>29
  DEF Next, LoopNext, WorkerNext, DaemonNext, Terminated

(* IInv is inductive.                                                      *)
LEMMA NextIInv == IInv /\ [Next]_vars => IInv'
BY TypeStep, LeaseStep, WriteStep, StopStep DEF IInv

(* IInv is an invariant of the daemon's goroutines.                        *)
THEOREM Invariance == Spec => []IInv
BY InitIInv, NextIInv, PTL DEF Spec

(* Types are right in every state.                                         *)
THEOREM TypeCorrect == Spec => []TypeOK
<1>1. IInv => TypeOK
  BY DEF IInv
<1> QED
  BY <1>1, Invariance, PTL

(* snapshotBusy is set exactly while one goroutine holds the release       *)
(* function, for any number of control connections.                        *)
THEOREM LeaseNeverLeaked == Spec => []LeaseExact
BY Invariance, IInvImplies, PTL

(* Between Controller.Begin and Finish the file is in exactly one place.   *)
THEOREM WriteNeverLost == Spec => []WriteAccounted
BY Invariance, IInvImplies, PTL

(* The sends on the jobs and results channels always find a free slot.     *)
THEOREM ChannelsNeverBlock == Spec => []SendsNeverBlock
BY Invariance, IInvImplies, PTL

(* An exited daemon leaves no lease, file, worker or connection behind.    *)
THEOREM ExitIsClean == Spec => []CleanExit
BY Invariance, IInvImplies, PTL

-----------------------------------------------------------------------------
(* The owner of the abstract lease, by who holds the release function.     *)
OwnerFacts ==
    /\ ~busy => LeaseOwner = "free"
    /\ LoopHolds => LeaseOwner = "loop"
    /\ jobs \/ worker = "saving" => LeaseOwner = "worker"
    /\ \A c \in Clients : client[c] = "streaming" => LeaseOwner = c

(* The refinement mapping follows the holder.                              *)
LEMMA OwnerIs == IInv => OwnerFacts
<1> SUFFICES ASSUME IInv PROVE OwnerFacts
  OBVIOUS
<1> USE DEF IInv, LeaseFlat, LoopHolds, Streaming
<1>1. ~busy => LeaseOwner = "free"
  <2>1. ~busy => Holders = {}
    BY DEF Holders
  <2> QED
    BY <2>1 DEF LeaseOwner
<1>2. LoopHolds => LeaseOwner = "loop"
  <2>1. LoopHolds => "loop" \in Holders
    BY DEF Holders
  <2> QED
    BY <2>1 DEF LeaseOwner
<1>3. ASSUME jobs \/ worker = "saving" PROVE LeaseOwner = "worker"
  <2>1. "loop" \notin Holders
    BY <1>3, EngineAssumption DEF Holders, EngineAssumption
  <2>2. Holders \cap {"jobs", "worker"} # {}
    BY <1>3 DEF Holders
  <2> QED
    BY <2>1, <2>2 DEF LeaseOwner
<1>4. ASSUME NEW c \in Clients, client[c] = "streaming" PROVE LeaseOwner = c
  <2>1. Holders = {c}
    BY <1>4 DEF Holders
  <2>2. "loop" # c /\ "jobs" # c /\ "worker" # c
    BY EngineAssumption DEF EngineAssumption
  <2> QED
    BY <2>1, <2>2 DEF LeaseOwner
<1> QED
  BY <1>1, <1>2, <1>3, <1>4 DEF OwnerFacts

(* Every step of the daemon is a step of the abstract lease or leaves it   *)
(* alone.                                                                  *)
LEMMA LeaseRefined ==
    IInv /\ OwnerFacts /\ OwnerFacts' /\ IInv' /\ [Next]_vars => [Lease!Next]_LeaseOwner
<1> SUFFICES ASSUME IInv, OwnerFacts, OwnerFacts', IInv', [Next]_vars
             PROVE  Lease!Next \/ LeaseOwner' = LeaseOwner
  BY DEF Lease!Next
<1> USE EngineAssumption DEF EngineAssumption, IInv, OwnerFacts, LeaseFlat, LoopHolds, Streaming,
        replyVars, controllerVars, workerVars, clientVars,
        Lease!Next, Lease!Acquire, Lease!HandOver, Lease!Release
<1>1. ASSUME UNCHANGED <<loop, replyLease, busy, jobs, worker, client>>
      PROVE  LeaseOwner' = LeaseOwner
  BY <1>1
<1>2. CASE Wake
  BY <1>2 DEF Wake
<1>3. CASE WakeFails
  BY <1>3 DEF WakeFails
<1>4. CASE ContextDone
  BY <1>4 DEF ContextDone
<1>5. CASE Completed
  BY <1>5 DEF Completed
<1>6. CASE SkipQuery
  BY <1>6 DEF SkipQuery
<1>7. CASE RejectQuery
  BY <1>7 DEF RejectQuery, TakeQuery, ReplyThen
<1>8. CASE StatusQuery
  BY <1>8 DEF StatusQuery, TakeQuery, ReplyThen
<1>9. CASE SnapshotQuery
  BY <1>9 DEF SnapshotQuery, TakeQuery, ReplyThen
<1>10. CASE SnapshotQueryFails
  BY <1>10 DEF SnapshotQueryFails, TakeQuery, ReplyThen
<1>11. CASE ReplyDelivered
  <2>1. after \in {"select", "progress", "closing"} /\ client \in [Clients -> ClientStates]
    BY DEF TypeOK
  <2> QED
    BY <1>11, <2>1 DEF ReplyDelivered, ReplyOK
<1>12. CASE ReplyAbandoned
  <2>1. after \in {"select", "progress", "closing"} /\ client \in [Clients -> ClientStates]
    BY DEF TypeOK
  <2> QED
    BY <1>12, <2>1 DEF ReplyAbandoned, ReplyOK
<1>13. CASE ProgressWaits
  BY <1>13 DEF ProgressWaits
<1>14. CASE ProgressBegins
  BY <1>14 DEF ProgressBegins
<1>15. CASE Enqueue
  BY <1>15 DEF Enqueue
<1>16. CASE CloseCancels
  BY <1>16 DEF CloseCancels
<1>17. CASE CloseJoins
  BY <1>17 DEF CloseJoins
<1>18. CASE WorkerTakes
  BY <1>18 DEF WorkerTakes
<1>19. CASE WorkerReleases
  BY <1>19 DEF WorkerReleases
<1>20. CASE WorkerSends
  BY <1>20 DEF WorkerSends
<1>21. CASE WorkerExits
  BY <1>21 DEF WorkerExits
<1>22. ASSUME NEW c \in Clients, ClientNext(c) PROVE Lease!Next \/ LeaseOwner' = LeaseOwner
  <2>1. CASE Accept(c)
    BY <2>1 DEF Accept, ClientAt, TypeOK, ClientStates
  <2>2. CASE BadRequest(c)
    BY <2>2 DEF BadRequest, ClientAt, TypeOK, ClientStates
  <2>3. CASE AskEnqueues(c)
    BY <2>3 DEF AskEnqueues, ClientAt, TypeOK, ClientStates
  <2>4. CASE AskFails(c)
    BY <2>4 DEF AskFails, ClientAt, TypeOK, ClientStates
  <2>5. CASE Expire(c)
    BY <2>5 DEF Expire, ClientAt, TypeOK, ClientStates
  <2>6. CASE StreamEnds(c)
    BY <2>6 DEF StreamEnds, ClientAt, TypeOK, ClientStates
  <2>7. CASE Leave(c)
    BY <2>7 DEF Leave, ClientAt, TypeOK, ClientStates
  <2> QED
    BY <1>22, <2>1, <2>2, <2>3, <2>4, <2>5, <2>6, <2>7 DEF ClientNext
<1>23. CASE DaemonNext
  BY <1>1, <1>23 DEF DaemonNext, ServerDrains, ServerDone, Signal, DaemonCancels, DaemonExits
<1>24. CASE UNCHANGED vars
  BY <1>1, <1>24 DEF vars
<1>25. CASE CompletedLost
  BY <1>25 DEF CompletedLost
<1>26. CASE QueryLost
  BY <1>26 DEF QueryLost, TakeQuery
<1> QED
  BY <1>2, <1>3, <1>4, <1>5, <1>6, <1>7, <1>8, <1>9, <1>10, <1>11, <1>12, <1>13, <1>14, <1>15,
     <1>16, <1>17, <1>18, <1>19, <1>20, <1>21, <1>22, <1>23, <1>24, <1>25, <1>26
  DEF Next, LoopNext, WorkerNext, Terminated

(* The daemon implements the safety part of the abstract lease: acquired   *)
(* only when free, only by the loop, handed over once and then released.   *)
THEOREM ImplementsLease == Spec => Lease!Safe
<1>1. Init => Lease!Init
  BY DEF Init, Lease!Init, LeaseOwner, Holders
<1> QED
  BY <1>1, Invariance, OwnerIs, LeaseRefined, PTL DEF Spec, Lease!Safe

-----------------------------------------------------------------------------
(* ReplyHasReceiver without the cardinality: a query is queued once, by a  *)
(* client past its Ask; the query being answered has left the queue; and a *)
(* waiting client whose context lives has its query queued or answered.    *)
Queued(c) == \E i \in 1..Len(queue) : queue[i] = c

Ending == loop \in {"closing", "joining", "stopped"}

QueueOK ==
    /\ \A i, j \in 1..Len(queue) : queue[i] = queue[j] => i = j
    /\ \A c \in Clients : Queued(c) => /\ client[c] \notin {"new", "open"}
                                      /\ \/ client[c] = "waiting" \/ Cancelled(c)
                                         \/ loop = "stopped"
    /\ loop = "reply" => /\ client[replyTo] = "waiting" \/ Cancelled(replyTo)
                         /\ client[replyTo] \notin {"new", "open"}
                         /\ ~Queued(replyTo)
    /\ \A c \in Clients : client[c] = "waiting" /\ ~Cancelled(c) /\ ~Ending
                            /\ ~(loop = "reply" /\ replyTo = c) => Queued(c)

(* What remains when the head is taken: every other query, and no second   *)
(* one of the client it names.                                             *)
LEMMA TailQueue ==
    ASSUME TypeOK, QueueOK, queue # <<>>, queue' = Tail(queue), NEW h, h = Head(queue)
    PROVE  /\ \A i, j \in 1..Len(queue') : queue'[i] = queue'[j] => i = j
           /\ h \in Clients /\ Queued(h) /\ ~Queued(h)'
           /\ \A c \in Clients \ {h} : Queued(c)' <=> Queued(c)
<1>1. /\ queue \in Seq(Clients) /\ Len(queue) \in Nat \ {0} /\ h = queue[1] /\ h \in Clients
      /\ Len(queue') = Len(queue) - 1
      /\ \A i \in 1..(Len(queue) - 1) : queue'[i] = queue[i + 1]
  BY DEF TypeOK
<1>2. \A i, j \in 1..Len(queue) : queue[i] = queue[j] => i = j
  BY DEF QueueOK
<1>3. \A i, j \in 1..Len(queue') : queue'[i] = queue'[j] => i = j
  BY <1>1, <1>2
<1>4. Queued(h) /\ ~Queued(h)'
  BY <1>1, <1>2 DEF Queued
<1>5. ASSUME NEW c \in Clients \ {h} PROVE Queued(c)' <=> Queued(c)
  <2>1. ASSUME NEW i \in 1..Len(queue), queue[i] = c
        PROVE  \E j \in 1..Len(queue') : queue'[j] = c
    <3>1. i - 1 \in 1..(Len(queue) - 1) /\ (i - 1) + 1 = i
      BY <1>1, <1>5, <2>1
    <3>2. queue'[i - 1] = c
      BY <1>1, <2>1, <3>1
    <3> QED
      BY <1>1, <3>1, <3>2
  <2>2. ASSUME NEW i \in 1..Len(queue'), queue'[i] = c
        PROVE  \E j \in 1..Len(queue) : queue[j] = c
    <3>1. i + 1 \in 1..Len(queue) /\ queue'[i] = queue[i + 1]
      BY <1>1, <2>2
    <3> QED
      BY <2>2, <3>1
  <2> QED
    BY <2>1, <2>2 DEF Queued
<1> QED
  BY <1>1, <1>3, <1>4, <1>5

(* A query that enters the queue is its client's only one.                 *)
LEMMA AppendQueue ==
    ASSUME TypeOK, QueueOK, NEW c \in Clients, ~Queued(c), queue' = Append(queue, c)
    PROVE  /\ \A i, j \in 1..Len(queue') : queue'[i] = queue'[j] => i = j
           /\ \A d \in Clients : Queued(d)' <=> Queued(d) \/ d = c
<1>1. /\ queue \in Seq(Clients) /\ Len(queue) \in Nat /\ Len(queue') = Len(queue) + 1
      /\ queue'[Len(queue) + 1] = c
      /\ \A i \in 1..Len(queue) : queue'[i] = queue[i]
  BY DEF TypeOK
<1>2. \A i, j \in 1..Len(queue) : queue[i] = queue[j] => i = j
  BY DEF QueueOK
<1>3. \A i \in 1..Len(queue) : queue[i] # c
  BY DEF Queued
<1>4. 1..Len(queue') = 1..Len(queue) \cup {Len(queue) + 1}
  BY <1>1
<1>5. \A i, j \in 1..Len(queue') : queue'[i] = queue'[j] => i = j
  BY <1>1, <1>2, <1>3, <1>4
<1>6. ASSUME NEW d \in Clients PROVE Queued(d)' <=> Queued(d) \/ d = c
  BY <1>1, <1>4 DEF Queued
<1> QED
  BY <1>5, <1>6

(* The queue stays exact.                                                  *)
LEMMA QueueStep == IInv /\ QueueOK /\ [Next]_vars => QueueOK'
<1> SUFFICES ASSUME IInv, QueueOK, [Next]_vars PROVE QueueOK'
  OBVIOUS
<1> USE DEF replyVars, controllerVars, workerVars, clientVars
<1>0. /\ TypeOK /\ ReplyOK /\ client \in [Clients -> ClientStates]
      /\ after \in {"select", "progress", "closing"} /\ expired \subseteq Clients
  BY DEF IInv, TypeOK
<1>1. ASSUME UNCHANGED <<queue, client, replyTo, root, expired, server>>,
             loop' = loop \/ (loop \notin {"reply", "stopped"} /\ loop' # "reply" /\ (Ending => Ending'))
      PROVE  QueueOK'
  BY <1>1 DEF QueueOK, Queued, Cancelled, Ending
<1>2. CASE Wake \/ WakeFails \/ ContextDone \/ Completed \/ CompletedLost
  BY <1>1, <1>2 DEF Wake, WakeFails, ContextDone, Completed, CompletedLost, Ending
<1>3. CASE ProgressWaits \/ ProgressBegins \/ Enqueue \/ CloseCancels \/ CloseJoins
  <2>1. CASE ProgressWaits
    BY <1>1, <2>1 DEF ProgressWaits, Ending
  <2>2. CASE ProgressBegins
    BY <1>1, <2>2 DEF ProgressBegins, Ending
  <2>3. CASE Enqueue
    BY <1>1, <2>3 DEF Enqueue, Ending
  <2>4. CASE CloseCancels
    BY <1>1, <2>4 DEF CloseCancels, Ending
  <2>5. CASE CloseJoins
    BY <1>1, <2>5 DEF CloseJoins, Ending
  <2> QED
    BY <1>3, <2>1, <2>2, <2>3, <2>4, <2>5
<1>4. CASE WorkerNext
  BY <1>1, <1>4 DEF WorkerNext, WorkerTakes, WorkerReleases, WorkerSends, WorkerExits
<1>5. CASE DaemonExits \/ UNCHANGED vars
  BY <1>1, <1>5 DEF DaemonExits, vars
<1>6. ASSUME UNCHANGED <<queue, client, replyTo, loop>>, \A c : Cancelled(c) => Cancelled(c)'
      PROVE  QueueOK'
  BY <1>6 DEF QueueOK, Queued, Ending
<1>7. CASE ServerDrains \/ ServerDone \/ Signal \/ DaemonCancels
  BY <1>6, <1>7 DEF ServerDrains, ServerDone, Signal, DaemonCancels, Cancelled
<1>8. CASE SkipQuery
  <2>1. PICK h : h = Head(queue)
    OBVIOUS
  <2> QED
    BY <1>0, <1>8, <2>1, TailQueue DEF SkipQuery, QueueOK, Cancelled, Ending
<1>9. CASE QueryLost
  <2>1. PICK h : h = Head(queue)
    OBVIOUS
  <2> QED
    BY <1>0, <1>9, <2>1, TailQueue DEF QueryLost, TakeQuery, QueueOK, Cancelled, Ending
<1>10. ASSUME NEW lease, NEW then, TakeQuery, ReplyThen(Head(queue), lease, then),
              UNCHANGED <<client, root, expired, server>>
       PROVE  QueueOK'
  <2>1. PICK h : h = Head(queue)
    OBVIOUS
  <2>2. /\ \A i, j \in 1..Len(queue') : queue'[i] = queue'[j] => i = j
        /\ h \in Clients /\ Queued(h) /\ ~Queued(h)'
        /\ \A c \in Clients \ {h} : Queued(c)' <=> Queued(c)
    BY <1>0, <1>10, <2>1, TailQueue DEF TakeQuery
  <2>3. client[h] = "waiting" /\ loop = "select" /\ loop' = "reply" /\ replyTo' = h
    BY <1>10, <2>1, <2>2 DEF TakeQuery, ReplyThen, QueueOK
  <2> QED
    BY <1>10, <2>2, <2>3 DEF QueueOK, Cancelled, Ending
<1>11. CASE RejectQuery \/ StatusQuery \/ SnapshotQuery \/ SnapshotQueryFails
  BY <1>10, <1>11 DEF RejectQuery, StatusQuery, SnapshotQuery, SnapshotQueryFails
<1>12. CASE ReplyDelivered
  BY <1>0, <1>12 DEF ReplyDelivered, ReplyOK, QueueOK, Queued, Cancelled, Ending
<1>13. CASE ReplyAbandoned
  BY <1>0, <1>13 DEF ReplyAbandoned, ReplyOK, QueueOK, Queued, Cancelled, Ending
<1>14. ASSUME NEW c \in Clients, ClientNext(c) PROVE QueueOK'
  <2>1. CASE Accept(c)
    BY <1>0, <2>1 DEF Accept, Forgotten, ClientAt, ReplyOK, QueueOK, Queued, Cancelled, Ending
  <2>2. CASE BadRequest(c) \/ StreamEnds(c) \/ Leave(c)
    BY <1>0, <2>2 DEF BadRequest, StreamEnds, Leave, ClientAt, ReplyOK, QueueOK, Queued,
                      Cancelled, Ending
  <2>3. CASE AskEnqueues(c)
    <3>1. ~Queued(c) /\ client[c] = "open"
      BY <2>3 DEF AskEnqueues, ClientAt, QueueOK
    <3> QED
      BY <1>0, <2>3, <3>1, AppendQueue DEF AskEnqueues, ClientAt, ReplyOK, QueueOK, Cancelled, Ending
  <2>4. CASE AskFails(c)
    BY <1>0, <2>4 DEF AskFails, ClientAt, ReplyOK, QueueOK, Queued, Cancelled, Ending
  <2>5. CASE Expire(c)
    BY <1>6, <2>5 DEF Expire, Cancelled
  <2> QED
    BY <1>14, <2>1, <2>2, <2>3, <2>4, <2>5 DEF ClientNext
<1> QED
  BY <1>2, <1>3, <1>4, <1>5, <1>7, <1>8, <1>9, <1>11, <1>12, <1>13, <1>14
  DEF Next, LoopNext, DaemonNext, Terminated

(* One place in the queue, or none, as a cardinality.                      *)
LEMMA QueueCounts == TypeOK /\ ReplyOK /\ QueueOK => ReplyHasReceiver
<1> SUFFICES ASSUME TypeOK, ReplyOK, QueueOK PROVE ReplyHasReceiver
  OBVIOUS
<1>1. loop = "reply" =>
          replyTo \in Clients /\ (client[replyTo] = "waiting" \/ Cancelled(replyTo))
  BY DEF ReplyOK, QueueOK
<1>2. ASSUME NEW c \in Clients, client[c] = "waiting", ~Cancelled(c), ~Ending
      PROVE  Cardinality({i \in DOMAIN queue : queue[i] = c})
                 = IF loop = "reply" /\ replyTo = c THEN 0 ELSE 1
  <2>1. DOMAIN queue = 1..Len(queue)
    BY DEF TypeOK
  <2>2. CASE loop = "reply" /\ replyTo = c
    <3>1. {i \in DOMAIN queue : queue[i] = c} = {}
      BY <2>1, <2>2 DEF QueueOK, Queued
    <3> QED
      BY <2>2, <3>1, FS_EmptySet
  <2>3. CASE ~(loop = "reply" /\ replyTo = c)
    <3>1. PICK i \in 1..Len(queue) : queue[i] = c
      BY <1>2, <2>3 DEF QueueOK, Queued
    <3>2. {j \in DOMAIN queue : queue[j] = c} = {i}
      BY <2>1, <3>1 DEF QueueOK
    <3>3. Cardinality({i}) = 1
      BY FS_Singleton
    <3> QED
      BY <2>3, <3>2, <3>3
  <2> QED
    BY <2>2, <2>3
<1> QED
  BY <1>1, <1>2 DEF ReplyHasReceiver, Ending

(* Engine.Ask and the loop's reply: for every number of connections and    *)
(* every queue capacity no query is lost, none is answered twice and the   *)
(* loop replies only to a client that is there or whose context ended.     *)
THEOREM QueriesExact == Spec => []ReplyHasReceiver
<1>1. Init => QueueOK
  BY DEF Init, QueueOK, Queued
<1>2. IInv => TypeOK /\ ReplyOK
  BY DEF IInv
<1> QED
  BY <1>1, <1>2, Invariance, QueueStep, QueueCounts, PTL DEF Spec
=============================================================================
