----------------------------- MODULE EventDecode -----------------------------
(***************************************************************************)
(* From a kernel tracepoint to a decoded event, for the families without   *)
(* a latency: the loader reads the kernel's tracepoint signatures, the TCP *)
(* and OOM programs (bpf/tcp.c, bpf/oom.c) fill one fixed wire record in   *)
(* the detail ring, and the reader decodes and normalises it               *)
(* (internal/sensor/sensor_linux.go).  The record's operation field means  *)
(* something else in every family; the other families' records pass        *)
(* through the same decoder.                                               *)
(*                                                                         *)
(* An address with its port is "local", "remote", "none", or "garbage"     *)
(* where the bytes read are not of an address.                             *)
(***************************************************************************)
EXTENDS Integers, Sequences

CONSTANTS
    RingSize,   \* records the detail ring holds
    MaxFired   \* bound: tracepoints fired

(* What the configuration guarantees.                                      *)
DecodeAssumption == RingSize \in Nat \ {0} /\ MaxFired \in Nat

VARIABLES
    kernel,   \* signatures of the tracepoints
    loaded,   \* the constants the loader set; "none" when a family is unavailable
    ring,     \* the detail ring: wire records with the truth behind each
    stats,    \* counters of the TCP program
    truth,    \* what happened: the counts the program should have
    decoded   \* the last decoded event with its truth

decodeVars == <<kernel, loaded, ring, stats, truth, decoded>>

Retransmitted == 3
SentReset == 4
Victim == 5
ReceivedReset == 6

TIME_WAIT == 6
LISTEN == 10
NEW_SYN_RECV == 12
Established == 1

NoSocket == [state |-> 0, inet |-> FALSE, readable |-> FALSE]
Sockets ==
    [state : {Established, TIME_WAIT, LISTEN, NEW_SYN_RECV}, inet : BOOLEAN, readable : BOOLEAN]
\* An incoming packet; can its headers be read?
NoPacket == [present |-> FALSE, readable |-> FALSE]
Packets == [present : {TRUE}, readable : BOOLEAN] \cup {NoPacket}

\* memset of the reserved record.
Zero == [kind |-> 0, operation |-> 0, state |-> 0, family |-> 0,
         source |-> "none", destination |-> "none", pid |-> 0, tgid |-> 0]

DecodeInit ==
    /\ kernel \in [retransmit : {"sk_skb", "sk_skb_err", "other"}, victim : {"pid", "task", "other"}]
    /\ loaded = [tcp |-> "none", oom |-> "none"]
    /\ ring = <<>>
    /\ stats = [count |-> 0, resets |-> 0, retransmits |-> 0]
    /\ truth = [events |-> 0, resets |-> 0, retransmits |-> 0]
    /\ decoded = [event |-> [type |-> "none"], of |-> [kind |-> 0]]

-----------------------------------------------------------------------------
(* The loader.                                                             *)

(* tcpRetransmitHasErrorArg: an unknown signature makes TCP unavailable.   *)
tcpRetransmitHasErrorArg(sig) ==
    CASE sig = "sk_skb" -> "plain" [] sig = "sk_skb_err" -> "error" [] OTHER -> "none"

oomVictimTaskArg(sig) == IF sig \in {"pid", "task"} THEN sig ELSE "none"

Load ==
    /\ loaded = [tcp |-> "none", oom |-> "none"] /\ truth.events = 0
    /\ loaded' = [tcp |-> tcpRetransmitHasErrorArg(kernel.retransmit),
                  oom |-> oomVictimTaskArg(kernel.victim)]
    /\ truth' = [truth EXCEPT !.events = 1]
    /\ UNCHANGED <<kernel, ring, stats, decoded>>

-----------------------------------------------------------------------------
(* bpf/tcp.c.                                                              *)

\* The pair read from a socket; a listener has no peer, and TIME_WAIT and
\* request sockets are not full sockets.
SocketPair(sk) ==
    CASE sk.state = Established -> <<"local", "remote">>
      [] sk.state = LISTEN -> <<"local", "none">>
      [] OTHER -> <<"garbage", "garbage">>

socket_endpoints(e, sk) ==
    IF sk # NoSocket /\ sk.readable /\ sk.inet
    THEN [e EXCEPT !.family = 2, !.source = SocketPair(sk)[1], !.destination = SocketPair(sk)[2],
                   !.operation = @ + 1]
    ELSE e

(* The packet came from the peer; the response goes the other way.         *)
response_endpoints(e, skb) ==
    IF skb.readable
    THEN [e EXCEPT !.family = 2, !.source = "local", !.destination = "remote", !.operation = @ + 2]
    ELSE e

(* Mutant: a listener and a request socket are read like any other.        *)
NotFullUnknown(state) == state = TIME_WAIT

NotFull(state) == state \in {TIME_WAIT, LISTEN, NEW_SYN_RECV}

(* record: TCP_METADATA_KNOWN is 8, TCP_SOCKET_PRESENT 4.                  *)
Endpoints(e, sk, skb) ==
    LET packet == e.kind = SentReset /\ skb.readable
        asked == [e EXCEPT !.operation = 8 + (IF sk # NoSocket THEN 4 ELSE 0), !.state = sk.state]
        bySocket == socket_endpoints(asked, sk)
    IN
    IF packet /\ (sk = NoSocket \/ NotFull(sk.state)) THEN response_endpoints(asked, skb)
    ELSE IF ~NotFull(sk.state) /\ bySocket # asked THEN bySocket
    ELSE IF packet THEN response_endpoints(asked, skb) ELSE asked

(* reserve fails when the ring is full, and for TCP when the quota of the  *)
(* second is spent.                                                        *)
Reserved(granted, capped) == Len(ring) < RingSize /\ (capped => granted)

Submit(w, of, granted, capped) ==
    ring' = IF Reserved(granted, capped) THEN Append(ring, [w |-> w, of |-> of]) ELSE ring

record(sk, skb, kind, of, granted) ==
    /\ stats' = [count |-> stats.count + 1,
                 resets |-> IF kind # Retransmitted THEN stats.resets + 1 ELSE stats.resets,
                 retransmits |-> IF kind = Retransmitted THEN stats.retransmits + 1
                                 ELSE stats.retransmits]
    /\ Submit(Endpoints([Zero EXCEPT !.kind = kind], sk, skb), of, granted, TRUE)

Happens == truth.events \in 1..MaxFired
Flow(kind, from, to) == [kind |-> kind, source |-> from, destination |-> to]

(* The kernel fires for failed attempts only with an error argument, or    *)
(* with one the loader does not know.                                      *)
retransmit(sk, failed, granted) ==
    /\ Happens /\ loaded.tcp # "none" /\ sk.state = Established
    /\ failed => kernel.retransmit # "sk_skb"
    /\ truth' = [truth EXCEPT !.events = @ + 1, !.retransmits = IF failed THEN @ ELSE @ + 1]
    /\ IF loaded.tcp = "error" /\ failed
       THEN UNCHANGED <<ring, stats>>
       ELSE record(sk, NoPacket, Retransmitted, Flow(Retransmitted, "local", "remote"), granted)
    /\ UNCHANGED <<kernel, loaded, decoded>>

(* A response to an incoming packet, with or without a socket, or an       *)
(* active reset of a full socket.                                          *)
send_reset(sk, skb, granted) ==
    /\ Happens /\ loaded.tcp # "none"
    /\ ~skb.present => sk.state = Established
    /\ truth' = [truth EXCEPT !.events = @ + 1, !.resets = @ + 1]
    /\ record(sk, skb, SentReset, Flow(SentReset, "local", "remote"), granted)
    /\ UNCHANGED <<kernel, loaded, decoded>>

receive_reset(sk, granted) ==
    /\ Happens /\ loaded.tcp # "none" /\ sk.state = Established
    /\ truth' = [truth EXCEPT !.events = @ + 1, !.resets = @ + 1]
    /\ record(sk, NoPacket, ReceivedReset, Flow(ReceivedReset, "remote", "local"), granted)
    /\ UNCHANGED <<kernel, loaded, decoded>>

(* bpf/oom.c: the victim's task, or on older kernels only its PID.  An     *)
(* argument that is neither has bytes that are no PID.                     *)
victim(pid) ==
    LET arg == IF kernel.victim = "other" THEN -1 ELSE pid
        named == IF loaded.oom = "task" THEN [Zero EXCEPT !.pid = pid, !.tgid = pid]
                 ELSE [Zero EXCEPT !.pid = arg, !.operation = 1]
    IN
    /\ Happens /\ loaded.oom # "none"
    /\ truth' = [truth EXCEPT !.events = @ + 1]
    /\ Submit([named EXCEPT !.kind = Victim], [kind |-> Victim, pid |-> pid], TRUE, FALSE)
    /\ UNCHANGED <<kernel, loaded, stats, decoded>>

(* The latency families: a block operation, or a scheduler delay.          *)
latency(kind, operation) ==
    /\ Happens
    /\ truth' = [truth EXCEPT !.events = @ + 1]
    /\ Submit([Zero EXCEPT !.kind = kind, !.operation = operation, !.pid = 1, !.tgid = 1],
              [kind |-> kind, operation |-> operation], TRUE, FALSE)
    /\ UNCHANGED <<kernel, loaded, stats, decoded>>

-----------------------------------------------------------------------------
(* decodeWireEvent and normalize.                                          *)

Type(kind) ==
    CASE kind = 1 -> "block_io" [] kind = 2 -> "scheduler" [] kind = Retransmitted -> "tcp_retransmit"
      [] kind \in {SentReset, ReceivedReset} -> "tcp_reset" [] OTHER -> "oom"

Operation(w) ==
    IF w.kind # 1 THEN "none"
    ELSE CASE w.operation = 0 -> "read" [] w.operation = 1 -> "write" [] w.operation = 2 -> "flush"
           [] OTHER -> "op"

Provenance(w) ==
    w.kind \in {Retransmitted, SentReset, ReceivedReset} /\ (w.operation \div 8) % 2 = 1

EndpointSource(w) ==
    CASE w.operation % 4 = 1 -> "socket" [] w.operation % 4 = 2 -> "packet_header"
      [] OTHER -> "unavailable"

(* Socket fields are local and remote; a received reset flows the other    *)
(* way.                                                                    *)
Swapped(w) == w.kind = ReceivedReset

normalize(w) ==
    LET base == [type |-> Type(w.kind), operation |-> Operation(w), pid |-> w.pid, tgid |-> w.tgid,
                 pidOnly |-> w.kind = Victim /\ w.operation = 1,
                 source |-> w.source, destination |-> w.destination,
                 direction |-> "none", context |-> "none", endpoint |-> "none"]
    IN
    IF ~Provenance(w) THEN base
    ELSE [base EXCEPT
             !.direction = IF w.kind = ReceivedReset THEN "received" ELSE "sent",
             !.context = IF (w.operation \div 4) % 2 = 1 THEN "socket" ELSE "none",
             !.endpoint = EndpointSource(w),
             !.source = IF Swapped(w) THEN w.destination ELSE w.source,
             !.destination = IF Swapped(w) THEN w.source ELSE w.destination]

ReadEvent ==
    /\ ring # <<>>
    /\ ring' = Tail(ring)
    /\ decoded' = [event |-> normalize(Head(ring).w), of |-> Head(ring).of]
    /\ UNCHANGED <<kernel, loaded, stats, truth>>

-----------------------------------------------------------------------------
DecodeNext ==
    \/ Load \/ ReadEvent
    \/ \E granted \in BOOLEAN :
          \/ \E sk \in Sockets, failed \in BOOLEAN : retransmit(sk, failed, granted)
          \/ \E sk \in Sockets \cup {NoSocket}, skb \in Packets : send_reset(sk, skb, granted)
          \/ \E sk \in Sockets : receive_reset(sk, granted)
    \/ \E pid \in 1..2 : victim(pid)
    \/ \E operation \in {0, 1, 2, 12} : latency(1, operation)
    \/ latency(2, 0)

DecodeSpec == DecodeInit /\ [][DecodeNext]_decodeVars

-----------------------------------------------------------------------------
(* The ring stays within its size and the counters within their bound.     *)
DecodeTypeOK ==
    /\ Len(ring) <= RingSize
    /\ stats.count = stats.resets + stats.retransmits /\ stats.count <= MaxFired

Tcp == decoded.of.kind \in {Retransmitted, SentReset, ReceivedReset}

(* Whatever socket or packet the kernel passed, in whichever state, an     *)
(* event names as its source the sender of the packet and as destination   *)
(* its receiver, or says that it has no endpoints and names none.          *)
FlowTruthful ==
    Tcp => IF decoded.event.endpoint = "unavailable"
           THEN {decoded.event.source, decoded.event.destination} = {"none"}
           ELSE /\ decoded.event.source = decoded.of.source
                /\ decoded.event.destination = decoded.of.destination

(* An event of another family carries no TCP provenance although its       *)
(* operation has the same bits, and only an OOM victim can be PID-only.    *)
FamiliesApart ==
    (decoded.of.kind # 0 /\ ~Tcp) =>
        /\ decoded.event.direction = "none" /\ decoded.event.endpoint = "none"
        /\ decoded.event.pidOnly => decoded.of.kind = Victim
        /\ decoded.of.kind = 1 => (decoded.event.operation = "read" <=> decoded.of.operation = 0)

(* An OOM event names the victim's PID, and a process only when the kernel *)
(* gave the task, for every signature of mark_victim.                      *)
VictimNamed ==
    decoded.of.kind = Victim =>
        /\ decoded.event.pid = decoded.of.pid
        /\ decoded.event.pidOnly <=> decoded.event.tgid = 0

(* On every kernel signature a retransmission is counted exactly when it   *)
(* was sent, and a reset in either direction exactly once.                 *)
TcpCountsExact ==
    loaded.tcp # "none" => stats.resets = truth.resets /\ stats.retransmits = truth.retransmits

(* What reaches user space is true of what happened in the kernel, for     *)
(* every tracepoint signature, socket state and event family.              *)
DecodeTruthful == DecodeTypeOK /\ FlowTruthful /\ FamiliesApart /\ VictimNamed /\ TcpCountsExact
==============================================================================
