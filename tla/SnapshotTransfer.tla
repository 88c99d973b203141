-------------------------- MODULE SnapshotTransfer --------------------------
(***************************************************************************)
(* A capture from the daemon to a published file: the container writer     *)
(* (internal/capture/capture.go) streams into the control connection       *)
(* (internal/control/control.go), the snapshot command copies the stream   *)
(* into a private temporary file, validates it with the container reader   *)
(* under its own limits, and links it to its final name.  The reader runs  *)
(* again when the file is analysed, possibly after it has been repacked.   *)
(*                                                                         *)
(* A stream is the sequence of what the compressor is given: tar entries,  *)
(* the tar end blocks, and the trailer of the compressed frame.  Sizes are *)
(* in bytes of JSON with tar blocks of Block bytes; on the wire one item   *)
(* counts as one.                                                          *)
(***************************************************************************)
EXTENDS Integers, Sequences, FiniteSets, SequencesExt

CONSTANTS
    Block,         \* tarBlockBytes
    SegmentSizes,  \* JSON sizes of segments
    MaxSegments,   \* bound: segments of a capture
    Limits         \* limit settings: [decoded, entries, wire]

(* What the configuration guarantees.                                      *)
TransferAssumption ==
    /\ Block \in Nat \ {0} /\ SegmentSizes \subseteq Nat \ {0} /\ MaxSegments \in Nat
    /\ \A l \in Limits : l.decoded \in Nat /\ l.entries \in Nat \ {0, 1, 2} /\ l.wire \in Nat

VARIABLES
    segments,  \* sizes of the capture's segments
    window,    \* is the manifest's time window valid?
    limits,    \* the daemon's and the command's limits
    writer,    \* Container.Write in the daemon
    sent,      \* what the connection has taken
    conn,      \* "open", "closed", or "lost" with data in flight
    client,    \* the snapshot command
    content,   \* contents of the temporary file, then of the published one
    reader,    \* Container.Read
    destination,  \* what the destination names
    cancelled  \* the command's context

transferVars ==
    <<segments, window, limits, writer, sent, conn, client, content, reader, destination, cancelled>>

Entry(name, i, size) == [name |-> name, index |-> i, size |-> size]
Manifest == Entry("manifest", 0, 1)
Host == Entry("host", 0, 1)
Segment(i) == Entry("segment", i, segments[i + 1])
Complete(n) == Entry("complete", n, 1)
End == Entry("end", 0, 0)
Trailer == Entry("trailer", 0, 0)

(* The entries Write emits, in its order.                                  *)
TarEntries ==
    <<Manifest, Host>> \o [i \in 1..Len(segments) |-> Segment(i - 1)] \o <<Complete(Len(segments))>>
Stream == TarEntries \o <<End, Trailer>>

Unread == [pos |-> 1, decoded |-> 0, total |-> 0, seen |-> {}, segs |-> <<>>,
         completed |-> FALSE, expected |-> 0, result |-> "reading"]

TransferInit ==
    /\ segments \in UNION {[1..n -> SegmentSizes] : n \in 0..MaxSegments}
    /\ window \in BOOLEAN
    /\ limits \in [server : Limits, client : Limits]
    /\ writer = [pc |-> "entries", i |-> 1, total |-> 2 * Block, err |-> FALSE]
    /\ sent = <<>> /\ conn = "open"
    /\ client = [pc |-> "copy", why |-> "none", n |-> 0]
    /\ content = <<>> /\ reader = Unread
    /\ destination \in {"absent", "other"}
    /\ cancelled = FALSE

-----------------------------------------------------------------------------
(* Container.Write into boundedWriter.                                     *)

(* Mutant: the cost of an entry forgets the padding of its body.           *)
CostUnpadded(e) == Block + e.size

(* What entry adds to the total: a header block and the padded body.       *)
Cost(e) == Block + ((e.size + Block - 1) \div Block) * Block

(* The connection takes an item, or the transport budget or the peer       *)
(* refuses it; the compressor keeps the error.                             *)
Accepts == conn = "open" /\ Len(sent) < limits.server.wire

(* Too many segments are refused before anything is written.               *)
WriteRefused ==
    /\ writer.pc = "entries" /\ writer.i = 1
    /\ Len(segments) > limits.server.entries - 3
    /\ writer' = [writer EXCEPT !.pc = "done", !.err = TRUE]
    /\ conn' = IF conn = "open" THEN "closed" ELSE conn
    /\ UNCHANGED <<segments, window, limits, sent, client, content, reader, destination, cancelled>>

WriteEntry ==
    LET e == TarEntries[writer.i]
        total == writer.total + Cost(e)
    IN
    /\ writer.pc = "entries" /\ writer.i <= Len(TarEntries)
    /\ Len(segments) <= limits.server.entries - 3
    /\ IF total > limits.server.decoded
       THEN writer' = [writer EXCEPT !.pc = "close", !.err = TRUE] /\ UNCHANGED sent
       ELSE IF Accepts
       THEN /\ writer' = [writer EXCEPT !.i = @ + 1, !.total = total]
            /\ sent' = Append(sent, e)
       ELSE writer' = [writer EXCEPT !.pc = "broken", !.err = TRUE] /\ UNCHANGED sent
    /\ UNCHANGED <<segments, window, limits, conn, client, content, reader, destination, cancelled>>

(* The tar writer and the compressor are closed even after a refused       *)
(* entry, so that stream ends well formed, without complete.json.          *)
WriteClose ==
    LET tail == <<End, Trailer>> IN
    /\ \/ writer.pc = "entries" /\ writer.i > Len(TarEntries)
       \/ writer.pc = "close"
    /\ \E k \in 0..2 :
          /\ IF conn = "open" /\ Len(sent) + 2 <= limits.server.wire
             THEN k = 2
             ELSE Len(sent) + k <= limits.server.wire /\ k < 2 /\ (conn # "open" => k = 0)
          /\ sent' = sent \o SubSeq(tail, 1, k)
          /\ writer' = [writer EXCEPT !.pc = "done", !.err = @ \/ k < 2]
    /\ conn' = IF conn = "open" THEN "closed" ELSE conn
    /\ UNCHANGED <<segments, window, limits, client, content, reader, destination, cancelled>>

(* A broken stream: both closes return the kept error.                     *)
WriteBroken ==
    /\ writer.pc = "broken"
    /\ writer' = [writer EXCEPT !.pc = "done"]
    /\ conn' = IF conn = "open" THEN "closed" ELSE conn
    /\ UNCHANGED <<segments, window, limits, sent, client, content, reader, destination, cancelled>>

(* The daemon dies, or shuts down and closes its connections: what it had  *)
(* not flushed is lost, and the peer reads an ordinary end of file.        *)
DaemonStops ==
    /\ conn = "open"
    /\ conn' = "lost"
    /\ \E k \in client.n..Len(sent) : sent' = SubSeq(sent, 1, k)
    /\ UNCHANGED <<segments, window, limits, writer, client, content, reader, destination, cancelled>>

-----------------------------------------------------------------------------
(* The snapshot command: CallWithOptions inside PublishWithContext.        *)

\* os.Remove of the temporary file is deferred: nothing is left of it.
Failed(why) == client' = [client EXCEPT !.pc = "failed", !.why = why]

Cancel ==
    /\ ~cancelled /\ client.pc \in {"copy", "validate", "sync", "link", "sync_dir"}
    /\ cancelled' = TRUE
    /\ UNCHANGED <<segments, window, limits, writer, sent, conn, client, content, reader, destination>>

(* io.Copy through the context-checking writer, up to one item more than   *)
(* the transport limit.                                                    *)
Copy ==
    /\ client.pc = "copy" /\ ~cancelled
    /\ client.n < Len(sent) /\ client.n <= limits.client.wire
    /\ content' = Append(content, sent[client.n + 1])
    /\ client' = [client EXCEPT !.n = @ + 1]
    /\ UNCHANGED <<segments, window, limits, writer, sent, conn, reader, destination, cancelled>>

CopyDone ==
    /\ client.pc = "copy" /\ ~cancelled
    /\ \/ conn # "open" /\ client.n = Len(sent)
       \/ client.n > limits.client.wire
    /\ IF client.n > limits.client.wire
       THEN Failed("transport")
       ELSE client' = [client EXCEPT !.pc = "validate"]
    /\ UNCHANGED <<segments, window, limits, writer, sent, conn, content, reader, destination, cancelled>>

(* Cancellation closes the connection under a read; a context check        *)
(* refuses the next write, read, or the link.  The deadline of the         *)
(* connection ends a copy too.                                             *)
Aborted ==
    /\ \/ client.pc \in {"copy", "validate", "sync", "link"} /\ cancelled
       \/ client.pc = "copy" /\ conn = "open"
    /\ Failed(IF cancelled THEN "cancelled" ELSE "deadline")
    /\ conn' = IF conn = "open" THEN "lost" ELSE conn
    /\ UNCHANGED <<segments, window, limits, writer, sent, content, reader, destination, cancelled>>

-----------------------------------------------------------------------------
(* Container.Read, one tar entry at a time.                                *)

Reading == client.pc \in {"validate", "analyze"} /\ reader.result = "reading"
AtEnd == reader.pos <= Len(content) /\ content[reader.pos].name = "end"
Reject == reader' = [reader EXCEPT !.result = "rejected"]

(* The names Read takes in each position.                                  *)
InOrder(e) ==
    /\ ~reader.completed
    /\ <<e.name, e.index>> \notin reader.seen
    /\ Cardinality(reader.seen) < limits.client.entries
    /\ CASE Cardinality(reader.seen) = 0 -> e.name = "manifest"
         [] Cardinality(reader.seen) = 1 -> e.name = "host"
         [] OTHER -> \/ e.name = "segment" /\ e.index = Len(reader.segs)
                     \/ e.name = "complete"

(* What a tar entry occupies.                                              *)
Occupied(e) == Block + ((e.size + Block - 1) \div Block) * Block

(* io.LimitedReader lets one byte more than the limit through; an entry    *)
(* that it cuts short is an error.                                         *)
Fits(e) ==
    /\ e.size <= limits.client.decoded - reader.total
    /\ reader.decoded + Occupied(e) <= limits.client.decoded + 1

(* A stream that stops before its trailer is an error wherever it stops.   *)
ReadEntry ==
    /\ Reading
    /\ ~AtEnd
    /\ IF reader.pos > Len(content) THEN Reject
       ELSE LET e == content[reader.pos] IN
            IF ~InOrder(e) \/ ~Fits(e) THEN Reject
            ELSE reader' = [reader EXCEPT
                     !.pos = @ + 1, !.decoded = @ + Occupied(e), !.total = @ + e.size,
                     !.seen = @ \cup {<<e.name, e.index>>},
                     !.segs = IF e.name = "segment" THEN Append(@, e.size) ELSE @,
                     !.completed = e.name = "complete",
                     !.expected = IF e.name = "complete" THEN e.index ELSE @]
    /\ UNCHANGED <<segments, window, limits, writer, sent, conn, client, content, destination, cancelled>>

(* The drain sees the end blocks and the trailer within the limit.         *)
Drained ==
    /\ reader.pos + 1 = Len(content) /\ content[reader.pos + 1].name = "trailer"
    /\ reader.decoded + 2 * Block <= limits.client.decoded

AllSegments == reader.completed /\ reader.expected = Len(reader.segs)

ReadEnd ==
    /\ Reading
    /\ AtEnd
    /\ IF Drained /\ AllSegments /\ window
       THEN reader' = [reader EXCEPT !.result = "accepted"]
       ELSE Reject
    /\ UNCHANGED <<segments, window, limits, writer, sent, conn, client, content, destination, cancelled>>

-----------------------------------------------------------------------------
(* finishPublication.                                                      *)

(* Mutant: a rejected stream is published all the same.                    *)
ValidatedAnyway ==
    /\ client.pc = "validate" /\ ~cancelled /\ reader.result # "reading"
    /\ client' = [client EXCEPT !.pc = "sync"]
    /\ UNCHANGED <<segments, window, limits, writer, sent, conn, content, reader, destination, cancelled>>

Validated ==
    /\ client.pc = "validate" /\ ~cancelled /\ reader.result # "reading"
    /\ IF reader.result = "accepted" THEN client' = [client EXCEPT !.pc = "sync"]
       ELSE Failed("validate")
    /\ UNCHANGED <<segments, window, limits, writer, sent, conn, content, reader, destination, cancelled>>

Sync ==
    /\ client.pc = "sync"
    /\ \/ client' = [client EXCEPT !.pc = "link"]
       \/ Failed("sync")
    /\ UNCHANGED <<segments, window, limits, writer, sent, conn, content, reader, destination, cancelled>>

(* A link, which refuses a name that exists.                               *)
LinkFile ==
    /\ client.pc = "link" /\ ~cancelled
    /\ IF destination = "absent"
       THEN destination' = "capture" /\ client' = [client EXCEPT !.pc = "sync_dir"]
       ELSE destination' = destination /\ Failed("exists")
    /\ UNCHANGED <<segments, window, limits, writer, sent, conn, content, reader, cancelled>>

SyncDirectory ==
    /\ client.pc = "sync_dir"
    /\ \/ client' = [client EXCEPT !.pc = "saved"]
       \/ Failed("sync_dir")
    /\ UNCHANGED <<segments, window, limits, writer, sent, conn, content, reader, destination, cancelled>>

(* Later the file is read again; somebody may have unpacked it and packed  *)
(* an entry less, an entry twice, or two entries exchanged.                *)
Repacked ==
    LET n == Len(content) - 2 IN
    {content} \cup {RemoveAt(content, k) : k \in 1..n}
           \cup {InsertAt(content, k, content[j]) : k \in 1..n + 1, j \in 1..n}
           \cup {[content EXCEPT ![k] = content[j], ![j] = content[k]] : k \in 1..n, j \in 1..n}

Analyze ==
    /\ client.pc = "saved"
    /\ content' \in Repacked
    /\ client' = [client EXCEPT !.pc = "analyze"]
    /\ reader' = Unread
    /\ UNCHANGED <<segments, window, limits, writer, sent, conn, destination, cancelled>>

Ended ==
    /\ writer.pc = "done"
    /\ client.pc = "failed" \/ (client.pc = "analyze" /\ ~Reading)
    /\ UNCHANGED transferVars

-----------------------------------------------------------------------------
WriteCapture == WriteRefused \/ WriteEntry \/ WriteClose \/ WriteBroken
Read == ReadEntry \/ ReadEnd
Publish == Copy \/ CopyDone \/ Aborted \/ Validated \/ Sync \/ LinkFile \/ SyncDirectory
TransferNext == WriteCapture \/ DaemonStops \/ Cancel \/ Publish \/ Read \/ Analyze \/ Ended

TransferSpec == TransferInit /\ [][TransferNext]_transferVars

-----------------------------------------------------------------------------
(* The states of the three parties, and a file that is a prefix of the     *)
(* stream until it is published.                                           *)
TransferTypeOK ==
    /\ writer.pc \in {"entries", "close", "broken", "done"} /\ writer.err \in BOOLEAN
    /\ conn \in {"open", "closed", "lost"}
    /\ client.n <= Len(sent) /\ client.n <= limits.client.wire + 1
    /\ reader.result \in {"reading", "accepted", "rejected"}
    /\ destination \in {"absent", "other", "capture"}

(* boundedWriter: "A partial stream never publishes."  Whatever the daemon *)
(* refused or lost, at whichever item, and although the copy ends without  *)
(* an error, the file at the destination holds every entry, the end of the *)
(* archive and the trailer.                                                *)
PublishedWhole == (destination = "capture" /\ client.pc # "analyze") => content = Stream /\ window

(* Read accepts exactly the entries that were written, in their order, of  *)
(* a repacked file too, and returns all the segments.                      *)
AcceptedExact == reader.result = "accepted" => content = Stream /\ reader.segs = segments

(* What Write completes, Read accepts under the same or wider limits.      *)
WrittenReadable ==
    client.why = "validate" =>
        \/ writer.err \/ conn = "lost" \/ ~window
        \/ limits.client.decoded < limits.server.decoded
        \/ limits.client.entries < limits.server.entries

(* The reader never decodes more than a byte past its limit, whatever the  *)
(* daemon's limits were.                                                   *)
DecodedBounded == reader.decoded <= limits.client.decoded + 1

(* A command that failed, for any cause but the sync of the directory, has *)
(* changed nothing at the destination; an existing file is never replaced. *)
FailureLeavesNothing ==
    destination' # destination => destination = "absent" /\ client'.pc = "sync_dir" /\ ~cancelled

(* PublishWithContext changes the destination only by linking a complete   *)
(* and accepted capture to a free name.                                    *)
TransferStep == FailureLeavesNothing /\ (PublishedWhole /\ AcceptedExact)'
TransferAtomic == [][TransferStep]_transferVars

(* Container.Write, the connection, the command and Container.Read agree   *)
(* on the limits of a capture: what one completes the other accepts, and   *)
(* none exceeds its own.                                                   *)
LimitsAgree == TransferTypeOK /\ WrittenReadable /\ DecodedBounded
=============================================================================
