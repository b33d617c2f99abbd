------------------------------- MODULE Replay -------------------------------
(***************************************************************************)
(* hedge-replay: the recorder appends every event of a session to segment  *)
(* files (through a BufWriter) and, best effort, to a Redis stream; the    *)
(* player reads the segments back, checks the sequence numbers and         *)
(* releases the records at a chosen speed, to the bus when the             *)
(* hedge-replay tool plays them.                                           *)
(*                                                                         *)
(* Recording is two steps, the disk write and, after an await, the XADD:   *)
(* a crash or a failure can come between them.  A frame is its length      *)
(* prefix and its archive, two writes of the BufWriter, so a spill of the  *)
(* buffer may leave a prefix without archive on disk.                      *)
(***************************************************************************)
EXTENDS Integers, Sequences, SequencesExt

CONSTANTS
    Kinds,             \* RecordKind: "tick", ... (see Subject)
    RedisAttached,     \* the recorder has a Redis producer
    MaxSegmentBytes,   \* rotation threshold, in frame units
    FrameSizes,        \* sizes a frame may have
    Gaps,              \* nanoseconds between two records, in units
    Divisors,          \* ReplaySpeed::divisor, 0 for Max
    MaxAppends,        \* bound: record calls
    MaxStarts          \* bound: recorders made for the session

ASSUME ReplayAssumption ==
    /\ RedisAttached \in BOOLEAN /\ MaxSegmentBytes \in Nat
    /\ FrameSizes \subseteq Nat /\ Gaps \subseteq Nat /\ Divisors \subseteq Nat
    /\ MaxAppends \in Nat /\ MaxStarts \in Nat

VARIABLES
    segments,        \* segment files, in order: the frames and a torn tail
    buffer,      \* frames still in the BufWriter
    writer,      \* SegmentWriter: file open, its index, its bytes
    recorder,    \* Recorder: it exists, next_seq, the record awaiting its XADD
    stream,      \* the Redis stream
    written,     \* history: every frame appended, in order
    synced,      \* history: frames that reached the disk by a flush
    quantum,         \* quanta clock at the last record
    player,      \* Player: open, records, cursor
    pacing,      \* PacedReplay: speed, sleep, last_monotonic_ns
    released,    \* records the current stream has released
    bus,         \* subject the hedge-replay tool published last
    run1,        \* replay-regression: what the first run played
    recorded,       \* record calls so far
    starts       \* recorders made so far

recVars == <<segments, buffer, writer, recorder, stream, written, synced, quantum, recorded, starts>>
plyVars == <<player, pacing, released, bus, run1>>
rpVars == <<recVars, plyVars>>

NoRecord == [seq |-> -1, ns |-> 0, kind |-> "none", size |-> 0]
Closed == [open |-> FALSE, idx |-> 0, bytes |-> 0]
NoPlayer == [open |-> FALSE, records |-> <<>>, cursor |-> 0]
NoPacing == [on |-> FALSE, div |-> 0, sleep |-> 0, last |-> -1]

RpInit ==
    /\ segments = <<>> /\ buffer = <<>> /\ writer = Closed
    /\ recorder = [up |-> FALSE, next |-> 0, pending |-> NoRecord]
    /\ stream = <<>> /\ written = <<>> /\ synced = 0 /\ quantum = 0
    /\ player = NoPlayer /\ pacing = NoPacing /\ released = <<>> /\ bus = "none" /\ run1 = <<>>
    /\ recorded = 0 /\ starts = 0

-----------------------------------------------------------------------------
(* The recorder. *)

\* Recorder::new: the counter and the writer start over, whatever is on disk.
NewRecorder ==
    /\ ~recorder.up /\ starts < MaxStarts /\ starts' = starts + 1
    /\ recorder' = [up |-> TRUE, next |-> 0, pending |-> NoRecord]
    /\ writer' = Closed /\ buffer' = <<>>
    /\ UNCHANGED <<segments, stream, written, synced, quantum, recorded, plyVars>>

\* gen-canonical-replay removes the session directory before it records.
Regenerate ==
    /\ ~recorder.up /\ starts < MaxStarts /\ starts' = starts + 1
    /\ recorder' = [up |-> TRUE, next |-> 0, pending |-> NoRecord]
    /\ writer' = Closed /\ buffer' = <<>> /\ segments' = <<>> /\ stream' = <<>>
    /\ written' = <<>> /\ synced' = 0
    /\ UNCHANGED <<quantum, recorded, plyVars>>

\* flush and sync_data: the buffer completes the last segment.
Flushed ==
    IF buffer = <<>> THEN segments
    ELSE [segments EXCEPT ![Len(segments)] = [frames |-> @.frames \o buffer, torn |-> FALSE]]

\* The frames of the segments, in the order of their names.
FramesOf(d) ==
    LET all[i \in 0 .. Len(d)] == IF i = 0 THEN <<>> ELSE all[i - 1] \o d[i].frames
    IN  all[Len(d)]

Durable(d) == Len(FramesOf(d))

\* When append opens a segment, and which: the first one when none is open.
Overflow(size) == writer.open /\ writer.bytes + size > MaxSegmentBytes
NextIdx == IF writer.open THEN writer.idx + 1 ELSE 1

\* create_new: the segment must not exist.
Opens(size) == ~writer.open \/ Overflow(size)
CanOpen == NextIdx = Len(segments) + 1

Frame(kind, size, gap) == [seq |-> recorder.next, ns |-> quantum + gap, kind |-> kind, size |-> size]

\* write_framed into the BufWriter: kept, or the buffer spills with the
\* frame's prefix, or with the whole frame.
WriteFramed(d, buf, f, spill) ==
    CASE spill = "keep" -> [disk |-> d, buffer |-> Append(buf, f)]
      [] spill = "prefix" ->
            [disk |-> [d EXCEPT ![Len(d)] = [frames |-> @.frames \o buf, torn |-> TRUE]],
             buffer |-> <<f>>]
      [] spill = "all" ->
            [disk |-> [d EXCEPT ![Len(d)] = [frames |-> Append(@.frames \o buf, f), torn |-> FALSE]],
             buffer |-> <<>>]

\* Mutant: a spill keeps only the frame being written.
WriteLosing(d, buf, f, spill) == WriteFramed(d, IF spill = "keep" THEN buf ELSE <<>>, f, spill)

Write(d, buf, f, spill) == WriteFramed(d, buf, f, spill)

\* record and record_raw up to the await: the disk comes first.
AppendRecord(kind, size, gap, spill) ==
    /\ recorder.up /\ recorder.pending = NoRecord /\ recorded < MaxAppends
    /\ Opens(size) => CanOpen
    /\ LET f == Frame(kind, size, gap)
           d == IF Opens(size) THEN Append(Flushed, [frames |-> <<>>, torn |-> FALSE]) ELSE segments
           w == Write(d, IF Opens(size) THEN <<>> ELSE buffer, f, spill)
       IN  /\ segments' = w.disk /\ buffer' = w.buffer
           /\ writer' = IF Opens(size) THEN [open |-> TRUE, idx |-> NextIdx, bytes |-> size]
                        ELSE [writer EXCEPT !.bytes = @ + size]
           /\ synced' = IF Opens(size) THEN Durable(Flushed) ELSE synced
           /\ written' = Append(written, f) /\ quantum' = quantum + gap
           /\ recorder' = IF RedisAttached THEN [recorder EXCEPT !.pending = f]
                          ELSE [recorder EXCEPT !.next = @ + 1]
    /\ recorded' = recorded + 1
    /\ UNCHANGED <<stream, starts, plyVars>>

\* The segment exists: the file that was open is flushed and closed first,
\* and the next append tries seg-0001 again.
AppendFails(size) ==
    /\ recorder.up /\ recorder.pending = NoRecord /\ recorded < MaxAppends
    /\ Opens(size) /\ ~CanOpen
    /\ segments' = Flushed /\ buffer' = <<>> /\ synced' = Durable(Flushed)
    /\ writer' = [open |-> FALSE, idx |-> NextIdx, bytes |-> 0]
    /\ recorded' = recorded + 1
    /\ UNCHANGED <<recorder, stream, written, quantum, starts, plyVars>>

\* The XADD, and the commit of the sequence number after it.
Xadd ==
    /\ recorder.up /\ recorder.pending # NoRecord
    /\ stream' = Append(stream, recorder.pending)
    /\ recorder' = [recorder EXCEPT !.pending = NoRecord, !.next = @ + 1]
    /\ UNCHANGED <<segments, buffer, writer, written, synced, quantum, recorded, starts, plyVars>>

\* The error is surfaced, the disk write stays, the number is not used up.
XaddFails ==
    /\ recorder.up /\ recorder.pending # NoRecord
    /\ recorder' = [recorder EXCEPT !.pending = NoRecord]
    /\ UNCHANGED <<segments, buffer, writer, stream, written, synced, quantum, recorded, starts, plyVars>>

FlushRecorder ==
    /\ recorder.up /\ recorder.pending = NoRecord /\ writer.open
    /\ segments' = Flushed /\ buffer' = <<>> /\ synced' = Durable(Flushed)
    /\ UNCHANGED <<writer, recorder, stream, written, quantum, recorded, starts, plyVars>>

\* Drop of the recorder flushes and closes the segment.
DropRecorder ==
    /\ recorder.up /\ recorder.pending = NoRecord
    /\ recorder' = [recorder EXCEPT !.up = FALSE]
    /\ segments' = Flushed /\ buffer' = <<>> /\ synced' = Durable(Flushed) /\ writer' = Closed
    /\ UNCHANGED <<stream, written, quantum, recorded, starts, plyVars>>

\* A crash loses what the BufWriter holds.
CrashRecorder ==
    /\ recorder.up
    /\ recorder' = [recorder EXCEPT !.up = FALSE, !.pending = NoRecord]
    /\ buffer' = <<>> /\ writer' = Closed
    /\ written' = SubSeq(written, 1, Len(written) - Len(buffer))
    /\ UNCHANGED <<segments, stream, synced, quantum, recorded, starts, plyVars>>

-----------------------------------------------------------------------------
(* The player. *)

\* read_all: one segment after the other.
ReadAll(d) == FramesOf(d)

Torn(d) == \E i \in DOMAIN d : d[i].torn
GapFree(records) == \A i \in DOMAIN records : records[i].seq = i - 1

\* Player::open: a torn frame or a wrong sequence number refuses the session.
Open ==
    /\ ~player.open /\ ~Torn(segments) /\ GapFree(ReadAll(segments))
    /\ player' = [open |-> TRUE, records |-> ReadAll(segments), cursor |-> 0]
    /\ released' = <<>> /\ pacing' = NoPacing
    /\ UNCHANGED <<recVars, bus, run1>>

ClosePlayer ==
    /\ player.open /\ player' = NoPlayer /\ pacing' = NoPacing /\ released' = <<>>
    /\ UNCHANGED <<recVars, bus, run1>>

AtEnd == player.cursor >= Len(player.records)

Step ==
    /\ player.open /\ ~pacing.on /\ ~AtEnd
    /\ player' = [player EXCEPT !.cursor = @ + 1]
    /\ UNCHANGED <<recVars, pacing, released, bus, run1>>

\* seek: any sequence number of the session, or one past the last.
Seek(target) ==
    /\ player.open /\ ~pacing.on /\ target <= Len(player.records)
    /\ player' = [player EXCEPT !.cursor = target]
    /\ UNCHANGED <<recVars, pacing, released, bus, run1>>

Play(div) ==
    /\ player.open /\ ~pacing.on
    /\ pacing' = [on |-> TRUE, div |-> div, sleep |-> 0, last |-> -1]
    /\ released' = <<>>
    /\ UNCHANGED <<recVars, player, bus, run1>>

Delay(next) ==
    IF pacing.div = 0 \/ pacing.last = -1 \/ next.ns <= pacing.last THEN 0
    ELSE (next.ns - pacing.last) \div pacing.div

\* The subject hedge-replay publishes a released record on.
Subject(kind) ==
    CASE kind = "tick" -> "md.tick" [] kind = "order_book" -> "md.book"
      [] kind = "open_interest" -> "md.oi" [] kind = "signal_emitted" -> "sig.emitted"
      [] kind = "risk_decision" -> "risk.decision.approved"
      [] kind = "order_submitted" -> "exec.order.submitted"
      [] kind = "order_modified" -> "exec.order.modified"
      [] kind = "order_cancelled" -> "exec.order.cancelled"
      [] kind = "fill" -> "exec.fill" [] kind = "ai_decision" -> "ai.replay"
      [] kind = "trader_action" -> "trader.replay" [] kind = "news_event" -> "news.replay"
      [] kind = "snapshot" -> "md.replay"

\* poll_next once the sleep is over: the record is released at once and the
\* sleep for it comes before the next one.  The tool publishes what it gets,
\* and a failed publish does not stop it.
ReleaseStep ==
    /\ pacing.on /\ pacing.sleep = 0 /\ ~AtEnd
    /\ LET next == player.records[player.cursor + 1]
       IN  /\ released' = Append(released, next)
           /\ pacing' = [pacing EXCEPT !.sleep = Delay(next), !.last = next.ns]
    /\ player' = [player EXCEPT !.cursor = @ + 1]
    /\ bus' = Subject(player.records[player.cursor + 1].kind)
    /\ UNCHANGED <<recVars, run1>>

\* Mutant: the record that a sleep precedes is skipped.
ReleaseSkipping ==
    /\ pacing.on /\ pacing.sleep = 0 /\ ~AtEnd
    /\ LET next == player.records[player.cursor + 1]
       IN  /\ released' = IF Delay(next) > 0 THEN released ELSE Append(released, next)
           /\ pacing' = [pacing EXCEPT !.sleep = Delay(next), !.last = next.ns]
    /\ player' = [player EXCEPT !.cursor = @ + 1]
    /\ bus' = Subject(player.records[player.cursor + 1].kind)
    /\ UNCHANGED <<recVars, run1>>

Release == ReleaseStep

Elapse ==
    /\ pacing.on /\ pacing.sleep > 0
    /\ pacing' = [pacing EXCEPT !.sleep = @ - 1]
    /\ UNCHANGED <<recVars, player, released, bus, run1>>

\* Poll::Ready(None), or the stream is dropped.
EndPlay ==
    /\ pacing.on /\ pacing' = NoPacing
    /\ UNCHANGED <<recVars, player, released, bus, run1>>

\* replay-regression: two runs over the same directory are compared.
PlayOnce ==
    /\ run1 = <<>> /\ ~player.open /\ ~Torn(segments) /\ GapFree(ReadAll(segments))
    /\ run1' = ReadAll(segments)
    /\ UNCHANGED <<recVars, player, pacing, released, bus>>

DiffStreams ==
    /\ run1 # <<>> /\ ~Torn(segments) /\ GapFree(ReadAll(segments))
    /\ run1' = <<>>
    /\ UNCHANGED <<recVars, player, pacing, released, bus>>

RpNext ==
    \/ NewRecorder \/ Regenerate \/ Xadd \/ XaddFails \/ FlushRecorder \/ DropRecorder
    \/ CrashRecorder
    \/ \E size \in FrameSizes :
        \/ AppendFails(size)
        \/ \E kind \in Kinds, gap \in Gaps, spill \in {"keep", "prefix", "all"} :
              AppendRecord(kind, size, gap, spill)
    \/ Open \/ ClosePlayer \/ Step \/ Release \/ Elapse \/ EndPlay \/ PlayOnce \/ DiffStreams
    \/ \E target \in 0 .. MaxAppends : Seek(target)
    \/ \E div \in Divisors : Play(div)

RpSpec == RpInit /\ [][RpNext]_rpVars

-----------------------------------------------------------------------------
\* What the player accepts is what was recorded: a prefix of the frames the
\* recorder appended and did not lose, across rotations, spills, crashes and
\* the reuse of a sequence number after a failed XADD.  And a flush keeps its
\* promise: the prefix holds every record that was flushed.
PlaybackIsRecorded ==
    [][~player.open /\ player'.open =>
          IsPrefix(player'.records, written) /\ Len(player'.records) >= synced]_rpVars

\* A paced stream leaves nothing out: it has released exactly the records
\* between the position it was started at and the cursor.
NothingSkipped ==
    pacing.on =>
        released = SubSeq(player.records, player.cursor - Len(released) + 1, player.cursor)

\* Both sinks see the same gap-free sequence numbers (recorder.rs, module
\* comment; R22.1): what is on disk can be replayed while Redis comes and goes.
DiskIsGapFree == GapFree(ReadAll(segments) \o buffer)
=============================================================================
