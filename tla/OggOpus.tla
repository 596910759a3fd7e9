------------------------------ MODULE OggOpus ------------------------------
(***************************************************************************)
(* A voice note's file: libopusenc's encoder (opusenc.c) and Ogg packer    *)
(* (ogg_packer.c), which OpusFileEncoder drives, and the app's own reader  *)
(* (Services/OggOpusDemuxer.swift).                                        *)
(*                                                                         *)
(* Sound is counted, not heard: a frame is its number of samples, a packet *)
(* its size, and a byte knows the packet it is of.  The encoder is a value *)
(* that each call maps to the next one; the app uses one stream per file,  *)
(* frames of one size and no chaining.  Positions are at 48 kHz.           *)
(***************************************************************************)
EXTENDS Integers, Sequences, SequencesExt

CONSTANTS
    Lacing,        \* 255: the largest lacing value
    MaxSegments,   \* 255: lacing values of a page
    MuxingDelay,   \* 48000 samples
    FrameSize,     \* 960
    DecisionDelay, \* 96000
    BufferSamples, \* 120000
    LpcInput,      \* 480 samples kept in front of buffer_start
    LpcPadding,    \* 120
    Preskip,       \* the codec's lookahead
    Latency,       \* the resampler's, in output samples
    Ratio,         \* 3: output samples of the resampler per input sample
    HeadSize, TagsSize

Larger(a, b) == IF a > b THEN a ELSE b
Smaller(a, b) == IF a < b THEN a ELSE b

ASSUME OggOpusAssumption ==
    /\ Lacing \in Nat \ {0} /\ MaxSegments \in Nat \ {0}
    /\ MuxingDelay \in Nat \ {0} /\ FrameSize \in Nat \ {0}
    /\ DecisionDelay \in Nat /\ BufferSamples \in Nat
    /\ LpcInput \in Nat /\ LpcPadding \in Nat
    /\ Preskip \in Nat /\ Latency \in Nat /\ Ratio \in Nat \ {0}
    /\ HeadSize \in Nat \ {0} /\ TagsSize \in Nat \ {0}
    /\ MuxingDelay % FrameSize = 0
    (* What a shifted buffer keeps and the padding of the drain: 99000 or so. *)
    /\ LpcInput + FrameSize + DecisionDelay
           + Larger(LpcPadding, Preskip + FrameSize + Latency + 1) <= BufferSamples

-----------------------------------------------------------------------------
(* The packer: `open` are the lacing values of no page yet, each with the  *)
(* packet its bytes are of.                                                *)
Segment == [of: Nat, len: Nat]
Page == [granule: Nat, eos: BOOLEAN, count: Nat, segments: Seq(Segment)]

Segments(packet, bytes) ==
    [i \in 1..bytes \div Lacing |-> [of |-> packet, len |-> Lacing]]
        \o <<[of |-> packet, len |-> bytes % Lacing]>>

(* oggp_flush_page, and the page handed to stdio_write: output_pages       *)
(* follows every commit.  stdio buffers what it is given until fclose, so  *)
(* `file` is what the file will be when the encoder was destroyed; before  *)
(* that the disk may have less, cut anywhere.  The header has one byte for *)
(* the number of lacing values.                                            *)
FlushPage(e) ==
    IF e.open = <<>> THEN e
    ELSE [e EXCEPT !.file = Append(@, [granule |-> e.granule, eos |-> e.eos,
                                       count |-> Len(e.open) % (MaxSegments + 1),
                                       segments |-> e.open]),
                   !.open = <<>>, !.lastGranule = e.granule]

(* Mutant: a page is flushed only when it is due. *)
RoomNever(e, segments, granule) == granule - e.lastGranule <= MuxingDelay

Room(e, segments, granule) ==
    /\ Len(e.open) + Len(segments) <= MaxSegments
    /\ granule - e.lastGranule <= MuxingDelay

(* Mutant: a page is only closed by the packet that does not fit.          *)
FlushDueNever(e) == e

FlushDue(e) == IF e.granule - e.lastGranule >= MuxingDelay THEN FlushPage(e) ELSE e

CommitPacket(e, packet, bytes, granule, eos) ==
    LET segments == Segments(packet, bytes)
        ready    == IF Room(e, segments, granule) THEN e ELSE FlushPage(e)
    IN  FlushDue([ready EXCEPT !.open = @ \o segments, !.granule = granule, !.eos = eos])

-----------------------------------------------------------------------------
Encoder ==
    [init: BOOLEAN, end: Nat, written: Nat, resampled: Nat, start: Nat, stop: Nat,
     curr: Nat, packets: Nat, draining: BOOLEAN, done: BOOLEAN,
     open: Seq(Segment), granule: Nat, lastGranule: Nat, eos: BOOLEAN, file: Seq(Page)]

(* ope_encoder_create_file: nothing is written, and the stream's           *)
(* end_granule is memory that was never set.                               *)
Fresh(memory) ==
    [init |-> FALSE, end |-> memory, written |-> 0,   \* end_granule, write_granule
     resampled |-> 0, start |-> 0, stop |-> 0,        \* buffer_start, buffer_end
     curr |-> 0, packets |-> 0, draining |-> FALSE, done |-> FALSE,
     open |-> <<>>, granule |-> 0, lastGranule |-> 0, eos |-> FALSE, file |-> <<>>]

(* The two header packets have a page each. *)
InitStream(e) ==
    IF e.init THEN e
    ELSE LET head == FlushPage(CommitPacket(e, 1, HeadSize, 0, FALSE))
             tags == FlushPage(CommitPacket(head, 2, TagsSize, 0, FALSE))
         IN  [tags EXCEPT !.init = TRUE, !.packets = 2]

(* Mutant: shift_buffer is forgotten. *)
ShiftNothing(e) == e

ShiftBuffer(e) ==
    IF e.start <= LpcInput THEN e
    ELSE [e EXCEPT !.stop = @ - (e.start - LpcInput), !.start = LpcInput]

(* The position at which the stream ends: end_granule is in input samples. *)
EndGranule(e) == Ratio * e.end + Preskip

(* One turn of encode_buffer's loop: a frame becomes a packet of the size  *)
(* the codec gives it, and the packet that reaches the end is the last.    *)
EncodeFrame(e, bytes) ==
    IF e.done THEN e
    ELSE LET curr    == e.curr + FrameSize
             isLast  == curr >= EndGranule(e)
             granule == IF isLast THEN EndGranule(e) ELSE curr
             packed  == CommitPacket(e, e.packets + 1, bytes, granule, isLast)
             closed  == IF isLast THEN FlushPage(packed) ELSE packed
         IN  [closed EXCEPT !.curr = curr, !.packets = @ + 1, !.start = @ + FrameSize,
                            !.done = isLast]

(* The frames the loop takes: `buffer_end-buffer_start > frame_size +      *)
(* decision_delay`, and draining sets the delay to 0.                      *)
FramesReady(e) ==
    LET keep == FrameSize + (IF e.draining THEN 0 ELSE DecisionDelay)
        more == e.stop - e.start - keep
    IN  IF more <= 0 THEN 0 ELSE (more + FrameSize - 1) \div FrameSize

EncodeBuffer(e, size) ==
    LET sizes == [i \in 1..FramesReady(e) |-> size[((e.packets + i) % Len(size)) + 1]]
        coded == FoldLeft(EncodeFrame, e, sizes)
    IN  IF coded.stop = BufferSamples THEN ShiftBuffer(coded) ELSE coded

(* The resampler holds back its latency. *)
Resampled(samples) == Larger(0, Ratio * samples - Latency)

(* As much of the resampler's output as there is room for, then the rest.  *)
FillBuffer(e, size, amount) ==
    LET now  == Smaller(amount, BufferSamples - e.stop)
        half == EncodeBuffer([e EXCEPT !.stop = @ + now], size)
    IN  IF now = amount THEN half
        ELSE EncodeBuffer([half EXCEPT !.stop = @ + amount - now], size)

(* ope_encoder_write_float *)
WriteFloat(e, size, samples) ==
    LET begun == InitStream(e)
        total == begun.written + samples
    IN  FillBuffer([begun EXCEPT !.written = total, !.end = total,
                                 !.resampled = Resampled(total)],
                   size, Resampled(total) - begun.resampled)

(* global_granule_offset is -1 until init_stream sets it. *)
Lookahead(e) == IF e.init THEN Preskip ELSE -1

(* Mutant: what the resampler holds back is not asked for. *)
PaddingWithoutResampler(e) == Larger(LpcPadding, Lookahead(e) + FrameSize + 1)

Padding(e) == Larger(LpcPadding, Lookahead(e) + FrameSize + Latency + 1)

(* ope_encoder_drain, and what is in the file when it was destroyed. *)
BeforeDrain(e) == ShiftBuffer(InitStream(e))

Drain(e, size) ==
    EncodeBuffer([BeforeDrain(e) EXCEPT !.stop = @ + Padding(e), !.draining = TRUE], size)

-----------------------------------------------------------------------------
(* OggOpusDemuxer.init over the pages of a file: lacing values below       *)
(* Lacing end a packet.  A packet that was read is what its bytes are of,  *)
(* and its size.                                                           *)
Nothing == [of |-> {}, size |-> 0]

ReadSegment(reader, segment) ==
    LET pending == [of |-> IF segment.len > 0 THEN reader.pending.of \cup {segment.of}
                                              ELSE reader.pending.of,
                    size |-> reader.pending.size + segment.len]
    IN  IF segment.len < Lacing
        THEN [packets |-> Append(reader.packets, pending), pending |-> Nothing]
        ELSE [reader EXCEPT !.pending = pending]

ReadPage(reader, page) == FoldLeft(ReadSegment, reader, SubSeq(page.segments, 1, page.count))

Demux(file) == FoldLeft(ReadPage, [packets |-> <<>>, pending |-> Nothing], file)

(* peekDurationSeconds, in samples at 48 kHz. *)
PeekDuration(file) == Last(file).granule - Preskip
=============================================================================
