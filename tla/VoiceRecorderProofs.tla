------------------------ MODULE VoiceRecorderProofs ------------------------
(***************************************************************************)
(* That a voice note is read back whole, with all the sound but what the   *)
(* converter held, that the pages keep up with the sound and that the      *)
(* encoder's buffer always has room, for any rates, any sizes of frames,   *)
(* buffers, pages and packets and any length of sound.                     *)
(*                                                                         *)
(* The argument: pages hold whole packets, so what the reader makes of the *)
(* file and then of the page that is open is every packet so far; what is  *)
(* encoded and what the buffer holds is all the resampler gave; and the    *)
(* padding of the drain is longer than what the resampler and the codec    *)
(* hold back, so the last frame reaches the end of the stream.             *)
(***************************************************************************)
EXTENDS VoiceRecorder, TLAPS

Plus(a, b) == a + b

Bytes  == INSTANCE FoldFacts WITH Op <- ReadSegment
Pages  == INSTANCE FoldFacts WITH Op <- ReadPage
Frames == INSTANCE FoldFacts WITH Op <- EncodeFrame
Sound  == INSTANCE FoldFacts WITH Op <- Plus

LEMMA FoldsAre ==
    /\ \A b, s : FoldLeft(ReadSegment, b, s) = Bytes!Fold(b, s)
    /\ \A b, s : FoldLeft(ReadPage, b, s) = Pages!Fold(b, s)
    /\ \A b, s : FoldLeft(EncodeFrame, b, s) = Frames!Fold(b, s)
<1>1. \A b, s : FoldLeft(ReadSegment, b, s) = Bytes!Fold(b, s)
  BY DEF Bytes!Fold, FoldLeft, Bytes!FoldLeft, MapThenFoldSet, Bytes!MapThenFoldSet, Max,
         Bytes!Max
<1>2. \A b, s : FoldLeft(ReadPage, b, s) = Pages!Fold(b, s)
  BY DEF Pages!Fold, FoldLeft, Pages!FoldLeft, MapThenFoldSet, Pages!MapThenFoldSet, Max,
         Pages!Max
<1>3. \A b, s : FoldLeft(EncodeFrame, b, s) = Frames!Fold(b, s)
  BY DEF Frames!Fold, FoldLeft, Frames!FoldLeft, MapThenFoldSet, Frames!MapThenFoldSet, Max,
         Frames!Max
<1> QED
  BY <1>1, <1>2, <1>3

-----------------------------------------------------------------------------
LEMMA Division ==
    ASSUME NEW a \in Nat, NEW d \in Nat \ {0}
    PROVE  /\ a \div d \in Nat /\ a % d \in Nat /\ a % d < d
           /\ a = d * (a \div d) + (a % d)
  OBVIOUS

LEMMA SmallRemainder ==
    ASSUME NEW a \in Nat, NEW d \in Nat \ {0}, a < d
    PROVE  a % d = a
<1> DEFINE q == a \div d
           r == a % d
<1>1. q \in Nat /\ r \in Nat /\ a = d * q + r
  BY Division
<1> HIDE DEF q, r
<1>2. CASE q = 0
  BY <1>1, <1>2 DEF r
<1>3. CASE q >= 1
  <2>1. d * q >= d * 1
    BY <1>1, <1>3
  <2> QED
    BY <1>1, <2>1
<1> QED
  BY <1>1, <1>2, <1>3

LEMMA OneMoreTime ==
    ASSUME NEW d \in Nat, NEW i \in Nat
    PROVE  /\ d * i \in Nat /\ d * (i + 1) = d * i + d
           /\ d * 0 = 0
  OBVIOUS

LEMMA NextMultiple ==
    ASSUME NEW d \in Nat \ {0}, NEW a \in Int, NEW b \in Int, d * a < d * b
    PROVE  d * a + d <= d * b
<1>1. a < b
  OBVIOUS
<1>2. a + 1 <= b
  BY <1>1
<1>3. d * (a + 1) <= d * b
  BY <1>2
<1> QED
  BY <1>3

-----------------------------------------------------------------------------
(***************************************************************************)
(* The reader                                                              *)
(***************************************************************************)

(* The packets of a recording, by the sizes the codec gives them, and what *)
(* has been read when the first n of them have.                            *)
PacketSize(s, p) ==
    IF p = 1 THEN HeadSize ELSE IF p = 2 THEN TagsSize ELSE s[(p % Period) + 1]
Packet(s, p) == [of |-> {p}, size |-> PacketSize(s, p)]
FirstPackets(s, n) == [i \in 1..n |-> Packet(s, i)]

LEMMA SegmentsOf ==
    ASSUME NEW p \in Nat, NEW b \in Nat \ {0}
    PROVE  /\ Segments(p, b) \in Seq(Segment)
           /\ Len(Segments(p, b)) = b \div Lacing + 1
           /\ \A i \in 1..(b \div Lacing) : Segments(p, b)[i] = [of |-> p, len |-> Lacing]
           /\ Segments(p, b)[b \div Lacing + 1] = [of |-> p, len |-> b % Lacing]
<1> DEFINE n == b \div Lacing
           full == [of |-> p, len |-> Lacing]
           rest == [of |-> p, len |-> b % Lacing]
           f == [i \in 1..n |-> full]
<1>1. n \in Nat /\ b % Lacing \in Nat /\ Lacing \in Nat
  BY Division, OggOpusAssumption DEF OggOpusAssumption
<1>2. full \in Segment /\ rest \in Segment
  BY <1>1 DEF Segment
<1> HIDE DEF n, full, rest
<1>3. f \in Seq(Segment) /\ Len(f) = n /\ \A i \in 1..n : f[i] = full
  BY <1>1, <1>2
<1>4. <<rest>> \in Seq(Segment) /\ Len(<<rest>>) = 1 /\ <<rest>>[1] = rest
  BY <1>2
<1> HIDE DEF f
<1>5. /\ f \o <<rest>> \in Seq(Segment) /\ Len(f \o <<rest>>) = n + 1
      /\ \A i \in 1..n : (f \o <<rest>>)[i] = f[i]
      /\ (f \o <<rest>>)[n + 1] = rest
  BY <1>1, <1>3, <1>4
<1>6. Segments(p, b) = f \o <<rest>>
  BY DEF Segments, f, full, rest, n
<1> QED
  BY <1>3, <1>5, <1>6 DEF n, full, rest

(* A reader that has read the packets P and x bytes of the next one, which *)
(* are of o; and one after i full segments of packet p.                    *)
Reader(P, o, x) == [packets |-> P, pending |-> [of |-> o, size |-> x]]
Amid(P, p, i) == Reader(P, IF i = 0 THEN {} ELSE {p}, Lacing * i)
Lace(p, l) == [of |-> p, len |-> l]
And(o, p) == o \cup {p}
Ending(o, p, l, x) == [of |-> IF l > 0 THEN And(o, p) ELSE o, size |-> x + l]

LEMMA ReadStep ==
    ASSUME NEW P, NEW o, NEW x \in Int, NEW p, NEW l \in Int
    PROVE  /\ l > 0 /\ ~(l < Lacing) =>
                 ReadSegment(Reader(P, o, x), Lace(p, l)) = Reader(P, And(o, p), x + l)
           /\ l < Lacing =>
                 ReadSegment(Reader(P, o, x), Lace(p, l))
                   = Reader(Append(P, Ending(o, p, l, x)), {}, 0)
<1> DEFINE reader == Reader(P, o, x)
           segment == Lace(p, l)
           pending == [of |-> IF segment.len > 0 THEN reader.pending.of \cup {segment.of}
                                                 ELSE reader.pending.of,
                       size |-> reader.pending.size + segment.len]
<1>1. pending = Ending(o, p, l, x)
  BY DEF Reader, Lace, Ending, And
<1>2. segment.len = l /\ reader.packets = P
  BY DEF Reader, Lace
<1>3. ReadSegment(reader, segment)
        = IF segment.len < Lacing
          THEN [packets |-> Append(reader.packets, pending), pending |-> Nothing]
          ELSE [reader EXCEPT !.pending = pending]
  BY DEF ReadSegment
<1>4. \A y : [reader EXCEPT !.pending = y] = [packets |-> P, pending |-> y]
  BY DEF Reader
<1> HIDE DEF reader, segment, pending
<1>5. /\ l < Lacing => ReadSegment(reader, segment)
                         = [packets |-> Append(P, pending), pending |-> Nothing]
      /\ ~(l < Lacing) => ReadSegment(reader, segment) = [packets |-> P, pending |-> pending]
  BY <1>2, <1>3, <1>4
<1>6. l > 0 => pending = [of |-> And(o, p), size |-> x + l]
  BY <1>1 DEF Ending
<1> QED
  BY <1>1, <1>5, <1>6 DEF reader, segment, Reader, Nothing

(* Reading the segments of a packet makes that packet. *)
THEOREM ReadPacket ==
    ASSUME NEW P, NEW p \in Nat, NEW b \in Nat \ {0}
    PROVE  Bytes!Fold(Reader(P, {}, 0), Segments(p, b))
             = Reader(Append(P, [of |-> {p}, size |-> b]), {}, 0)
<1> DEFINE n == b \div Lacing
           start == Reader(P, {}, 0)
           final == Reader(Append(P, [of |-> {p}, size |-> b]), {}, 0)
           segs == Segments(p, b)
           f == [i \in 0..(n + 1) |-> IF i = n + 1 THEN final ELSE Amid(P, p, i)]
<1>1. /\ Lacing \in Nat /\ Lacing > 0 /\ n \in Nat /\ b % Lacing \in Nat /\ b % Lacing < Lacing
      /\ b = Lacing * n + (b % Lacing)
  BY Division, OggOpusAssumption DEF OggOpusAssumption
<1>2. /\ segs \in Seq(Segment) /\ Len(segs) = n + 1
      /\ \A i \in 1..n : segs[i] = Lace(p, Lacing)
      /\ segs[n + 1] = Lace(p, b % Lacing)
  BY SegmentsOf DEF Lace
<1> HIDE DEF n, segs
<1>3. f[0] = start
  <2>1. Lacing * 0 = 0
    BY <1>1
  <2>2. f[0] = Amid(P, p, 0)
    BY <1>1
  <2> QED
    BY <2>1, <2>2 DEF Amid
<1>4. ASSUME NEW i \in 1..n
      PROVE  f[i] = ReadSegment(f[i - 1], segs[i])
  <2>1. /\ i \in 0..(n + 1) /\ i # n + 1 /\ i - 1 \in 0..(n + 1) /\ i - 1 # n + 1 /\ i # 0
        /\ i - 1 \in Nat /\ (i - 1) + 1 = i
    BY <1>1
  <2>2. f[i] = Amid(P, p, i) /\ f[i - 1] = Amid(P, p, i - 1)
    BY <2>1
  <2>3. Lacing * (i - 1) + Lacing = Lacing * i
    BY <1>1, <2>1, OneMoreTime
  <2>4. Lacing \in Int /\ Lacing > 0 /\ ~(Lacing < Lacing) /\ Lacing * (i - 1) \in Int
    BY <1>1, <2>1
  <2> DEFINE x == Lacing * (i - 1)
             y == Lacing * i
             o == IF i - 1 = 0 THEN {} ELSE {p}
  <2>5. /\ Amid(P, p, i - 1) = Reader(P, o, x) /\ Amid(P, p, i) = Reader(P, {p}, y)
        /\ x + Lacing = y /\ And(o, p) = {p}
    BY <2>1, <2>3 DEF Amid, And
  <2>6. x \in Int
    BY <2>4
  <2> HIDE DEF f, x, y, o
  <2>7. ReadSegment(Reader(P, o, x), Lace(p, Lacing)) = Reader(P, And(o, p), x + Lacing)
    BY <2>4, <2>6, ReadStep
  <2> QED
    BY <1>2, <2>2, <2>5, <2>7
<1>5. f[n + 1] = ReadSegment(f[n], segs[n + 1])
  <2>1. n + 1 \in 0..(n + 1) /\ n \in 0..(n + 1) /\ n # n + 1
    BY <1>1
  <2>2. f[n + 1] = final /\ f[n] = Amid(P, p, n)
    BY <2>1
  <2> DEFINE x == Lacing * n
             r == b % Lacing
             o == IF n = 0 THEN {} ELSE {p}
  <2>3. x + r = b /\ r < Lacing /\ x \in Int /\ r \in Int
    BY <1>1
  <2>4. Ending(o, p, r, x) = [of |-> {p}, size |-> b]
    <3> USE DEF Ending, And
    <3>1. CASE r > 0
      BY <2>3, <3>1
    <3>2. CASE r = 0
      <4>1. n # 0
        BY <1>1, <3>2
      <4> QED
        BY <2>3, <3>2, <4>1
    <3> QED
      BY <1>1, <3>1, <3>2
  <2>5. segs[n + 1] = Lace(p, r) /\ Amid(P, p, n) = Reader(P, o, x)
    BY <1>2 DEF Amid
  <2> HIDE DEF f, x, r, o
  <2>6. ReadSegment(Reader(P, o, x), Lace(p, r))
          = Reader(Append(P, Ending(o, p, r, x)), {}, 0)
    BY <2>3, ReadStep
  <2> QED
    BY <2>2, <2>3, <2>4, <2>5, <2>6 DEF final
<1>6. Bytes!Steps(f, start, segs)
  <2> HIDE DEF f, final, start
  <2>1. \A i \in 1..(n + 1) : i \in 1..n \/ i = n + 1
    BY <1>1
  <2>2. (n + 1) - 1 = n
    BY <1>1
  <2> QED
    BY <1>2, <1>3, <1>4, <1>5, <2>1, <2>2 DEF Bytes!Steps
<1>7. f[n + 1] = final
  BY <1>1
<1> HIDE DEF f
<1> QED
  BY <1>2, <1>6, <1>7, Bytes!FoldIs DEF segs

LEMMA DemuxEmpty == Demux(<<>>) = Reader(<<>>, {}, 0)
<1>1. Demux(<<>>) = Pages!Fold([packets |-> <<>>, pending |-> Nothing], <<>>)
  BY FoldsAre DEF Demux
<1> QED
  BY <1>1, Pages!FoldEmpty DEF Reader, Nothing

(* Reading one more page: all its segments, when the header counts them. *)
LEMMA DemuxPage ==
    ASSUME NEW file \in Seq(Page), NEW page \in Page, page.count = Len(page.segments)
    PROVE  Demux(Append(file, page)) = Bytes!Fold(Demux(file), page.segments)
<1> DEFINE base == [packets |-> <<>>, pending |-> Nothing]
<1>1. Pages!Fold(base, Append(file, page)) = ReadPage(Pages!Fold(base, file), page)
  <2> HIDE DEF base
  <2> QED
    BY Pages!FoldAppend, Zenon
<1>2. \A f : Demux(f) = Pages!Fold(base, f)
  BY FoldsAre DEF Demux
<1>3. SubSeq(page.segments, 1, page.count) = page.segments
  <2>1. page.segments \in Seq(Segment)
    BY DEF Page
  <2> QED
    BY <2>1
<1>4. \A r : ReadPage(r, page) = Bytes!Fold(r, page.segments)
  BY <1>3, FoldsAre DEF ReadPage
<1> QED
  BY <1>1, <1>2, <1>4

-----------------------------------------------------------------------------
(***************************************************************************)
(* The packer                                                              *)
(***************************************************************************)
LEMMA EncoderFields ==
    ASSUME NEW e \in Encoder
    PROVE  /\ e.init \in BOOLEAN /\ e.end \in Nat /\ e.written \in Nat /\ e.resampled \in Nat
           /\ e.start \in Nat /\ e.stop \in Nat /\ e.curr \in Nat /\ e.packets \in Nat
           /\ e.draining \in BOOLEAN /\ e.done \in BOOLEAN
           /\ e.open \in Seq(Segment) /\ e.granule \in Nat /\ e.lastGranule \in Nat
           /\ e.eos \in BOOLEAN /\ e.file \in Seq(Page)
  BY DEF Encoder

(* What the packer does not touch. *)
SameSound(x, e) ==
    /\ x.init = e.init /\ x.end = e.end /\ x.written = e.written /\ x.resampled = e.resampled
    /\ x.start = e.start /\ x.stop = e.stop /\ x.curr = e.curr /\ x.packets = e.packets
    /\ x.draining = e.draining /\ x.done = e.done

(* What only the packer touches. *)
SamePages(x, e) ==
    /\ x.open = e.open /\ x.granule = e.granule /\ x.lastGranule = e.lastGranule
    /\ x.eos = e.eos /\ x.file = e.file

Repacked(e, o, g, f) == [e EXCEPT !.file = f, !.open = o, !.lastGranule = g]
Queued(e, o, g, eos) == [e EXCEPT !.open = o, !.granule = g, !.eos = eos]

LEMMA RepackedFields ==
    ASSUME NEW e \in Encoder, NEW o \in Seq(Segment), NEW g \in Nat, NEW f \in Seq(Page)
    PROVE  /\ Repacked(e, o, g, f) \in Encoder
           /\ SameSound(Repacked(e, o, g, f), e)
           /\ Repacked(e, o, g, f).open = o /\ Repacked(e, o, g, f).granule = e.granule
           /\ Repacked(e, o, g, f).lastGranule = g /\ Repacked(e, o, g, f).eos = e.eos
           /\ Repacked(e, o, g, f).file = f
  BY DEF Encoder, Repacked, SameSound

LEMMA QueuedFields ==
    ASSUME NEW e \in Encoder, NEW o \in Seq(Segment), NEW g \in Nat, NEW eos \in BOOLEAN
    PROVE  /\ Queued(e, o, g, eos) \in Encoder
           /\ SameSound(Queued(e, o, g, eos), e)
           /\ Queued(e, o, g, eos).open = o /\ Queued(e, o, g, eos).granule = g
           /\ Queued(e, o, g, eos).lastGranule = e.lastGranule
           /\ Queued(e, o, g, eos).eos = eos /\ Queued(e, o, g, eos).file = e.file
  BY DEF Encoder, Queued, SameSound

PageOf(e) == [granule |-> e.granule, eos |-> e.eos, count |-> Len(e.open),
              segments |-> e.open]

LEMMA FlushedFields ==
    ASSUME NEW e \in Encoder, Len(e.open) <= MaxSegments
    PROVE  /\ FlushPage(e) \in Encoder /\ SameSound(FlushPage(e), e)
           /\ FlushPage(e).open = <<>> /\ FlushPage(e).granule = e.granule
           /\ FlushPage(e).eos = e.eos
           /\ e.open = <<>> => FlushPage(e) = e
           /\ e.open # <<>> => /\ FlushPage(e).file = Append(e.file, PageOf(e))
                               /\ FlushPage(e).lastGranule = e.granule
                               /\ PageOf(e) \in Page
<1>1. CASE e.open = <<>>
  BY <1>1, EncoderFields DEF FlushPage, SameSound
<1>2. CASE e.open # <<>>
  <2>1. Len(e.open) \in Nat /\ MaxSegments \in Nat
    BY EncoderFields, OggOpusAssumption DEF OggOpusAssumption
  <2>2. Len(e.open) % (MaxSegments + 1) = Len(e.open)
    <3>1. \A n \in Nat : n <= MaxSegments => n % (MaxSegments + 1) = n
      BY <2>1, SmallRemainder
    <3> QED
      BY <2>1, <3>1
  <2>3. PageOf(e) \in Page
    BY <2>1, EncoderFields DEF PageOf, Page
  <2> DEFINE f == Append(e.file, PageOf(e))
             o == <<>>
             x == Repacked(e, o, e.granule, f)
  <2>4. f \in Seq(Page) /\ o \in Seq(Segment) /\ e.granule \in Nat
    BY <2>3, EncoderFields
  <2>5. FlushPage(e) = x
    BY <1>2, <2>2 DEF FlushPage, Repacked, PageOf
  <2> HIDE DEF f, o
  <2>6. /\ x \in Encoder /\ SameSound(x, e) /\ x.open = o /\ x.granule = e.granule
        /\ x.lastGranule = e.granule /\ x.eos = e.eos /\ x.file = f
    BY <2>4, RepackedFields
  <2> HIDE DEF x
  <2> QED
    BY <1>2, <2>3, <2>5, <2>6 DEF f, o
<1> QED
  BY <1>1, <1>2

(* What has been read when the first n packets have. *)
Read(s, n) == Reader(FirstPackets(s, n), {}, 0)

(* The packer, after n packets: a page holds whole packets, so what is in  *)
(* the file reads as the first k of them, and with what is open as all n.  *)
Packed(e, s, n) ==
    /\ Len(e.open) <= MaxSegments
    /\ e.open = <<>> => e.lastGranule = e.granule
    /\ e.file # <<>> => Last(e.file).granule = e.lastGranule
    /\ e.file # <<>> /\ e.open = <<>> => Last(e.file).eos = e.eos
    /\ \E k \in 0..n : Demux(e.file) = Read(s, k)
    /\ Bytes!Fold(Demux(e.file), e.open) = Read(s, n)

(* Whatever page is flushed, then everything can be read. *)
LEMMA FlushedPacked ==
    ASSUME NEW e \in Encoder, NEW s, NEW n \in Nat, Packed(e, s, n)
    PROVE  LET x == FlushPage(e)
           IN  /\ x \in Encoder /\ SameSound(x, e) /\ Packed(x, s, n)
               /\ x.open = <<>> /\ x.granule = e.granule /\ x.eos = e.eos
               /\ x.lastGranule = e.granule /\ Demux(x.file) = Read(s, n)
               /\ (e.file # <<>> \/ e.open # <<>>) => x.file # <<>>
<1> DEFINE x == FlushPage(e)
           page == PageOf(e)
<1>1. /\ x \in Encoder /\ SameSound(x, e) /\ x.open = <<>> /\ x.granule = e.granule
      /\ x.eos = e.eos
      /\ e.open = <<>> => x = e
      /\ e.open # <<>> => /\ x.file = Append(e.file, page) /\ x.lastGranule = e.granule
                          /\ page \in Page
  BY FlushedFields DEF Packed
<1>2. /\ page.granule = e.granule /\ page.eos = e.eos /\ page.count = Len(page.segments)
      /\ page.segments = e.open
  BY DEF PageOf
<1>3. e.file \in Seq(Page)
  BY EncoderFields
<1> HIDE DEF x, page
<1>4. \A r : Bytes!Fold(r, <<>>) = r
  BY Bytes!FoldEmpty
<1>5. MaxSegments \in Nat /\ Len(<<>>) = 0 /\ n \in 0..n
  BY OggOpusAssumption DEF OggOpusAssumption
<1>6. CASE e.open = <<>>
  <2>1. x = e
    BY <1>1, <1>6
  <2>2. Demux(e.file) = Read(s, n) /\ e.lastGranule = e.granule
    BY <1>4, <1>6 DEF Packed
  <2> QED
    BY <1>1, <1>6, <2>1, <2>2 DEF x
<1>7. CASE e.open # <<>>
  <2>1. x.file = Append(e.file, page) /\ x.lastGranule = e.granule /\ page \in Page
    BY <1>1, <1>7
  <2>2. Last(x.file) = page /\ x.file # <<>>
    BY <1>3, <2>1 DEF Last
  <2>3. Demux(x.file) = Read(s, n)
    <3>1. Demux(Append(e.file, page)) = Bytes!Fold(Demux(e.file), page.segments)
      BY <1>2, <1>3, <2>1, DemuxPage
    <3> QED
      BY <1>2, <2>1, <3>1 DEF Packed
  <2>4. Packed(x, s, n)
    <3>1. Len(x.open) <= MaxSegments /\ x.lastGranule = x.granule
      BY <1>1, <1>5, <2>1
    <3>2. Last(x.file).granule = x.lastGranule /\ Last(x.file).eos = x.eos
      BY <1>1, <1>2, <2>1, <2>2
    <3>3. Bytes!Fold(Demux(x.file), x.open) = Read(s, n)
      BY <1>1, <1>4, <2>3
    <3> QED
      BY <1>5, <2>3, <3>1, <3>2, <3>3 DEF Packed
  <2> QED
    BY <1>1, <2>1, <2>2, <2>3, <2>4 DEF x
<1> QED
  BY <1>6, <1>7

(* The sizes of packets, and the packets one more at a time. *)
LEMMA PacketSizes ==
    ASSUME NEW s \in [1..Period -> Sizes], NEW n \in Nat
    PROVE  /\ PacketSize(s, n) \in Nat \ {0}
           /\ PacketSize(s, n) \div Lacing < MaxSegments
<1>1. /\ Sizes \subseteq Nat \ {0} /\ Period \in Nat \ {0}
      /\ HeadSize \in Nat \ {0} /\ TagsSize \in Nat \ {0}
      /\ \A b \in Sizes \cup {HeadSize, TagsSize} : b \div Lacing < MaxSegments
  BY OggOpusAssumption, VoiceRecorderAssumption
     DEF OggOpusAssumption, VoiceRecorderAssumption
<1>2. n % Period \in Nat /\ n % Period < Period
  BY <1>1, Division
<1>3. (n % Period) + 1 \in 1..Period
  BY <1>1, <1>2
<1>4. s[(n % Period) + 1] \in Sizes
  BY <1>3
<1>5. PacketSize(s, n) \in Sizes \cup {HeadSize, TagsSize}
  BY <1>4 DEF PacketSize
<1> QED
  BY <1>1, <1>5

LEMMA OneMorePacket ==
    ASSUME NEW s, NEW n \in Nat
    PROVE  /\ Append(FirstPackets(s, n), Packet(s, n + 1)) = FirstPackets(s, n + 1)
           /\ FirstPackets(s, 0) = <<>>
<1> DEFINE a == Append(FirstPackets(s, n), Packet(s, n + 1))
           b == FirstPackets(s, n + 1)
           All == {Packet(s, i) : i \in 1..(n + 1)}
<1>1. \A i \in 1..(n + 1) : Packet(s, i) \in All
  OBVIOUS
<1> HIDE DEF All
<1>2. FirstPackets(s, n) \in Seq(All) /\ b \in Seq(All)
  BY <1>1 DEF FirstPackets
<1>3. Len(FirstPackets(s, n)) = n /\ Len(b) = n + 1
  BY DEF FirstPackets
<1>4. a \in Seq(All) /\ Len(a) = n + 1
  BY <1>1, <1>2, <1>3
<1>5. \A i \in 1..(n + 1) : a[i] = b[i]
  BY <1>1, <1>2, <1>3 DEF FirstPackets
<1>6. a = b
  <2> HIDE DEF a, b
  <2> QED
    BY <1>2, <1>3, <1>4, <1>5
<1>7. FirstPackets(s, 0) = <<>>
  BY DEF FirstPackets
<1> QED
  BY <1>6, <1>7

(* A packet that is committed. *)
LEMMA CommitPacked ==
    ASSUME NEW e \in Encoder, NEW s \in [1..Period -> Sizes], NEW n \in Nat, Packed(e, s, n),
           NEW g \in Nat, NEW eos \in BOOLEAN
    PROVE  LET x == CommitPacket(e, n + 1, PacketSize(s, n + 1), g, eos)
           IN  /\ x \in Encoder /\ SameSound(x, e) /\ Packed(x, s, n + 1)
               /\ x.granule = g /\ x.eos = eos
               /\ x.lastGranule \in {e.lastGranule, e.granule, g}
               /\ g - x.lastGranule < MuxingDelay
               /\ e.file # <<>> => x.file # <<>>
               /\ x.file # <<>> \/ x.open # <<>>
<1> DEFINE b == PacketSize(s, n + 1)
           segments == Segments(n + 1, b)
           ready == IF Room(e, segments, g) THEN e ELSE FlushPage(e)
           o == ready.open \o segments
           y == Queued(ready, o, g, eos)
           x == CommitPacket(e, n + 1, b, g, eos)
<1>1. /\ MaxSegments \in Nat \ {0} /\ Lacing \in Nat \ {0} /\ MuxingDelay \in Nat \ {0}
      /\ n + 1 \in Nat
  BY OggOpusAssumption DEF OggOpusAssumption
<1>2. b \in Nat \ {0} /\ b \div Lacing < MaxSegments /\ b \div Lacing \in Nat
  BY <1>1, PacketSizes, Division
<1> HIDE DEF b
<1>3. /\ segments \in Seq(Segment) /\ Len(segments) \in Nat /\ Len(segments) <= MaxSegments
      /\ Len(segments) > 0
  <2>1. segments \in Seq(Segment) /\ Len(segments) = b \div Lacing + 1
    BY <1>1, <1>2, SegmentsOf
  <2> HIDE DEF segments
  <2> QED
    BY <1>1, <1>2, <2>1
<1>4. Bytes!Fold(Read(s, n), segments) = Read(s, n + 1)
  <2>1. Bytes!Fold(Reader(FirstPackets(s, n), {}, 0), segments)
          = Reader(Append(FirstPackets(s, n), [of |-> {n + 1}, size |-> b]), {}, 0)
    BY <1>1, <1>2, ReadPacket
  <2>2. [of |-> {n + 1}, size |-> b] = Packet(s, n + 1)
    BY DEF Packet, b
  <2> QED
    BY <2>1, <2>2, OneMorePacket DEF Read
<1>5. x = FlushDue(y)
  BY DEF CommitPacket, Queued
<1> HIDE DEF segments, x
<1>6. /\ ready \in Encoder /\ SameSound(ready, e) /\ Packed(ready, s, n)
      /\ ready.lastGranule \in {e.lastGranule, e.granule}
      /\ Len(ready.open) + Len(segments) <= MaxSegments
      /\ e.file # <<>> => ready.file # <<>>
  <2>1. CASE Room(e, segments, g)
    <3>1. ready = e
      BY <2>1
    <3> HIDE DEF ready
    <3> QED
      BY <2>1, <3>1 DEF Room, SameSound
  <2>2. CASE ~Room(e, segments, g)
    <3>1. ready = FlushPage(e)
      BY <2>2
    <3> HIDE DEF ready
    <3>2. Len(<<>>) = 0
      OBVIOUS
    <3> QED
      BY <1>1, <1>3, <3>1, <3>2, FlushedPacked
  <2> QED
    BY <2>1, <2>2
<1> HIDE DEF ready
<1>7. /\ ready.open \in Seq(Segment) /\ Len(ready.open) \in Nat
      /\ ready.lastGranule \in Nat
  BY <1>6, EncoderFields
<1>8. /\ o \in Seq(Segment) /\ Len(o) <= MaxSegments /\ o # <<>>
  BY <1>3, <1>6, <1>7
<1>9. /\ Bytes!Fold(Demux(ready.file), o) = Read(s, n + 1)
  <2>1. Bytes!Fold(Demux(ready.file), o)
          = Bytes!Fold(Bytes!Fold(Demux(ready.file), ready.open), segments)
    BY <1>3, <1>7, Bytes!FoldConcat
  <2> QED
    BY <1>4, <1>6, <2>1 DEF Packed
<1> HIDE DEF o
<1>10. /\ y \in Encoder /\ SameSound(y, ready) /\ y.open = o /\ y.granule = g
       /\ y.lastGranule = ready.lastGranule /\ y.eos = eos /\ y.file = ready.file
  BY <1>6, <1>8, QueuedFields
<1> HIDE DEF y
<1>11. Packed(y, s, n + 1)
  <2>1. \E k \in 0..(n + 1) : Demux(y.file) = Read(s, k)
    <3>1. PICK k \in 0..n : Demux(ready.file) = Read(s, k)
      BY <1>6 DEF Packed
    <3>2. k \in 0..(n + 1)
      OBVIOUS
    <3> QED
      BY <1>10, <3>1, <3>2
  <2>2. y.file # <<>> => Last(y.file).granule = y.lastGranule
    BY <1>6, <1>10 DEF Packed
  <2>3. Len(y.open) <= MaxSegments /\ y.open # <<>>
    BY <1>8, <1>10
  <2>4. Bytes!Fold(Demux(y.file), y.open) = Read(s, n + 1)
    BY <1>9, <1>10
  <2> QED
    BY <2>1, <2>2, <2>3, <2>4 DEF Packed
<1>12. CASE y.granule - y.lastGranule >= MuxingDelay
  <2>1. x = FlushPage(y)
    BY <1>5, <1>12 DEF FlushDue
  <2>2. /\ x \in Encoder /\ SameSound(x, y) /\ Packed(x, s, n + 1)
        /\ x.granule = y.granule /\ x.eos = y.eos /\ x.lastGranule = y.granule
        /\ x.file # <<>>
    BY <1>1, <1>8, <1>10, <1>11, <2>1, FlushedPacked
  <2>3. g - g < MuxingDelay
    BY <1>1
  <2>4. SameSound(x, e)
    BY <1>6, <1>10, <2>2 DEF SameSound
  <2> QED
    BY <1>10, <2>2, <2>3, <2>4 DEF x, b
<1>13. CASE ~(y.granule - y.lastGranule >= MuxingDelay)
  <2>1. x = y
    BY <1>5, <1>13 DEF FlushDue
  <2>2. g - y.lastGranule < MuxingDelay
    BY <1>1, <1>7, <1>10, <1>13
  <2>3. SameSound(x, e)
    BY <1>6, <1>10, <2>1 DEF SameSound
  <2> QED
    BY <1>6, <1>8, <1>10, <1>11, <2>1, <2>2, <2>3 DEF x, b
<1> QED
  BY <1>12, <1>13

LEMMA PackedSame ==
    ASSUME NEW e, NEW x, NEW s, NEW n, SamePages(x, e), Packed(e, s, n)
    PROVE  Packed(x, s, n)
  BY DEF SamePages, Packed

(* The packer's part of what a stream is begun with. *)
Begun(e) == [e EXCEPT !.init = TRUE, !.packets = 2]

LEMMA BegunFields ==
    ASSUME NEW e \in Encoder
    PROVE  /\ Begun(e) \in Encoder /\ SamePages(Begun(e), e)
           /\ Begun(e).init /\ Begun(e).packets = 2
           /\ Begun(e).end = e.end /\ Begun(e).written = e.written
           /\ Begun(e).resampled = e.resampled /\ Begun(e).start = e.start
           /\ Begun(e).stop = e.stop /\ Begun(e).curr = e.curr
           /\ Begun(e).draining = e.draining /\ Begun(e).done = e.done
  BY DEF Encoder, Begun, SamePages

LEMMA FreshFields ==
    ASSUME NEW memory \in Nat
    PROVE  /\ Fresh(memory) \in Encoder
           /\ \A s : Packed(Fresh(memory), s, 0)
<1>1. Fresh(memory) \in Encoder
  <2>1. <<>> \in Seq(Segment) /\ <<>> \in Seq(Page)
    OBVIOUS
  <2> QED
    BY <2>1 DEF Fresh, Encoder
<1>2. ASSUME NEW s
      PROVE  Packed(Fresh(memory), s, 0)
  <2>1. /\ Fresh(memory).open = <<>> /\ Fresh(memory).file = <<>>
        /\ Fresh(memory).granule = 0 /\ Fresh(memory).lastGranule = 0
    BY DEF Fresh
  <2>2. Demux(<<>>) = Read(s, 0)
    <3>1. FirstPackets(s, 0) = <<>>
      BY DEF FirstPackets
    <3> QED
      BY <3>1, DemuxEmpty DEF Read
  <2>3. Bytes!Fold(Demux(<<>>), <<>>) = Read(s, 0)
    BY <2>2, Bytes!FoldEmpty
  <2>4. MaxSegments \in Nat /\ Len(<<>>) = 0 /\ 0 \in 0..0
    BY OggOpusAssumption DEF OggOpusAssumption
  <2> QED
    BY <2>1, <2>2, <2>3, <2>4 DEF Packed
<1> QED
  BY <1>1, <1>2

(* The header packets. *)
LEMMA StreamInited ==
    ASSUME NEW e \in Encoder, NEW s \in [1..Period -> Sizes], ~e.init, Packed(e, s, 0)
    PROVE  LET x == InitStream(e)
           IN  /\ x \in Encoder /\ x.init /\ x.packets = 2 /\ Packed(x, s, 2)
               /\ x.granule = 0 /\ x.lastGranule = 0 /\ ~x.eos /\ x.file # <<>>
               /\ x.end = e.end /\ x.written = e.written /\ x.resampled = e.resampled
               /\ x.start = e.start /\ x.stop = e.stop /\ x.curr = e.curr
               /\ x.draining = e.draining /\ x.done = e.done
<1> DEFINE a == CommitPacket(e, 1, HeadSize, 0, FALSE)
           head == FlushPage(a)
           b == CommitPacket(head, 2, TagsSize, 0, FALSE)
           tags == FlushPage(b)
           x == InitStream(e)
<1>1. PacketSize(s, 0 + 1) = HeadSize /\ PacketSize(s, 1 + 1) = TagsSize
      /\ 0 + 1 = 1 /\ 1 + 1 = 2
  BY DEF PacketSize
<1>2. /\ a \in Encoder /\ SameSound(a, e) /\ Packed(a, s, 1)
      /\ a.granule = 0 /\ ~a.eos
      /\ a.file # <<>> \/ a.open # <<>>
  <2> DEFINE n == 0
             no == FALSE
             y == CommitPacket(e, n + 1, PacketSize(s, n + 1), n, no)
  <2>1. n \in Nat /\ no \in BOOLEAN /\ Packed(e, s, n)
    OBVIOUS
  <2> HIDE DEF n, no
  <2>2. /\ y \in Encoder /\ SameSound(y, e) /\ Packed(y, s, n + 1)
        /\ y.granule = n /\ y.eos = no
        /\ y.file # <<>> \/ y.open # <<>>
    BY <2>1, CommitPacked
  <2>3. y = a /\ n + 1 = 1 /\ n = 0 /\ ~no
    BY <1>1 DEF n, no, a
  <2> HIDE DEF y, a
  <2> QED
    BY <2>2, <2>3
<1> HIDE DEF a
<1>3. /\ head \in Encoder /\ SameSound(head, e) /\ Packed(head, s, 1) /\ head.file # <<>>
      /\ head.granule = 0 /\ head.lastGranule = 0 /\ ~head.eos
  <2>1. /\ head \in Encoder /\ SameSound(head, a) /\ Packed(head, s, 1)
        /\ head.granule = 0 /\ head.lastGranule = 0 /\ head.eos = a.eos
        /\ head.file # <<>>
    <3>1. 1 \in Nat
      OBVIOUS
    <3> QED
      BY <1>2, <3>1, FlushedPacked
  <2> HIDE DEF head
  <2> QED
    BY <1>2, <2>1 DEF SameSound
<1> HIDE DEF head
<1>4. /\ b \in Encoder /\ SameSound(b, e) /\ Packed(b, s, 2)
      /\ b.granule = 0 /\ ~b.eos /\ b.file # <<>>
  <2> DEFINE zero == 0
             n == 1
             no == FALSE
             y == CommitPacket(head, n + 1, PacketSize(s, n + 1), zero, no)
  <2>1. zero \in Nat /\ n \in Nat /\ no \in BOOLEAN /\ Packed(head, s, n)
    BY <1>3
  <2> HIDE DEF n, no, zero
  <2>2. /\ y \in Encoder /\ SameSound(y, head) /\ Packed(y, s, n + 1)
        /\ y.granule = zero /\ y.eos = no
        /\ head.file # <<>> => y.file # <<>>
    BY <1>3, <2>1, CommitPacked
  <2>3. y = b /\ n + 1 = 2 /\ zero = 0 /\ ~no
    BY <1>1 DEF n, no, zero, b
  <2> HIDE DEF y, b
  <2>4. /\ b \in Encoder /\ SameSound(b, head) /\ Packed(b, s, 2)
        /\ b.granule = 0 /\ ~b.eos /\ b.file # <<>>
    BY <1>3, <2>2, <2>3
  <2> QED
    BY <1>3, <2>4 DEF SameSound
<1> HIDE DEF b
<1>5. /\ tags \in Encoder /\ SameSound(tags, e) /\ Packed(tags, s, 2)
      /\ tags.granule = 0 /\ tags.lastGranule = 0 /\ ~tags.eos /\ tags.file # <<>>
  <2>1. /\ tags \in Encoder /\ SameSound(tags, b) /\ Packed(tags, s, 2)
        /\ tags.granule = 0 /\ tags.lastGranule = 0 /\ tags.eos = b.eos
        /\ tags.file # <<>>
    BY <1>4, FlushedPacked
  <2> QED
    BY <1>4, <2>1 DEF SameSound
<1>6. x = Begun(tags)
  BY DEF InitStream, Begun, tags, b, head, a
<1> HIDE DEF x, tags
<1>7. /\ x \in Encoder /\ SamePages(x, tags) /\ x.init /\ x.packets = 2
      /\ x.end = e.end /\ x.written = e.written /\ x.resampled = e.resampled
      /\ x.start = e.start /\ x.stop = e.stop /\ x.curr = e.curr
      /\ x.draining = e.draining /\ x.done = e.done
  BY <1>5, <1>6, BegunFields DEF SameSound
<1>8. Packed(x, s, 2)
  BY <1>5, <1>7, PackedSame
<1> QED
  BY <1>5, <1>7, <1>8 DEF SamePages, x

-----------------------------------------------------------------------------
(***************************************************************************)
(* Frames                                                                  *)
(***************************************************************************)
Coded(e, c, p, t, d) ==
    [e EXCEPT !.curr = c, !.packets = p, !.start = t, !.done = d]

LEMMA CodedFields ==
    ASSUME NEW e \in Encoder, NEW c \in Nat, NEW p \in Nat, NEW t \in Nat, NEW d \in BOOLEAN
    PROVE  /\ Coded(e, c, p, t, d) \in Encoder /\ SamePages(Coded(e, c, p, t, d), e)
           /\ Coded(e, c, p, t, d).init = e.init /\ Coded(e, c, p, t, d).end = e.end
           /\ Coded(e, c, p, t, d).written = e.written
           /\ Coded(e, c, p, t, d).resampled = e.resampled
           /\ Coded(e, c, p, t, d).stop = e.stop
           /\ Coded(e, c, p, t, d).draining = e.draining
           /\ Coded(e, c, p, t, d).curr = c /\ Coded(e, c, p, t, d).packets = p
           /\ Coded(e, c, p, t, d).start = t /\ Coded(e, c, p, t, d).done = d
  BY DEF Encoder, Coded, SamePages

(* What a frame does not touch. *)
SameInput(x, e) ==
    /\ x.init = e.init /\ x.end = e.end /\ x.written = e.written /\ x.resampled = e.resampled
    /\ x.stop = e.stop /\ x.draining = e.draining

IsLast(e) == e.curr + FrameSize >= EndGranule(e)

LEMMA EndTypes ==
    ASSUME NEW e \in Encoder
    PROVE  /\ EndGranule(e) \in Nat /\ FrameSize \in Nat \ {0} /\ MuxingDelay \in Nat \ {0}
           /\ e.curr \in Nat /\ e.curr + FrameSize \in Nat /\ IsLast(e) \in BOOLEAN
<1>1. Ratio \in Nat /\ Preskip \in Nat /\ FrameSize \in Nat \ {0} /\ MuxingDelay \in Nat \ {0}
  BY OggOpusAssumption DEF OggOpusAssumption
<1>2. e.end \in Nat /\ e.curr \in Nat
  BY EncoderFields
<1> QED
  BY <1>1, <1>2 DEF EndGranule, IsLast

(* A frame that is not the last, and the last one. *)
LEMMA FrameCoded ==
    ASSUME NEW e \in Encoder, NEW s \in [1..Period -> Sizes], ~e.done,
           Packed(e, s, e.packets)
    PROVE  LET x == EncodeFrame(e, PacketSize(s, e.packets + 1))
           IN  /\ x \in Encoder /\ SameInput(x, e)
               /\ x.curr = e.curr + FrameSize /\ x.start = e.start + FrameSize
               /\ x.packets = e.packets + 1 /\ x.done = IsLast(e)
               /\ Packed(x, s, x.packets)
               /\ e.file # <<>> => x.file # <<>>
               /\ ~IsLast(e) => /\ x.granule = x.curr /\ ~x.eos
                                /\ x.lastGranule \in {e.lastGranule, e.granule, x.granule}
                                /\ x.granule - x.lastGranule < MuxingDelay
               /\ IsLast(e) => /\ x.granule = EndGranule(e) /\ x.eos
                               /\ x.lastGranule = x.granule
                               /\ x.open = <<>> /\ x.file # <<>>
                               /\ Demux(x.file) = Read(s, x.packets)
<1> DEFINE n == e.packets
           bytes == PacketSize(s, n + 1)
           g == IF IsLast(e) THEN EndGranule(e) ELSE e.curr + FrameSize
           packed == CommitPacket(e, n + 1, bytes, g, IsLast(e))
           closed == IF IsLast(e) THEN FlushPage(packed) ELSE packed
           x == EncodeFrame(e, bytes)
<1>1. /\ EndGranule(e) \in Nat /\ e.curr + FrameSize \in Nat /\ IsLast(e) \in BOOLEAN
      /\ n \in Nat /\ e.start \in Nat /\ FrameSize \in Nat
  BY EndTypes, EncoderFields
<1>2. g \in Nat
  BY <1>1
<1>3. x = [closed EXCEPT !.curr = e.curr + FrameSize, !.packets = @ + 1,
                         !.start = @ + FrameSize, !.done = IsLast(e)]
  BY DEF EncodeFrame, IsLast
<1> HIDE DEF x
<1>4. /\ packed \in Encoder /\ SameSound(packed, e) /\ Packed(packed, s, n + 1)
      /\ packed.granule = g /\ packed.eos = IsLast(e)
      /\ packed.lastGranule \in {e.lastGranule, e.granule, g}
      /\ g - packed.lastGranule < MuxingDelay
      /\ e.file # <<>> => packed.file # <<>>
      /\ packed.file # <<>> \/ packed.open # <<>>
  <2> HIDE DEF g
  <2> QED
    BY <1>1, <1>2, CommitPacked
<1> HIDE DEF packed
<1>5. /\ closed \in Encoder /\ SameSound(closed, e) /\ Packed(closed, s, n + 1)
      /\ closed.granule = g /\ closed.eos = IsLast(e)
      /\ e.file # <<>> => closed.file # <<>>
      /\ ~IsLast(e) => /\ closed.lastGranule \in {e.lastGranule, e.granule, g}
                       /\ g - closed.lastGranule < MuxingDelay
      /\ IsLast(e) => /\ closed.lastGranule = g /\ closed.open = <<>> /\ closed.file # <<>>
                      /\ Demux(closed.file) = Read(s, n + 1)
  <2>1. CASE ~IsLast(e)
    <3>1. closed = packed
      BY <2>1
    <3> HIDE DEF closed, g
    <3> QED
      BY <1>4, <2>1, <3>1
  <2>2. CASE IsLast(e)
    <3>1. closed = FlushPage(packed)
      BY <2>2
    <3> HIDE DEF closed, g
    <3>2. n + 1 \in Nat
      BY <1>1
    <3>3. /\ closed \in Encoder /\ SameSound(closed, packed) /\ Packed(closed, s, n + 1)
          /\ closed.granule = g /\ closed.eos = packed.eos
          /\ closed.lastGranule = g /\ closed.open = <<>> /\ closed.file # <<>>
          /\ Demux(closed.file) = Read(s, n + 1)
      BY <1>4, <3>1, <3>2, FlushedPacked
    <3>4. SameSound(closed, e)
      BY <1>4, <3>3 DEF SameSound
    <3> QED
      BY <1>4, <2>2, <3>3, <3>4
  <2> QED
    BY <2>1, <2>2
<1> HIDE DEF closed
<1>6. closed.packets = n /\ closed.start = e.start
  BY <1>5 DEF SameSound
<1> DEFINE c == e.curr + FrameSize
           p == n + 1
           t == e.start + FrameSize
           d == IsLast(e)
<1>7. x = Coded(closed, c, p, t, d)
  BY <1>3, <1>6 DEF Coded
<1>8. c \in Nat /\ p \in Nat /\ t \in Nat /\ d \in BOOLEAN
  BY <1>1
<1> HIDE DEF c, p, t, d
<1>9. /\ x \in Encoder /\ SamePages(x, closed)
      /\ x.init = closed.init /\ x.end = closed.end /\ x.written = closed.written
      /\ x.resampled = closed.resampled /\ x.stop = closed.stop
      /\ x.draining = closed.draining
      /\ x.curr = c /\ x.packets = p /\ x.start = t /\ x.done = d
  <2>1. closed \in Encoder
    BY <1>5
  <2> DEFINE y == Coded(closed, c, p, t, d)
  <2>2. /\ y \in Encoder /\ SamePages(y, closed)
        /\ y.init = closed.init /\ y.end = closed.end /\ y.written = closed.written
        /\ y.resampled = closed.resampled /\ y.stop = closed.stop
        /\ y.draining = closed.draining
        /\ y.curr = c /\ y.packets = p /\ y.start = t /\ y.done = d
    BY <1>8, <2>1, CodedFields
  <2> HIDE DEF y
  <2>3. x = y
    BY <1>7 DEF y
  <2> QED
    BY <2>2, <2>3
<1>10. SameInput(x, e)
  BY <1>5, <1>9 DEF SameInput, SameSound
<1>11. Packed(x, s, x.packets)
  BY <1>5, <1>9, PackedSame DEF p
<1>12. /\ x.granule = g /\ x.eos = IsLast(e) /\ x.lastGranule = closed.lastGranule
       /\ x.open = closed.open /\ x.file = closed.file
  BY <1>5, <1>9 DEF SamePages
<1>13. CASE IsLast(e)
  <2>1. g = EndGranule(e)
    BY <1>13
  <2> HIDE DEF g
  <2> QED
    BY <1>5, <1>9, <1>10, <1>11, <1>12, <1>13, <2>1 DEF x, c, p, t, d
<1>14. CASE ~IsLast(e)
  <2>1. g = c
    BY <1>14 DEF c
  <2> HIDE DEF g
  <2> QED
    BY <1>5, <1>9, <1>10, <1>11, <1>12, <1>14, <2>1 DEF x, c, p, t, d
<1> QED
  BY <1>13, <1>14

(* An encoder between two frames: positions are multiples of a frame, and  *)
(* a page is never open for longer than the muxing delay.                  *)
Cadence(e) ==
    /\ e.granule = e.curr
    /\ \E k \in Nat : e.curr = FrameSize * k
    /\ \E k \in Nat : e.lastGranule = FrameSize * k
    /\ e.curr - e.lastGranule < MuxingDelay

Running(e, s) ==
    /\ e.init /\ ~e.done /\ ~e.eos /\ e.packets >= 2
    /\ Packed(e, s, e.packets) /\ e.file # <<>>
    /\ Cadence(e)

(* An encoder that coded the last frame. *)
Ended(e, s) ==
    /\ e.done
    /\ Demux(e.file) = Read(s, e.packets) /\ e.file # <<>>
    /\ Last(e.file).eos /\ Last(e.file).granule = EndGranule(e)

(* The last page is behind by no more than the muxing delay. *)
LEMMA CadenceBounds ==
    ASSUME NEW e \in Encoder, Cadence(e)
    PROVE  e.curr + FrameSize <= e.lastGranule + MuxingDelay
<1>1. /\ FrameSize \in Nat \ {0} /\ MuxingDelay \in Nat /\ MuxingDelay % FrameSize = 0
  BY OggOpusAssumption DEF OggOpusAssumption
<1> DEFINE m == MuxingDelay \div FrameSize
<1>2. m \in Nat /\ MuxingDelay = FrameSize * m
  BY <1>1, Division
<1>3. PICK a \in Nat : e.curr = FrameSize * a
  BY DEF Cadence
<1>4. PICK b \in Nat : e.lastGranule = FrameSize * b
  BY DEF Cadence
<1> HIDE DEF m
<1>5. FrameSize * (b + m) = FrameSize * b + FrameSize * m
  BY <1>1, <1>2
<1> DEFINE c == b + m
<1>6. /\ c \in Int /\ a \in Int /\ FrameSize * a < FrameSize * c
      /\ FrameSize * c = e.lastGranule + MuxingDelay
  <2>1. e.curr - e.lastGranule < MuxingDelay /\ e.curr \in Nat /\ e.lastGranule \in Nat
    BY EncoderFields DEF Cadence
  <2> QED
    BY <1>1, <1>2, <1>3, <1>4, <1>5, <2>1
<1> HIDE DEF c
<1>7. FrameSize * a + FrameSize <= FrameSize * c
  BY <1>1, <1>6, NextMultiple
<1> QED
  BY <1>3, <1>6, <1>7

LEMMA RunningFrame ==
    ASSUME NEW e \in Encoder, NEW s \in [1..Period -> Sizes], Running(e, s)
    PROVE  LET x == EncodeFrame(e, PacketSize(s, e.packets + 1))
           IN  /\ x \in Encoder /\ SameInput(x, e)
               /\ ~IsLast(e) => /\ Running(x, s) /\ x.curr = e.curr + FrameSize
                                /\ x.start = e.start + FrameSize
                                /\ x.packets = e.packets + 1
               /\ IsLast(e) => Ended(x, s)
<1> DEFINE x == EncodeFrame(e, PacketSize(s, e.packets + 1))
<1>1. /\ x \in Encoder /\ SameInput(x, e)
      /\ x.curr = e.curr + FrameSize /\ x.start = e.start + FrameSize
      /\ x.packets = e.packets + 1 /\ x.done = IsLast(e)
      /\ Packed(x, s, x.packets)
      /\ x.file # <<>>
      /\ ~IsLast(e) => /\ x.granule = x.curr /\ ~x.eos
                       /\ x.lastGranule \in {e.lastGranule, e.granule, x.granule}
                       /\ x.granule - x.lastGranule < MuxingDelay
      /\ IsLast(e) => /\ x.granule = EndGranule(e) /\ x.eos
                      /\ x.lastGranule = x.granule
                      /\ x.open = <<>> /\ Demux(x.file) = Read(s, x.packets)
  BY FrameCoded DEF Running
<1> HIDE DEF x
<1>2. /\ e.curr \in Nat /\ e.packets \in Nat /\ e.packets >= 2 /\ FrameSize \in Nat
      /\ e.granule = e.curr
  BY EncoderFields, EndTypes DEF Running, Cadence
<1>3. CASE IsLast(e)
  <2>1. EndGranule(x) = EndGranule(e)
    BY <1>1 DEF SameInput, EndGranule
  <2>2. Last(x.file).eos = x.eos /\ Last(x.file).granule = x.lastGranule
    BY <1>1, <1>3 DEF Packed
  <2>3. Ended(x, s)
    BY <1>1, <1>3, <2>1, <2>2 DEF Ended
  <2> QED
    BY <1>1, <1>3, <2>3 DEF x
<1>4. CASE ~IsLast(e)
  <2>1. PICK a \in Nat : e.curr = FrameSize * a
    BY DEF Running, Cadence
  <2>2. PICK b \in Nat : e.lastGranule = FrameSize * b
    BY DEF Running, Cadence
  <2>3. x.curr = FrameSize * (a + 1) /\ a + 1 \in Nat
    BY <1>1, <1>2, <2>1, OneMoreTime
  <2>4. \E k \in Nat : x.curr = FrameSize * k
    BY <2>3
  <2>5. \E k \in Nat : x.lastGranule = FrameSize * k
    <3>1. x.lastGranule \in {e.lastGranule, e.curr, x.curr}
      BY <1>1, <1>2, <1>4
    <3> QED
      BY <2>1, <2>2, <2>4, <3>1
  <2>6. Cadence(x)
    BY <1>1, <1>4, <2>4, <2>5 DEF Cadence
  <2>7. x.init = e.init /\ ~x.done /\ ~x.eos
    BY <1>1, <1>4 DEF SameInput
  <2>8. x.packets >= 2
    BY <1>1, <1>2
  <2>9. Running(x, s)
    BY <1>1, <2>6, <2>7, <2>8 DEF Running
  <2> QED
    BY <1>1, <1>4, <2>9 DEF x
<1> QED
  BY <1>3, <1>4

(* The loop after i frames. *)
Loop(x, e, s, i) ==
    /\ x \in Encoder /\ SameInput(x, e)
    /\ \/ /\ Running(x, s)
          /\ x.curr = e.curr + FrameSize * i /\ x.start = e.start + FrameSize * i
          /\ x.packets = e.packets + i
          /\ i > 0 => x.curr < EndGranule(e)
       \/ /\ Ended(x, s)
          /\ e.curr + FrameSize * i >= EndGranule(e)

LEMMA LoopStep ==
    ASSUME NEW e \in Encoder, NEW s \in [1..Period -> Sizes], NEW i \in Nat, NEW x,
           Loop(x, e, s, i)
    PROVE  Loop(EncodeFrame(x, PacketSize(s, e.packets + (i + 1))), e, s, i + 1)
<1>1. /\ FrameSize \in Nat /\ FrameSize * i \in Nat
      /\ FrameSize * (i + 1) = FrameSize * i + FrameSize
  BY EndTypes, OneMoreTime
<1>2. e.curr \in Nat /\ e.start \in Nat /\ e.packets \in Nat /\ EndGranule(e) \in Nat
  BY EncoderFields, EndTypes
<1>3. x \in Encoder /\ SameInput(x, e)
  BY DEF Loop
<1>4. CASE Ended(x, s) /\ e.curr + FrameSize * i >= EndGranule(e)
  <2>1. \A b : EncodeFrame(x, b) = x
    BY <1>4 DEF EncodeFrame, Ended
  <2>2. e.curr + FrameSize * (i + 1) >= EndGranule(e)
    BY <1>1, <1>2, <1>4
  <2> QED
    BY <1>3, <1>4, <2>1, <2>2 DEF Loop
<1>5. CASE /\ Running(x, s) /\ x.packets = e.packets + i
           /\ x.curr = e.curr + FrameSize * i /\ x.start = e.start + FrameSize * i
  <2> DEFINE y == EncodeFrame(x, PacketSize(s, x.packets + 1))
  <2>1. /\ y \in Encoder /\ SameInput(y, x)
        /\ ~IsLast(x) => /\ Running(y, s) /\ y.curr = x.curr + FrameSize
                         /\ y.start = x.start + FrameSize
                         /\ y.packets = x.packets + 1
        /\ IsLast(x) => Ended(y, s)
    BY <1>3, <1>5, RunningFrame
  <2>2. x.packets + 1 = e.packets + (i + 1)
    BY <1>2, <1>5
  <2>3. y = EncodeFrame(x, PacketSize(s, e.packets + (i + 1)))
    BY <2>2
  <2> HIDE DEF y
  <2>4. SameInput(y, e) /\ EndGranule(x) = EndGranule(e)
    BY <1>3, <2>1 DEF SameInput, EndGranule
  <2>5. e.curr + FrameSize * (i + 1) = x.curr + FrameSize
        /\ e.start + FrameSize * (i + 1) = x.start + FrameSize
    BY <1>1, <1>2, <1>5
  <2>6. CASE IsLast(x)
    <3>1. e.curr + FrameSize * (i + 1) >= EndGranule(e)
      BY <2>4, <2>5, <2>6 DEF IsLast
    <3> QED
      BY <2>1, <2>3, <2>4, <2>6, <3>1 DEF Loop
  <2>7. CASE ~IsLast(x)
    <3>1. y.curr < EndGranule(e)
      <4>1. ~(x.curr + FrameSize >= EndGranule(e))
        BY <2>4, <2>7 DEF IsLast
      <4>2. x.curr + FrameSize \in Nat
        BY <1>3, EndTypes
      <4> QED
        BY <1>2, <2>1, <2>7, <4>1, <4>2
    <3> QED
      BY <2>1, <2>2, <2>3, <2>4, <2>5, <2>7, <3>1 DEF Loop
  <2> QED
    BY <2>6, <2>7
<1> QED
  BY <1>4, <1>5 DEF Loop

(* The frames the loop takes, by the samples that are more than is kept. *)
Keep(e) == FrameSize + (IF e.draining THEN 0 ELSE DecisionDelay)

LEMMA FramesTaken ==
    ASSUME NEW e \in Encoder
    PROVE  /\ FramesReady(e) \in Nat
           /\ e.stop - e.start <= Keep(e) => FramesReady(e) = 0
           /\ e.stop - e.start > Keep(e) =>
                 /\ FramesReady(e) > 0
                 /\ FrameSize * FramesReady(e) >= e.stop - e.start - Keep(e)
                 /\ FrameSize * FramesReady(e) < e.stop - e.start - Keep(e) + FrameSize
           /\ Keep(e) \in Nat
<1> DEFINE more == e.stop - e.start - Keep(e)
<1>1. FrameSize \in Nat \ {0} /\ DecisionDelay \in Nat /\ e.stop \in Nat /\ e.start \in Nat
  BY EncoderFields, OggOpusAssumption DEF OggOpusAssumption
<1>2. Keep(e) \in Nat
  BY <1>1 DEF Keep
<1>3. more \in Int /\ (more <= 0 <=> e.stop - e.start <= Keep(e))
  BY <1>1, <1>2
<1>4. FramesReady(e) = IF more <= 0 THEN 0 ELSE (more + FrameSize - 1) \div FrameSize
  BY DEF FramesReady, Keep
<1>5. CASE more <= 0
  BY <1>1, <1>2, <1>3, <1>4, <1>5
<1>6. CASE more > 0
  <2> DEFINE a == more + FrameSize - 1
             q == a \div FrameSize
             r == a % FrameSize
  <2> HIDE DEF more
  <2>1. a \in Nat /\ a >= FrameSize
    BY <1>1, <1>3, <1>6
  <2>2. q \in Nat /\ r \in Nat /\ r < FrameSize /\ a = FrameSize * q + r
    <3> HIDE DEF a
    <3> QED
      BY <1>1, <2>1, Division
  <2> HIDE DEF q, r
  <2>3. FrameSize * q \in Nat /\ FrameSize * q >= more /\ FrameSize * q < more + FrameSize
    BY <1>1, <1>3, <2>1, <2>2
  <2>4. q > 0
    <3>1. FrameSize * 0 = 0
      BY <1>1
    <3>2. q # 0
      BY <1>1, <1>3, <1>6, <2>3, <3>1
    <3> QED
      BY <2>2, <3>2
  <2>5. FramesReady(e) = q
    BY <1>3, <1>4, <1>6 DEF q
  <2> QED
    BY <1>1, <1>2, <1>3, <1>6, <2>2, <2>3, <2>4, <2>5 DEF more
<1> QED
  BY <1>3, <1>5, <1>6

(* The sizes the codec gives the frames of one call. *)
NextSizes(e, s) ==
    [i \in 1..FramesReady(e) |-> s[((e.packets + i) % Len(s)) + 1]]

LEMMA NextSizesAre ==
    ASSUME NEW e \in Encoder, NEW s \in [1..Period -> Sizes], e.packets >= 2
    PROVE  /\ NextSizes(e, s) \in Seq(Sizes)
           /\ Len(NextSizes(e, s)) = FramesReady(e)
           /\ \A i \in 1..FramesReady(e) :
                 NextSizes(e, s)[i] = PacketSize(s, e.packets + i)
<1>1. e.packets \in Nat /\ FramesReady(e) \in Nat /\ Period \in Nat \ {0}
  BY EncoderFields, FramesTaken, VoiceRecorderAssumption DEF VoiceRecorderAssumption
<1>2. Len(s) = Period
  BY <1>1
<1>3. ASSUME NEW i \in 1..FramesReady(e)
      PROVE  /\ s[((e.packets + i) % Len(s)) + 1] \in Sizes
             /\ s[((e.packets + i) % Len(s)) + 1] = PacketSize(s, e.packets + i)
  <2> DEFINE p == e.packets + i
  <2>1. p \in Nat /\ p >= 3
    BY <1>1
  <2> HIDE DEF p
  <2>2. p % Period \in Nat /\ p % Period < Period
    BY <1>1, <2>1, Division
  <2>3. (p % Period) + 1 \in 1..Period
    BY <1>1, <2>2
  <2>4. s[(p % Period) + 1] \in Sizes
    BY <2>3
  <2>5. PacketSize(s, p) = s[(p % Period) + 1]
    BY <2>1 DEF PacketSize
  <2> QED
    BY <1>2, <2>4, <2>5 DEF p
<1> DEFINE n == FramesReady(e)
           t(i) == s[((e.packets + i) % Len(s)) + 1]
<1>4. NextSizes(e, s) = [i \in 1..n |-> t(i)]
  BY DEF NextSizes
<1>5. n \in Nat /\ \A i \in 1..n : t(i) \in Sizes /\ t(i) = PacketSize(s, e.packets + i)
  BY <1>1, <1>3
<1> HIDE DEF n, t
<1> QED
  BY <1>4, <1>5 DEF n

(* All the frames of one call. *)
LEMMA LoopDone ==
    ASSUME NEW e \in Encoder, NEW s \in [1..Period -> Sizes], Running(e, s)
    PROVE  /\ Loop(FoldLeft(EncodeFrame, e, NextSizes(e, s)), e, s, FramesReady(e))
           /\ FramesReady(e) = 0 => FoldLeft(EncodeFrame, e, NextSizes(e, s)) = e
<1> DEFINE sizes == NextSizes(e, s)
           n == FramesReady(e)
<1>1. /\ n \in Nat /\ sizes \in Seq(Sizes) /\ Len(sizes) = n
      /\ \A i \in 1..n : sizes[i] = PacketSize(s, e.packets + i)
  BY FramesTaken, NextSizesAre DEF Running
<1> HIDE DEF sizes, n
<1>2. PICK f : Frames!Steps(f, e, sizes) /\ Frames!Fold(e, sizes) = f[n]
  BY <1>1, Frames!FoldSteps
<1>3. f[0] = e /\ \A i \in 1..n : f[i] = EncodeFrame(f[i - 1], sizes[i])
  BY <1>1, <1>2 DEF Frames!Steps
<1> DEFINE J == {i \in Nat : Loop(f[i], e, s, i)}
<1>4. 0 \in J
  <2>1. /\ e.curr + FrameSize * 0 = e.curr /\ e.start + FrameSize * 0 = e.start
        /\ e.packets + 0 = e.packets
    BY EncoderFields, EndTypes
  <2>2. SameInput(e, e)
    BY DEF SameInput
  <2>3. Loop(e, e, s, 0)
    BY <2>1, <2>2 DEF Loop
  <2> QED
    BY <1>3, <2>3
<1>5. ASSUME NEW i \in 0..(n - 1), i \in J
      PROVE  i + 1 \in J
  <2>1. i \in Nat /\ i + 1 \in 1..n /\ (i + 1) - 1 = i /\ i + 1 \in Nat
    BY <1>1
  <2>2. f[i + 1] = EncodeFrame(f[i], PacketSize(s, e.packets + (i + 1)))
    BY <1>1, <1>3, <2>1
  <2>3. Loop(f[i], e, s, i)
    BY <1>5
  <2> DEFINE x == f[i]
  <2> HIDE DEF x
  <2>4. Loop(EncodeFrame(x, PacketSize(s, e.packets + (i + 1))), e, s, i + 1)
    BY <2>1, <2>3, LoopStep DEF x
  <2> QED
    BY <2>1, <2>2, <2>4 DEF x
<1> HIDE DEF J
<1>6. \A i \in 0..n : i \in J
  BY <1>1, <1>4, <1>5, Frames!UpTo
<1>7. Loop(f[n], e, s, n)
  <2>1. n \in J
    BY <1>1, <1>6
  <2> QED
    BY <2>1 DEF J
<1>8. FoldLeft(EncodeFrame, e, sizes) = f[n]
  BY <1>2, FoldsAre
<1> QED
  BY <1>3, <1>7, <1>8 DEF sizes, n

-----------------------------------------------------------------------------
(***************************************************************************)
(* The buffer                                                              *)
(***************************************************************************)
Moved(e, t, u) == [e EXCEPT !.stop = u, !.start = t]

LEMMA MovedFields ==
    ASSUME NEW e \in Encoder, NEW t \in Nat, NEW u \in Nat
    PROVE  /\ Moved(e, t, u) \in Encoder /\ SamePages(Moved(e, t, u), e)
           /\ Moved(e, t, u).init = e.init /\ Moved(e, t, u).end = e.end
           /\ Moved(e, t, u).written = e.written
           /\ Moved(e, t, u).resampled = e.resampled
           /\ Moved(e, t, u).curr = e.curr /\ Moved(e, t, u).packets = e.packets
           /\ Moved(e, t, u).draining = e.draining /\ Moved(e, t, u).done = e.done
           /\ Moved(e, t, u).start = t /\ Moved(e, t, u).stop = u
  BY DEF Encoder, Moved, SamePages

(* What a shift and a fill of the buffer do not touch. *)
SameStream(x, e) ==
    /\ SamePages(x, e)
    /\ x.init = e.init /\ x.end = e.end /\ x.written = e.written
    /\ x.resampled = e.resampled /\ x.curr = e.curr /\ x.packets = e.packets
    /\ x.draining = e.draining /\ x.done = e.done

LEMMA SameStreamRuns ==
    ASSUME NEW e, NEW x, NEW s, SameStream(x, e)
    PROVE  (Running(e, s) => Running(x, s)) /\ (Ended(e, s) => Ended(x, s))
<1>1. \A n : Packed(e, s, n) => Packed(x, s, n)
  BY PackedSame DEF SameStream
<1>2. Cadence(e) => Cadence(x)
  BY DEF Cadence, SameStream, SamePages
<1>3. EndGranule(x) = EndGranule(e) /\ x.file = e.file /\ x.eos = e.eos
  BY DEF SameStream, SamePages, EndGranule
<1> QED
  BY <1>1, <1>2, <1>3 DEF Running, Ended, SameStream

LEMMA Shifts ==
    ASSUME NEW e \in Encoder, e.start <= e.stop
    PROVE  LET x == ShiftBuffer(e)
           IN  /\ x \in Encoder /\ SameStream(x, e)
               /\ x.start <= LpcInput /\ x.stop - x.start = e.stop - e.start
               /\ x.start <= x.stop
<1>1. e.start \in Nat /\ e.stop \in Nat /\ LpcInput \in Nat
  BY EncoderFields, OggOpusAssumption DEF OggOpusAssumption
<1> DEFINE x == ShiftBuffer(e)
<1>2. CASE e.start <= LpcInput
  <2>1. x = e
    BY <1>2 DEF ShiftBuffer
  <2> HIDE DEF x
  <2> QED
    BY <1>1, <1>2, <2>1 DEF SameStream, SamePages, x
<1>3. CASE e.start > LpcInput
  <2> DEFINE u == e.stop - (e.start - LpcInput)
  <2>1. x = Moved(e, LpcInput, u)
    <3>1. ~(e.start <= LpcInput)
      BY <1>1, <1>3
    <3> QED
      BY <3>1 DEF ShiftBuffer, Moved
  <2>2. u \in Nat /\ u - LpcInput = e.stop - e.start /\ LpcInput <= u
    BY <1>1, <1>3
  <2> HIDE DEF x, u
  <2>3. /\ x \in Encoder /\ SameStream(x, e) /\ x.start = LpcInput /\ x.stop = u
    <3> DEFINE t == LpcInput
               y == Moved(e, t, u)
    <3>1. t \in Nat /\ u \in Nat
      BY <1>1, <2>2
    <3> HIDE DEF t
    <3>2. /\ y \in Encoder /\ SamePages(y, e)
          /\ y.init = e.init /\ y.end = e.end /\ y.written = e.written
          /\ y.resampled = e.resampled /\ y.curr = e.curr /\ y.packets = e.packets
          /\ y.draining = e.draining /\ y.done = e.done
          /\ y.start = t /\ y.stop = u
      BY <3>1, MovedFields
    <3> HIDE DEF y
    <3>3. x = y
      BY <2>1 DEF y, t
    <3> QED
      BY <3>2, <3>3 DEF SameStream, t
  <2> QED
    BY <1>1, <2>2, <2>3 DEF x
<1> QED
  BY <1>1, <1>2, <1>3

LEMMA Delays ==
    /\ FrameSize \in Nat \ {0} /\ DecisionDelay \in Nat /\ LpcInput \in Nat
    /\ BufferSamples \in Nat /\ Latency \in Nat /\ Preskip \in Nat /\ LpcPadding \in Nat
    /\ Ratio \in Nat \ {0} /\ MuxingDelay \in Nat \ {0}
    /\ LpcInput + FrameSize + DecisionDelay < BufferSamples
    /\ \A p \in Int : p = LpcPadding \/ p <= Preskip + FrameSize + Latency + 1 =>
          LpcInput + FrameSize + DecisionDelay + p <= BufferSamples
  BY OggOpusAssumption DEF OggOpusAssumption, Larger

(* An encoder whose buffer has been filled, and one that has coded what it *)
(* may of the buffer.                                                      *)
Filled(e, s) ==
    /\ Running(e, s) /\ ~e.draining
    /\ e.start <= e.stop /\ e.stop <= BufferSamples
    /\ e.curr + (e.stop - e.start) <= Ratio * e.end

Rested(e, s) ==
    /\ Running(e, s) /\ ~e.draining
    /\ e.start <= e.stop /\ e.stop < BufferSamples
    /\ e.stop - e.start <= FrameSize + DecisionDelay

SameCounts(x, e) == x.end = e.end /\ x.written = e.written /\ x.resampled = e.resampled

LEMMA FrameNumbers ==
    ASSUME NEW e \in Encoder, NEW s, Filled(e, s), NEW n \in Nat, n = FramesReady(e)
    PROVE  /\ e.start + FrameSize * n <= e.stop
           /\ e.stop - (e.start + FrameSize * n) <= FrameSize + DecisionDelay
           /\ n > 0 => e.curr + FrameSize * n < EndGranule(e)
<1>1. /\ FrameSize \in Nat \ {0} /\ DecisionDelay \in Nat /\ Preskip \in Nat /\ Ratio \in Nat
      /\ e.start \in Nat /\ e.stop \in Nat /\ e.curr \in Nat /\ e.end \in Nat
      /\ FrameSize * n \in Nat /\ Ratio * e.end \in Nat
  BY Delays, EncoderFields
<1>2. Keep(e) = FrameSize + DecisionDelay
  BY DEF Keep, Filled
<1>3. e.start <= e.stop /\ e.curr + (e.stop - e.start) <= Ratio * e.end
  BY DEF Filled
<1>4. EndGranule(e) = Ratio * e.end + Preskip
  BY DEF EndGranule
<1> DEFINE k == FrameSize * n
           m == Ratio * e.end
<1>5. k \in Nat /\ m \in Nat
  BY <1>1
<1>6. CASE e.stop - e.start <= Keep(e)
  <2>1. n = 0
    BY <1>6, FramesTaken
  <2>2. k = 0
    BY <1>1, <2>1
  <2> HIDE DEF k
  <2> QED
    BY <1>1, <1>2, <1>3, <1>5, <1>6, <2>1, <2>2
<1>7. CASE e.stop - e.start > Keep(e)
  <2>1. k >= e.stop - e.start - Keep(e) /\ k < e.stop - e.start - Keep(e) + FrameSize
    BY <1>7, FramesTaken
  <2> HIDE DEF k, m
  <2>2. e.start + k <= e.stop /\ e.stop - (e.start + k) <= FrameSize + DecisionDelay
    BY <1>1, <1>2, <1>3, <1>5, <2>1
  <2>3. e.curr + k < EndGranule(e)
    BY <1>1, <1>2, <1>3, <1>4, <1>5, <2>1 DEF m
  <2> QED
    BY <2>2, <2>3 DEF k
<1> QED
  BY <1>1, <1>2, <1>6, <1>7

(* A call of encode_buffer before the drain. *)
LEMMA BufferCoded ==
    ASSUME NEW e \in Encoder, NEW s \in [1..Period -> Sizes], Filled(e, s)
    PROVE  LET x == EncodeBuffer(e, s)
           IN  /\ x \in Encoder /\ Rested(x, s) /\ SameCounts(x, e)
               /\ x.curr + (x.stop - x.start) = e.curr + (e.stop - e.start)
               /\ e.stop = BufferSamples => x.stop <= LpcInput + FrameSize + DecisionDelay
<1> DEFINE c == FoldLeft(EncodeFrame, e, NextSizes(e, s))
           n == FramesReady(e)
           x == EncodeBuffer(e, s)
<1>1. x = IF c.stop = BufferSamples THEN ShiftBuffer(c) ELSE c
  BY DEF EncodeBuffer, NextSizes
<1>2. Running(e, s) /\ ~e.draining /\ e.start <= e.stop /\ e.stop <= BufferSamples
  BY DEF Filled
<1>3. Loop(c, e, s, n) /\ (n = 0 => c = e) /\ n \in Nat
  BY <1>2, LoopDone, FramesTaken
<1> HIDE DEF x, c, n
<1>4. /\ e.start \in Nat /\ e.stop \in Nat /\ e.curr \in Nat
      /\ FrameSize * 0 = 0 /\ EndGranule(e) \in Nat
      /\ FrameSize \in Nat /\ DecisionDelay \in Nat /\ LpcInput \in Nat
      /\ BufferSamples \in Nat /\ LpcInput + FrameSize + DecisionDelay < BufferSamples
      /\ n \in Nat /\ FrameSize * n \in Nat
  BY <1>3, EncoderFields, EndTypes, Delays
<1>5. n > 0 => e.curr + FrameSize * n < EndGranule(e)
  BY <1>4, FrameNumbers DEF n
<1>6. /\ c \in Encoder /\ SameInput(c, e) /\ Running(c, s)
      /\ c.curr = e.curr + FrameSize * n /\ c.start = e.start + FrameSize * n
  <2>1. CASE n = 0
    <3>1. c = e /\ e.curr + FrameSize * n = e.curr /\ e.start + FrameSize * n = e.start
      BY <1>3, <1>4, <2>1
    <3> QED
      BY <1>2, <3>1 DEF SameInput
  <2>2. CASE n > 0
    <3>1. ~(e.curr + FrameSize * n >= EndGranule(e))
      BY <1>4, <1>5, <2>2
    <3> QED
      BY <1>3, <3>1 DEF Loop
  <2> QED
    BY <1>4, <2>1, <2>2
<1>7. /\ c.start <= c.stop /\ c.stop - c.start <= FrameSize + DecisionDelay
      /\ c.curr + (c.stop - c.start) = e.curr + (e.stop - e.start)
      /\ c.stop = e.stop
  <2>1. c.stop = e.stop
    BY <1>6 DEF SameInput
  <2> DEFINE k == FrameSize * n
  <2>2. k \in Nat /\ e.start + k <= e.stop
        /\ e.stop - (e.start + k) <= FrameSize + DecisionDelay
    BY <1>4, FrameNumbers DEF n
  <2>3. c.curr = e.curr + k /\ c.start = e.start + k
    BY <1>6
  <2> HIDE DEF k
  <2> QED
    BY <1>4, <2>1, <2>2, <2>3
<1>8. ~c.draining /\ SameCounts(c, e)
  BY <1>2, <1>6 DEF SameInput, SameCounts
<1>9. CASE c.stop = BufferSamples
  <2>1. x = ShiftBuffer(c)
    BY <1>1, <1>9
  <2>2. /\ x \in Encoder /\ SameStream(x, c) /\ x.start <= LpcInput
        /\ x.stop - x.start = c.stop - c.start /\ x.start <= x.stop
    BY <1>6, <1>7, <2>1, Shifts
  <2>3. Running(x, s) /\ ~x.draining /\ SameCounts(x, e) /\ x.curr = c.curr
    BY <1>6, <1>8, <2>2, SameStreamRuns DEF SameStream, SameCounts
  <2>4. x.stop \in Nat /\ x.start \in Nat /\ c.stop \in Nat /\ c.start \in Nat
        /\ c.curr \in Nat
    BY <1>6, <2>2, EncoderFields
  <2>5. x.stop <= LpcInput + FrameSize + DecisionDelay
        /\ x.stop - x.start <= FrameSize + DecisionDelay /\ x.stop < BufferSamples
    <3>1. /\ FrameSize \in Nat /\ DecisionDelay \in Nat /\ LpcInput \in Nat
          /\ BufferSamples \in Nat /\ LpcInput + FrameSize + DecisionDelay < BufferSamples
      BY <1>4
    <3>2. x.stop - x.start <= FrameSize + DecisionDelay /\ x.start <= LpcInput
      BY <1>7, <2>2
    <3> QED
      BY <2>4, <3>1, <3>2
  <2> QED
    BY <1>7, <2>2, <2>3, <2>5 DEF Rested, x
<1>10. CASE c.stop # BufferSamples
  <2>1. x = c
    BY <1>1, <1>10
  <2>2. c.stop < BufferSamples
    BY <1>2, <1>4, <1>7, <1>10
  <2> QED
    BY <1>6, <1>7, <1>8, <1>10, <2>1, <2>2 DEF Rested, x
<1> QED
  BY <1>9, <1>10

-----------------------------------------------------------------------------
(***************************************************************************)
(* A write                                                                 *)
(***************************************************************************)
LEMMA ResampledIs ==
    /\ Resampled(0) = 0
    /\ \A n \in Nat : /\ Resampled(n) \in Nat /\ Resampled(n) <= Ratio * n
                      /\ Ratio * n <= Resampled(n) + Latency
    /\ \A n \in Nat, k \in Nat :
          /\ Resampled(n + k) - Resampled(n) \in Nat
          /\ Resampled(n + k) - Resampled(n) <= Ratio * k
<1>1. Ratio \in Nat /\ Latency \in Nat
  BY Delays
<1>2. \A n \in Nat : Ratio * n \in Nat
  BY <1>1
<1>3. \A n \in Nat, k \in Nat : Ratio * (n + k) = Ratio * n + Ratio * k
  BY <1>1
<1>4. Resampled(0) = 0
  <2>1. Ratio * 0 = 0
    BY <1>1
  <2> QED
    BY <1>1, <2>1 DEF Resampled, Larger
<1>5. ASSUME NEW n \in Nat
      PROVE  /\ Resampled(n) \in Nat /\ Resampled(n) <= Ratio * n
             /\ Ratio * n <= Resampled(n) + Latency
  BY <1>1, <1>2 DEF Resampled, Larger
<1>6. ASSUME NEW n \in Nat, NEW k \in Nat
      PROVE  /\ Resampled(n + k) - Resampled(n) \in Nat
             /\ Resampled(n + k) - Resampled(n) <= Ratio * k
  <2> DEFINE a == Ratio * n
             b == Ratio * k
             c == Ratio * (n + k)
  <2>1. a \in Nat /\ b \in Nat /\ c = a + b
    BY <1>2, <1>3
  <2>2. Resampled(n) = Larger(0, a - Latency) /\ Resampled(n + k) = Larger(0, c - Latency)
    BY DEF Resampled
  <2> HIDE DEF a, b, c
  <2>3. /\ Larger(0, c - Latency) - Larger(0, a - Latency) \in Nat
        /\ Larger(0, c - Latency) - Larger(0, a - Latency) <= b
    BY <1>1, <2>1 DEF Larger
  <2> QED
    BY <2>2, <2>3 DEF b
<1> QED
  BY <1>4, <1>5, <1>6

LEMMA Fills ==
    ASSUME NEW e \in Encoder, NEW s, Rested(e, s), NEW k \in Nat,
           e.stop + k <= BufferSamples, e.curr + (e.stop - e.start) + k <= Ratio * e.end
    PROVE  LET y == [e EXCEPT !.stop = @ + k]
           IN  /\ y \in Encoder /\ Filled(y, s) /\ SameCounts(y, e)
               /\ y.stop = e.stop + k /\ y.start = e.start /\ y.curr = e.curr
<1> DEFINE y == [e EXCEPT !.stop = @ + k]
           t == e.start
           u == e.stop + k
<1>1. y = Moved(e, t, u)
  BY DEF Moved, Encoder
<1>2. /\ e.stop \in Nat /\ e.start \in Nat /\ e.curr \in Nat
      /\ e.end \in Nat /\ Ratio \in Nat
  BY EncoderFields, Delays
<1>3. t \in Nat /\ u \in Nat
  BY <1>2
<1> HIDE DEF t, u, y
<1>4. /\ y \in Encoder /\ SameStream(y, e) /\ y.start = t /\ y.stop = u
  <2> DEFINE z == Moved(e, t, u)
  <2>1. /\ z \in Encoder /\ SamePages(z, e)
        /\ z.init = e.init /\ z.end = e.end /\ z.written = e.written
        /\ z.resampled = e.resampled /\ z.curr = e.curr /\ z.packets = e.packets
        /\ z.draining = e.draining /\ z.done = e.done
        /\ z.start = t /\ z.stop = u
    BY <1>3, MovedFields
  <2> HIDE DEF z
  <2>2. y = z
    BY <1>1 DEF z
  <2> QED
    BY <2>1, <2>2 DEF SameStream
<1>5. SameCounts(y, e) /\ y.curr = e.curr /\ ~y.draining
  BY <1>4 DEF SameStream, SameCounts, Rested
<1>6. Running(y, s)
  BY <1>4, SameStreamRuns DEF Rested
<1>7. y.start <= y.stop /\ y.stop <= BufferSamples
      /\ y.curr + (y.stop - y.start) <= Ratio * y.end
  <2>1. e.start <= e.stop
    BY DEF Rested
  <2> DEFINE r == Ratio * e.end
  <2>2. r \in Nat /\ Ratio * y.end = r
    BY <1>2, <1>5 DEF SameCounts
  <2>3. u = e.stop + k /\ t = e.start /\ e.curr + (e.stop - e.start) + k <= r
    BY DEF u, t
  <2> HIDE DEF r
  <2> QED
    BY <1>2, <1>4, <1>5, <2>1, <2>2, <2>3
<1>8. Filled(y, s)
  BY <1>5, <1>6, <1>7 DEF Filled
<1> QED
  BY <1>4, <1>5, <1>8 DEF y, t, u

(* The resampler's output finds room in at most two rounds. *)
LEMMA BufferFilled ==
    ASSUME NEW e \in Encoder, NEW s \in [1..Period -> Sizes], Rested(e, s),
           NEW amount \in Nat,
           LpcInput + FrameSize + DecisionDelay + amount <= BufferSamples,
           e.curr + (e.stop - e.start) + amount <= Ratio * e.end
    PROVE  LET x == FillBuffer(e, s, amount)
           IN  /\ x \in Encoder /\ Rested(x, s) /\ SameCounts(x, e)
               /\ x.curr + (x.stop - x.start) = e.curr + (e.stop - e.start) + amount
<1> DEFINE now == Smaller(amount, BufferSamples - e.stop)
           y == [e EXCEPT !.stop = @ + now]
           half == EncodeBuffer(y, s)
           z == [half EXCEPT !.stop = @ + amount - now]
           x == FillBuffer(e, s, amount)
<1>1. x = IF now = amount THEN half ELSE EncodeBuffer(z, s)
  BY DEF FillBuffer
<1>2. /\ e.start \in Nat /\ e.stop \in Nat /\ e.curr \in Nat /\ e.end \in Nat
      /\ Ratio * e.end \in Nat /\ FrameSize \in Nat /\ DecisionDelay \in Nat
      /\ LpcInput \in Nat /\ BufferSamples \in Nat
      /\ e.start <= e.stop /\ e.stop < BufferSamples
  BY EncoderFields, Delays DEF Rested
<1>3. /\ now \in Nat /\ now <= amount /\ e.stop + now <= BufferSamples
      /\ now = amount \/ e.stop + now = BufferSamples
  BY <1>2 DEF Smaller
<1> HIDE DEF x, now
<1>4. e.curr + (e.stop - e.start) + now <= Ratio * e.end
  <2> DEFINE r == Ratio * e.end
  <2>1. r \in Nat /\ e.curr + (e.stop - e.start) + amount <= r
    BY <1>2
  <2> HIDE DEF r
  <2>2. e.curr + (e.stop - e.start) + now <= r
    BY <1>2, <1>3, <2>1
  <2> QED
    BY <2>2 DEF r
<1>5. /\ y \in Encoder /\ Filled(y, s) /\ SameCounts(y, e)
      /\ y.stop = e.stop + now /\ y.start = e.start /\ y.curr = e.curr
  BY <1>3, <1>4, Fills
<1> HIDE DEF y
<1>6. /\ half \in Encoder /\ Rested(half, s) /\ SameCounts(half, y)
      /\ half.curr + (half.stop - half.start) = y.curr + (y.stop - y.start)
      /\ y.stop = BufferSamples => half.stop <= LpcInput + FrameSize + DecisionDelay
  BY <1>5, BufferCoded
<1> HIDE DEF half
<1>7. SameCounts(half, e)
  BY <1>5, <1>6 DEF SameCounts
<1>8. half.curr + (half.stop - half.start) = e.curr + (e.stop - e.start) + now
  BY <1>2, <1>3, <1>5, <1>6
<1>9. CASE now = amount
  BY <1>1, <1>6, <1>7, <1>8, <1>9 DEF x
<1>10. CASE now # amount
  <2> DEFINE k == amount - now
  <2>1. k \in Nat /\ k <= amount
    BY <1>3
  <2>2. half.stop <= LpcInput + FrameSize + DecisionDelay
    BY <1>3, <1>5, <1>6, <1>10
  <2>3. /\ half.start \in Nat /\ half.stop \in Nat /\ half.curr \in Nat
    BY <1>6, EncoderFields
  <2>4. z = [half EXCEPT !.stop = @ + k]
    BY <1>3, <2>3 DEF Encoder
  <2>5. half.stop + k <= BufferSamples
    BY <1>2, <2>1, <2>2, <2>3
  <2>6. half.curr + (half.stop - half.start) + k <= Ratio * half.end
    <3> DEFINE r == Ratio * e.end
    <3>1. r \in Nat /\ e.curr + (e.stop - e.start) + amount <= r /\ Ratio * half.end = r
      BY <1>2, <1>7 DEF SameCounts
    <3> HIDE DEF r
    <3>2. half.curr + (half.stop - half.start) + k = e.curr + (e.stop - e.start) + amount
      <4> DEFINE a == half.curr + (half.stop - half.start)
                 b == e.curr + (e.stop - e.start)
      <4>1. a = b + now
        BY <1>8
      <4>2. b \in Int
        BY <1>2
      <4> HIDE DEF a, b
      <4>3. a + k = b + amount
        BY <1>3, <4>1, <4>2
      <4> QED
        BY <4>3 DEF a, b
    <3> QED
      BY <3>1, <3>2
  <2>7. x = EncodeBuffer(z, s)
    BY <1>1, <1>10
  <2>8. k = amount - now
    OBVIOUS
  <2> HIDE DEF k, z
  <2>9. /\ z \in Encoder /\ Filled(z, s) /\ SameCounts(z, half)
        /\ z.stop = half.stop + k /\ z.start = half.start /\ z.curr = half.curr
    BY <1>6, <2>1, <2>4, <2>5, <2>6, Fills
  <2>10. /\ x \in Encoder /\ Rested(x, s) /\ SameCounts(x, z)
         /\ x.curr + (x.stop - x.start) = z.curr + (z.stop - z.start)
    BY <2>7, <2>9, BufferCoded
  <2>11. SameCounts(x, e)
    BY <1>7, <2>9, <2>10 DEF SameCounts
  <2>12. x.curr + (x.stop - x.start) = e.curr + (e.stop - e.start) + amount
    <3>1. z.curr + (z.stop - z.start) = half.curr + (half.stop - half.start) + k
      BY <2>1, <2>3, <2>9
    <3>2. e.curr + (e.stop - e.start) + now + k = e.curr + (e.stop - e.start) + amount
      BY <1>2, <1>3, <2>1, <2>8
    <3> QED
      BY <1>8, <2>10, <3>1, <3>2
  <2> QED
    BY <2>10, <2>11, <2>12 DEF x
<1> QED
  BY <1>9, <1>10

(* An encoder between two writes. *)
Live(e, s) ==
    /\ Rested(e, s)
    /\ e.resampled = Resampled(e.written)
    /\ e.curr + (e.stop - e.start) = e.resampled

(* An encoder of a recording: as it was created, or with all the sound it  *)
(* was given, coded or in its buffer.                                      *)
Recording(e, s) ==
    /\ e \in Encoder
    /\ e.init => Live(e, s) /\ e.end = e.written
    /\ ~e.init => e = Fresh(e.end)

LEMMA RecordingBegins ==
    ASSUME NEW s \in [1..Period -> Sizes], NEW e, Recording(e, s)
    PROVE  /\ InitStream(e) \in Encoder /\ Live(InitStream(e), s)
           /\ InitStream(e).written = e.written
           /\ e.init => InitStream(e) = e
           /\ ~e.init => InitStream(e).start = 0 /\ InitStream(e).stop = 0
<1>1. CASE e.init
  BY <1>1 DEF Recording, InitStream
<1>2. CASE ~e.init
  <2> DEFINE x == InitStream(e)
  <2>1. e \in Encoder /\ e = Fresh(e.end) /\ e.end \in Nat
    BY <1>2, EncoderFields DEF Recording
  <2>2. Packed(e, s, 0)
    <3> DEFINE m == e.end
    <3>1. m \in Nat /\ e = Fresh(m)
      BY <2>1
    <3> HIDE DEF m
    <3> QED
      BY <3>1, FreshFields
  <2>3. /\ e.written = 0 /\ e.resampled = 0 /\ e.start = 0 /\ e.stop = 0 /\ e.curr = 0
        /\ ~e.draining /\ ~e.done
    <3>1. \A m : /\ Fresh(m).written = 0 /\ Fresh(m).resampled = 0 /\ Fresh(m).start = 0
                 /\ Fresh(m).stop = 0 /\ Fresh(m).curr = 0
                 /\ ~Fresh(m).draining /\ ~Fresh(m).done
      BY DEF Fresh
    <3> QED
      BY <2>1, <3>1
  <2>4. /\ x \in Encoder /\ x.init /\ x.packets = 2 /\ Packed(x, s, 2)
        /\ x.granule = 0 /\ x.lastGranule = 0 /\ ~x.eos /\ x.file # <<>>
        /\ x.written = 0 /\ x.resampled = 0 /\ x.start = 0 /\ x.stop = 0 /\ x.curr = 0
        /\ ~x.draining /\ ~x.done
    BY <1>2, <2>1, <2>2, <2>3, StreamInited
  <2> HIDE DEF x
  <2>5. Cadence(x)
    <3>1. FrameSize * 0 = 0 /\ 0 \in Nat /\ MuxingDelay > 0 /\ 0 - 0 = 0
      BY Delays
    <3> QED
      BY <2>4, <3>1 DEF Cadence
  <2>6. Running(x, s)
    BY <2>4, <2>5 DEF Running
  <2>7. Rested(x, s)
    BY <2>4, <2>6, Delays DEF Rested
  <2>8. Live(x, s)
    BY <2>4, <2>7, ResampledIs DEF Live
  <2> QED
    BY <1>2, <2>1, <2>3, <2>4, <2>8 DEF x
<1> QED
  BY <1>1, <1>2

Given(e, w, r) == [e EXCEPT !.written = w, !.end = w, !.resampled = r]

LEMMA GivenFields ==
    ASSUME NEW e \in Encoder, NEW w \in Nat, NEW r \in Nat
    PROVE  /\ Given(e, w, r) \in Encoder /\ SamePages(Given(e, w, r), e)
           /\ Given(e, w, r).init = e.init /\ Given(e, w, r).end = w
           /\ Given(e, w, r).written = w /\ Given(e, w, r).resampled = r
           /\ Given(e, w, r).start = e.start /\ Given(e, w, r).stop = e.stop
           /\ Given(e, w, r).curr = e.curr /\ Given(e, w, r).packets = e.packets
           /\ Given(e, w, r).draining = e.draining /\ Given(e, w, r).done = e.done
  BY DEF Encoder, Given, SamePages

(* ope_encoder_write_float with no more than a shifted buffer has room for. *)
LEMMA Written ==
    ASSUME NEW s \in [1..Period -> Sizes], NEW e, Recording(e, s), NEW n \in Nat,
           LpcInput + FrameSize + DecisionDelay + Ratio * n <= BufferSamples
    PROVE  LET x == WriteFloat(e, s, n)
           IN  Recording(x, s) /\ x.init /\ x.written = e.written + n
<1> DEFINE b == InitStream(e)
           w == b.written + n
           r == Resampled(w)
           y == Given(b, w, r)
           amount == r - b.resampled
           x == WriteFloat(e, s, n)
<1>1. /\ b \in Encoder /\ Live(b, s) /\ b.written = e.written
  BY RecordingBegins
<1>2. x = FillBuffer(y, s, amount)
  BY DEF WriteFloat, Given
<1> HIDE DEF x, b
<1>3. n \in Nat /\ LpcInput + FrameSize + DecisionDelay + Ratio * n <= BufferSamples
  OBVIOUS
<1>4. b.written \in Nat /\ b.curr \in Nat /\ b.stop \in Nat /\ b.start \in Nat
      /\ b.resampled \in Nat
  BY <1>1, EncoderFields
<1>5. /\ w \in Nat /\ r \in Nat /\ r <= Ratio * w
      /\ amount \in Nat /\ amount <= Ratio * n
  <2>1. w \in Nat /\ n \in Nat
    BY <1>3, <1>4
  <2>2. /\ Resampled(b.written + n) - Resampled(b.written) \in Nat
        /\ Resampled(b.written + n) - Resampled(b.written) <= Ratio * n
    BY <1>3, <1>4, ResampledIs
  <2>3. b.resampled = Resampled(b.written)
    BY <1>1 DEF Live
  <2>4. amount \in Nat /\ amount <= Ratio * n
    BY <2>2, <2>3
  <2>5. r \in Nat /\ r <= Ratio * w
    <3> HIDE DEF w
    <3> QED
      BY <2>1, ResampledIs
  <2> QED
    BY <2>1, <2>4, <2>5
<1>6. b.resampled + amount = r /\ b.curr + (b.stop - b.start) = b.resampled
  BY <1>1, <1>4, <1>5 DEF Live
<1>7. w = e.written + n /\ r = Resampled(w)
  BY <1>1
<1> HIDE DEF amount, r, w
<1>8. /\ y \in Encoder /\ SamePages(y, b) /\ y.init = b.init /\ y.end = w
      /\ y.written = w /\ y.resampled = r /\ y.start = b.start /\ y.stop = b.stop
      /\ y.curr = b.curr /\ y.packets = b.packets /\ y.draining = b.draining
      /\ y.done = b.done
  BY <1>1, <1>5, GivenFields
<1> HIDE DEF y
<1>9. Rested(y, s)
  <2>1. Rested(b, s)
    BY <1>1 DEF Live
  <2>2. Running(b, s)
    BY <2>1 DEF Rested
  <2>3. \A m : Packed(b, s, m) => Packed(y, s, m)
    BY <1>8, PackedSame
  <2>4. Cadence(y)
    BY <1>8, <2>2 DEF Running, Cadence, SamePages
  <2>5. y.file # <<>> /\ ~y.eos
    BY <1>8, <2>2 DEF Running, SamePages
  <2>6. Running(y, s)
    BY <1>8, <2>2, <2>3, <2>4, <2>5 DEF Running
  <2> QED
    BY <1>8, <2>1, <2>6 DEF Rested
<1>10. /\ LpcInput + FrameSize + DecisionDelay + amount <= BufferSamples
       /\ y.curr + (y.stop - y.start) + amount <= Ratio * y.end
  <2> DEFINE k == Ratio * n
             q == Ratio * w
  <2>1. k \in Nat /\ q \in Nat
    BY <1>3, <1>5, Delays
  <2>2. amount <= k /\ LpcInput + FrameSize + DecisionDelay + k <= BufferSamples
        /\ r <= q
    BY <1>3, <1>5
  <2>3. Ratio * y.end = q
    BY <1>8
  <2> HIDE DEF k, q
  <2>4. LpcInput + FrameSize + DecisionDelay + amount <= BufferSamples
    BY <1>5, <2>1, <2>2, Delays
  <2>5. y.curr + (y.stop - y.start) + amount = r
    BY <1>4, <1>5, <1>6, <1>8
  <2> QED
    BY <2>2, <2>3, <2>4, <2>5
<1>11. /\ x \in Encoder /\ Rested(x, s) /\ SameCounts(x, y)
       /\ x.curr + (x.stop - x.start) = y.curr + (y.stop - y.start) + amount
  BY <1>2, <1>5, <1>8, <1>9, <1>10, BufferFilled
<1>12. x.curr + (x.stop - x.start) = r
  BY <1>4, <1>5, <1>6, <1>8, <1>11
<1>13. x.end = w /\ x.written = w /\ x.resampled = r
  BY <1>8, <1>11 DEF SameCounts
<1>14. Live(x, s) /\ x.init
  BY <1>7, <1>11, <1>12, <1>13 DEF Live, Rested, Running
<1> QED
  BY <1>7, <1>11, <1>13, <1>14 DEF Recording, x

-----------------------------------------------------------------------------
(***************************************************************************)
(* The drain                                                               *)
(***************************************************************************)
LEMMA MovedStream ==
    ASSUME NEW e \in Encoder, NEW t, NEW u
    PROVE  SameStream(Moved(e, t, u), e)
  BY DEF Encoder, Moved, SamePages, SameStream

Draining(e, u) == [e EXCEPT !.stop = u, !.draining = TRUE]

LEMMA DrainingFields ==
    ASSUME NEW e \in Encoder, NEW u \in Nat
    PROVE  /\ Draining(e, u) \in Encoder /\ SamePages(Draining(e, u), e)
           /\ Draining(e, u).init = e.init /\ Draining(e, u).end = e.end
           /\ Draining(e, u).written = e.written
           /\ Draining(e, u).curr = e.curr /\ Draining(e, u).packets = e.packets
           /\ Draining(e, u).done = e.done /\ Draining(e, u).start = e.start
           /\ Draining(e, u).stop = u /\ Draining(e, u).draining
  BY DEF Encoder, Draining, SamePages

LEMMA Paddings ==
    ASSUME NEW e, e.init \in BOOLEAN
    PROVE  /\ Padding(e) \in Nat
           /\ Padding(e) = LpcPadding \/ Padding(e) <= Preskip + FrameSize + Latency + 1
           /\ e.init => Padding(e) >= Preskip + FrameSize + Latency + 1
  BY Delays DEF Padding, Lookahead, Larger

(* What is left in the buffer and the padding of the drain reach the end   *)
(* of the stream.                                                          *)
LEMMA Drained ==
    ASSUME NEW s \in [1..Period -> Sizes], NEW e, Recording(e, s), e.init
    PROVE  LET d == Drain(e, s)
           IN  /\ Demux(d.file) = Read(s, d.packets) /\ Last(d.file).eos
               /\ Last(d.file).granule = Ratio * e.written + Preskip
<1> DEFINE b == BeforeDrain(e)
           p == Padding(e)
           u == b.stop + p
           y == Draining(b, u)
           n == FramesReady(y)
           c == FoldLeft(EncodeFrame, y, NextSizes(y, s))
           d == Drain(e, s)
<1>1. e \in Encoder /\ Live(e, s) /\ e.end = e.written /\ e.written \in Nat
  BY EncoderFields DEF Recording
<1>2. d = EncodeBuffer(y, s)
  BY DEF Drain, Draining
<1>3. d = IF c.stop = BufferSamples THEN ShiftBuffer(c) ELSE c
  BY <1>2 DEF EncodeBuffer, NextSizes
<1>4. /\ b \in Encoder /\ SameStream(b, e) /\ b.stop - b.start = e.stop - e.start
  <2>1. b = ShiftBuffer(e)
    BY DEF BeforeDrain, InitStream
  <2>2. e.start <= e.stop
    BY <1>1 DEF Live, Rested
  <2> HIDE DEF b
  <2> QED
    BY <1>1, <2>1, <2>2, Shifts
<1> HIDE DEF b, d
<1>5. p \in Nat /\ p >= Preskip + FrameSize + Latency + 1
  BY <1>1, EncoderFields, Paddings
<1> HIDE DEF p
<1>6. b.stop \in Nat /\ b.start \in Nat /\ b.curr \in Nat /\ u \in Nat
  BY <1>4, <1>5, EncoderFields
<1>7. u = b.stop + p
  OBVIOUS
<1> HIDE DEF u
<1>8. /\ y \in Encoder /\ SamePages(y, b) /\ y.init = b.init /\ y.end = b.end
      /\ y.curr = b.curr /\ y.packets = b.packets /\ y.done = b.done
      /\ y.start = b.start /\ y.stop = u /\ y.draining
  BY <1>4, <1>6, DrainingFields
<1> HIDE DEF y, c
<1>9. Running(y, s)
  <2>1. Running(b, s)
    BY <1>1, <1>4, SameStreamRuns DEF Live, Rested
  <2>2. \A m : Packed(b, s, m) => Packed(y, s, m)
    BY <1>8, PackedSame
  <2>3. Cadence(y) /\ y.file # <<>> /\ ~y.eos
    BY <1>8, <2>1 DEF Running, Cadence, SamePages
  <2> QED
    BY <1>8, <2>1, <2>2, <2>3 DEF Running
<1>10. /\ FrameSize \in Nat \ {0} /\ Preskip \in Nat /\ Latency \in Nat /\ Ratio \in Nat
       /\ EndGranule(y) = Ratio * e.written + Preskip
       /\ Ratio * e.written \in Nat
       /\ Ratio * e.written <= e.resampled + Latency
  <2>1. y.end = e.written
    BY <1>1, <1>4, <1>8 DEF SameStream
  <2>2. e.resampled = Resampled(e.written)
    BY <1>1 DEF Live
  <2>3. Ratio \in Nat /\ EndGranule(y) = Ratio * e.written + Preskip
    BY <2>1, Delays DEF EndGranule
  <2>4. Ratio * e.written \in Nat
    BY <1>1, <2>3
  <2>5. Ratio * e.written <= Resampled(e.written) + Latency
    BY <1>1, ResampledIs
  <2> QED
    BY <2>2, <2>3, <2>4, <2>5, Delays
<1>11. y.curr + (y.stop - y.start) = e.resampled + p
  <2>1. e.curr + (e.stop - e.start) = e.resampled /\ b.curr = e.curr
    BY <1>1, <1>4 DEF Live, SameStream
  <2>2. e.curr \in Nat /\ e.stop \in Nat /\ e.start \in Nat
    BY <1>1, EncoderFields
  <2>3. y.stop - y.start = (e.stop - e.start) + p
    BY <1>4, <1>5, <1>6, <1>7, <1>8
  <2>4. y.curr = e.curr
    BY <1>8, <2>1
  <2> QED
    BY <1>5, <2>1, <2>2, <2>3, <2>4
<1>12. y.stop - y.start > FrameSize
  <2>1. e.start <= e.stop /\ e.stop \in Nat /\ e.start \in Nat
    BY <1>1, EncoderFields DEF Live, Rested
  <2>2. /\ p > FrameSize /\ FrameSize \in Nat
    BY <1>5, Delays
  <2>3. y.stop - y.start = (b.stop - b.start) + p
    BY <1>5, <1>6, <1>7, <1>8
  <2> QED
    BY <1>4, <1>5, <2>1, <2>2, <2>3
<1>13. Keep(y) = FrameSize
  BY <1>8, <1>10 DEF Keep
<1>14. n \in Nat /\ n > 0 /\ FrameSize * n >= y.stop - y.start - FrameSize
  BY <1>6, <1>8, <1>10, <1>12, <1>13, FramesTaken
<1>15. Loop(c, y, s, n)
  BY <1>8, <1>9, LoopDone DEF c
<1> HIDE DEF n
<1>16. y.curr + FrameSize * n >= EndGranule(y)
  <2> DEFINE k == FrameSize * n
             r == Ratio * e.written
  <2>1. /\ k \in Nat /\ r \in Nat /\ k >= y.stop - y.start - FrameSize
        /\ EndGranule(y) = r + Preskip /\ r <= e.resampled + Latency
    BY <1>10, <1>14
  <2>2. y.curr \in Nat /\ y.stop \in Nat /\ y.start \in Nat /\ e.resampled \in Nat
    BY <1>1, <1>8, EncoderFields
  <2> HIDE DEF k, r
  <2>3. y.curr + k >= EndGranule(y)
    <3>1. y.curr + k >= e.resampled + p - FrameSize
      <4>1. FrameSize \in Nat /\ p \in Nat /\ k \in Nat
        BY <1>5, <2>1, Delays
      <4>2. k >= y.stop - y.start - FrameSize
        BY <2>1
      <4> QED
        BY <1>11, <2>2, <4>1, <4>2
    <3>2. e.resampled + p - FrameSize >= r + Preskip
      BY <1>5, <2>1, <2>2, Delays
    <3> QED
      BY <1>5, <2>1, <2>2, <3>1, <3>2, Delays
  <2> QED
    BY <2>3 DEF k
<1>17. c \in Encoder /\ Ended(c, s) /\ EndGranule(c) = EndGranule(y)
  <2>1. EndGranule(c) = EndGranule(y)
    BY <1>15 DEF Loop, SameInput, EndGranule
  <2>2. ~(y.curr + FrameSize * n < EndGranule(y))
    <3>1. EndGranule(y) \in Nat /\ y.curr \in Nat /\ FrameSize * n \in Nat
      BY <1>8, <1>10, <1>14, EndTypes
    <3> QED
      BY <1>16, <3>1
  <2> QED
    BY <1>14, <1>15, <2>1, <2>2 DEF Loop
<1>18. d = c \/ SameStream(d, c)
  <2>1. ShiftBuffer(c) = c \/ SameStream(ShiftBuffer(c), c)
    <3>1. ASSUME ~(c.start <= LpcInput)
          PROVE  ShiftBuffer(c) = Moved(c, LpcInput, c.stop - (c.start - LpcInput))
      BY <3>1 DEF ShiftBuffer, Moved
    <3>2. c.start <= LpcInput => ShiftBuffer(c) = c
      BY DEF ShiftBuffer
    <3> QED
      BY <1>17, <3>1, <3>2, MovedStream
  <2> QED
    BY <1>3, <2>1
<1>19. /\ d.file = c.file /\ d.packets = c.packets
  BY <1>18 DEF SameStream, SamePages
<1> QED
  BY <1>10, <1>17, <1>19 DEF Ended, d

(* The drain writes nothing more. *)
LEMMA DrainKeeps ==
    ASSUME NEW s \in [1..Period -> Sizes], NEW e, Recording(e, s)
    PROVE  Drain(e, s).written = e.written
<1> DEFINE i == InitStream(e)
           b == BeforeDrain(e)
           p == Padding(e)
           u == b.stop + p
           y == Draining(b, u)
           c == FoldLeft(EncodeFrame, y, NextSizes(y, s))
           d == Drain(e, s)
<1>1. i \in Encoder /\ Live(i, s) /\ i.written = e.written
  BY RecordingBegins
<1>2. d = EncodeBuffer(y, s)
  BY DEF Drain, Draining
<1>3. d = IF c.stop = BufferSamples THEN ShiftBuffer(c) ELSE c
  BY <1>2 DEF EncodeBuffer, NextSizes
<1>4. b = ShiftBuffer(i)
  BY DEF BeforeDrain
<1> HIDE DEF i, b, d
<1>5. b \in Encoder /\ SameStream(b, i)
  <2>1. i.start <= i.stop
    BY <1>1 DEF Live, Rested
  <2> QED
    BY <1>1, <1>4, <2>1, Shifts
<1>6. p \in Nat
  <2>1. e.init \in BOOLEAN
    BY EncoderFields DEF Recording
  <2> QED
    BY <2>1, Paddings
<1> HIDE DEF p
<1>7. u \in Nat
  BY <1>5, <1>6, EncoderFields
<1> HIDE DEF u
<1>8. /\ y \in Encoder /\ SamePages(y, b) /\ y.init = b.init /\ y.curr = b.curr
      /\ y.packets = b.packets /\ y.done = b.done /\ y.written = b.written
  BY <1>5, <1>7, DrainingFields
<1> HIDE DEF y, c
<1>9. Running(y, s)
  <2>1. Running(b, s)
    BY <1>1, <1>5, SameStreamRuns DEF Live, Rested
  <2>2. \A m : Packed(b, s, m) => Packed(y, s, m)
    BY <1>8, PackedSame
  <2>3. Cadence(y) /\ y.file # <<>> /\ ~y.eos
    BY <1>8, <2>1 DEF Running, Cadence, SamePages
  <2> QED
    BY <1>8, <2>1, <2>2, <2>3 DEF Running
<1>10. c \in Encoder /\ c.written = y.written
  BY <1>8, <1>9, LoopDone DEF c, Loop, SameInput
<1>11. d.written = c.written
  <2>1. ASSUME ~(c.start <= LpcInput)
        PROVE  ShiftBuffer(c) = Moved(c, LpcInput, c.stop - (c.start - LpcInput))
    BY <2>1 DEF ShiftBuffer, Moved
  <2>2. c.start <= LpcInput => ShiftBuffer(c) = c
    BY DEF ShiftBuffer
  <2>3. ShiftBuffer(c).written = c.written
    BY <1>10, <2>1, <2>2, MovedStream DEF SameStream
  <2> QED
    BY <1>3, <2>3
<1> QED
  BY <1>1, <1>5, <1>8, <1>10, <1>11 DEF SameStream, d

LEMMA RoomForDrain ==
    ASSUME NEW s \in [1..Period -> Sizes], NEW e, Recording(e, s)
    PROVE  /\ e.stop < BufferSamples
           /\ BeforeDrain(e).stop + Padding(e) <= BufferSamples
<1> DEFINE i == InitStream(e)
           b == BeforeDrain(e)
           p == Padding(e)
<1>1. /\ i \in Encoder /\ Live(i, s) /\ e.init => i = e
      /\ e \in Encoder /\ e.init \in BOOLEAN
  BY RecordingBegins, EncoderFields DEF Recording
<1>2. i \in Encoder /\ Rested(i, s) /\ i.start <= i.stop
  BY RecordingBegins DEF Live, Rested
<1>3. b = ShiftBuffer(i)
  BY DEF BeforeDrain
<1>4. e.stop < BufferSamples
  <2>1. CASE e.init
    BY <1>2, <2>1, RecordingBegins DEF Rested
  <2>2. CASE ~e.init
    <3>1. e = Fresh(e.end)
      BY <2>2 DEF Recording
    <3>2. \A m : Fresh(m).stop = 0
      BY DEF Fresh
    <3>3. e.stop = 0
      BY <3>1, <3>2
    <3> QED
      BY <3>3, Delays
  <2> QED
    BY <2>1, <2>2
<1>5. p \in Nat /\ (p = LpcPadding \/ p <= Preskip + FrameSize + Latency + 1)
  BY <1>1, Paddings
<1>6. i.stop - i.start <= FrameSize + DecisionDelay
  BY <1>2 DEF Rested
<1> HIDE DEF i, b, p
<1>7. /\ b \in Encoder /\ b.start <= LpcInput /\ b.stop - b.start = i.stop - i.start
  BY <1>2, <1>3, Shifts
<1>8. /\ b.start \in Nat /\ b.stop \in Nat /\ i.start \in Nat /\ i.stop \in Nat
  BY <1>2, <1>7, EncoderFields
<1>9. b.stop <= LpcInput + FrameSize + DecisionDelay
  BY <1>6, <1>7, <1>8, Delays
<1>10. LpcInput + FrameSize + DecisionDelay + p <= BufferSamples
  <2>1. \A q \in Int : q = LpcPadding \/ q <= Preskip + FrameSize + Latency + 1 =>
           LpcInput + FrameSize + DecisionDelay + q <= BufferSamples
    BY Delays
  <2>2. p \in Int
    BY <1>5
  <2> QED
    BY <1>5, <2>1, <2>2
<1>11. b.stop + p <= BufferSamples
  <2>1. /\ LpcInput \in Nat /\ FrameSize \in Nat /\ DecisionDelay \in Nat
        /\ BufferSamples \in Nat /\ p \in Nat
    BY <1>5, Delays
  <2> QED
    BY <1>8, <1>9, <1>10, <2>1
<1> QED
  BY <1>4, <1>11 DEF b, p

-----------------------------------------------------------------------------
(***************************************************************************)
(* The sound that waits on the audio queue                                 *)
(***************************************************************************)
LEMMA SoundAdds ==
    ASSUME NEW b \in Nat, NEW c \in Nat, NEW s \in Seq(Nat)
    PROVE  /\ Sound!Fold(b, s) \in Nat
           /\ Sound!Fold(b + c, s) = Sound!Fold(b, s) + c
<1> DEFINE n == Len(s)
           d == b + c
<1>1. n \in Nat /\ \A i \in 1..n : s[i] \in Nat
  OBVIOUS
<1> HIDE DEF d
<1>2. PICK f : Sound!Steps(f, b, s) /\ Sound!Fold(b, s) = f[Len(s)]
  BY Sound!FoldSteps
<1>3. PICK g : Sound!Steps(g, d, s) /\ Sound!Fold(d, s) = g[Len(s)]
  BY Sound!FoldSteps
<1> DEFINE J == {i \in Nat : f[i] \in Nat /\ g[i] = f[i] + c}
<1>4. 0 \in J
  BY <1>2, <1>3 DEF Sound!Steps, d
<1>5. ASSUME NEW i \in 0..(n - 1), i \in J
      PROVE  i + 1 \in J
  <2>1. i + 1 \in 1..n /\ (i + 1) - 1 = i /\ i + 1 \in Nat
    BY <1>1
  <2>2. f[i + 1] = f[i] + s[i + 1] /\ g[i + 1] = g[i] + s[i + 1]
    BY <1>2, <1>3, <2>1 DEF Sound!Steps, Plus
  <2>3. s[i + 1] \in Nat /\ f[i] \in Nat /\ g[i] = f[i] + c
    BY <1>1, <1>5, <2>1
  <2>4. f[i + 1] \in Nat /\ g[i + 1] = f[i + 1] + c
    BY <2>2, <2>3
  <2> QED
    BY <2>1, <2>4
<1> HIDE DEF J
<1>6. \A i \in 0..n : i \in J
  BY <1>1, <1>4, <1>5, Sound!UpTo
<1>7. n \in J
  BY <1>1, <1>6
<1> QED
  BY <1>2, <1>3, <1>7 DEF J, n, d

-----------------------------------------------------------------------------
(***************************************************************************)
(* The recorder                                                            *)
(***************************************************************************)

(* All the tap delivered was taken by process() or waits for it, and while *)
(* nothing failed the encoder was given what the converter did not hold.   *)
EncoderInv == encoder # None => Recording(encoder, size)
Counted ==
    /\ captured = Sound!Fold(taken, queue)
    /\ encoder = None => taken = 0
Kept == encoder # None /\ fault = "none" => Converted(taken, encoder.written)

Invariant == TypeOK /\ EncoderInv /\ Counted /\ Kept /\ NoteIsWhole

LEMMA Parameters ==
    /\ BufferSizes \subseteq Nat \ {0} /\ Memory \subseteq Nat /\ MaxSamples \in Nat
    /\ MaxPresses \in Nat /\ None \notin Encoder
    /\ None \notin {"send", "auto-stop", "cancel"}
    /\ InRate \in Nat \ {0} /\ OutRate \in Nat \ {0} /\ Extra \in Nat \ {0}
    /\ Held \in Nat
  BY VoiceRecorderAssumption DEF VoiceRecorderAssumption

LEMMA FreshRecording ==
    ASSUME NEW memory \in Memory, NEW s
    PROVE  Recording(Fresh(memory), s) /\ Fresh(memory).written = 0
<1> DEFINE e == Fresh(memory)
<1>1. e \in Encoder
  BY Parameters, FreshFields
<1>2. e.end = memory /\ ~e.init /\ e.written = 0
  BY DEF Fresh
<1>3. e = Fresh(e.end)
  BY <1>2
<1> HIDE DEF e
<1> QED
  BY <1>1, <1>2, <1>3, Parameters DEF Recording, e

LEMMA CountsTap ==
    ASSUME NEW w \in Nat, NEW q \in Seq(BufferSizes), NEW n \in BufferSizes
    PROVE  Sound!Fold(w, Append(q, n)) = Sound!Fold(w, q) + n
  BY Sound!FoldAppend DEF Plus

LEMMA CountsTake ==
    ASSUME NEW w \in Nat, NEW q \in Seq(BufferSizes), q # <<>>
    PROVE  /\ Head(q) \in BufferSizes /\ Tail(q) \in Seq(BufferSizes)
           /\ Sound!Fold(w, q) = Sound!Fold(w + Head(q), Tail(q))
           /\ Sound!Fold(w, q) = Sound!Fold(w, Tail(q)) + Head(q)
           /\ Sound!Fold(w, Tail(q)) \in Nat
           /\ w + Head(q) \in Nat /\ w + Head(q) <= Sound!Fold(w, q)
<1>1. Head(q) \in BufferSizes /\ Tail(q) \in Seq(BufferSizes)
  OBVIOUS
<1> DEFINE h == Head(q)
           t == Tail(q)
           a == w + h
<1>2. h \in Nat /\ t \in Seq(Nat)
  <2>1. h \in BufferSizes /\ t \in Seq(BufferSizes) /\ BufferSizes \subseteq Nat
    BY <1>1, Parameters
  <2> HIDE DEF h, t
  <2>2. \A i \in 1..Len(t) : t[i] \in Nat
    <3>1. \A i \in 1..Len(t) : t[i] \in BufferSizes
      BY <2>1
    <3>2. \A x \in BufferSizes : x \in Nat
      BY <2>1
    <3> QED
      BY <3>1, <3>2
  <2> QED
    BY <2>1, <2>2
<1>3. Sound!Fold(w, q) = Sound!Fold(w + h, t)
  BY Sound!FoldHead DEF Plus
<1> HIDE DEF h, t
<1>4. Sound!Fold(w + h, t) = Sound!Fold(w, t) + h /\ Sound!Fold(w, t) \in Nat
  BY <1>2, SoundAdds
<1>5. a \in Nat /\ a <= Sound!Fold(a, t)
  <2>1. a \in Nat /\ 0 + a = a
    BY <1>2
  <2> HIDE DEF a
  <2>2. Sound!Fold(0 + a, t) = Sound!Fold(0, t) + a /\ Sound!Fold(0, t) \in Nat
    BY <1>2, <2>1, SoundAdds
  <2> QED
    BY <2>1, <2>2
<1> QED
  BY <1>1, <1>3, <1>4, <1>5 DEF h, t, a

(* An output buffer is never more than a shifted buffer has room for. *)
LEMMA Capacities ==
    ASSUME NEW n \in BufferSizes, NEW m \in 0..Capacity(n)
    PROVE  /\ m \in Nat
           /\ LpcInput + FrameSize + DecisionDelay + Ratio * m <= BufferSamples
<1> DEFINE c == Capacity(n)
           share == n * OutRate
           k == Ratio * m
           l == Ratio * c
<1>1. c \in Nat
  <2>1. share \in Nat /\ InRate \in Nat \ {0} /\ Extra \in Nat
    BY Parameters
  <2>2. c = share \div InRate + Extra
    BY DEF Capacity
  <2> HIDE DEF c, share
  <2>3. share \div InRate \in Nat
    BY <2>1, Division
  <2> QED
    BY <2>1, <2>2, <2>3
<1>2. LpcInput + FrameSize + DecisionDelay + l <= BufferSamples
  BY VoiceRecorderAssumption DEF VoiceRecorderAssumption
<1> HIDE DEF c
<1>3. m \in Nat /\ m <= c
  BY <1>1 DEF c
<1>4. k \in Nat /\ l \in Nat /\ k <= l
  <2>1. Ratio \in Nat
    BY Delays
  <2> QED
    BY <1>1, <1>3, <2>1
<1>5. /\ LpcInput \in Nat /\ FrameSize \in Nat /\ DecisionDelay \in Nat
      /\ BufferSamples \in Nat
  BY Delays
<1> HIDE DEF k, l
<1>6. LpcInput + FrameSize + DecisionDelay + k <= BufferSamples
  BY <1>2, <1>4, <1>5
<1> QED
  BY <1>3, <1>6 DEF k

(* A buffer that is converted. *)
LEMMA Processed ==
    ASSUME TypeOK, EncoderInv, queue # <<>>, NEW m \in 0..Capacity(Head(queue)), Process(m)
    PROVE  /\ encoder # None /\ encoder' # None /\ Recording(encoder', size)
           /\ encoder'.written = encoder.written + m
<1> DEFINE n == Head(queue)
<1>1. size \in [1..Period -> Sizes] /\ queue \in Seq(BufferSizes)
  BY DEF TypeOK
<1>2. encoder # None /\ Recording(encoder, size)
  BY DEF Process, Take, EncoderInv
<1>3. n \in BufferSizes /\ m \in 0..Capacity(n)
  BY <1>1
<1> HIDE DEF n
<1>4. m \in Nat /\ LpcInput + FrameSize + DecisionDelay + Ratio * m <= BufferSamples
  BY <1>3, Capacities
<1>5. CASE m = 0
  <2>1. encoder' = encoder
    BY <1>5 DEF Process
  <2>2. encoder.written \in Nat
    BY <1>2, EncoderFields DEF Recording
  <2> QED
    BY <1>2, <1>5, <2>1, <2>2
<1>6. CASE m # 0
  <2>1. encoder' = WriteFloat(encoder, size, m)
    BY <1>6 DEF Process
  <2>2. /\ Recording(WriteFloat(encoder, size, m), size)
        /\ WriteFloat(encoder, size, m).written = encoder.written + m
    BY <1>1, <1>2, <1>4, Written
  <2>3. encoder' # None
    BY <2>1, <2>2, Parameters DEF Recording
  <2> QED
    BY <1>2, <2>1, <2>2, <2>3
<1> QED
  BY <1>5, <1>6

(* What an action does to the encoder and to what is known of it. *)
LEMMA EncoderSteps ==
    ASSUME TypeOK, [Next]_vars
    PROVE  /\ size' = size
           /\ \/ encoder' = encoder /\ taken' = taken /\ fault' = fault
              \/ encoder' = encoder /\ Take /\ fault' \in {"dropped", "failed"}
              \/ encoder' = None
              \/ /\ \E memory \in Memory : encoder' = Fresh(memory)
                 /\ encoder = None /\ taken' = taken /\ fault' = fault
              \/ queue # <<>> /\ \E m \in 0..Capacity(Head(queue)) : Process(m)
<1>1. CASE UNCHANGED vars
  BY <1>1 DEF vars, sound
<1>2. CASE Next
  <2>1. CASE Press \/ Denied \/ Start \/ AutoStopAtCap
             \/ \E wantsCancel \in BOOLEAN : Release(wantsCancel)
    BY <2>1 DEF Press, Denied, Start, AutoStopAtCap, Release, sound
  <2>2. CASE Started
    BY <2>2 DEF Started, TypeOK
  <2>3. CASE (\E n \in BufferSizes : Tap(n)) \/ Discard
    BY <2>3 DEF Tap, Discard, Dequeue
  <2>4. CASE ConversionFails
    <3>1. fault' \in {"dropped", "failed"}
      BY <2>4 DEF ConversionFails, TypeOK
    <3> QED
      BY <2>4, <3>1 DEF ConversionFails, Take, Dequeue
  <2>5. CASE WriteFails
    BY <2>5 DEF WriteFails, Take, Dequeue
  <2>6. CASE queue # <<>> /\ \E m \in 0..Capacity(Head(queue)) : Process(m)
    BY <2>6 DEF Process, Take, Dequeue
  <2>7. CASE Finalized
    BY <2>7 DEF Finalized
  <2> QED
    BY <1>2, <2>1, <2>2, <2>3, <2>4, <2>5, <2>6, <2>7 DEF Next
<1> QED
  BY <1>1, <1>2

LEMMA RecordingStep ==
    ASSUME TypeOK, EncoderInv, [Next]_vars
    PROVE  EncoderInv' /\ (encoder' \in Encoder \cup {None})
<1>1. encoder \in Encoder \cup {None} /\ size' = size
  BY EncoderSteps DEF TypeOK
<1>2. CASE encoder' = encoder
  BY <1>1, <1>2 DEF EncoderInv
<1>3. CASE encoder' = None
  BY <1>3 DEF EncoderInv
<1>4. CASE \E memory \in Memory : encoder' = Fresh(memory)
  <2>1. PICK memory \in Memory : encoder' = Fresh(memory)
    BY <1>4
  <2>2. Recording(encoder', size)
    BY <2>1, FreshRecording
  <2> QED
    BY <1>1, <2>2 DEF EncoderInv, Recording
<1>5. CASE queue # <<>> /\ \E m \in 0..Capacity(Head(queue)) : Process(m)
  <2>1. PICK m \in 0..Capacity(Head(queue)) : Process(m)
    BY <1>5
  <2>2. Recording(encoder', size)
    BY <1>5, <2>1, Processed
  <2> QED
    BY <1>1, <2>2 DEF EncoderInv, Recording
<1> QED
  BY <1>2, <1>3, <1>4, <1>5, EncoderSteps

(* What an action does to the sound that is counted. *)
LEMMA CountStep ==
    ASSUME TypeOK, EncoderInv, Counted, [Next]_vars
    PROVE  /\ Counted'
           /\ captured' \in 0..MaxSamples /\ taken' \in 0..MaxSamples
           /\ queue' \in Seq(BufferSizes)
<1>1. /\ queue \in Seq(BufferSizes) /\ captured \in 0..MaxSamples
      /\ taken \in 0..MaxSamples /\ MaxSamples \in Nat /\ taken \in Nat
  BY Parameters DEF TypeOK
<1>2. captured = Sound!Fold(taken, queue) /\ (encoder = None => taken = 0)
  BY DEF Counted
<1> DEFINE Done == /\ Counted'
                   /\ captured' \in 0..MaxSamples /\ taken' \in 0..MaxSamples
                   /\ queue' \in Seq(BufferSizes)
<1> SUFFICES Done
  OBVIOUS
<1>3. ASSUME UNCHANGED <<queue, captured, taken>>, encoder' = None => encoder = None
      PROVE  Done
  BY <1>1, <1>2, <1>3 DEF Counted
<1>4. CASE UNCHANGED vars
  BY <1>3, <1>4 DEF vars, sound
<1>5. CASE Press \/ Denied \/ Start \/ AutoStopAtCap
           \/ \E wantsCancel \in BOOLEAN : Release(wantsCancel)
  BY <1>3, <1>5 DEF Press, Denied, Start, AutoStopAtCap, Release, sound
<1>6. CASE Started
  <2>1. encoder = None /\ UNCHANGED <<queue, captured, taken>>
    BY <1>6 DEF Started, TypeOK
  <2> QED
    BY <1>3, <2>1
<1>7. ASSUME NEW n \in BufferSizes, Tap(n)
      PROVE  Done
  <2>1. /\ queue' = Append(queue, n) /\ captured' = captured + n
        /\ captured + n <= MaxSamples /\ encoder' = encoder /\ taken' = taken
    BY <1>7 DEF Tap
  <2>2. Sound!Fold(taken, Append(queue, n)) = captured + n
    BY <1>1, <1>2, CountsTap
  <2>3. captured + n \in 0..MaxSamples /\ Append(queue, n) \in Seq(BufferSizes)
    <3>1. n \in Nat
      BY Parameters
    <3> QED
      BY <1>1, <2>1, <3>1
  <2> QED
    BY <1>1, <1>2, <2>1, <2>2, <2>3 DEF Counted
<1>8. ASSUME queue # <<>>
      PROVE  LET h == Head(queue)
                 t == Tail(queue)
             IN  /\ h \in Nat /\ t \in Seq(BufferSizes)
                 /\ captured = Sound!Fold(taken + h, t) /\ taken + h <= captured
                 /\ captured = Sound!Fold(taken, t) + h /\ Sound!Fold(taken, t) \in Nat
  BY <1>1, <1>2, <1>8, CountsTake, Parameters
<1>9. CASE Discard
  <2>1. /\ queue # <<>> /\ queue' = Tail(queue) /\ captured' = captured - Head(queue)
        /\ encoder = None /\ encoder' = encoder /\ taken' = taken
    BY <1>9 DEF Discard, Dequeue
  <2> DEFINE h == Head(queue)
             t == Tail(queue)
             f == Sound!Fold(taken, t)
  <2>2. h \in Nat /\ t \in Seq(BufferSizes) /\ captured = f + h /\ f \in Nat
    BY <1>8, <2>1
  <2>3. captured' = captured - h /\ queue' = t
    BY <2>1
  <2>4. f = Sound!Fold(taken, t)
    OBVIOUS
  <2> HIDE DEF h, t, f
  <2>5. captured' = f /\ f \in 0..MaxSamples
    BY <1>1, <2>2, <2>3
  <2> QED
    BY <1>1, <1>2, <2>1, <2>2, <2>3, <2>4, <2>5 DEF Counted
<1>10. ASSUME Take, encoder' # None
       PROVE  Done
  <2>1. /\ queue # <<>> /\ queue' = Tail(queue) /\ captured' = captured
        /\ taken' = taken + Head(queue)
    BY <1>10 DEF Take, Dequeue
  <2> DEFINE h == Head(queue)
             t == Tail(queue)
             a == taken + h
  <2>2. /\ h \in Nat /\ t \in Seq(BufferSizes)
        /\ captured = Sound!Fold(a, t) /\ a <= captured
    BY <1>8, <2>1
  <2>3. taken' = a /\ queue' = t
    BY <2>1
  <2>4. a \in Nat
    BY <1>1, <2>2
  <2> HIDE DEF h, t, a
  <2>5. a \in 0..MaxSamples
    BY <1>1, <2>2, <2>4
  <2> QED
    BY <1>1, <1>10, <2>1, <2>2, <2>3, <2>5 DEF Counted
<1>11. CASE ConversionFails \/ WriteFails
  <2>1. Take /\ encoder' # None
    BY <1>11 DEF ConversionFails, WriteFails, Take
  <2> QED
    BY <1>10, <2>1
<1>12. CASE queue # <<>> /\ \E m \in 0..Capacity(Head(queue)) : Process(m)
  <2>1. PICK m \in 0..Capacity(Head(queue)) : Process(m)
    BY <1>12
  <2>2. encoder' # None
    BY <1>12, <2>1, Processed
  <2>3. Take
    BY <2>1 DEF Process
  <2> QED
    BY <1>10, <2>2, <2>3
<1>13. CASE Finalized
  <2>1. queue = <<>> /\ queue' = queue /\ taken' = 0 /\ captured' = 0
    BY <1>13 DEF Finalized, QueueDrained
  <2>2. Sound!Fold(0, <<>>) = 0
    BY Sound!FoldEmpty
  <2> QED
    BY <1>1, <2>1, <2>2 DEF Counted
<1> HIDE DEF Done
<1>14. CASE \E n \in BufferSizes : Tap(n)
  BY <1>7, <1>14
<1>15. Next => Done
  BY <1>5, <1>6, <1>9, <1>11, <1>12, <1>13, <1>14, Zenon DEF Next
<1> QED
  BY <1>4, <1>15

(* What the encoder was given is what was taken, but for what is held. *)
LEMMA KeptStep ==
    ASSUME TypeOK, EncoderInv, Counted, Kept, [Next]_vars
    PROVE  Kept'
<1>1. CASE encoder' = encoder /\ taken' = taken /\ fault' = fault
  BY <1>1 DEF Kept
<1>2. CASE fault' \in {"dropped", "failed"}
  BY <1>2 DEF Kept
<1>3. CASE encoder' = None
  BY <1>3 DEF Kept
<1>4. CASE /\ \E memory \in Memory : encoder' = Fresh(memory)
           /\ encoder = None /\ taken' = taken /\ fault' = fault
  <2>1. encoder'.written = 0
    BY <1>4, FreshRecording
  <2>2. taken' = 0
    BY <1>4 DEF Counted
  <2>3. Converted(0, 0)
    <3>1. InRate * 0 = 0 /\ OutRate * 0 = 0 /\ OutRate * Held \in Nat
      BY Parameters
    <3> QED
      BY <3>1 DEF Converted
  <2>4. Converted(taken', encoder'.written)
    BY <2>1, <2>2, <2>3
  <2> QED
    BY <2>4 DEF Kept
<1>5. CASE queue # <<>> /\ \E m \in 0..Capacity(Head(queue)) : Process(m)
  <2>1. PICK m \in 0..Capacity(Head(queue)) : Process(m)
    BY <1>5
  <2>2. encoder'.written = encoder.written + m
    BY <1>5, <2>1, Processed
  <2>3. fault' = fault /\ (fault = "none" => Converted(taken', encoder.written + m))
    BY <2>1 DEF Process
  <2> QED
    BY <2>2, <2>3 DEF Kept
<1> QED
  BY <1>1, <1>2, <1>3, <1>4, <1>5, EncoderSteps

(* Every unanswered question is that of a press. *)
Asked == asking <= presses

LEMMA TypeStep ==
    ASSUME TypeOK, EncoderInv, Counted, Asked, [Next]_vars
    PROVE  TypeOK' /\ Asked'
<1>1. /\ encoder' \in Encoder \cup {None} /\ captured' \in 0..MaxSamples
      /\ taken' \in 0..MaxSamples /\ queue' \in Seq(BufferSizes)
      /\ size' \in [1..Period -> Sizes]
  BY RecordingStep, CountStep, EncoderSteps DEF TypeOK
<1> DEFINE Sounds == \/ \E n \in BufferSizes : Tap(n)
                     \/ Discard \/ ConversionFails \/ WriteFails
                     \/ queue # <<>> /\ \E m \in 0..Capacity(Head(queue)) : Process(m)
<1>2. ASSUME Sounds
      PROVE  UNCHANGED <<button, state, purpose>>
  BY <1>2 DEF Tap, Discard, ConversionFails, WriteFails, Process, Take, Dequeue
<1>3. Next => \/ Press \/ Denied \/ Start \/ Started \/ Sounds
              \/ (\E wantsCancel \in BOOLEAN : Release(wantsCancel))
              \/ AutoStopAtCap \/ Finalized
  BY DEF Next
<1> HIDE DEF Sounds
<1>4. held' \in BOOLEAN /\ state' \in State
  BY <1>2, <1>3 DEF TypeOK, State, vars, button, Press, Denied, Start, Started, Release,
                   AutoStopAtCap, Finalized, Finalize
<1>5. fault' \in {"none", "dropped", "failed"}
  <2>1. fault \in {"none", "dropped", "failed"}
    BY DEF TypeOK
  <2>2. CASE Finalized
    BY <2>2 DEF Finalized
  <2>3. CASE fault' = fault \/ fault' \in {"dropped", "failed"}
    BY <2>1, <2>3
  <2>4. encoder' = None /\ ~Finalized => fault' = fault
    BY DEF Next, vars, sound, Press, Denied, Start, Started, Tap, Discard, ConversionFails,
           WriteFails, Process, Take, Dequeue, Release, AutoStopAtCap
  <2>5. \A m : Process(m) => fault' = fault
    BY DEF Process
  <2> QED
    BY <2>2, <2>3, <2>4, <2>5, EncoderSteps
<1>6. presses' \in 0..MaxPresses /\ asking' \in 0..MaxPresses /\ Asked'
  <2>1. /\ presses \in 0..MaxPresses /\ asking \in 0..MaxPresses /\ asking <= presses
        /\ MaxPresses \in Nat
    BY Parameters DEF TypeOK, Asked
  <2>2. \/ presses' = presses /\ asking' = asking
        \/ presses < MaxPresses /\ presses' = presses + 1 /\ asking' = asking + 1
        \/ asking > 0 /\ presses' = presses /\ asking' = asking - 1
    BY <1>2, <1>3 DEF vars, button, Press, Denied, Start, Started, Release, AutoStopAtCap,
                     Finalized
  <2> QED
    BY <2>1, <2>2 DEF Asked
<1>7. /\ purpose' \in Purpose \cup {None} /\ ((purpose' = None) = (state' # "finalizing"))
  <2>1. /\ purpose \in Purpose \cup {None} /\ ((purpose = None) = (state # "finalizing"))
    BY DEF TypeOK
  <2>2. \/ /\ purpose' = purpose
           /\ (state' # "finalizing") = (state # "finalizing")
        \/ purpose' \in Purpose /\ state' = "finalizing"
        \/ purpose' = None /\ state' # "finalizing"
    <3>1. CASE UNCHANGED vars
      BY <3>1 DEF vars
    <3>2. CASE Press \/ Denied \/ Sounds
      BY <1>2, <3>2 DEF Press, Denied
    <3>3. CASE Start
      BY <3>3 DEF Start, MainIsFree
    <3>4. CASE Started
      BY <3>4 DEF Started
    <3>5. CASE \E wantsCancel \in BOOLEAN : Release(wantsCancel)
      BY <3>5 DEF Release, Finalize, MainIsFree, Purpose
    <3>6. CASE AutoStopAtCap \/ Finalized
      BY <3>6 DEF AutoStopAtCap, Finalized, Finalize, Purpose
    <3> QED
      BY <1>3, <3>1, <3>2, <3>3, <3>4, <3>5, <3>6
  <2>3. None \notin Purpose
    BY Parameters DEF Purpose
  <2> QED
    BY <2>1, <2>2, <2>3, Zenon
<1>8. (encoder' = None) = (state' \notin {"recording", "finalizing"})
  <2>1. (encoder = None) = (state \notin {"recording", "finalizing"})
    BY DEF TypeOK
  <2>2. \/ /\ (encoder' = None) = (encoder = None)
           /\ (state' \in {"recording", "finalizing"})
                  = (state \in {"recording", "finalizing"})
        \/ encoder' # None /\ state' \in {"recording", "finalizing"}
        \/ encoder' = None /\ state' \notin {"recording", "finalizing"}
    <3>1. CASE UNCHANGED vars
      BY <3>1 DEF vars, sound
    <3>2. CASE Press \/ Denied
      BY <3>2 DEF Press, Denied, sound
    <3>3. CASE Start
      BY <2>1, <3>3 DEF Start, sound
    <3>4. CASE Started
      BY <3>4, Parameters, FreshFields DEF Started
    <3>5. CASE Sounds
      <4>1. (encoder' = None) = (encoder = None)
        <5>1. CASE encoder' = encoder
          BY <5>1
        <5>2. CASE queue # <<>> /\ \E m \in 0..Capacity(Head(queue)) : Process(m)
          BY <5>2, Processed
        <5> QED
          BY <3>5, <5>1, <5>2 DEF Sounds, Tap, Discard, ConversionFails, WriteFails
      <4> QED
        BY <1>2, <3>5, <4>1
    <3>6. CASE \E wantsCancel \in BOOLEAN : Release(wantsCancel)
      BY <2>1, <3>6 DEF Release, Finalize, MainIsFree, sound
    <3>7. CASE AutoStopAtCap
      BY <2>1, <3>7 DEF AutoStopAtCap, Finalize, sound
    <3>8. CASE Finalized
      BY <3>8 DEF Finalized
    <3> QED
      BY <1>3, <3>1, <3>2, <3>3, <3>4, <3>5, <3>6, <3>7, <3>8
  <2> QED
    BY <2>1, <2>2, Zenon
<1> QED
  BY <1>1, <1>4, <1>5, <1>6, <1>7, <1>8 DEF TypeOK

(* A note that is handed on. *)
LEMMA PacketsAre ==
    ASSUME NEW e
    PROVE  PacketsOf(e) = FirstPackets(size, e.packets)
  BY DEF PacketsOf, FirstPackets, Packet, PacketSize

LEMMA NoteStep ==
    ASSUME TypeOK, EncoderInv, Counted, Kept, NoteIsWhole, [Next]_vars
    PROVE  NoteIsWhole'
<1>1. size' = size
  BY EncoderSteps
<1>2. CASE note' = note
  BY <1>1, <1>2 DEF NoteIsWhole, PacketsOf
<1>3. CASE note' # note
  <2>1. Finalized /\ purpose # "cancel"
    BY <1>3 DEF Next, vars, Press, Denied, Start, Started, Tap, Discard, ConversionFails,
                WriteFails, Process, Take, Dequeue, Release, AutoStopAtCap, Finalized
  <2>2. queue = <<>> /\ encoder # None
    BY <2>1 DEF Finalized, QueueDrained, TypeOK
  <2> DEFINE d == Drain(encoder, size)
  <2>3. \/ note' = [fault |-> "failed"]
        \/ note' = [fault |-> fault, drained |-> d, captured |-> captured]
    BY <2>1 DEF Finalized
  <2>4. CASE note' = [fault |-> "failed"]
    BY <2>4 DEF NoteIsWhole
  <2>5. CASE note' = [fault |-> fault, drained |-> d, captured |-> captured]
    <3>1. Recording(encoder, size) /\ size \in [1..Period -> Sizes]
      BY <2>2 DEF EncoderInv, TypeOK
    <3>2. /\ note'.drained = d /\ note'.captured = captured /\ note'.fault = fault
          /\ d.written = encoder.written
      BY <2>5, <3>1, DrainKeeps
    <3>3. captured = taken
      <4>1. captured = Sound!Fold(taken, <<>>)
        BY <2>2 DEF Counted
      <4> QED
        BY <4>1, Sound!FoldEmpty
    <3>4. fault = "none" => Converted(captured, d.written)
      BY <2>2, <3>2, <3>3 DEF Kept
    <3>5. ASSUME d.written > 0
          PROVE  /\ Demux(d.file)
                      = [packets |-> FirstPackets(size, d.packets), pending |-> Nothing]
                 /\ Last(d.file).eos /\ PeekDuration(d.file) = Ratio * d.written
      <4>1. encoder.init
        <5>1. ~encoder.init => encoder.written = 0
          <6>1. \A m : Fresh(m).written = 0
            BY DEF Fresh
          <6> QED
            BY <3>1, <6>1 DEF Recording
        <5> QED
          BY <3>2, <3>5, <5>1
      <4>2. /\ Demux(d.file) = Read(size, d.packets) /\ Last(d.file).eos
            /\ Last(d.file).granule = Ratio * d.written + Preskip
        BY <3>1, <3>2, <4>1, Drained
      <4>3. PeekDuration(d.file) = Ratio * d.written
        <5>1. encoder.written \in Nat
          BY <3>1, EncoderFields DEF Recording
        <5>2. Ratio * d.written \in Nat /\ Preskip \in Nat
          BY <3>2, <5>1, Delays
        <5> HIDE DEF d
        <5> QED
          BY <4>2, <5>2 DEF PeekDuration
      <4> QED
        BY <4>2, <4>3 DEF Read, Reader, Nothing
    <3> HIDE DEF d
    <3> QED
      BY <1>1, <3>2, <3>4, <3>5 DEF NoteIsWhole, PacketsOf, FirstPackets, Packet, PacketSize
  <2> QED
    BY <2>3, <2>4, <2>5
<1> QED
  BY <1>2, <1>3

-----------------------------------------------------------------------------
LEMMA InvariantInit == Init => Invariant /\ Asked
<1> SUFFICES ASSUME Init PROVE Invariant /\ Asked
  OBVIOUS
<1>1. TypeOK /\ Asked
  <2>1. <<>> \in Seq(BufferSizes) /\ 0 \in 0..MaxPresses /\ 0 \in 0..MaxSamples
    BY Parameters
  <2>2. /\ (encoder = None) = (state \notin {"recording", "finalizing"})
        /\ (purpose = None) = (state # "finalizing")
    BY DEF Init
  <2>3. /\ size \in [1..Period -> Sizes] /\ held \in BOOLEAN /\ presses \in 0..MaxPresses
        /\ asking \in 0..MaxPresses /\ state \in State /\ purpose \in Purpose \cup {None}
        /\ queue \in Seq(BufferSizes) /\ captured \in 0..MaxSamples
        /\ taken \in 0..MaxSamples /\ fault \in {"none", "dropped", "failed"}
        /\ encoder \in Encoder \cup {None} /\ asking <= presses
    <3>1. /\ size \in [1..Period -> Sizes] /\ held = FALSE /\ presses = 0 /\ asking = 0
          /\ state = "idle" /\ purpose = None /\ queue = <<>> /\ captured = 0
          /\ taken = 0 /\ fault = "none" /\ encoder = None
      BY DEF Init
    <3>2. "idle" \in State /\ 0 <= 0 /\ FALSE \in BOOLEAN
      BY DEF State
    <3>3. fault \in {"none", "dropped", "failed"}
      BY <3>1
    <3> QED
      BY <2>1, <3>1, <3>2, <3>3, Zenon
  <2> QED
    BY <2>2, <2>3, Zenon DEF TypeOK, Asked
<1>2. EncoderInv /\ NoteIsWhole /\ Kept
  BY DEF Init, EncoderInv, NoteIsWhole, Kept
<1>3. Counted
  BY Sound!FoldEmpty DEF Init, Counted
<1> QED
  BY <1>1, <1>2, <1>3 DEF Invariant

LEMMA InvariantStep == Invariant /\ Asked /\ [Next]_vars => Invariant' /\ Asked'
  BY TypeStep, RecordingStep, CountStep, KeptStep, NoteStep DEF Invariant

(* The inductive invariant: what the encoder of a recording has been given *)
(* is in its pages or its buffer; all that was captured was taken or is on *)
(* the audio queue; what was taken was given to the encoder, but for what  *)
(* the converter holds; and every answer is awaited by a press.            *)
THEOREM InvariantHolds == Spec => [](Invariant /\ Asked)
  BY InvariantInit, InvariantStep, PTL DEF Spec

(* The recorder's states are of their types: with the encoder no buffer is *)
(* counted twice or taken back below nothing.                              *)
THEOREM RecorderTypes == Spec => []TypeOK
<1>1. Invariant => TypeOK
  BY DEF Invariant
<1> QED
  BY <1>1, InvariantHolds, PTL

(* A note whose writes succeeded is whole (VoiceRecorder.finishInternal    *)
(* and ope_encoder_drain): read back, every packet is there, the last page *)
(* ends the stream, its position is that of all the sound the encoder was  *)
(* given, and unless a conversion failed that is all the tap delivered,    *)
(* whatever was still on the audio queue, but for what the converter held. *)
THEOREM NotesAreWhole == Spec => []NoteIsWhole
<1>1. Invariant => NoteIsWhole
  BY DEF Invariant
<1> QED
  BY <1>1, InvariantHolds, PTL

(* The buffer of the encoder is never left full, and has room for the      *)
(* padding of the drain whenever that comes (encode_buffer,                *)
(* ope_encoder_drain).                                                     *)
THEOREM BufferAlwaysHasRoom == Spec => []BufferHasRoom
<1>1. Invariant => BufferHasRoom
  <2> SUFFICES ASSUME Invariant, encoder # None
               PROVE  /\ encoder.stop < BufferSamples
                      /\ BeforeDrain(encoder).stop + Padding(encoder) <= BufferSamples
    BY DEF BufferHasRoom
  <2>1. Recording(encoder, size) /\ size \in [1..Period -> Sizes]
    BY DEF Invariant, EncoderInv, TypeOK
  <2> QED
    BY <2>1, RoomForDrain
<1> QED
  BY <1>1, InvariantHolds, PTL

LEMMA PrefixesAre ==
    ASSUME NEW s, NEW n \in Nat, NEW k \in 0..n
    PROVE  IsPrefix(FirstPackets(s, k), FirstPackets(s, n))
<1> DEFINE All == {Packet(s, i) : i \in 1..n}
           a == FirstPackets(s, k)
           b == FirstPackets(s, n)
<1>1. \A i \in 1..n : Packet(s, i) \in All
  OBVIOUS
<1> HIDE DEF All
<1>2. /\ a \in Seq(All) /\ b \in Seq(All) /\ Len(a) = k /\ Len(b) = n
      /\ \A i \in 1..k : a[i] = b[i]
  BY <1>1 DEF FirstPackets
<1> HIDE DEF a, b
<1>3. /\ SubSeq(a, 1, k) \in Seq(All) /\ SubSeq(b, 1, k) \in Seq(All)
      /\ Len(SubSeq(a, 1, k)) = k /\ Len(SubSeq(b, 1, k)) = k
      /\ \A i \in 1..k : SubSeq(a, 1, k)[i] = a[i] /\ SubSeq(b, 1, k)[i] = b[i]
  BY <1>2
<1>4. SubSeq(a, 1, k) = SubSeq(b, 1, k)
  BY <1>2, <1>3
<1> QED
  BY <1>2, <1>4 DEF IsPrefix, a, b

LEMMA FileIsPrefix ==
    ASSUME NEW s \in [1..Period -> Sizes], NEW e, Recording(e, s), e.init
    PROVE  /\ \E k \in 0..e.packets : Demux(e.file) = Read(s, k)
           /\ Ratio * e.written <=
                 Last(e.file).granule + MuxingDelay + DecisionDelay + Latency
<1>1. /\ e \in Encoder /\ Live(e, s) /\ Rested(e, s) /\ Running(e, s)
      /\ Packed(e, s, e.packets) /\ Cadence(e)
  BY DEF Recording, Live, Rested, Running
<1>2. \E k \in 0..e.packets : Demux(e.file) = Read(s, k)
  BY <1>1 DEF Packed
<1>3. Last(e.file).granule = e.lastGranule
  BY <1>1 DEF Packed, Running
<1>4. e.curr + FrameSize <= e.lastGranule + MuxingDelay
  BY <1>1, CadenceBounds
<1> DEFINE w == Ratio * e.written
<1>5. w \in Nat /\ w <= e.resampled + Latency
  <2>1. e.written \in Nat /\ e.resampled = Resampled(e.written)
    BY <1>1, EncoderFields DEF Live
  <2>2. w <= Resampled(e.written) + Latency
    BY <2>1, ResampledIs
  <2>3. Ratio \in Nat
    BY Delays
  <2> QED
    BY <2>1, <2>2, <2>3
<1>6. /\ e.curr + (e.stop - e.start) = e.resampled
      /\ e.stop - e.start <= FrameSize + DecisionDelay
  BY <1>1 DEF Live, Rested
<1>7. /\ e.curr \in Nat /\ e.stop \in Nat /\ e.start \in Nat /\ e.resampled \in Nat
      /\ e.lastGranule \in Nat /\ FrameSize \in Nat /\ DecisionDelay \in Nat
      /\ Latency \in Nat /\ MuxingDelay \in Nat
  BY <1>1, EncoderFields, Delays
<1> HIDE DEF w
<1>8. w <= e.lastGranule + MuxingDelay + DecisionDelay + Latency
  <2>1. e.resampled <= e.curr + FrameSize + DecisionDelay
    BY <1>6, <1>7
  <2>2. e.resampled <= e.lastGranule + MuxingDelay + DecisionDelay
    BY <1>4, <1>7, <2>1
  <2> QED
    BY <1>5, <1>7, <2>2
<1> QED
  BY <1>2, <1>3, <1>8 DEF w

(* What has been handed to stdio in the middle of a recording is a         *)
(* beginning of it, in whole packets, and lacks no more sound than the     *)
(* packer, the encoder and the resampler may hold back (oggp_commit_packet *)
(* and encode_buffer).                                                     *)
THEOREM PagesAlwaysKeepUp == Spec => []PagesKeepUp
<1>1. Invariant => PagesKeepUp
  <2> SUFFICES ASSUME Invariant, encoder # None, encoder.init
               PROVE  /\ Demux(encoder.file).pending = Nothing
                      /\ IsPrefix(Demux(encoder.file).packets, PacketsOf(encoder))
                      /\ Ratio * encoder.written <=
                            Last(encoder.file).granule + MuxingDelay + DecisionDelay + Latency
    BY DEF PagesKeepUp
  <2>1. /\ Recording(encoder, size) /\ size \in [1..Period -> Sizes]
        /\ encoder.packets \in Nat
    BY EncoderFields DEF Invariant, EncoderInv, TypeOK, Recording
  <2>2. PICK k \in 0..encoder.packets : Demux(encoder.file) = Read(size, k)
    BY <2>1, FileIsPrefix
  <2>3. /\ Demux(encoder.file).packets = FirstPackets(size, k)
        /\ Demux(encoder.file).pending = Nothing
    BY <2>2 DEF Read, Reader, Nothing
  <2>4. IsPrefix(FirstPackets(size, k), FirstPackets(size, encoder.packets))
    <3> DEFINE n == encoder.packets
    <3>1. n \in Nat /\ k \in 0..n
      BY <2>1
    <3> HIDE DEF n
    <3>2. IsPrefix(FirstPackets(size, k), FirstPackets(size, n))
      BY <3>1, PrefixesAre
    <3> QED
      BY <3>2 DEF n
  <2> QED
    BY <2>1, <2>3, <2>4, PacketsAre, FileIsPrefix
<1> QED
  BY <1>1, InvariantHolds, PTL
=============================================================================
