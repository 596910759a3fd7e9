--------------------------- MODULE VoiceRecorder ---------------------------
(***************************************************************************)
(* Recording a voice note (Services/VoiceRecorder.swift, the microphone    *)
(* button of Views/ComposerView.swift): push, record, release.             *)
(*                                                                         *)
(* Two threads: the main actor, which presses, starts, stops and sends,    *)
(* and the serial audio queue, which writes the buffers of the tap to the  *)
(* encoder.  While the main actor starts or finalizes a recording it does  *)
(* nothing else; `audioQueue.sync {}` makes it wait for the queue.         *)
(*                                                                         *)
(* The tap counts samples at the hardware's rate, the encoder at its own.  *)
(* AVAudioConverter stands between them: it gives samples as it has them   *)
(* (.noDataNow), holds some back for its filter, and is never asked for    *)
(* the rest, so the end of a note lacks what it held.                      *)
(***************************************************************************)
EXTENDS OggOpus, FiniteSets

CONSTANTS
    Sizes,       \* bytes the codec may give a packet
    Period,      \* bound of the model: the sizes repeat after so many packets
    BufferSizes, \* samples of a tap buffer
    InRate,      \* the hardware's sample rate: 44100 or 48000
    OutRate,     \* targetSampleRate: 16000
    Held,        \* the samples of the tap the converter may hold back
    Extra,       \* 64: samples an output buffer has room for besides its share
    MaxSamples,  \* bound of the model: samples the tap gives one recording
    MaxPresses,  \* bound of the model: presses of the button
    Memory,      \* what memory that was never set may hold
    None

(* outCap: the most samples one buffer of the tap is converted to.         *)
Capacity(n) == (n * OutRate) \div InRate + Extra

ASSUME VoiceRecorderAssumption ==
    /\ Sizes \subseteq Nat \ {0} /\ Period \in Nat \ {0}
    /\ BufferSizes \subseteq Nat \ {0}
    /\ MaxSamples \in Nat /\ MaxPresses \in Nat /\ Memory \subseteq Nat
    (* One packet is at most 7664 bytes: 31 of the 255 segments of a page. *)
    /\ \A n \in Sizes \cup {HeadSize, TagsSize} : n \div Lacing < MaxSegments
    /\ InRate \in Nat \ {0} /\ OutRate \in Nat \ {0} /\ Extra \in Nat \ {0}
    (* The converter gives whole samples only. *)
    /\ Held \in Nat /\ OutRate * Held >= InRate
    (* A tap buffer, of 1024 samples or so, fits into a shifted buffer. *)
    /\ \A n \in BufferSizes :
           LpcInput + FrameSize + DecisionDelay + Ratio * Capacity(n) <= BufferSamples
    /\ None \notin Encoder /\ None \notin {"send", "auto-stop", "cancel"}

VARIABLES
    size,     \* the sizes the codec gives its packets
    held,     \* the button is down
    presses,  \* presses so far
    asking,   \* presses whose permission has not been answered
    state,    \* of the recorder; "starting" is the main actor inside start()
    purpose,  \* what a recording is finalized for, or None
    queue,    \* tap buffers that wait on the audio queue
    captured, \* samples the tap delivered while the encoder was in place
    taken,    \* those of them that process() has taken from the queue
    fault,    \* none; dropped: a conversion failed; failed: a write failed
    encoder,  \* None outside a recording
    note      \* the last note that was handed on, or None

button == <<held, presses, asking>>
sound == <<queue, captured, taken, fault, encoder>>
vars == <<size, button, state, purpose, sound, note>>

State == {"idle", "starting", "recording", "finalizing", "error"}
Purpose == {"send", "auto-stop", "cancel"}

TypeOK ==
    /\ size \in [1..Period -> Sizes]
    /\ held \in BOOLEAN /\ presses \in 0..MaxPresses /\ asking \in 0..MaxPresses
    /\ state \in State
    /\ purpose \in Purpose \cup {None}
    /\ queue \in Seq(BufferSizes)
    /\ captured \in 0..MaxSamples /\ taken \in 0..MaxSamples
    /\ fault \in {"none", "dropped", "failed"}
    /\ encoder \in Encoder \cup {None}
    /\ (encoder = None) = (state \notin {"recording", "finalizing"})
    /\ (purpose = None) = (state # "finalizing")

Init ==
    /\ size \in [1..Period -> Sizes]
    /\ held = FALSE /\ presses = 0 /\ asking = 0
    /\ state = "idle" /\ purpose = None
    /\ queue = <<>> /\ captured = 0 /\ taken = 0 /\ fault = "none"
    /\ encoder = None /\ note = None

MainIsFree == state \notin {"starting", "finalizing"}

-----------------------------------------------------------------------------
(* The button goes down: a task asks for the permission to record ... *)
Press ==
    /\ MainIsFree /\ ~held
    /\ presses < MaxPresses
    /\ held' = TRUE /\ presses' = presses + 1 /\ asking' = asking + 1
    /\ UNCHANGED <<size, state, purpose, sound, note>>

Denied ==
    /\ MainIsFree /\ asking > 0
    /\ asking' = asking - 1
    /\ UNCHANGED <<size, held, presses, state, purpose, sound, note>>

(* ... and calls start(), whether the button is still down or not.  It     *)
(* fails without an encoder, a converter or an engine, and removes the     *)
(* file; the engine runs before the encoder is in place.                   *)
Start ==
    /\ MainIsFree /\ asking > 0
    /\ asking' = asking - 1
    /\ IF state = "idle" THEN state' \in {"starting", "error"} ELSE UNCHANGED state
    /\ UNCHANGED <<size, held, presses, purpose, sound, note>>

Started ==
    /\ state = "starting"
    /\ state' = "recording"
    /\ \E memory \in Memory : encoder' = Fresh(memory)
    /\ UNCHANGED <<size, button, purpose, queue, captured, taken, fault, note>>

-----------------------------------------------------------------------------
(* The tap delivers a buffer. *)
Tap(n) ==
    /\ state \in {"starting", "recording"}
    /\ captured + n <= MaxSamples
    /\ queue' = Append(queue, n) /\ captured' = captured + n
    /\ UNCHANGED <<size, button, state, purpose, taken, fault, encoder, note>>

(* The converter has given `given` samples of the `got` it was handed, but *)
(* for what it holds back.                                                 *)
Converted(got, given) ==
    /\ InRate * given <= OutRate * got
    /\ OutRate * got <= InRate * given + OutRate * Held

(* process(_:), on the audio queue. *)
Dequeue == queue # <<>> /\ queue' = Tail(queue) /\ UNCHANGED <<size, button, state, purpose, note>>

(* Without an encoder the buffer is dropped. *)
Discard ==
    /\ Dequeue
    /\ encoder = None
    /\ captured' = captured - Head(queue)
    /\ UNCHANGED <<taken, fault, encoder>>

Take ==
    /\ Dequeue
    /\ encoder # None
    /\ taken' = taken + Head(queue)
    /\ UNCHANGED captured

(* The buffer is converted to m samples, and those, if any, are written.   *)
(* What the converter gives after an error is not known.                   *)
Process(m) ==
    /\ Take
    /\ fault # "failed"
    /\ fault = "none" => Converted(taken', encoder.written + m)
    /\ encoder' = IF m = 0 THEN encoder ELSE WriteFloat(encoder, size, m)
    /\ UNCHANGED fault

(* There is no output buffer, or the conversion ends with an error.        *)
ConversionFails ==
    /\ Take
    /\ fault' = IF fault = "none" THEN "dropped" ELSE fault
    /\ UNCHANGED encoder

(* The encoder refuses the samples, and all that come later; no property   *)
(* speaks of what it has written.                                          *)
WriteFails ==
    /\ Take
    /\ fault' = "failed"
    /\ UNCHANGED encoder

-----------------------------------------------------------------------------
Finalize(why) == state' = "finalizing" /\ purpose' = why

(* The button goes up, dragged out or not. *)
Release(wantsCancel) ==
    /\ MainIsFree /\ held
    /\ held' = FALSE
    /\ IF state # "recording" THEN state' = "idle" /\ UNCHANGED purpose
       ELSE Finalize(IF wantsCancel THEN "cancel" ELSE "send")
    /\ UNCHANGED <<size, presses, asking, sound, note>>

(* The recording is 300 seconds old. *)
AutoStopAtCap ==
    /\ state = "recording"
    /\ Finalize("auto-stop")
    /\ UNCHANGED <<size, button, sound, note>>

(* Mutant: the recorder does not wait for the audio queue. *)
QueueDrainedAlways == TRUE

QueueDrained == queue = <<>>

(* The encoder is drained and destroyed, the note handed on or removed.  A *)
(* drain that fails is passed over: the note is handed on all the same.    *)
Finalized ==
    /\ state = "finalizing" /\ QueueDrained
    /\ \E how \in {fault, "failed"} :
           note' = IF purpose = "cancel" THEN note
                   ELSE IF how = "failed" THEN [fault |-> how]
                   ELSE [fault |-> how, drained |-> Drain(encoder, size), captured |-> captured]
    /\ state' = "idle" /\ purpose' = None
    /\ encoder' = None /\ captured' = 0 /\ taken' = 0 /\ fault' = "none"
    /\ UNCHANGED <<size, button, queue>>

Next ==
    \/ Press \/ Denied \/ Start \/ Started
    \/ \E n \in BufferSizes : Tap(n)
    \/ Discard \/ ConversionFails \/ WriteFails
    \/ queue # <<>> /\ \E m \in 0..Capacity(Head(queue)) : Process(m)
    \/ \E wantsCancel \in BOOLEAN : Release(wantsCancel)
    \/ AutoStopAtCap \/ Finalized

Spec == Init /\ [][Next]_vars

-----------------------------------------------------------------------------
PacketsOf(e) ==
    [i \in 1..e.packets |->
        [of |-> {i}, size |-> IF i = 1 THEN HeadSize ELSE IF i = 2 THEN TagsSize
                              ELSE size[(i % Period) + 1]]]

(* A note whose writes succeeded is whole: the reader gets every packet    *)
(* back, whole and in order, the last page ends the stream, and the        *)
(* duration it peeks is that of the sound the encoder was given.  That is  *)
(* the sound of every buffer the tap delivered, but for what the converter *)
(* held, unless a conversion failed.  A recording of no sound is excepted: *)
(* it ends at an end_granule that was never set.                           *)
NoteIsWhole ==
    note # None /\ note.fault # "failed" /\ note.drained.written > 0 =>
        LET e == note.drained
        IN  /\ Demux(e.file) = [packets |-> PacketsOf(e), pending |-> Nothing]
            /\ Last(e.file).eos
            /\ PeekDuration(e.file) = Ratio * e.written
            /\ note.fault = "none" => Converted(note.captured, e.written)

(* In the middle of a recording the pages handed to stdio are whole        *)
(* packets, the first ones, and lag behind the sound written by no more    *)
(* than three delays: the packer's, the decision delay of the encoder and  *)
(* the resampler's.                                                        *)
PagesKeepUp ==
    encoder # None /\ encoder.init /\ fault # "failed" =>
        /\ LET read == Demux(encoder.file)
           IN  read.pending = Nothing /\ IsPrefix(read.packets, PacketsOf(encoder))
        /\ Ratio * encoder.written <=
               Last(encoder.file).granule + MuxingDelay + DecisionDelay + Latency

(* "This function must never leave the buffer full" (opusenc.c), and the   *)
(* padding of the drain always finds room.                                 *)
BufferHasRoom ==
    encoder # None /\ fault # "failed" =>
        /\ encoder.stop < BufferSamples
        /\ BeforeDrain(encoder).stop + Padding(encoder) <= BufferSamples
=============================================================================
