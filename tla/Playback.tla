------------------------------- MODULE Playback -------------------------------
(***************************************************************************)
(* The receiver with the file reader for a device, from the file to the    *)
(* loudspeaker: the thread of fileHulp puts blocks of the file into a      *)
(* ring, the processor takes buffers of samples from it and puts sound,    *)
(* frame by frame, into the ring of the audioSink, and the callback of     *)
(* PortAudio takes it from there; the GUI thread starts, pauses, continues *)
(* and ends all this, and chooses the output.                              *)
(*                                                                         *)
(* A sample here stands for those one frame of sound is made from.  The    *)
(* rings are bounded fifos, which is the subject of RingBuffer.  Nothing   *)
(* is said of time: the threads are as fast or slow as they please.        *)
(***************************************************************************)
EXTENDS Naturals, Sequences

CONSTANTS FileLengths,   (* samples of the files that may be played        *)
          Block,         (* of the reader, in samples; the code's bufferSize *)
          Buffer,        (* of the processor, in samples; its bufferSize   *)
          RingSize,      (* of the reader, in samples                      *)
          SinkSize,      (* of the sink, in frames                         *)
          CallbackSize   (* framesPerBuffer                                *)

Slack == 1               \* the "+ 10" of the reader, which are 5 samples

ASSUME PlaybackAssumption ==
    /\ FileLengths \subseteq Nat /\ FileLengths # {}
    /\ {Block, Buffer, RingSize, SinkSize, CallbackSize} \subseteq Nat \ {0}
    /\ RingSize >= Buffer - 1 + Block + Slack

Silence == 0
Samples == {Silence} \cup UNION {1..n : n \in FileLengths}

VARIABLES
    \* the GUI thread
    guiPc, runMode,
    chosen,              (* an output was chosen since the pause           *)
    \* the file reader and its thread
    readerPc, readerPausing, ExitCondition,
    fileLength, filePosition,
    I_Buffer,
    \* the processor
    processorPc, running,
    dataBuffer,          (* samples whose sound is not yet in the sink     *)
    \* the sink, and PortAudio
    ostream,             (* "none", "stopped", "active", "finished", "closed" *)
    paCallbackReturn,
    O_Buffer,            (* the values of both channels                    *)
    \* history
    late,                (* blocks put since stopReader, up to 2           *)
    raced                (* the reader was deleted before its thread began *)

gui       == <<guiPc, runMode, chosen>>
reader    == <<readerPc, fileLength, filePosition, I_Buffer>>
controls  == <<readerPausing, ExitCondition, late, raced>>
processor == <<processorPc, dataBuffer>>
stream    == <<ostream, paCallbackReturn>>
vars      == <<gui, reader, controls, processor, running, stream, O_Buffer>>

(* The file has been opened, and the thread told to start; ExitCondition is
   not initialised.  The output was selected before, if one was saved. *)
Init ==
    /\ guiPc = "opened" /\ runMode = "IDLE" /\ chosen = FALSE
    /\ readerPc = "starting" /\ readerPausing = TRUE /\ ExitCondition \in BOOLEAN
    /\ fileLength \in FileLengths /\ filePosition = 0 /\ I_Buffer = <<>>
    /\ processorPc = "unstarted" /\ running = FALSE /\ dataBuffer = <<>>
    /\ ostream \in {"none", "stopped", "active"} /\ paCallbackReturn = "paContinue"
    /\ O_Buffer = <<>>
    /\ late = 0 /\ raced = FALSE

Smaller(a, b) == IF a < b THEN a ELSE b
From(s, n)    == SubSeq(s, n + 1, Len(s))

----------------------------------------------------------------------------
(* The thread of the file reader. *)
ReaderStarts ==
    /\ readerPc = "starting"
    /\ ExitCondition' = FALSE /\ readerPc' = "loop"
    /\ UNCHANGED <<gui, fileLength, filePosition, I_Buffer, readerPausing, late, raced,
                   processor, running, stream, O_Buffer>>

(* It asks whether it is to end, then whether to pause, *)
ReaderLoops ==
    /\ readerPc = "loop"
    /\ \/ ExitCondition /\ readerPc' = "ended"
       \/ ~ExitCondition /\ ~readerPausing /\ readerPc' = "room"
    /\ UNCHANGED <<gui, fileLength, filePosition, I_Buffer, controls, processor, running,
                   stream, O_Buffer>>

(* Mutant: room is what an empty ring has. *)
HasRoomEmpty == Len(I_Buffer) = 0

HasRoom == RingSize - Len(I_Buffer) >= Block + Slack

(* waits for room, *)
ReaderHasRoom ==
    /\ readerPc = "room" /\ (HasRoom \/ ExitCondition)
    /\ readerPc' = "block"
    /\ UNCHANGED <<gui, fileLength, filePosition, I_Buffer, controls, processor, running,
                   stream, O_Buffer>>

(* Mutant: a whole block is put, the rest being what the one before left. *)
readBufferWhole ==
    LET n == Smaller(Block, fileLength - filePosition)
    IN  [samples  |-> [i \in 1..Block |->
                          IF i <= n THEN filePosition + i ELSE Smaller(i, fileLength)],
         position |-> IF n < Block THEN 0 ELSE filePosition + n]

(* Mutant: the file is not set back to its beginning. *)
readBufferOnce ==
    LET n == Smaller(Block, fileLength - filePosition)
    IN  [samples  |-> IF n <= 0 THEN [i \in 1..Block |-> Silence]
                      ELSE [i \in 1..n |-> filePosition + i],
         position |-> filePosition + Block]

(* readBuffer: what the file still has, and back to its beginning if that is
   not enough; nothing at all is made a block of silence. *)
readBuffer ==
    LET n == Smaller(Block, fileLength - filePosition)
    IN  [samples  |-> IF n = 0 THEN [i \in 1..Block |-> Silence]
                      ELSE [i \in 1..n |-> filePosition + i],
         position |-> IF n < Block THEN 0 ELSE filePosition + n]

(* Mutant: having put a block, the reader waits for room at once. *)
ReaderPutsOn ==
    /\ readerPc = "block"
    /\ I_Buffer' = I_Buffer \o SubSeq(readBuffer.samples, 1,
                         Smaller(RingSize - Len(I_Buffer), Len(readBuffer.samples)))
    /\ filePosition' = readBuffer.position
    /\ late' = IF readerPausing THEN Smaller(late + 1, 2) ELSE late
    /\ readerPc' = IF ExitCondition THEN "loop" ELSE "room"
    /\ UNCHANGED <<gui, fileLength, readerPausing, ExitCondition, raced, processor, running,
                   stream, O_Buffer>>

(* and puts a block into the ring, as much of it as there is room for. *)
ReaderPuts ==
    /\ readerPc = "block"
    /\ I_Buffer' = I_Buffer \o SubSeq(readBuffer.samples, 1,
                         Smaller(RingSize - Len(I_Buffer), Len(readBuffer.samples)))
    /\ filePosition' = readBuffer.position
    /\ late' = IF readerPausing THEN Smaller(late + 1, 2) ELSE late
    /\ readerPc' = "loop"
    /\ UNCHANGED <<gui, fileLength, readerPausing, ExitCondition, raced, processor, running,
                   stream, O_Buffer>>

Reader == ReaderStarts \/ ReaderLoops \/ ReaderHasRoom \/ ReaderPuts

----------------------------------------------------------------------------
(* The processor. *)
ProcessorStarts ==
    /\ processorPc = "starting"
    /\ running' = TRUE /\ processorPc' = "loop"
    /\ UNCHANGED <<gui, reader, controls, dataBuffer, stream, O_Buffer>>

SamplesAvailable == IF ExitCondition THEN 0 ELSE Len(I_Buffer)

(* Samples and getSamples: a buffer is taken when there is one. *)
getSamples ==
    /\ processorPc = "loop" /\ running /\ SamplesAvailable >= Buffer
    /\ dataBuffer' = SubSeq(I_Buffer, 1, Buffer) /\ I_Buffer' = From(I_Buffer, Buffer)
    /\ processorPc' = "sound"
    /\ UNCHANGED <<gui, readerPc, fileLength, filePosition, controls, running, stream,
                   O_Buffer>>

Channels(frame) == <<<<frame, "left">>, <<frame, "right">>>>

(* putSamples for one frame: it is dropped if the ring has no room for both
   values (of one frame, what is left is rounded down to none). *)
putSamples(frame) ==
    LET available == 2 * SinkSize - Len(O_Buffer)
    IN  IF 2 > available THEN O_Buffer ELSE O_Buffer \o Channels(frame)

sendSampletoOutput ==
    /\ processorPc = "sound" /\ dataBuffer # <<>>
    /\ O_Buffer' = putSamples(Head(dataBuffer)) /\ dataBuffer' = Tail(dataBuffer)
    /\ UNCHANGED <<gui, reader, controls, processorPc, running, stream>>

BufferDone ==
    /\ processorPc = "sound" /\ dataBuffer = <<>>
    /\ processorPc' = "loop"
    /\ UNCHANGED <<gui, reader, controls, dataBuffer, running, stream, O_Buffer>>

ProcessorEnds ==
    /\ processorPc = "loop" /\ ~running
    /\ processorPc' = "ended"
    /\ UNCHANGED <<gui, reader, controls, dataBuffer, running, stream, O_Buffer>>

Processor == ProcessorStarts \/ getSamples \/ sendSampletoOutput \/ BufferDone \/ ProcessorEnds

----------------------------------------------------------------------------
(* The callback takes what there is and adds silence, or ends the stream. *)
CallbackPlays ==
    /\ ostream = "active" /\ paCallbackReturn = "paContinue"
    /\ O_Buffer' = From(O_Buffer, Smaller(2 * CallbackSize, Len(O_Buffer)))
    /\ UNCHANGED <<gui, reader, controls, processor, running, stream>>

CallbackAborts ==
    /\ ostream = "active" /\ paCallbackReturn = "paAbort"
    /\ ostream' = "finished"
    /\ UNCHANGED <<gui, reader, controls, processor, running, paCallbackReturn, O_Buffer>>

paCallback_o == CallbackPlays \/ CallbackAborts

----------------------------------------------------------------------------
(* The GUI thread.  Pa_IsStreamStopped; it is an error, which is taken for
   true, without a stream or with one that is closed. *)
IsStopped == ostream \notin {"active", "finished"}

(* restart of the sink: there may be no stream, and it may not start. *)
restart ==
    IF ~IsStopped THEN UNCHANGED stream
    ELSE /\ paCallbackReturn' = "paContinue"
         /\ ostream' \in IF ostream = "stopped" THEN {"stopped", "active"} ELSE {ostream}

(* stop of the sink, and what comes then; it waits for the stream. *)
Stopping(there) == CASE there = "paused"      -> "stop, paused"
                     [] there = "select"      -> "stop, select"
                     [] there = "delete sink" -> "stop, delete sink"

StopThen(there) ==
    IF IsStopped THEN guiPc' = there /\ UNCHANGED stream
    ELSE guiPc' = Stopping(there) /\ paCallbackReturn' = "paAbort" /\ UNCHANGED ostream

StreamStops(there) ==
    /\ guiPc = Stopping(there)
    /\ ostream' = "stopped" /\ guiPc' = there
    /\ UNCHANGED <<runMode, chosen, reader, controls, processor, running, paCallbackReturn,
                   O_Buffer>>

(* setStart *)
setStart ==
    /\ guiPc = "opened"
    /\ readerPausing' = FALSE /\ late' = 0
    /\ processorPc' = "starting" /\ restart
    /\ runMode' = "RUNNING" /\ guiPc' = "idle"
    /\ UNCHANGED <<chosen, reader, ExitCondition, raced, dataBuffer, running, O_Buffer>>

(* handle_pauseButton: the reader, then the sink, ... *)
Pause ==
    /\ guiPc = "idle" /\ runMode = "RUNNING"
    /\ readerPausing' = TRUE /\ late' = 0 /\ StopThen("paused")
    /\ UNCHANGED <<runMode, chosen, reader, ExitCondition, raced, processor, running, O_Buffer>>

Paused ==
    /\ guiPc = "paused" /\ runMode' = "PAUSED" /\ chosen' = FALSE /\ guiPc' = "idle"
    /\ UNCHANGED <<reader, controls, processor, running, stream, O_Buffer>>

(* ... and on again. *)
Continue ==
    /\ guiPc = "idle" /\ runMode = "PAUSED"
    /\ readerPausing' = FALSE /\ late' = 0 /\ restart /\ runMode' = "RUNNING"
    /\ UNCHANGED <<guiPc, chosen, reader, ExitCondition, raced, processor, running, O_Buffer>>

(* handle_StreamOutSelector: stop, ... *)
SelectOutput ==
    /\ guiPc = "idle" /\ StopThen("select")
    /\ UNCHANGED <<runMode, chosen, reader, controls, processor, running, O_Buffer>>

(* ... selectDevice and restart.  When the new stream cannot be opened, the
   sink keeps the one it has closed. *)
selectDevice ==
    /\ guiPc = "select" /\ guiPc' = "idle" /\ chosen' = TRUE
    /\ \/ ostream' = "closed" /\ UNCHANGED paCallbackReturn
       \/ ostream' \in {"stopped", "active"} /\ paCallbackReturn' = "paContinue"
    /\ UNCHANGED <<runMode, reader, controls, processor, running, O_Buffer>>

(* Mutant: the device is not told to end. *)
deleteReaderSilently ==
    guiPc' = "delete reader" /\ raced' = (readerPc = "starting")
    /\ UNCHANGED <<readerPausing, ExitCondition, late>>

(* The destructor of fileHulp begins; *)
deleteReader ==
    /\ guiPc' = "delete reader" /\ ExitCondition' = TRUE /\ raced' = (readerPc = "starting")
    /\ UNCHANGED <<readerPausing, late>>

(* getDevice refuses a file with another sample rate. *)
WrongRate ==
    /\ guiPc = "opened" /\ deleteReader
    /\ UNCHANGED <<runMode, chosen, reader, processor, running, stream, O_Buffer>>

(* TerminateProcess: stopReader, and stop of the processor; *)
Quit ==
    /\ guiPc = "idle" /\ running
    /\ readerPausing' = TRUE /\ running' = FALSE /\ guiPc' = "stop processor"
    /\ late' = IF readerPausing THEN late ELSE 0
    /\ UNCHANGED <<runMode, chosen, reader, ExitCondition, raced, processor, stream, O_Buffer>>

(* when that has ended, the device is deleted, *)
ProcessorStopped ==
    /\ guiPc = "stop processor" /\ processorPc = "ended" /\ deleteReader
    /\ UNCHANGED <<runMode, chosen, reader, processor, running, stream, O_Buffer>>

(* when its thread has ended, the sink, *)
ReaderDeleted ==
    /\ guiPc = "delete reader" /\ readerPc = "ended"
    /\ IF processorPc = "unstarted" THEN guiPc' = "refused" /\ UNCHANGED stream
       ELSE StopThen("delete sink")
    /\ UNCHANGED <<runMode, chosen, reader, controls, processor, running, O_Buffer>>

SinkDeleted ==
    /\ guiPc = "delete sink" /\ ostream' = "closed" /\ guiPc' = "ended"
    /\ UNCHANGED <<runMode, chosen, reader, controls, processor, running, paCallbackReturn,
                   O_Buffer>>

(* Without a reader, the program has ended, or goes on with the empty device;
   or it waits for a thread that forgot that it was to end. *)
Ended == /\ guiPc \in {"ended", "refused"} \/ raced
         /\ UNCHANGED vars

User    == Pause \/ Continue \/ SelectOutput \/ Quit
Handler == \/ setStart \/ WrongRate \/ Paused \/ selectDevice
           \/ ProcessorStopped \/ ReaderDeleted \/ SinkDeleted
           \/ \E there \in {"paused", "select", "delete sink"} : StreamStops(there)

Next == Reader \/ Processor \/ paCallback_o \/ User \/ Handler \/ Ended

(* The threads are scheduled, and the sound card calls. *)
Spec == /\ Init /\ [][Next]_vars
        /\ WF_vars(Reader) /\ WF_vars(Processor) /\ WF_vars(paCallback_o) /\ WF_vars(Handler)

----------------------------------------------------------------------------
Values == Samples \X {"left", "right"}

TypeOK ==
    /\ guiPc \in {"opened", "idle", "stop, paused", "paused", "stop, select", "select",
                  "stop processor", "delete reader", "refused", "stop, delete sink", "delete sink",
                  "ended"}
    /\ runMode \in {"IDLE", "RUNNING", "PAUSED"}
    /\ {chosen, readerPausing, ExitCondition, running, raced} \subseteq BOOLEAN
    /\ readerPc \in {"starting", "loop", "room", "block", "ended"}
    /\ processorPc \in {"unstarted", "starting", "loop", "sound", "ended"}
    /\ fileLength \in FileLengths /\ filePosition \in 0..fileLength
    /\ I_Buffer \in Seq(Samples) /\ Len(I_Buffer) <= RingSize
    /\ dataBuffer \in Seq(Samples) /\ Len(dataBuffer) <= Buffer
    /\ O_Buffer \in Seq(Values) /\ Len(O_Buffer) <= 2 * SinkSize
    /\ ostream \in {"none", "stopped", "active", "finished", "closed"}
    /\ paCallbackReturn \in {"paContinue", "paAbort"}
    /\ late \in 0..2

Closing == guiPc \in {"delete reader", "refused", "stop, delete sink", "delete sink", "ended"}

Sound(frames) == [i \in 1..2 * Len(frames) |->
                     <<frames[(i + 1) \div 2], IF i % 2 = 1 THEN "left" ELSE "right">>]

(* What is heard is the file: frame after frame, left with its right, over and
   over again; and nothing is lost but frames for which the sink has no room,
   whatever is paused, continued or chosen meanwhile (filehulp.cpp:126-202,
   audiosink.cpp:162-194, 218-239). *)
File == INSTANCE PlayedFile
           WITH Capacity <- SinkSize, Lengths <- FileLengths, Silence <- Silence,
                length <- fileLength, place <- IF Closing THEN 0 ELSE filePosition,
                underway <- IF Closing THEN O_Buffer
                            ELSE O_Buffer \o Sound(dataBuffer \o I_Buffer),
                closed <- Closing

PlaysTheFile == File!Spec

(* While the receiver is paused the stream is stopped, unless an output was
   chosen meanwhile, which starts it again; and of the file one more block is
   read at most, wherever the thread was when it was to pause
   (radio.cpp:1725-1747, 1774-1792; filehulp.cpp:177-187). *)
PausedIsQuiet ==
    /\ runMode = "PAUSED" /\ ~chosen /\ ~Closing => ostream \notin {"active", "finished"}
    /\ readerPausing => late <= 1

(* Sound is heard again and again while the receiver and its stream run: the
   reader, the processor and the callback do not wait for each other in a
   ring (filehulp.cpp:183-187, fm-processor.cpp:390-392). *)
SoundGoesOn ==
    <>[](runMode = "RUNNING" /\ guiPc = "idle" /\ ostream = "active")
       => []<><<CallbackPlays /\ O_Buffer # <<>>>>_vars

(* The file reader can be closed, and the program be ended, whatever its
   thread is waiting for; but for a thread that had not begun when it was told
   to end, since it forgets that (filehulp.cpp:72-81, 169, 176-187;
   radio.cpp:606-618). *)
ClosingEnds ==
    (guiPc \in {"stop processor", "delete reader"}) ~> (guiPc \in {"ended", "refused"} \/ raced)
=============================================================================
