-------------------------- MODULE RingBufferFlush --------------------------
(***************************************************************************)
(* The input ring of a device handler across pause and continue: the       *)
(* producer is the handler's worker thread, the consumer the processor     *)
(* thread, which keeps polling while the radio is paused, and the thread   *)
(* that calls FlushRingBuffer is a third one, the GUI                      *)
(* (rtlsdr-handler.cpp:229-260; the other handlers do the same).           *)
(***************************************************************************)
EXTENDS RingBuffer

CONSTANT Chunk     (* what the processor waits for before it gets          *)

VARIABLES worker,  (* workerHandle is not null                             *)
          guiPc    (* where restartReader is                               *)

flushVars == <<vars, worker, guiPc>>

FlushInit == Init /\ worker = FALSE /\ guiPc = "idle"

(* The worker's callback puts what the stick delivered. *)
WorkerStep == worker /\ Writer /\ UNCHANGED <<worker, guiPc>>

(* fmProcessor::run waits for Chunk elements and then gets as many; the
   rest of getDataFromBuffer is as it was. *)
ProcessorStep ==
    /\ \/ ReadAvailable >= Chunk /\ GetBegin(Chunk)
       \/ GetCopy
       \/ GetEnd
    /\ UNCHANGED <<worker, guiPc>>

(* stopReader: cancels the transfer and waits until the worker has ended *)
StopReader ==
    /\ guiPc = "idle" /\ worker /\ wPc = "idle"
    /\ worker' = FALSE
    /\ UNCHANGED <<vars, guiPc>>

(* restartReader: FlushRingBuffer, in its two assignments, then the worker *)
RestartReader ==
    /\ guiPc = "idle" /\ ~worker
    /\ writeIndex' = 0 /\ guiPc' = "flush"
    /\ UNCHANGED <<readIndex, buffer, writerVars, readerVars, worker>>

FlushReadIndex ==
    /\ guiPc = "flush"
    /\ readIndex' = 0 /\ guiPc' = "start"
    /\ UNCHANGED <<writeIndex, buffer, writerVars, readerVars, worker>>

StartWorker ==
    /\ guiPc = "start"
    /\ worker' = TRUE /\ guiPc' = "idle"
    /\ UNCHANGED vars

FlushNext == \/ WorkerStep \/ ProcessorStep
             \/ StopReader \/ RestartReader \/ FlushReadIndex \/ StartWorker
FlushSpec == FlushInit /\ [][FlushNext]_flushVars

----------------------------------------------------------------------------
(* The ring is "lockfree, however only for a single reader and a single
   writer" (ringbuffer.h:75).  A ring used so never claims more elements than
   it holds while its worker runs.  The flush makes the GUI a second reader
   and a second writer, and the claim can fail. *)
NeverMoreThanFits == worker => ReadAvailable <= N
============================================================================
