------------------------------ MODULE Lifecycle ------------------------------
(***************************************************************************)
(* The life of the fm processor: the GUI thread makes it and starts its    *)
(* thread, pauses and restarts the device under it, has it write the input *)
(* and the sound to files, and in the end stops and deletes it, while the  *)
(* processor loops over the samples and sends results to the GUI           *)
(* (radio.cpp, fm-processor.cpp, and the dump of audiosink.cpp).           *)
(*                                                                         *)
(* A store the other thread can see is a step of its own.                  *)
(***************************************************************************)
EXTENDS Naturals, FiniteSets

CONSTANT MaxResults      (* bound: scan results under way to the GUI       *)

ASSUME LifecycleAssumption == MaxResults \in Nat

Files  == {"input", "sound"}
NoFile == "nullptr"

VARIABLES
    \* the GUI thread
    runMode, guiPc,
    sourceDumping, audioDumping,
    open,            (* the files that are open                            *)
    myFMprocessor,   (* "nullptr", "live" or "deleted"                     *)
    device,          (* "stopped", "reading" or "deleted"                  *)
    results,         (* scanresult signals queued for the GUI              *)
    \* the fm processor
    thread,          (* the place the thread is at                         *)
    running, scanning, dumping, dumpFile,
    samples,         (* the device has a buffer full of them               *)
    sinkFile         (* dumpFile of the audioSink                          *)

dumps   == <<sourceDumping, audioDumping, open, dumping, dumpFile, sinkFile>>
objects == <<myFMprocessor, device>>
worker  == <<thread, samples>>
vars    == <<runMode, guiPc, dumps, objects, results, worker, running, scanning>>

Init ==
    /\ runMode = "IDLE" /\ guiPc = "idle"
    /\ sourceDumping = FALSE /\ audioDumping = FALSE /\ open = {}
    /\ dumping = FALSE /\ dumpFile = NoFile /\ sinkFile = NoFile
    /\ myFMprocessor = "nullptr" /\ device = "stopped" /\ results = 0
    /\ thread = "unstarted" /\ samples = FALSE /\ running = FALSE /\ scanning = FALSE

----------------------------------------------------------------------------
(* The GUI thread. *)
Idle == guiPc = "idle"

(* setStart, called once a device is selected.  The processor is made, its
   thread started; if the device cannot be started nothing is. *)
Start ==
    /\ Idle /\ runMode = "IDLE"
    /\ device' = "reading" /\ myFMprocessor' = "live" /\ thread' = "starting"
    /\ runMode' = "RUNNING"
    /\ UNCHANGED <<guiPc, dumps, results, samples, running, scanning>>

(* handle_pauseButton *)
Pause ==
    /\ Idle /\ runMode = "RUNNING"
    /\ device' = "stopped" /\ runMode' = "PAUSED"
    /\ UNCHANGED <<guiPc, dumps, myFMprocessor, results, worker, running, scanning>>

Continue ==
    /\ Idle /\ runMode = "PAUSED"
    /\ device' = "reading" /\ runMode' = "RUNNING"
    /\ UNCHANGED <<guiPc, dumps, myFMprocessor, results, worker, running, scanning>>

(* A step of the auto tuner: startScanning. *)
StartScanning ==
    /\ Idle /\ myFMprocessor = "live"
    /\ scanning' = TRUE
    /\ UNCHANGED <<runMode, guiPc, dumps, objects, results, worker, running>>

(* scanresult: stopIncrementing, and stopScanning of the processor if there
   is one; the event loop also runs after TerminateProcess. *)
ScanResult ==
    /\ guiPc \in {"idle", "end"} /\ results > 0
    /\ results' = results - 1
    /\ scanning' = FALSE
    /\ UNCHANGED <<runMode, guiPc, dumps, objects, worker, running>>

----------------------------------------------------------------------------
(* handle_dumpButton: the file is opened, and startDumping sets dumpFile ... *)
DumpOn ==
    /\ Idle /\ myFMprocessor = "live" /\ ~sourceDumping
    /\ open' = open \cup {"input"} /\ sourceDumping' = TRUE
    /\ dumpFile' = "input" /\ guiPc' = "dumping"
    /\ UNCHANGED <<runMode, audioDumping, dumping, sinkFile, objects, results, worker,
                   running, scanning>>

(* ... and then dumping. *)
DumpOnFlag ==
    /\ guiPc = "dumping"
    /\ dumping' = TRUE /\ guiPc' = "idle"
    /\ UNCHANGED <<runMode, sourceDumping, audioDumping, open, dumpFile, sinkFile, objects,
                   results, worker, running, scanning>>

(* handle_dumpButton while dumping: stopDumping ... *)
DumpOff ==
    /\ Idle /\ myFMprocessor = "live" /\ sourceDumping
    /\ dumping' = FALSE /\ guiPc' = "close input"
    /\ UNCHANGED <<runMode, sourceDumping, audioDumping, open, dumpFile, sinkFile, objects,
                   results, worker, running, scanning>>

(* ... and sf_close. *)
DumpClose ==
    /\ guiPc = "close input"
    /\ open' = open \ {"input"} /\ sourceDumping' = FALSE /\ guiPc' = "idle"
    /\ UNCHANGED <<runMode, audioDumping, dumping, dumpFile, sinkFile, objects, results,
                   worker, running, scanning>>

(* handle_audioDumpButton, in the same way; there is a pointer but no flag. *)
AudioOn ==
    /\ Idle /\ ~audioDumping /\ myFMprocessor # "deleted"
    /\ open' = open \cup {"sound"} /\ audioDumping' = TRUE /\ sinkFile' = "sound"
    /\ UNCHANGED <<runMode, guiPc, sourceDumping, dumping, dumpFile, objects, results,
                   worker, running, scanning>>

AudioOff ==
    /\ Idle /\ audioDumping
    /\ sinkFile' = NoFile /\ guiPc' = "close sound"
    /\ UNCHANGED <<runMode, sourceDumping, audioDumping, open, dumping, dumpFile, objects,
                   results, worker, running, scanning>>

AudioClose ==
    /\ guiPc = "close sound"
    /\ open' = open \ {"sound"} /\ audioDumping' = FALSE /\ guiPc' = "idle"
    /\ UNCHANGED <<runMode, sourceDumping, dumping, dumpFile, sinkFile, objects, results,
                   worker, running, scanning>>

----------------------------------------------------------------------------
(* Mutant: TerminateProcess will close the file without stopDumping. *)
TerminateDumping ==
    /\ Idle
    /\ runMode' = "STOPPING"
    /\ guiPc' = IF myFMprocessor = "nullptr" THEN "exit" ELSE "terminate"
    /\ UNCHANGED <<dumps, objects, results, worker, running, scanning>>

(* TerminateProcess, step by step.  Without a processor it is exit (1). *)
Terminate ==
    /\ Idle
    /\ runMode' = "STOPPING"
    /\ dumping' = IF sourceDumping THEN FALSE ELSE dumping
    /\ guiPc' = IF myFMprocessor = "nullptr" THEN "exit" ELSE "terminate"
    /\ UNCHANGED <<sourceDumping, audioDumping, open, dumpFile, sinkFile, objects, results,
                   worker, running, scanning>>

(* Mutant: only the file with the input is closed. *)
CloseFilesOfInput ==
    /\ guiPc = "terminate"
    /\ open' = IF sourceDumping THEN open \ {"input"} ELSE open
    /\ guiPc' = "stopReader" /\ scanning' = FALSE
    /\ UNCHANGED <<runMode, sourceDumping, audioDumping, dumping, dumpFile, sinkFile,
                   objects, results, worker, running>>

(* Both files are closed, the one with the sound after stopDumping;
   stopIncrementing. *)
CloseFiles ==
    /\ guiPc = "terminate"
    /\ open' = open \ ((IF sourceDumping THEN {"input"} ELSE {})
                       \cup (IF audioDumping THEN {"sound"} ELSE {}))
    /\ sinkFile' = IF audioDumping THEN NoFile ELSE sinkFile
    /\ guiPc' = "stopReader" /\ scanning' = FALSE
    /\ UNCHANGED <<runMode, sourceDumping, audioDumping, dumping, dumpFile, objects, results,
                   worker, running>>

(* TerminateProcess goes on: stopReader of the device. *)
StopReader ==
    /\ guiPc = "stopReader" /\ device' = "stopped" /\ guiPc' = "stop"
    /\ UNCHANGED <<runMode, dumps, myFMprocessor, results, worker, running, scanning>>

After == [s \in {"stop", "delete"} |-> IF s = "stop" THEN "delete" ELSE "deleted"]
Await == [s \in {"stop", "delete"} |-> IF s = "stop" THEN "await" ELSE "await deleted"]

(* fmProcessor::stop, called by TerminateProcess and again by the destructor:
   nothing is done if the thread does not say that it is running. *)
Stop ==
    /\ guiPc \in {"stop", "delete"}
    /\ running' = FALSE
    /\ guiPc' = IF running THEN Await[guiPc] ELSE After[guiPc]
    /\ UNCHANGED <<runMode, dumps, objects, results, worker, scanning>>

Finished ==
    /\ \E s \in {"stop", "delete"} : guiPc = Await[s] /\ guiPc' = After[s]
    /\ thread = "finished"
    /\ UNCHANGED <<runMode, dumps, objects, results, worker, running, scanning>>

(* The destructor of QThread: the program is aborted if the thread runs. *)
DeleteProcessor ==
    /\ guiPc = "deleted" /\ myFMprocessor' = "deleted"
    /\ guiPc' = IF thread = "finished" THEN "delete device" ELSE "abort"
    /\ UNCHANGED <<runMode, dumps, device, results, worker, running, scanning>>

DeleteDevice ==
    /\ guiPc = "delete device" /\ device' = "deleted" /\ guiPc' = "end"
    /\ UNCHANGED <<runMode, dumps, myFMprocessor, results, worker, running, scanning>>

Exit ==
    /\ guiPc = "end" /\ guiPc' = "exit"
    /\ UNCHANGED <<runMode, dumps, objects, results, worker, running, scanning>>

Terminating == CloseFiles \/ StopReader \/ Stop \/ Finished \/ DeleteProcessor
               \/ DeleteDevice \/ Exit

----------------------------------------------------------------------------
(* The thread of the fm processor, as long as the program is there. *)
Alive == guiPc \notin {"exit", "abort"}

(* run begins *)
Enter ==
    /\ Alive /\ thread = "starting"
    /\ running' = TRUE /\ thread' = "loop"
    /\ UNCHANGED <<runMode, guiPc, dumps, objects, results, samples, scanning>>

(* Mutant: waiting for samples, running is not looked at. *)
LeaveBetweenBuffers ==
    /\ Alive /\ thread = "loop" /\ ~running /\ samples
    /\ thread' = "finished"
    /\ UNCHANGED <<runMode, guiPc, dumps, objects, results, samples, running, scanning>>

(* The loop ends, also when it waits for samples. *)
Leave ==
    /\ Alive /\ thread = "loop" /\ ~running
    /\ thread' = "finished"
    /\ UNCHANGED <<runMode, guiPc, dumps, objects, results, samples, running, scanning>>

GetSamples ==
    /\ Alive /\ thread = "loop" /\ running /\ samples
    /\ samples' = FALSE /\ thread' = "input"
    /\ UNCHANGED <<runMode, guiPc, dumps, objects, results, running, scanning>>

(* if (dumping) ... sf_writef_float (dumpFile ... *)
TestDumping ==
    /\ Alive /\ thread = "input"
    /\ thread' = IF dumping THEN "write input" ELSE "process"
    /\ UNCHANGED <<runMode, guiPc, dumps, objects, results, samples, running, scanning>>

WriteInput ==
    /\ Alive /\ thread = "write input" /\ thread' = "process"
    /\ UNCHANGED <<runMode, guiPc, dumps, objects, results, samples, running, scanning>>

(* While scanning there is no sound, but there may be a result. *)
Scan ==
    /\ Alive /\ thread = "process" /\ scanning
    /\ results' \in {results} \cup {n \in {results + 1} : n <= MaxResults}
    /\ thread' = "loop"
    /\ UNCHANGED <<runMode, guiPc, dumps, objects, samples, running, scanning>>

(* putSamples of the audioSink, which tests its pointer and then uses it. *)
PutSamples ==
    /\ Alive /\ thread = "process" /\ ~scanning
    /\ thread' = IF sinkFile # NoFile THEN "write sound" ELSE "loop"
    /\ UNCHANGED <<runMode, guiPc, dumps, objects, results, samples, running, scanning>>

WriteSound ==
    /\ Alive /\ thread = "write sound" /\ thread' = "loop"
    /\ UNCHANGED <<runMode, guiPc, dumps, objects, results, samples, running, scanning>>

Run == Enter \/ Leave \/ GetSamples \/ TestDumping \/ WriteInput \/ Scan \/ PutSamples
       \/ WriteSound

(* The thread of the device. *)
Deliver ==
    /\ Alive /\ device = "reading" /\ samples' = TRUE
    /\ UNCHANGED <<runMode, guiPc, dumps, objects, results, thread, running, scanning>>

User == Start \/ Pause \/ Continue \/ DumpOn \/ DumpOff \/ AudioOn \/ AudioOff \/ Terminate
Handlers == DumpOnFlag \/ DumpClose \/ AudioClose \/ Terminating

Next == User \/ Handlers \/ StartScanning \/ ScanResult \/ Run \/ Deliver

(* Both threads are scheduled; a handler that has begun goes on. *)
Spec == Init /\ [][Next]_vars /\ WF_vars(Run) /\ WF_vars(Handlers)

----------------------------------------------------------------------------
GuiPlaces    == {"idle", "dumping", "close input", "close sound", "terminate", "stopReader",
                 "stop", "await", "delete", "await deleted", "deleted", "delete device",
                 "end", "exit", "abort"}
ThreadPlaces == {"unstarted", "starting", "loop", "input", "write input", "process",
                 "write sound", "finished"}

Places ==
    /\ runMode \in {"IDLE", "RUNNING", "PAUSED", "STOPPING"}
    /\ guiPc \in GuiPlaces
    /\ open \subseteq Files /\ dumpFile \in {NoFile, "input"} /\ sinkFile \in {NoFile, "sound"}
    /\ myFMprocessor \in {"nullptr", "live", "deleted"}
    /\ device \in {"stopped", "reading", "deleted"}
    /\ results \in 0..MaxResults
    /\ thread \in ThreadPlaces

Flags ==
    /\ sourceDumping \in BOOLEAN /\ audioDumping \in BOOLEAN /\ dumping \in BOOLEAN
    /\ samples \in BOOLEAN /\ running \in BOOLEAN /\ scanning \in BOOLEAN

TypeOK == Places /\ Flags

(* The processor starts to write a block to a dump only when that dump's file
   is open and is the one it was given, though it looks at a flag or a pointer
   only, which the GUI keeps in step with the file in an order of its own: opened,
   dumpFile, dumping ("do not change the order here, another thread might get
   confused", fm-processor.cpp:343-345); cleared, then closed, by the buttons and
   by TerminateProcess alike (radio.cpp:1119-1120, 1154-1155, 585-593).  Of a
   block that was begun nothing is said: its file may be closed under it. *)
BeginsToWriteOpen ==
    [][/\ thread # "write input" /\ thread' = "write input" =>
            "input" \in open /\ dumpFile = "input"
       /\ thread # "write sound" /\ thread' = "write sound" => "sound" \in open]_vars

(* The device and the audio sink, which the processor uses without holding on
   to them, are deleted only when its thread has ended, whatever it was doing
   when the user quit (radio.cpp:606-617, fm-processor.cpp:201-212). *)
DeviceOutlivesProcessor == device = "deleted" => thread = "finished"

(* Quitting in the middle of one or both dumps leaves no file open: without
   sf_close the header of a wav file is never completed (radio.cpp:585-593).
   (Without a processor the program leaves by exit (1); nothing is written
   then.) *)
FilesClosed == guiPc = "end" => open = {}

(* stop waits in a loop for the thread, and the thread waits in a loop for
   samples of a device that has just been stopped; all the same, quitting
   comes to an end, orderly or (when the thread was only starting) by the
   abort of ~QThread (fm-processor.cpp:205-212, 390-397). *)
QuitEnds == guiPc = "terminate" ~> ~Alive
=============================================================================
