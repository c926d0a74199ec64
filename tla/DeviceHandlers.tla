---------------------------- MODULE DeviceHandlers ----------------------------
(***************************************************************************)
(* Starting and stopping a device, for the handlers that fill their ring   *)
(* from a thread of their own (lime, pluto), from a thread that is inside  *)
(* a call of the library (rtlsdr), or from a callback of the library       *)
(* (hackrf, airspy, colibri, sdrplay up to version 2).  The GUI thread     *)
(* starts the device once, pauses and continues it, and deletes it at the  *)
(* end.                                                                    *)
(*                                                                         *)
(* The libraries are external: a call may be refused where the code asks   *)
(* whether it was; what ends a stream returns when the callback is over.   *)
(* What is put is the subject of RingBuffer and RingBufferFlush.           *)
(***************************************************************************)
EXTENDS Naturals

CONSTANT Kinds      (* of handlers, of those below                         *)

Threaded == {"lime", "pluto"}
Calling  == {"hackrf", "airspy", "sdrplay", "colibri"}

ASSUME KindsAssumption == Kinds \subseteq Threaded \cup {"rtlsdr"} \cup Calling

VARIABLES
    kind,
    \* the GUI thread
    mode,        (* "idle", "started", "stopped", "quit" or "deleted"; or
                    "refused", "failing": a start, or a restart, was        *)
    guiPc,       (* "ready", "flushing", or the mode it waits to go to      *)
    running,     (* for rtlsdr: there is a workerHandle                    *)
    \* the thread, or the stream
    worker,      (* "none", "starting", "receiving" or "putting"           *)
    cancelled,   (* the library was told to end the stream                 *)
    \* history
    early,       (* the last stop came before the thread had begun         *)
    denied       (* the last stop was refused by the library               *)

history == <<early, denied>>
vars    == <<kind, mode, guiPc, running, worker, cancelled, history>>

Init ==
    /\ kind \in Kinds /\ mode = "idle" /\ guiPc = "ready"
    /\ running = FALSE /\ worker = "none" /\ cancelled = FALSE
    /\ early = FALSE /\ denied = FALSE

----------------------------------------------------------------------------
(* The threads.  run of lime and pluto sets running itself; the one of rtlsdr
   enters rtlsdr_read_async. *)
Begin ==
    /\ worker = "starting" /\ worker' = "receiving"
    /\ running' = (running \/ kind \in Threaded)
    /\ UNCHANGED <<kind, mode, guiPc, cancelled, history>>

(* Mutant: the loop does not look at running. *)
ToldToEndNever == kind \notin Threaded /\ cancelled

ToldToEnd == IF kind \in Threaded THEN ~running ELSE cancelled

(* A block of samples arrives and is put into the ring. *)
Put ==
    /\ worker = "receiving" /\ ~ToldToEnd /\ worker' = "putting"
    /\ UNCHANGED <<kind, mode, guiPc, running, cancelled, history>>

PutDone ==
    /\ worker = "putting" /\ worker' = "receiving"
    /\ UNCHANGED <<kind, mode, guiPc, running, cancelled, history>>

End ==
    /\ worker = "receiving" /\ ToldToEnd /\ worker' = "none"
    /\ UNCHANGED <<kind, mode, guiPc, running, cancelled, history>>

Worker == Begin \/ Put \/ PutDone \/ End

----------------------------------------------------------------------------
(* restartReader, from setStart and for Continue.  Whether it succeeded is
   asked for at the first start only; a device that runs is left as it is. *)
Restarting(k) ==
    /\ kind = k /\ guiPc = "ready" /\ mode \in {"idle", "stopped"}
    /\ UNCHANGED <<kind, cancelled>>

Refused ==
    /\ mode' = IF mode = "idle" THEN "refused" ELSE "failing"
    /\ UNCHANGED <<running, worker, history>>

Started(next) == mode' = "started" /\ worker' = next /\ early' = FALSE /\ denied' = FALSE
NothingToDo == Started(worker) /\ UNCHANGED running

(* lime and pluto: start does nothing if the thread is on its way. *)
restartLime ==
    /\ Restarting("lime") /\ UNCHANGED guiPc
    /\ \/ worker # "none" /\ NothingToDo
       \/ worker = "none" /\ (Refused \/ (Started("starting") /\ UNCHANGED running))

restartPluto ==
    /\ Restarting("pluto") /\ UNCHANGED guiPc
    /\ \/ running /\ NothingToDo
       \/ ~running /\ Refused
       \/ ~running /\ Started(IF worker = "none" THEN "starting" ELSE worker) /\ UNCHANGED running

(* hackrf, sdrplay and colibri: the library begins to call.  (hackrf also asks
   whether it streams; if it does not nothing comes, and that is to the handler
   what a refused start is.) *)
restartHackrf ==
    /\ Restarting("hackrf") /\ UNCHANGED guiPc
    /\ \/ running /\ NothingToDo
       \/ ~running /\ (Refused \/ (Started("receiving") /\ running' = TRUE))

restartSdrplay ==
    /\ Restarting("sdrplay") /\ UNCHANGED guiPc
    /\ \/ running /\ NothingToDo
       \/ ~running /\ (Refused \/ (Started("receiving") /\ running' = TRUE))

(* (colibri does not ask whether the call was refused) *)
restartColibri ==
    /\ Restarting("colibri") /\ UNCHANGED guiPc
    /\ \/ running /\ NothingToDo
       \/ ~running /\ Started("receiving") /\ running' = TRUE

(* rtlsdr and airspy flush the ring before they start the thread, or the stream;
   which for airspy may be running still. *)
Flush(k) ==
    /\ Restarting(k)
    /\ \/ running /\ NothingToDo /\ UNCHANGED guiPc
       \/ ~running /\ guiPc' = "flushing" /\ UNCHANGED <<mode, running, worker, history>>

Flushed(k) == kind = k /\ guiPc = "flushing" /\ guiPc' = "ready" /\ UNCHANGED <<kind, cancelled>>

startRtlsdr == Flushed("rtlsdr") /\ (Refused \/ (Started("starting") /\ running' = TRUE))
startAirspy ==
    /\ Flushed("airspy")
    /\ \/ Refused
       \/ Started(IF worker = "none" THEN "receiving" ELSE worker) /\ running' = TRUE

restartRtlsdr == Flush("rtlsdr") \/ startRtlsdr
restartAirspy == Flush("airspy") \/ startAirspy

restartReader == \/ restartLime   \/ restartPluto   \/ restartRtlsdr \/ restartAirspy
                 \/ restartHackrf \/ restartSdrplay \/ restartColibri

----------------------------------------------------------------------------
(* stopReader, for a pause and when the program ends, and again in some of the
   destructors: it returns at once, or waits for the worker. *)
Return(next) == mode' = next /\ guiPc' = "ready" /\ UNCHANGED worker
WaitFor(next) == guiPc' = next /\ UNCHANGED <<mode, worker>>

(* Mutant: nobody waits for the worker. *)
StoppedAtOnce ==
    /\ guiPc \notin {"ready", "flushing"}
    /\ mode' = guiPc /\ guiPc' = "ready"
    /\ running' = FALSE /\ cancelled' = FALSE /\ early' = FALSE /\ denied' = FALSE
    /\ UNCHANGED <<kind, worker>>

(* Mutant: the handle of the thread is not cleared. *)
StoppedKeepsHandle ==
    /\ guiPc \notin {"ready", "flushing"} /\ worker = "none"
    /\ mode' = guiPc /\ guiPc' = "ready"
    /\ cancelled' = FALSE /\ early' = FALSE /\ denied' = FALSE
    /\ UNCHANGED <<kind, running, worker>>

Stopped ==
    /\ guiPc \notin {"ready", "flushing"} /\ worker = "none"
    /\ mode' = guiPc /\ guiPc' = "ready"
    /\ running' = FALSE /\ cancelled' = FALSE /\ early' = FALSE /\ denied' = FALSE
    /\ UNCHANGED <<kind, worker>>

(* (lime asks whether the thread lives, the others look at their flag) *)
stopLime(next) ==
    /\ kind = "lime" /\ UNCHANGED <<cancelled, denied>>
    /\ \/ worker = "none" /\ Return(next) /\ UNCHANGED <<running, early>>
       \/ worker # "none" /\ running' = FALSE /\ early' = (worker = "starting") /\ WaitFor(next)

NotRunning(next) ==
    /\ ~running /\ Return(next)
    /\ UNCHANGED <<running, cancelled, denied>>

stopPluto(next) ==
    /\ kind = "pluto"
    /\ \/ NotRunning(next) /\ early' = (worker # "none")
       \/ running /\ running' = FALSE /\ WaitFor(next) /\ UNCHANGED <<cancelled, history>>

(* rtlsdr_cancel_async does nothing if the stream has not begun. *)
stopRtlsdr(next) ==
    /\ kind = "rtlsdr"
    /\ \/ NotRunning(next) /\ UNCHANGED early
       \/ /\ running /\ WaitFor(next)
          /\ cancelled' = (worker # "starting") /\ early' = (worker = "starting")
          /\ UNCHANGED <<running, denied>>

(* The library ends the stream, *)
Cancel(next) == running /\ cancelled' = TRUE /\ WaitFor(next) /\ UNCHANGED <<running, denied>>

(* or will not. *)
Denied(next) == running /\ denied' = TRUE /\ Return(next) /\ UNCHANGED cancelled

stopHackrf(next) ==
    /\ kind = "hackrf" /\ UNCHANGED early
    /\ NotRunning(next) \/ Cancel(next) \/ (Denied(next) /\ UNCHANGED running)

stopAirspy(next) ==
    /\ kind = "airspy" /\ UNCHANGED early
    /\ NotRunning(next) \/ Cancel(next) \/ (Denied(next) /\ running' = FALSE)

stopSdrplay(next) ==
    /\ kind = "sdrplay" /\ UNCHANGED early
    /\ NotRunning(next) \/ Cancel(next)

stopColibri(next) ==
    /\ kind = "colibri" /\ UNCHANGED early
    /\ NotRunning(next) \/ Cancel(next)

stopReader(next) ==
    /\ UNCHANGED kind
    /\ \/ stopLime(next)   \/ stopPluto(next)   \/ stopRtlsdr(next) \/ stopAirspy(next)
       \/ stopHackrf(next) \/ stopSdrplay(next) \/ stopColibri(next)

(* handle_pauseButton and TerminateProcess *)
Pause == guiPc = "ready" /\ mode \in {"started", "failing"} /\ stopReader("stopped")
Quit  == guiPc = "ready" /\ mode \in {"started", "failing", "stopped"} /\ stopReader("quit")

(* The destructors stop once more; but for that of rtlsdr, which has nothing to
   stop, and those of airspy and hackrf, whose close ends the stream. *)
deleteLime    == stopLime("deleted")
deletePluto   == stopPluto("deleted")
deleteSdrplay == stopSdrplay("deleted")
deleteColibri == stopColibri("deleted")

Close ==
    /\ cancelled' = (worker # "none") /\ UNCHANGED <<running, history>>
    /\ IF worker = "none" THEN Return("deleted") ELSE WaitFor("deleted")

deleteRtlsdr == kind = "rtlsdr" /\ Return("deleted") /\ UNCHANGED <<running, cancelled, history>>
deleteHackrf == kind = "hackrf" /\ Close
deleteAirspy == kind = "airspy" /\ Close

Delete ==
    /\ guiPc = "ready" /\ mode = "quit" /\ UNCHANGED kind
    /\ \/ deleteLime   \/ deletePluto   \/ deleteRtlsdr \/ deleteAirspy
       \/ deleteHackrf \/ deleteSdrplay \/ deleteColibri

(* No device was started, or it is deleted. *)
Gone == guiPc = "ready" /\ mode \in {"refused", "deleted"} /\ UNCHANGED vars

Next == Worker \/ restartReader \/ Pause \/ Quit \/ Delete \/ Stopped \/ Gone

(* The threads are scheduled, samples arrive, and the libraries do what they
   have promised. *)
Spec == Init /\ [][Next]_vars /\ WF_vars(Worker) /\ WF_vars(Stopped) /\ WF_vars(startRtlsdr \/ startAirspy)

----------------------------------------------------------------------------
Modes == {"idle", "started", "stopped", "quit", "deleted", "refused", "failing"}

TypeOK ==
    /\ kind \in Kinds /\ mode \in Modes
    /\ guiPc \in {"ready", "flushing", "stopped", "quit", "deleted"}
    /\ running \in BOOLEAN /\ cancelled \in BOOLEAN /\ early \in BOOLEAN /\ denied \in BOOLEAN
    /\ worker \in {"none", "starting", "receiving", "putting"}

(* When a device is stopped, refused to start, or deleted, nothing is put into
   its ring any more, so that the ring can be flushed and the device deleted;
   but if the library refused to stop, or pluto was stopped before its thread
   had set running: it then starts after the stop (lime-handler.cpp:213-243,
   pluto-handler.cpp:498-560, rtlsdr-handler.cpp:229-260,
   hackrf-handler.cpp:372-403, airspy-handler.cpp:205-262). *)
QuietWhenStopped ==
    mode # "started" /\ guiPc \in {"ready", "flushing"} =>
       \/ worker = "none"
       \/ denied /\ kind \in {"hackrf", "airspy"}
       \/ early /\ kind = "pluto"

(* A stop returns; but if it came before the thread of lime or rtlsdr had got
   as far as to hear of it, for which the GUI then waits for ever
   (lime-handler.cpp:235-243, 297-322; rtlsdr-handler.cpp:72-77, 247-260). *)
StopReturns ==
    guiPc \in {"stopped", "quit", "deleted"} ~>
       (guiPc = "ready" \/ (early /\ kind \in {"lime", "rtlsdr"}))

(* As long as the receiver runs with a device that was started, samples come,
   however often it was paused and continued before, early, late or in vain: no
   handler takes a stream that is ending for one that runs, nor the reverse
   (lime-handler.cpp:213-233, pluto-handler.cpp:498-552,
   rtlsdr-handler.cpp:229-260, hackrf-handler.cpp:372-403). *)
SamplesCome == <>[](mode = "started" /\ guiPc = "ready") => []<><<Put>>_vars
=============================================================================
