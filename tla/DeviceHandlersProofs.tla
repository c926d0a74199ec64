------------------------- MODULE DeviceHandlersProofs -------------------------
(***************************************************************************)
(* For whatever handlers there are: a device that is stopped is quiet.     *)
(***************************************************************************)
EXTENDS DeviceHandlers, TLAPS

(* What the handlers rely on when they return at once because they are not
   running: only the thread of lime or pluto, or a stream that airspy could not
   stop, can be alive without the flag. *)
FlagTells ==
    worker # "none" => \/ running
                       \/ kind \in Threaded
                       \/ kind = "airspy" /\ denied

(* The ring is flushed before the device is started. *)
FlushedFirst == guiPc = "flushing" => mode # "started"

IInv == TypeOK /\ FlagTells /\ FlushedFirst /\ QuietWhenStopped

LEMMA InitIInv == Init => IInv
BY KindsAssumption DEF Init, IInv, TypeOK, FlagTells, FlushedFirst, QuietWhenStopped, Modes

(* The worker: it ends, or goes on as before. *)
LEMMA WorkerIInv ==
    ASSUME IInv, Worker PROVE IInv'
<1> USE DEF IInv, TypeOK, FlagTells, FlushedFirst, QuietWhenStopped, Modes, history
<1>1. CASE Begin BY <1>1 DEF Begin
<1>2. CASE Put BY <1>2 DEF Put
<1>3. CASE PutDone BY <1>3 DEF PutDone
<1>4. CASE End BY <1>4 DEF End
<1>5. QED BY <1>1, <1>2, <1>3, <1>4 DEF Worker

(* A restart: refused, it leaves what was quiet alone. *)
LEMMA RestartIInv ==
    ASSUME IInv, restartReader PROVE IInv'
<1> USE DEF IInv, TypeOK, FlagTells, FlushedFirst, QuietWhenStopped, Modes, history,
            Refused, Started, NothingToDo, Restarting, Flush, Flushed, Threaded
<1>1. CASE restartLime BY <1>1 DEF restartLime
<1>2. CASE restartPluto
  <2>1. CASE running /\ NothingToDo BY <1>2, <2>1 DEF restartPluto
  <2>2. CASE ~running /\ Refused BY <1>2, <2>2 DEF restartPluto
  <2>3. CASE ~running /\ Started(IF worker = "none" THEN "starting" ELSE worker) /\ UNCHANGED running
    BY <1>2, <2>3 DEF restartPluto
  <2>4. QED BY <1>2, <2>1, <2>2, <2>3 DEF restartPluto
<1>3. CASE restartHackrf
  <2>1. CASE running /\ NothingToDo BY <1>3, <2>1 DEF restartHackrf
  <2>2. CASE ~running /\ (Refused \/ (Started("receiving") /\ running' = TRUE))
    BY <1>3, <2>2 DEF restartHackrf
  <2>3. QED BY <1>3, <2>1, <2>2 DEF restartHackrf
<1>4. CASE restartSdrplay BY <1>4 DEF restartSdrplay
<1>5. CASE restartColibri BY <1>5 DEF restartColibri
<1>6. CASE restartRtlsdr BY <1>6 DEF restartRtlsdr, startRtlsdr
<1>7. CASE restartAirspy
  <2>1. CASE Flush("airspy")
    <3>1. CASE running /\ NothingToDo /\ UNCHANGED guiPc BY <2>1, <3>1
    <3>2. CASE ~running /\ guiPc' = "flushing" /\ UNCHANGED <<mode, running, worker, history>>
      BY <2>1, <3>2
    <3>3. QED BY <2>1, <3>1, <3>2
  <2>2. CASE startAirspy /\ Refused BY <2>2 DEF startAirspy
  <2>3. CASE startAirspy /\ ~Refused
    <3>1. Started(IF worker = "none" THEN "receiving" ELSE worker) /\ running' = TRUE
      BY <2>3 DEF startAirspy
    <3>2. worker' \in {"none", "starting", "receiving", "putting"} BY <3>1
    <3>3. QED BY <2>3, <3>1, <3>2 DEF startAirspy
  <2>4. QED BY <1>7, <2>1, <2>2, <2>3 DEF restartAirspy
<1>8. QED BY <1>1, <1>2, <1>3, <1>4, <1>5, <1>6, <1>7 DEF restartReader

(* A stop: it finds the worker gone, waits for it, or is one of the cases that
   QuietWhenStopped names. *)
LEMMA StopIInv ==
    ASSUME IInv, NEW next \in {"stopped", "quit", "deleted"}, stopReader(next)
    PROVE  IInv'
<1> USE DEF IInv, TypeOK, FlagTells, FlushedFirst, QuietWhenStopped, Modes, history,
            Return, WaitFor, NotRunning, Cancel, Denied, Threaded
<1>0. kind' = kind BY DEF stopReader
<1>1. CASE stopLime(next) BY <1>0, <1>1 DEF stopLime
<1>2. CASE stopPluto(next) BY <1>0, <1>2 DEF stopPluto
<1>3. CASE stopRtlsdr(next) BY <1>0, <1>3 DEF stopRtlsdr
<1>4. CASE stopHackrf(next) BY <1>0, <1>4 DEF stopHackrf
<1>5. CASE stopAirspy(next) BY <1>0, <1>5 DEF stopAirspy
<1>6. CASE stopSdrplay(next) BY <1>0, <1>6 DEF stopSdrplay
<1>7. CASE stopColibri(next) BY <1>0, <1>7 DEF stopColibri
<1>8. QED BY <1>1, <1>2, <1>3, <1>4, <1>5, <1>6, <1>7 DEF stopReader

LEMMA NextIInv ==
    ASSUME IInv, [Next]_vars PROVE IInv'
<1>1. CASE Worker BY <1>1, WorkerIInv
<1>2. CASE restartReader BY <1>2, RestartIInv
<1>3. CASE Pause BY <1>3, StopIInv DEF Pause
<1>4. CASE Quit BY <1>4, StopIInv DEF Quit
<1>5. CASE Delete
  <2>1. CASE deleteLime \/ deletePluto \/ deleteSdrplay \/ deleteColibri
    <3>1. stopReader("deleted")
      BY <1>5, <2>1 DEF Delete, deleteLime, deletePluto, deleteSdrplay, deleteColibri, stopReader
    <3>2. QED BY <3>1, StopIInv
  <2>2. CASE deleteRtlsdr \/ deleteHackrf \/ deleteAirspy
    BY <1>5, <2>2 DEF Delete, deleteRtlsdr, deleteHackrf, deleteAirspy, Close, IInv, TypeOK,
                      FlagTells, FlushedFirst, QuietWhenStopped, Modes, history, Return, WaitFor
  <2>3. QED BY <1>5, <2>1, <2>2 DEF Delete
<1>6. CASE Stopped
  BY <1>6 DEF Stopped, IInv, TypeOK, FlagTells, FlushedFirst, QuietWhenStopped, Modes
<1>7. CASE UNCHANGED vars
  BY <1>7 DEF vars, history, IInv, TypeOK, FlagTells, FlushedFirst, QuietWhenStopped
<1>8. QED BY <1>1, <1>2, <1>3, <1>4, <1>5, <1>6, <1>7 DEF Next, Gone

THEOREM SpecIInv == Spec => []IInv
<1>1. IInv /\ [Next]_vars => IInv' BY NextIInv
<1>2. QED BY InitIInv, <1>1, PTL DEF Spec

(* The modes and flags keep to their values. *)
THEOREM TypeCorrect == Spec => []TypeOK
<1>1. IInv => TypeOK BY DEF IInv
<1>2. QED BY SpecIInv, <1>1, PTL

(* Whatever handlers there are, and however often the device is paused and
   continued: nothing is put into the ring of a device that is stopped, but in
   the cases QuietWhenStopped names (lime-handler.cpp:213-243,
   pluto-handler.cpp:498-560, rtlsdr-handler.cpp:229-260,
   hackrf-handler.cpp:372-403, airspy-handler.cpp:205-262). *)
THEOREM DeviceQuietWhenStopped == Spec => []QuietWhenStopped
<1>1. IInv => QuietWhenStopped BY DEF IInv
<1>2. QED BY SpecIInv, <1>1, PTL
===============================================================================
