--------------------------- MODULE ProcessorProofs ---------------------------
(***************************************************************************)
(* The fm processor and the GUI thread.  Of its life, whatever the bound   *)
(* on the scan results under way: the places of the GUI thread in          *)
(* TerminateProcess tell what has been done, and the flags of the dumps    *)
(* what is open.  Of its filters, whatever filters there are and whatever  *)
(* widths can be chosen: a filter that is switched on has been designed    *)
(* for one of these widths.                                                *)
(***************************************************************************)
EXTENDS Lifecycle, FilterSetup, TLAPS

----------------------------------------------------------------------------
(* Its life (Lifecycle). *)

(* From "delete device" on, the thread has been seen to have ended. *)
ThreadEnded ==
    /\ guiPc \in {"delete device", "end"} => thread = "finished"
    /\ device = "deleted" => thread = "finished"

(* The flag of the one dump and the pointer of the other are up only while
   the file is open: they are taken back at the places before it is closed. *)
FileBeforeFlag ==
    /\ guiPc = "dumping" \/ dumping => "input" \in open /\ dumpFile = "input"
    /\ guiPc \in {"close input", "terminate"} => ~dumping
    /\ sinkFile # NoFile => "sound" \in open
    /\ guiPc = "close sound" => sinkFile = NoFile

(* The flags of the GUI know what is open, until TerminateProcess closes it. *)
FlagsKnow ==
    /\ open \subseteq Files
    /\ "input" \in open => sourceDumping
    /\ "sound" \in open => audioDumping

AllClosed ==
    guiPc \in {"stopReader", "stop", "await", "delete", "await deleted", "deleted",
               "delete device", "end"} => open = {}

LifeInv == ThreadEnded /\ FileBeforeFlag /\ FlagsKnow /\ AllClosed

(* The invariant holds in the initial state. *)
LEMMA InitLife == Init => LifeInv
  BY DEF Init, LifeInv, ThreadEnded, FileBeforeFlag, FlagsKnow, AllClosed, NoFile

(* No step of the user, and no handler of the GUI, breaks the invariant. *)
LEMMA GuiStep ==
    ASSUME LifeInv, User \/ Handlers \/ StartScanning \/ ScanResult
    PROVE  LifeInv'
<1> USE DEF LifeInv, ThreadEnded, FileBeforeFlag, FlagsKnow, AllClosed, NoFile, Files,
            dumps, objects, worker, Idle
<1>1. CASE Start
  BY <1>1 DEF Start
<1>2. CASE Pause
  BY <1>2 DEF Pause
<1>3. CASE Continue
  BY <1>3 DEF Continue
<1>4. CASE StartScanning
  BY <1>4 DEF StartScanning
<1>5. CASE ScanResult
  BY <1>5 DEF ScanResult
<1>6. CASE DumpOn
  BY <1>6 DEF DumpOn
<1>7. CASE DumpOnFlag
  BY <1>7 DEF DumpOnFlag
<1>8. CASE DumpOff
  BY <1>8 DEF DumpOff
<1>9. CASE DumpClose
  BY <1>9 DEF DumpClose
<1>10. CASE AudioOn
  BY <1>10 DEF AudioOn
<1>11. CASE AudioOff
  BY <1>11 DEF AudioOff
<1>12. CASE AudioClose
  BY <1>12 DEF AudioClose
<1>13. CASE Terminate
  BY <1>13 DEF Terminate
<1>14. CASE CloseFiles
  BY <1>14 DEF CloseFiles
<1>15. CASE StopReader
  BY <1>15 DEF StopReader
<1>16. CASE Stop
  BY <1>16 DEF Stop, After, Await
<1>17. CASE Finished
  BY <1>17 DEF Finished, After, Await
<1>18. CASE DeleteProcessor
  BY <1>18 DEF DeleteProcessor
<1>19. CASE DeleteDevice
  BY <1>19 DEF DeleteDevice
<1>20. CASE Exit
  BY <1>20 DEF Exit
<1> QED
  BY <1>1, <1>2, <1>3, <1>4, <1>5, <1>6, <1>7, <1>8, <1>9, <1>10, <1>11,
     <1>12, <1>13, <1>14, <1>15, <1>16, <1>17, <1>18, <1>19, <1>20 DEF User,
     Handlers, Terminating

(* No step of the processor or of the device breaks it: an ended thread makes
   no step, and neither touches a file, a flag or a pointer. *)
LEMMA ThreadStep ==
    ASSUME LifeInv, Run \/ Deliver
    PROVE  LifeInv'
<1> USE DEF LifeInv, ThreadEnded, FileBeforeFlag, FlagsKnow, AllClosed, dumps, objects
<1>1. CASE Enter
  BY <1>1 DEF Enter
<1>2. CASE Leave
  BY <1>2 DEF Leave
<1>3. CASE GetSamples
  BY <1>3 DEF GetSamples
<1>4. CASE TestDumping
  BY <1>4 DEF TestDumping
<1>5. CASE WriteInput
  BY <1>5 DEF WriteInput
<1>6. CASE WriteSound
  BY <1>6 DEF WriteSound
<1>7. CASE Scan
  BY <1>7 DEF Scan
<1>8. CASE PutSamples
  BY <1>8 DEF PutSamples
<1>9. CASE Deliver
  BY <1>9 DEF Deliver
<1> QED
  BY <1>1, <1>2, <1>3, <1>4, <1>5, <1>6, <1>7, <1>8, <1>9 DEF Run

(* The invariant of the life of the processor. *)
THEOREM LifeInvariance == Spec => []LifeInv
<1>1. Init => LifeInv
  BY InitLife
<1>2. LifeInv /\ [Next]_vars => LifeInv'
  <2>1. CASE UNCHANGED vars
    BY <2>1 DEF LifeInv, ThreadEnded, FileBeforeFlag, FlagsKnow, AllClosed, vars, dumps,
                objects, worker
  <2>2. CASE Next
    BY <2>2, GuiStep, ThreadStep DEF Next
  <2> QED
    BY <2>1, <2>2
<1> QED
  BY <1>1, <1>2, PTL DEF Spec

(* A block is begun only on an open file (fm-processor.cpp:339-349, 451-456;
   audiosink.cpp:228-231, 268-274): the processor gets to write by one step
   each, past the test of the flag or of the pointer. *)
THEOREM WritesSafe == Spec => BeginsToWriteOpen
<1> DEFINE Begun == /\ thread # "write input" /\ thread' = "write input" =>
                          "input" \in open /\ dumpFile = "input"
                    /\ thread # "write sound" /\ thread' = "write sound" =>
                          "sound" \in open
<1>1. LifeInv /\ [Next]_vars => [Begun]_vars
  <2> SUFFICES ASSUME LifeInv, Next PROVE Begun
    BY DEF vars
  <2>1. CASE User
    BY <2>1 DEF User, Start, Pause, Continue, DumpOn, DumpOff, AudioOn, AudioOff, Terminate,
                worker
  <2>2. CASE Handlers \/ StartScanning \/ ScanResult
    BY <2>2 DEF Handlers, Terminating, DumpOnFlag, DumpClose, AudioClose, CloseFiles,
                StopReader, Stop, Finished, DeleteProcessor, DeleteDevice, Exit,
                StartScanning, ScanResult, worker
  <2>3. CASE TestDumping
    BY <2>3 DEF TestDumping, LifeInv, FileBeforeFlag
  <2>4. CASE PutSamples
    BY <2>4 DEF PutSamples, LifeInv, FileBeforeFlag
  <2>5. CASE Enter \/ Leave \/ GetSamples \/ WriteInput \/ Scan \/ WriteSound \/ Deliver
    BY <2>5 DEF Enter, Leave, GetSamples, WriteInput, Scan, WriteSound, Deliver
  <2> QED
    BY <2>1, <2>2, <2>3, <2>4, <2>5 DEF Next, Run
<1> QED
  BY <1>1, LifeInvariance, PTL DEF Spec, BeginsToWriteOpen

(* The device is deleted after the thread that uses it has ended
   (radio.cpp:606-615). *)
THEOREM DeviceSafe == Spec => []DeviceOutlivesProcessor
<1>1. LifeInv => DeviceOutlivesProcessor
  BY DEF LifeInv, ThreadEnded, DeviceOutlivesProcessor
<1> QED
  BY <1>1, LifeInvariance, PTL

(* TerminateProcess closes the files of the dumps (radio.cpp:585-593). *)
THEOREM FilesSafe == Spec => []FilesClosed
<1>1. LifeInv => FilesClosed
  BY DEF LifeInv, AllClosed, FilesClosed
<1> QED
  BY <1>1, LifeInvariance, PTL

----------------------------------------------------------------------------
(* No step takes a flag for anything but a flag: each keeps it or sets it. *)
LEMMA FlagsStay ==
    ASSUME Flags, Next
    PROVE  Flags'
<1> USE DEF Flags, dumps, worker
<1>1. CASE Start
  BY <1>1 DEF Start
<1>2. CASE Pause
  BY <1>2 DEF Pause
<1>3. CASE Continue
  BY <1>3 DEF Continue
<1>4. CASE StartScanning
  BY <1>4 DEF StartScanning
<1>5. CASE ScanResult
  BY <1>5 DEF ScanResult
<1>6. CASE DumpOn
  BY <1>6 DEF DumpOn
<1>7. CASE DumpOnFlag
  BY <1>7 DEF DumpOnFlag
<1>8. CASE DumpOff
  BY <1>8 DEF DumpOff
<1>9. CASE DumpClose
  BY <1>9 DEF DumpClose
<1>10. CASE AudioOn
  BY <1>10 DEF AudioOn
<1>11. CASE AudioOff
  BY <1>11 DEF AudioOff
<1>12. CASE AudioClose
  BY <1>12 DEF AudioClose
<1>13. CASE Terminate
  BY <1>13 DEF Terminate
<1>14. CASE CloseFiles
  BY <1>14 DEF CloseFiles
<1>15. CASE StopReader
  BY <1>15 DEF StopReader
<1>16. CASE Stop
  BY <1>16 DEF Stop
<1>17. CASE Finished
  BY <1>17 DEF Finished
<1>18. CASE DeleteProcessor
  BY <1>18 DEF DeleteProcessor
<1>19. CASE DeleteDevice
  BY <1>19 DEF DeleteDevice
<1>20. CASE Exit
  BY <1>20 DEF Exit
<1>21. CASE Enter
  BY <1>21 DEF Enter
<1>22. CASE Leave
  BY <1>22 DEF Leave
<1>23. CASE GetSamples
  BY <1>23 DEF GetSamples
<1>24. CASE TestDumping
  BY <1>24 DEF TestDumping
<1>25. CASE WriteInput
  BY <1>25 DEF WriteInput
<1>26. CASE WriteSound
  BY <1>26 DEF WriteSound
<1>27. CASE Scan
  BY <1>27 DEF Scan
<1>28. CASE PutSamples
  BY <1>28 DEF PutSamples
<1>29. CASE Deliver
  BY <1>29 DEF Deliver
<1> QED
  BY <1>1, <1>2, <1>3, <1>4, <1>5, <1>6, <1>7, <1>8, <1>9, <1>10, <1>11, <1>12,
     <1>13, <1>14, <1>15, <1>16, <1>17, <1>18, <1>19, <1>20, <1>21, <1>22, <1>23, <1>24,
     <1>25, <1>26, <1>27, <1>28, <1>29
  DEF Next, User, Handlers, Terminating, Run

(* The other variables of the GUI keep to their values ... *)
LEMMA GuiKeepsPlaces ==
    ASSUME Places, User \/ Handlers \/ StartScanning \/ ScanResult
    PROVE  Places'
<1> USE LifecycleAssumption DEF Places, GuiPlaces, NoFile, Files, dumps, objects, worker, Idle
<1>1. CASE Start
  <2>1. "starting" \in ThreadPlaces
    BY DEF ThreadPlaces
  <2> QED
    BY <1>1, <2>1 DEF Start
<1>2. CASE Pause
  BY <1>2 DEF Pause
<1>3. CASE Continue
  BY <1>3 DEF Continue
<1>4. CASE StartScanning
  BY <1>4 DEF StartScanning
<1>5. CASE ScanResult
  <2> HIDE DEF GuiPlaces
  <2>1. results \in Nat /\ results <= MaxResults /\ results > 0 /\ results' = results - 1
    BY <1>5 DEF ScanResult
  <2>2. results' \in 0..MaxResults
    BY <2>1
  <2>3. UNCHANGED <<runMode, guiPc, dumps, objects, worker>>
    BY <1>5 DEF ScanResult
  <2> QED
    BY <2>2, <2>3
<1>6. CASE DumpOn
  BY <1>6 DEF DumpOn
<1>7. CASE DumpOnFlag
  BY <1>7 DEF DumpOnFlag
<1>8. CASE DumpOff
  BY <1>8 DEF DumpOff
<1>9. CASE DumpClose
  BY <1>9 DEF DumpClose
<1>10. CASE AudioOn
  BY <1>10 DEF AudioOn
<1>11. CASE AudioOff
  BY <1>11 DEF AudioOff
<1>12. CASE AudioClose
  BY <1>12 DEF AudioClose
<1>13. CASE Terminate
  BY <1>13 DEF Terminate
<1>14. CASE CloseFiles
  BY <1>14 DEF CloseFiles
<1>15. CASE StopReader
  BY <1>15 DEF StopReader
<1>16. CASE Stop
  BY <1>16 DEF Stop, After, Await
<1>17. CASE Finished
  BY <1>17 DEF Finished, After, Await
<1>18. CASE DeleteProcessor
  BY <1>18 DEF DeleteProcessor
<1>19. CASE DeleteDevice
  BY <1>19 DEF DeleteDevice
<1>20. CASE Exit
  BY <1>20 DEF Exit
<1> QED
  BY <1>1, <1>2, <1>3, <1>4, <1>5, <1>6, <1>7, <1>8, <1>9, <1>10, <1>11, <1>12,
     <1>13, <1>14, <1>15, <1>16, <1>17, <1>18, <1>19, <1>20
  DEF User, Handlers, Terminating

(* ... and so do those of the threads. *)
LEMMA ThreadKeepsPlaces ==
    ASSUME Places, Run \/ Deliver
    PROVE  Places'
<1> USE LifecycleAssumption DEF Places, ThreadPlaces, NoFile, dumps, objects
<1>1. CASE Enter
  BY <1>1 DEF Enter
<1>2. CASE Leave
  BY <1>2 DEF Leave
<1>3. CASE GetSamples
  BY <1>3 DEF GetSamples
<1>4. CASE TestDumping
  BY <1>4 DEF TestDumping
<1>5. CASE WriteInput
  BY <1>5 DEF WriteInput
<1>6. CASE WriteSound
  BY <1>6 DEF WriteSound
<1>7. CASE Scan
  <2>0. "loop" \in ThreadPlaces
    OBVIOUS
  <2> HIDE DEF ThreadPlaces
  <2>1. results' \in 0..MaxResults
    BY <1>7 DEF Scan
  <2>2. UNCHANGED <<runMode, guiPc, dumps, objects>> /\ thread' = "loop"
    BY <1>7 DEF Scan
  <2> QED
    BY <2>0, <2>1, <2>2
<1>8. CASE PutSamples
  BY <1>8 DEF PutSamples
<1>9. CASE Deliver
  <2> HIDE DEF ThreadPlaces
  <2>1. UNCHANGED <<runMode, guiPc, dumps, objects, results, thread>>
    BY <1>9 DEF Deliver
  <2> QED
    BY <2>1
<1> QED
  BY <1>1, <1>2, <1>3, <1>4, <1>5, <1>6, <1>7, <1>8, <1>9
  DEF Run

(* The variables keep their types, whatever the bound on the results. *)
THEOREM LifeTypeCorrect == Spec => []TypeOK
<1>1. Init => Flags
  BY DEF Init, Flags
<1>2. Init => Places
  BY LifecycleAssumption DEF Init, Places, GuiPlaces, ThreadPlaces, NoFile, Files
<1>3. TypeOK /\ [Next]_vars => TypeOK'
  <2>1. TypeOK /\ UNCHANGED vars => TypeOK'
    BY DEF TypeOK, Places, Flags, vars, dumps, objects, worker
  <2> QED
    BY <2>1, FlagsStay, GuiKeepsPlaces, ThreadKeepsPlaces DEF Next, TypeOK
<1> QED
  BY <1>1, <1>2, <1>3, PTL DEF Spec, TypeOK

----------------------------------------------------------------------------
(* Its filters (FilterSetup). *)

(* The marker, and whoever acts on it, comes after a width that was chosen;
   a width is never taken back. *)
MarkerMeansChosen ==
    /\ \A f \in FilterSet : newFilter[f] \/ f \in pending => width[f] \in Widths
    /\ pc[1] # "test" => width[Subject] \in Widths
    /\ pc[1] \in {"on", "clear"} => designed[Subject] \in Widths

FilterInv == FilterTypeOK /\ MarkerMeansChosen /\ OnMeansChosen

(* The filter the processor is at is one of the filters, and so is the next. *)
LEMMA SubjectIsFilter ==
    ASSUME FilterTypeOK
    PROVE  /\ pc = <<pc[1], pc[2]>> /\ pc[2] \in 1..Len(Filters)
           /\ Subject \in FilterSet
           /\ NextFilter \in {"test"} \X (1..Len(Filters))
<1>1. pc = <<pc[1], pc[2]>> /\ pc[2] \in 1..Len(Filters) BY DEF FilterTypeOK
<1>2. Len(Filters) \in Nat \ {0} BY FilterAssumption
<1>3. QED BY <1>1, <1>2 DEF Subject, FilterSet, NextFilter

LEMMA InitFilter == FilterInit => FilterInv
<1>1. 1 \in 1..Len(Filters) BY FilterAssumption
<1>2. FilterInit => FilterTypeOK
  <2>1. FilterInit => pc \in {"test", "design", "on", "clear"} \X (1..Len(Filters))
    BY <1>1 DEF FilterInit
  <2>2. FilterInit => /\ width \in [FilterSet -> Widths \cup {Default}]
                /\ designed \in [FilterSet -> Widths \cup {Default}]
                /\ choice \in [FilterSet -> Widths \cup {Off}]
    BY DEF FilterInit
  <2>3. FilterInit => /\ newFilter \in [FilterSet -> BOOLEAN] /\ filterOn \in [FilterSet -> BOOLEAN]
                /\ pending \in SUBSET FilterSet /\ raced \in BOOLEAN
    BY DEF FilterInit
  <2>4. QED BY <2>1, <2>2, <2>3 DEF FilterTypeOK
<1>3. FilterInit => MarkerMeansChosen /\ OnMeansChosen
  <2>1. FilterInit => pc[1] = "test" BY DEF FilterInit
  <2>2. QED BY <2>1 DEF FilterInit, MarkerMeansChosen, OnMeansChosen
<1>4. QED BY <1>2, <1>3 DEF FilterInv

(* A step of the processor. *)
LEMMA ProcessorFilter ==
    ASSUME FilterInv, Processor PROVE FilterInv'
<1> USE SubjectIsFilter DEF FilterInv, FilterTypeOK, MarkerMeansChosen, OnMeansChosen, shared
<1>1. CASE TestMarker
  <2>1. pc' = IF newFilter[Subject] THEN <<"design", pc[2]>> ELSE NextFilter
    BY <1>1 DEF TestMarker
  <2>2. CASE newFilter[Subject]
    <3>1. pc'[1] = "design" /\ pc'[2] = pc[2] /\ Subject' = Subject
      BY <2>1, <2>2, <1>1 DEF TestMarker, Subject
    <3>2. QED BY <1>1, <2>1, <2>2, <3>1 DEF TestMarker
  <2>3. CASE ~newFilter[Subject]
    <3>1. pc'[1] = "test" BY <2>1, <2>3 DEF NextFilter
    <3>2. QED BY <1>1, <2>1, <2>3, <3>1 DEF TestMarker
  <2>4. QED BY <2>2, <2>3
<1>2. CASE Design
  <2>1. pc'[1] = "on" /\ pc'[2] = pc[2] /\ Subject' = Subject BY <1>2 DEF Design, Subject
  <2>2. QED BY <1>2, <2>1 DEF Design
<1>3. CASE SwitchOn
  <2>1. pc'[1] = "clear" /\ pc'[2] = pc[2] /\ Subject' = Subject BY <1>3 DEF SwitchOn, Subject
  <2>2. QED BY <1>3, <2>1 DEF SwitchOn
<1>4. CASE ClearMarker
  <2>1. pc'[1] = "test" BY <1>4 DEF ClearMarker, NextFilter
  <2>2. QED BY <1>4, <2>1 DEF ClearMarker
<1>5. QED BY <1>1, <1>2, <1>3, <1>4 DEF Processor

(* A step of the GUI, which may fall between any two of those. *)
LEMMA GuiFilter ==
    ASSUME FilterInv, Gui PROVE FilterInv'
<1> USE SubjectIsFilter DEF FilterInv, FilterTypeOK, MarkerMeansChosen, OnMeansChosen, shared, processorVars
<1>1. ASSUME NEW f \in FilterSet, SwitchOff(f) PROVE FilterInv'
  BY <1>1 DEF SwitchOff, Subject
<1>2. ASSUME NEW f \in FilterSet, SetMarker(f) PROVE FilterInv'
  BY <1>2 DEF SetMarker, Subject
<1>3. ASSUME NEW f \in FilterSet, NEW w \in Widths, StoreWidth(f, w) PROVE FilterInv'
  BY <1>3 DEF StoreWidth, Subject
<1>4. QED BY <1>1, <1>2, <1>3 DEF Gui

THEOREM FilterInvariance == FilterSpec => []FilterInv
<1>1. FilterInv /\ UNCHANGED filterVars => FilterInv'
  BY DEF filterVars, shared, processorVars, FilterInv, FilterTypeOK, MarkerMeansChosen, OnMeansChosen, Subject
<1>2. FilterInv /\ [FilterNext]_filterVars => FilterInv' BY <1>1, ProcessorFilter, GuiFilter DEF FilterNext
<1>3. QED BY InitFilter, <1>2, PTL DEF FilterSpec

(* The variables keep their types; in particular the processor always looks at
   one of the filters. *)
THEOREM FilterTypeCorrect == FilterSpec => []FilterTypeOK
<1>1. FilterInv => FilterTypeOK BY DEF FilterInv
<1>2. QED BY FilterInvariance, <1>1, PTL

(* However many filters and widths, and however the choices fall between the
   steps of the processor: no filter that is on has a width nobody chose
   (fm-processor.cpp:236-237, 399-411). *)
THEOREM OnlyChosenWidths == FilterSpec => []OnMeansChosen
<1>1. FilterInv => OnMeansChosen BY DEF FilterInv
<1>2. QED BY FilterInvariance, <1>1, PTL
==============================================================================
