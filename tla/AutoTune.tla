------------------------------ MODULE AutoTune ------------------------------
(***************************************************************************)
(* The auto tuner: the buttons fc+ and fc- of the GUI set a direction and  *)
(* a speed, a timer steps the frequency, and the processor, silent while   *)
(* it scans, looks for a signal in blocks of samples and sends a result to *)
(* the GUI, which then stops the tuner (radio.cpp:882-1087, 1639-1663,     *)
(* 1725-1747, fm-processor.cpp:362-368, 469-499).                          *)
(*                                                                         *)
(* The receiver is tuned by the VFO of the device, and within its band by  *)
(* the oscillator of the processor, which takes effect at once while the   *)
(* samples of the last VFO are still to come: for a while it hears a       *)
(* frequency that is neither the last one nor the one tuned to.            *)
(*                                                                         *)
(* A frequency is its number of steps of fmIncrement from the lowest one.  *)
(***************************************************************************)
EXTENDS Integers, FiniteSets

CONSTANTS
    Last,           (* the frequencies are 0..Last                         *)
    Lows, Highs,    (* what the user may choose as limits; nothing keeps   *)
                    (* them in order or within what the device accepts     *)
    Legal,          (* the frequencies the device accepts                  *)
    Slack,          (* how far from what it was told it may say it is      *)
    Window,         (* inputRate / 2 - fmRate: up to this the VFO is left  *)
    Reach,          (* inputRate / 2, to which the oscillator is cut       *)
    Fallback,       (* what setTuner says of one it does not accept        *)
    Stations,       (* the frequencies with a signal                       *)
    delayTableSize,
    MaxOffset,      (* bound: what the AFC corrects at once                *)
    MaxResults      (* bound: results under way to the GUI                 *)

Frequencies == 0..Last

ASSUME TunerAssumption ==
    /\ Last \in Nat /\ Lows \subseteq Int /\ Highs \subseteq Int
    /\ Legal \subseteq Int /\ Fallback \in Int /\ Stations \subseteq Int
    /\ Reach \in Nat /\ Window \in 0..Reach /\ Slack \in Nat /\ MaxOffset \in Nat
    /\ delayTableSize \in Nat \ {0} /\ MaxResults \in Nat \ {0}

VARIABLES
    \* the GUI thread
    currentFreq,      (* what it takes the frequency to be                 *)
    vfo,              (* what the device says its frequency is             *)
    loFrequency,      (* what the processor's oscillator adds to it        *)
    minLoopFrequency, maxLoopFrequency,
    incrementIndex,
    timer,            (* autoIncrementTimer is active                      *)
    paused,           (* runMode is PAUSED, otherwise it is RUNNING        *)
    results,          (* scanresult signals queued                         *)
    \* the processor
    scanning,
    heardVfo,         (* the VFO of the samples it is at                   *)
    scanBuffer        (* whether the samples it has gathered are of        *)
                      (* stations; of both kinds after a change            *)

limits == <<minLoopFrequency, maxLoopFrequency>>
tuning == <<currentFreq, vfo, loFrequency>>
gui    == <<tuning, limits, incrementIndex, timer, paused>>
vars   == <<gui, results, scanning, heardVfo, scanBuffer>>

tuned == vfo + loFrequency
heard == heardVfo + loFrequency

OfStation == heard \in Stations

(* What the device may say after it was told to go to one of the places. *)
Near(places) == {n + s : n \in places, s \in -Slack..Slack}

Init ==
    /\ vfo \in Near(Legal) /\ loFrequency \in -Reach..Reach /\ heardVfo = vfo
    /\ currentFreq \in {tuned, Fallback}                       \* setTuner (Khz (94700))
    /\ minLoopFrequency \in Lows /\ maxLoopFrequency \in Highs
    /\ incrementIndex \in -delayTableSize..delayTableSize      \* from the settings
    /\ timer = FALSE /\ paused = FALSE
    /\ results = 0 /\ scanning = FALSE /\ scanBuffer = {}

----------------------------------------------------------------------------
(* The GUI thread: what its handlers call. *)

(* Whether the device is told to go there, and what it says then: it may have
   refused and be where it was, or be somewhere near. *)
setVFOFrequency(n) ==
    vfo' \in IF n - vfo \in -Window..Window THEN {vfo} ELSE {vfo} \cup Near({n})

Clamped(lo) == IF lo > Reach THEN Reach ELSE IF lo < -Reach THEN -Reach ELSE lo

(* Mutant: the oscillator keeps what it added to the last VFO. *)
setTunerVfoOnly(n) ==
    IF n \in Legal
    THEN /\ setVFOFrequency(n)
         /\ loFrequency' = IF vfo' = vfo THEN Clamped(n - vfo) ELSE loFrequency
         /\ currentFreq' = vfo' + loFrequency'
    ELSE currentFreq' = Fallback /\ UNCHANGED <<vfo, loFrequency>>

(* setTuner: an illegal frequency is not tuned to, and another one returned;
   of a legal one the oscillator makes up what the device lacks, if it can. *)
setTuner(n) ==
    IF n \in Legal
    THEN /\ setVFOFrequency(n)
         /\ loFrequency' = Clamped(n - vfo')
         /\ currentFreq' = vfo' + loFrequency'
    ELSE currentFreq' = Fallback /\ UNCHANGED <<vfo, loFrequency>>

(* Mutant: the processor is not told to stop scanning. *)
stopIncrementingSilently ==
    timer' = FALSE /\ incrementIndex' = 0 /\ UNCHANGED scanning

stopIncrementing == timer' = FALSE /\ incrementIndex' = 0 /\ scanning' = FALSE

----------------------------------------------------------------------------
(* The GUI thread: its handlers. *)

(* handle_fc_plus and handle_fc_min: with index 0 the timer has been stopped,
   but the processor is not told. *)
Faster(d) ==
    LET n == incrementIndex + d
    IN  /\ incrementIndex' = IF n \in -delayTableSize..delayTableSize THEN n
                             ELSE incrementIndex
        /\ timer' = (incrementIndex' # 0)
        /\ UNCHANGED <<tuning, limits, paused, results, scanning, heardVfo, scanBuffer>>

(* f+, f-, the ++ and + buttons, the wheel and the keypad *)
ChooseFrequency(n) ==
    /\ stopIncrementing /\ setTuner(n)
    /\ UNCHANGED <<limits, paused, results, heardVfo, scanBuffer>>

(* handle_minimumSelect, handle_maximumSelect: in the middle of a scan, too. *)
ChooseLimits ==
    /\ minLoopFrequency' \in Lows /\ maxLoopFrequency' \in Highs
    /\ UNCHANGED <<tuning, incrementIndex, timer, paused, results, scanning,
                   heardVfo, scanBuffer>>

(* showMetaData with the AFC on: the frequency follows the carrier, and the
   tuner is not stopped. *)
Afc(offset) ==
    /\ setTuner(currentFreq + offset)
    /\ UNCHANGED <<limits, incrementIndex, timer, paused, results, scanning, heardVfo, scanBuffer>>

Step == currentFreq + (IF incrementIndex < 0 THEN -1 ELSE 1)

(* Beyond a limit the tuner goes on at the other one. *)
NextStep ==
    IF incrementIndex = 0 \/ Step \in minLoopFrequency..maxLoopFrequency THEN Step
    ELSE IF incrementIndex < 0 THEN maxLoopFrequency ELSE minLoopFrequency

(* autoIncrement_timeout; the timer is a single shot and started again. *)
Timeout ==
    /\ timer
    /\ setTuner(NextStep)
    /\ scanning' = TRUE
    /\ UNCHANGED <<limits, incrementIndex, timer, paused, results, heardVfo, scanBuffer>>

(* Mutant: the scan ends, the timer does not. *)
ScanResultTimerOn ==
    /\ results > 0 /\ results' = results - 1
    /\ scanning' = FALSE
    /\ UNCHANGED <<gui, heardVfo, scanBuffer>>

(* scanresult *)
ScanResult ==
    /\ results > 0 /\ results' = results - 1
    /\ stopIncrementing
    /\ UNCHANGED <<tuning, limits, paused, heardVfo, scanBuffer>>

(* handle_pauseButton *)
Pause ==
    /\ ~paused /\ paused' = TRUE /\ timer' = FALSE
    /\ UNCHANGED <<tuning, limits, incrementIndex, results, scanning, heardVfo, scanBuffer>>

Continue ==
    /\ paused /\ paused' = FALSE /\ timer' = (timer \/ incrementIndex # 0)
    /\ UNCHANGED <<tuning, limits, incrementIndex, results, scanning, heardVfo, scanBuffer>>

----------------------------------------------------------------------------
(* The processor. *)

(* It gets to samples taken after the VFO was last changed.  A paused device
   has none. *)
CatchUp ==
    /\ ~paused /\ heardVfo # vfo /\ heardVfo' = vfo
    /\ UNCHANGED <<gui, results, scanning, scanBuffer>>

(* Samples are gathered while scanning.  What a scan leaves in the buffer is
   there when the next one begins. *)
Gather ==
    /\ scanning /\ OfStation \notin scanBuffer
    /\ scanBuffer' = scanBuffer \cup {OfStation}
    /\ UNCHANGED <<gui, results, scanning, heardVfo>>

(* The buffer is full: its spectrum has a peak if all of it is from a station,
   none if nothing is, and may have one otherwise. *)
Peak == LET from == scanBuffer \cup {OfStation}
        IN  (IF TRUE \in from THEN {1} ELSE {}) \cup (IF FALSE \in from THEN {0} ELSE {})

Test ==
    /\ ~paused /\ scanning
    /\ results' \in {n \in {results + p : p \in Peak} : n <= MaxResults}
    /\ scanBuffer' = {}
    /\ UNCHANGED <<gui, scanning, heardVfo>>

----------------------------------------------------------------------------
User == \/ \E d \in {-1, 1} : Faster(d)
        \/ \E n \in Frequencies : ChooseFrequency(n)
        \/ ChooseLimits \/ Pause \/ Continue

(* The AFC is for the user to switch on. *)
Correction == \E offset \in -MaxOffset..MaxOffset : Afc(offset)

Next == User \/ Correction \/ Timeout \/ ScanResult \/ CatchUp \/ Gather \/ Test

(* The event loop of the GUI delivers timeouts and results.  The timer gives
   the processor a second and more for every frequency, where a block takes
   it five milliseconds: it may be late for a station, but not each time the
   tuner comes by, nor is each time the block it began elsewhere the only one
   it gets to. *)
OnStation(A) == A /\ tuned \in Stations
NextBlock    == heard = tuned /\ Test
FreshBlock   == scanBuffer \subseteq {OfStation} /\ NextBlock

Spec ==
    /\ Init /\ [][Next]_vars
    /\ WF_vars(Timeout) /\ WF_vars(ScanResult)
    /\ SF_vars(OnStation(CatchUp))
    /\ SF_vars(OnStation(NextBlock)) /\ SF_vars(OnStation(FreshBlock))

----------------------------------------------------------------------------
TypeOK ==
    /\ vfo \in Near(Legal) /\ heardVfo \in Near(Legal) /\ loFrequency \in -Reach..Reach
    /\ currentFreq \in Int
    /\ minLoopFrequency \in Lows /\ maxLoopFrequency \in Highs
    /\ incrementIndex \in -delayTableSize..delayTableSize
    /\ timer \in BOOLEAN /\ paused \in BOOLEAN /\ scanning \in BOOLEAN
    /\ results \in 0..MaxResults /\ scanBuffer \subseteq BOOLEAN

(* The timer is never left running without a direction to step in, through
   fc+, fc-, pauses, results and choices of a frequency in any order.  (With
   index 0 autoIncrement_timeout would leave the frequency range on its own,
   radio.cpp:996-1009.) *)
TimerHasDirection == timer => incrementIndex # 0

(* The limits: what is between them, and they themselves if they cross. *)
Within == minLoopFrequency..maxLoopFrequency \cup {minLoopFrequency, maxLoopFrequency}

(* What the oscillator cannot make up for when the device is told to go to n. *)
Astray(n) == n - vfo' \notin -Reach..Reach

(* The scan never brings the receiver beyond its limits, whatever the user (who
   may have let them cross, or put them where the device does not go) and the
   AFC did before and however the VFO and the oscillator share the way: the
   receiver is tuned to what the GUI takes its frequency to be, and that is
   within the limits, but for two cases.  A frequency the device does not accept
   leaves the receiver where it was and the GUI takes it to be at 94.7 MHz; and
   a device that did not go where it was told, by more than the oscillator
   reaches, leaves it somewhere else (radio.cpp:911-946, 986-1007, 1071-1077). *)
StaysWithinLimits ==
    [][Timeout =>
        \/ /\ NextStep \in Legal /\ tuned' = currentFreq'
           /\ currentFreq' \in Within \/ Astray(NextStep)
        \/ NextStep \in Within \ Legal /\ tuned' = tuned /\ currentFreq' = Fallback]_vars

(* The processor is silent while it scans, and nothing but the GUI ends that:
   on a station the silence ends all the same once the tuner is at rest, since
   the processor finds the station and its result stops the scan, even where
   fc+ and fc- had stopped the timer only (radio.cpp:1014-1063). *)
SilenceEndsOnStation ==
    \A s \in Stations :
        <>[](tuned = s /\ ~timer /\ ~paused) => <>[]~scanning

(* Limits between which the device can be tuned, with a station among them. *)
Sensible ==
    /\ minLoopFrequency..maxLoopFrequency \subseteq Legal
    /\ minLoopFrequency..maxLoopFrequency \cap Stations # {}

(* With a station between sensible limits and a device that goes where it is
   told, a scan that is left alone, by the AFC, too, comes to an end: results
   overtaken by the timer and blocks filled across a change of frequency do not
   keep it going for ever (radio.cpp:986-1016, fm-processor.cpp:481-499). *)
ScanEnds ==
    <>[]Sensible /\ <>[][~(User \/ Correction)]_vars /\ <>[][Timeout => tuned' = NextStep]_vars
        => <>[](paused \/ ~timer)
=============================================================================
