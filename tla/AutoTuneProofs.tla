--------------------------- MODULE AutoTuneProofs ---------------------------
(***************************************************************************)
(* The auto tuner for any frequencies, limits, delay table, stations and   *)
(* devices: the timer always has a direction, which is the one fact that   *)
(* has the scan ask for nothing beyond its limits.                         *)
(***************************************************************************)
EXTENDS AutoTune, TLAPS

(* The numbers have their types; the direction follows the timer.  The device
   says that it is near a place it accepts, and the oscillator is cut to what
   it reaches. *)
TunerInv ==
    /\ vfo \in Near(Legal) /\ loFrequency \in -Reach..Reach /\ currentFreq \in Int
    /\ minLoopFrequency \in Lows /\ maxLoopFrequency \in Highs
    /\ incrementIndex \in -delayTableSize..delayTableSize
    /\ TimerHasDirection

LEMMA NearInt == ASSUME NEW P \in SUBSET Int PROVE Near(P) \subseteq Int
  BY TunerAssumption DEF Near

(* What is asked for when the timer runs: a frequency between the limits, or
   one of them. *)
LEMMA StepWithinLimits ==
    ASSUME TunerInv, timer
    PROVE  NextStep \in Within /\ NextStep \in Int
<1>1. minLoopFrequency \in Int /\ maxLoopFrequency \in Int
  BY TunerAssumption DEF TunerInv
<1>2. incrementIndex # 0
  BY DEF TunerInv, TimerHasDirection
<1>3. Step \in Int
  BY DEF Step, TunerInv
<1> QED
  BY <1>1, <1>2, <1>3 DEF NextStep, Within

(* The oscillator is cut to its reach, and left as it is within it. *)
LEMMA ClampedIs ==
    ASSUME NEW lo \in Int
    PROVE  Clamped(lo) \in -Reach..Reach /\ (lo \in -Reach..Reach => Clamped(lo) = lo)
  BY TunerAssumption DEF Clamped

(* setTuner tunes to what it returns, which is what it was asked for unless the
   device went astray, and leaves all as it was for a frequency that the device
   does not accept. *)
LEMMA Tunes ==
    ASSUME TunerInv, NEW n \in Int, setTuner(n)
    PROVE  /\ vfo' \in Near(Legal) /\ loFrequency' \in -Reach..Reach /\ currentFreq' \in Int
           /\ n \in Legal => tuned' = currentFreq' /\ (currentFreq' = n \/ Astray(n))
           /\ n \notin Legal => tuned' = tuned /\ currentFreq' = Fallback
<1>1. vfo \in Near(Legal) /\ loFrequency \in -Reach..Reach
  BY DEF TunerInv
<1>2. CASE n \in Legal
  <2>1. vfo' = vfo \/ vfo' \in Near({n})
    BY <1>2 DEF setTuner, setVFOFrequency
  <2>2. Near({n}) \subseteq Near(Legal)
    BY <1>2 DEF Near
  <2>3. vfo' \in Near(Legal) /\ vfo' \in Int
    BY <1>1, <2>1, <2>2, NearInt, TunerAssumption
  <2>4. loFrequency' = Clamped(n - vfo') /\ currentFreq' = vfo' + loFrequency'
    BY <1>2 DEF setTuner
  <2>5. n - vfo' \in Int
    BY <2>3
  <2>6. loFrequency' \in -Reach..Reach /\ (n - vfo' \in -Reach..Reach => loFrequency' = n - vfo')
    BY <2>4, <2>5, ClampedIs
  <2>7. loFrequency' \in Int
    BY <2>6, TunerAssumption
  <2>8. currentFreq' \in Int /\ (currentFreq' = n \/ Astray(n))
    BY <2>3, <2>4, <2>6, <2>7 DEF Astray
  <2> QED
    BY <1>2, <2>3, <2>4, <2>6, <2>8 DEF tuned
<1>3. CASE n \notin Legal
  BY <1>1, <1>3, TunerAssumption DEF setTuner, tuned
<1> QED
  BY <1>2, <1>3

(* Every step keeps the invariant. *)
LEMMA NextInv ==
    ASSUME TunerInv, [Next]_vars
    PROVE  TunerInv'
<1> USE TunerAssumption DEF TimerHasDirection
<1>1. ASSUME NEW d \in {-1, 1}, Faster(d) PROVE TunerInv'
  BY <1>1 DEF TunerInv, Faster, tuning, limits
<1>2. ASSUME NEW n \in Frequencies, ChooseFrequency(n) PROVE TunerInv'
  <2>1. setTuner(n) /\ n \in Int
    BY <1>2 DEF ChooseFrequency, Frequencies
  <2>2. incrementIndex' = 0 /\ timer' = FALSE /\ UNCHANGED limits
    BY <1>2 DEF ChooseFrequency, stopIncrementing
  <2>3. 0 \in -delayTableSize..delayTableSize
    OBVIOUS
  <2> QED
    BY <2>1, <2>2, <2>3, Tunes DEF TunerInv, limits
<1>3. CASE Pause
  BY <1>3 DEF TunerInv, Pause, tuning, limits
<1>4. CASE Continue
  BY <1>4 DEF TunerInv, Continue, tuning, limits
<1>5. CASE Timeout
  <2>1. setTuner(NextStep) /\ NextStep \in Int
    BY <1>5, StepWithinLimits DEF Timeout
  <2> QED
    BY <1>5, <2>1, Tunes DEF TunerInv, Timeout, limits
<1>6. CASE ScanResult
  BY <1>6 DEF TunerInv, ScanResult, stopIncrementing, tuning, limits
<1>7. CASE CatchUp \/ Gather \/ Test
  BY <1>7 DEF TunerInv, CatchUp, Gather, Test, gui, tuning, limits
<1>8. CASE UNCHANGED vars
  BY <1>8 DEF TunerInv, vars, gui, tuning, limits
<1>9. CASE ChooseLimits
  BY <1>9 DEF TunerInv, ChooseLimits, tuning
<1>10. ASSUME NEW offset \in -MaxOffset..MaxOffset, Afc(offset) PROVE TunerInv'
  <2>1. setTuner(currentFreq + offset) /\ currentFreq + offset \in Int
    BY <1>10 DEF Afc, TunerInv
  <2> QED
    BY <1>10, <2>1, Tunes DEF TunerInv, Afc, limits
<1> QED
  BY <1>1, <1>2, <1>3, <1>4, <1>5, <1>6, <1>7, <1>8, <1>9, <1>10 DEF Next, User, Correction

(* The invariant of the tuner. *)
THEOREM Invariance == Spec => []TunerInv
<1>1. Init => TunerInv
  <2> SUFFICES ASSUME Init PROVE TunerInv
    OBVIOUS
  <2>1. vfo \in Int /\ loFrequency \in Int
    BY NearInt, TunerAssumption DEF Init
  <2> QED
    BY <2>1, TunerAssumption DEF Init, TunerInv, TimerHasDirection, tuned
<1>2. TunerInv /\ [Next]_vars => TunerInv'
  BY NextInv
<1> QED
  BY <1>1, <1>2, PTL DEF Spec

(* A running timer has a direction to step in (radio.cpp:996-1009). *)
THEOREM Directed == Spec => []TimerHasDirection
<1>1. TunerInv => TimerHasDirection
  BY DEF TunerInv
<1> QED
  BY <1>1, Invariance, PTL

(* A scan stays within its limits, but for what is named: a frequency that the
   device does not accept, and a device that did not go where it was told
   (radio.cpp:911-946, 986-1007). *)
THEOREM WithinLimits == Spec => StaysWithinLimits
<1> DEFINE Kept == \/ /\ NextStep \in Legal /\ tuned' = currentFreq'
                      /\ currentFreq' \in Within \/ Astray(NextStep)
                   \/ NextStep \in Within \ Legal /\ tuned' = tuned /\ currentFreq' = Fallback
<1>1. ASSUME TunerInv, Timeout PROVE Kept
  <2>1. setTuner(NextStep) /\ NextStep \in Int /\ NextStep \in Within
    BY <1>1, StepWithinLimits DEF Timeout
  <2> QED
    BY <1>1, <2>1, Tunes
<1>2. TunerInv /\ [Next]_vars => [Timeout => Kept]_vars
  BY <1>1
<1> QED
  BY <1>2, Invariance, PTL DEF Spec, StaysWithinLimits

(* All variables keep their types, results included: their number is bounded
   where they are sent. *)
THEOREM TypeCorrect == Spec => []TypeOK
<1> DEFINE Rest == /\ heardVfo \in Near(Legal) /\ results \in 0..MaxResults
                   /\ scanBuffer \subseteq BOOLEAN
                   /\ timer \in BOOLEAN /\ paused \in BOOLEAN /\ scanning \in BOOLEAN
<1>1. Init => Rest
  <2> SUFFICES ASSUME Init PROVE Rest
    OBVIOUS
  <2>1. heardVfo \in Near(Legal) /\ results \in 0..MaxResults
    BY TunerAssumption DEF Init
  <2>2. scanBuffer \subseteq BOOLEAN
    BY DEF Init
  <2>3. timer \in BOOLEAN /\ paused \in BOOLEAN /\ scanning \in BOOLEAN
    BY DEF Init
  <2> QED
    BY <2>1, <2>2, <2>3
<1>2. TunerInv /\ Rest /\ [Next]_vars => Rest'
  <2> SUFFICES ASSUME TunerInv, Rest, [Next]_vars PROVE Rest'
    OBVIOUS
  <2>1. ASSUME NEW d \in {-1, 1}, Faster(d) PROVE Rest'
    BY <2>1 DEF Faster
  <2>2. ASSUME NEW n \in Frequencies, ChooseFrequency(n) PROVE Rest'
    BY <2>2 DEF ChooseFrequency, stopIncrementing
  <2>3. CASE Pause \/ Continue \/ ChooseLimits
    BY <2>3 DEF Pause, Continue, ChooseLimits
  <2>4. ASSUME NEW offset, Afc(offset) PROVE Rest'
    BY <2>4 DEF Afc
  <2>5. CASE Timeout
    BY <2>5 DEF Timeout
  <2>6. CASE ScanResult
    <3>1. results' \in 0..MaxResults
      BY <2>6, TunerAssumption DEF ScanResult
    <3>2. timer' \in BOOLEAN /\ scanning' \in BOOLEAN
      BY <2>6 DEF ScanResult, stopIncrementing
    <3> QED
      BY <2>6, <3>1, <3>2 DEF ScanResult
  <2>7. CASE CatchUp
    BY <2>7 DEF CatchUp, gui, TunerInv
  <2>8. CASE Gather
    <3>1. OfStation \in BOOLEAN
      BY DEF OfStation
    <3> QED
      BY <2>8, <3>1 DEF Gather, gui
  <2>9. CASE Test
    <3>1. results' \in 0..MaxResults
      <4>1. PICK p \in Peak : results' = results + p /\ results + p <= MaxResults
        BY <2>9 DEF Test
      <4>2. p \in {0, 1}
        BY <4>1 DEF Peak
      <4> QED
        BY <4>1, <4>2, TunerAssumption
    <3> QED
      BY <2>9, <3>1 DEF Test, gui
  <2>10. CASE UNCHANGED vars
    BY <2>10 DEF vars, gui
  <2> QED
    BY <2>1, <2>2, <2>3, <2>4, <2>5, <2>6, <2>7, <2>8, <2>9, <2>10 DEF Next, User, Correction
<1>3. TunerInv /\ Rest => TypeOK
  BY TunerAssumption DEF TunerInv, TypeOK
<1> QED
  BY <1>1, <1>2, <1>3, Invariance, PTL DEF Spec
=============================================================================
