---------------------------- MODULE MCAutoTune -----------------------------
(* Five frequencies of which the device refuses one; limits inside them, the *)
(* same, crossing each other, or where the device does not go; one station   *)
(* between most limits and one beyond; one speed either way.  The oscillator *)
(* reaches the next frequency by itself and the one after with a device that *)
(* is one off.                                                               *)
EXTENDS AutoTune

AllButLast == 0..Last - 1
TwoStations == {0, 2}
ThreeLows == {1, 2, Last}
TwoHighs == {1, 3}
============================================================================
