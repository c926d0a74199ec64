--------------------------- MODULE MCSdrplayServer ---------------------------
(* SdrplayServer with a model that announces bounds for the lna at once, and  *)
(* narrower ones with the first restart, so that a value chosen in between is *)
(* clamped, which sends a request of its own.  The agc stands for the         *)
(* switches, which are set by the same requests.                              *)
EXTENDS SdrplayServer
=============================================================================
