------------------------------ MODULE MCPlayback ------------------------------
(* Playback of a file whose last block is short, and of one where it is not;  *)
(* blocks, buffers and callbacks of different sizes, and a sink that a buffer *)
(* does not fit into.                                                         *)
EXTENDS Playback
===============================================================================
