------------------------- MODULE MCRingBufferFlush -------------------------
(* RingBufferFlush with a ring of four slots, puts of up to two elements   *)
(* and a processor that waits for two.                                     *)
EXTENDS RingBufferFlush
============================================================================
