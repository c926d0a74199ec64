---------------------------- MODULE MCRingBuffer ----------------------------
(* RingBuffer with a ring of four slots and calls of up to three elements: *)
(* two calls fill it and wrap; two values tell the elements apart.         *)
EXTENDS RingBuffer
============================================================================
