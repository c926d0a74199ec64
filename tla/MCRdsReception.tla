--------------------------- MODULE MCRdsReception ---------------------------
(* RdsReception with blocks of two bits, the shortest that can be taken    *)
(* apart, any disturbance at any bit.                                      *)
EXTENDS RdsReception
============================================================================
