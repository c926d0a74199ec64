-------------------------- MODULE MCRdsBlockCheck --------------------------
(* Bursts of up to ten bits at both ends of the block, and every pair of   *)
(* bits.  What the code finds does not depend on the payload (SyndromeIs   *)
(* in RdsProofs), so one beside zero does.                                 *)
EXTENDS RdsBlockCheck

MCPayloads == {{}, {15, 12, 5, 0}}
Bursts  == {{low} \cup {low + b : b \in tail} : low \in {0, 16}, tail \in SUBSET (1..9)}
Pairs   == {{b, c} : b \in 0..25, c \in 0..25}
MCDisturbances == {{}} \cup Bursts \cup Pairs
============================================================================
