------------------------------ MODULE PlayedFile ------------------------------
(***************************************************************************)
(* What the sound is when a file is played: its frames in their order, as  *)
(* two channels, over and over again, with silence at most between the end *)
(* and the beginning.  On the way only what has more than Capacity frames  *)
(* before it is ever lost.  Play is the sound card taking frames.          *)
(***************************************************************************)
EXTENDS Naturals, Sequences, SequencesExt

CONSTANTS Capacity,        (* frames that are certain to arrive            *)
          Lengths,         (* of files                                     *)
          Silence

VARIABLES length, place,   (* the frames of the file, and those taken      *)
          underway,        (* values of the channels under way             *)
          closed

vars == <<length, place, underway, closed>>

Sound(frames)    == [i \in 1..2 * Len(frames) |->
                     <<frames[(i + 1) \div 2], IF i % 2 = 1 THEN "left" ELSE "right">>]
Repeated(v, n)   == [i \in 1..n |-> v]

Init == length \in Lengths /\ place = 0 /\ underway = <<>> /\ closed = FALSE

Take == /\ ~closed
        /\ \E n \in 1..length - place :
              /\ underway' = underway \o Sound([i \in 1..n |-> place + i])
              /\ place' \in {place + n} \cup (IF place + n = length THEN {0} ELSE {})
        /\ UNCHANGED <<length, closed>>

Pause == /\ ~closed /\ place = length /\ place' = 0
         /\ \E n \in 1..Len(underway') : underway' = underway \o Sound(Repeated(Silence, n))
         /\ UNCHANGED <<length, closed>>

Lose == /\ Len(underway) > 2 * Capacity
        /\ underway' = RemoveAt(RemoveAt(underway, 2 * Capacity + 1), 2 * Capacity + 1)
        /\ UNCHANGED <<length, place, closed>>

Play == /\ \E n \in 1..Len(underway) :
              n % 2 = 0 /\ underway' = SubSeq(underway, n + 1, Len(underway))
        /\ UNCHANGED <<length, place, closed>>

(* What is under way then need not arrive. *)
Close == /\ ~closed /\ closed' = TRUE /\ place' = 0
         /\ \E n \in 0..Len(underway) : underway' = SubSeq(underway, 1, n)
         /\ UNCHANGED length

Next == Take \/ Pause \/ Lose \/ Play \/ Close
Spec == Init /\ [][Next]_vars
=============================================================================
