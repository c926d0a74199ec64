--------------------------- MODULE SynchronousCall ---------------------------
(***************************************************************************)
(* What a device promises that is used through synchronous calls only: it  *)
(* is prepared and opened, takes requests one at a time, carries each out  *)
(* exactly once, between the call and its return, and nothing else changes *)
(* it.                                                                     *)
(***************************************************************************)
CONSTANTS Requests, NoRequest,
          States,          (* of the device                                *)
          Effect(_, _)     (* the states a request may leave, from a state *)

VARIABLES open, asked, done, state

vars == <<open, asked, done, state>>

Init == open = FALSE /\ asked = NoRequest /\ done = FALSE /\ state \in States

Prepare == ~open /\ state' \in States /\ UNCHANGED <<open, asked, done>>

Open == /\ ~open /\ open' = TRUE
        /\ UNCHANGED <<asked, done, state>>

Ask == /\ open /\ asked = NoRequest
       /\ asked' \in Requests /\ done' = FALSE
       /\ UNCHANGED <<open, state>>

Perform == /\ asked # NoRequest /\ ~done
           /\ state' \in Effect(asked, state) /\ done' = TRUE
           /\ UNCHANGED <<open, asked>>

Return == /\ asked # NoRequest /\ done
          /\ asked' = NoRequest /\ done' = FALSE
          /\ UNCHANGED <<open, state>>

Close == /\ open /\ asked = NoRequest /\ open' = FALSE
         /\ UNCHANGED <<asked, done, state>>

Next == Prepare \/ Open \/ Ask \/ Perform \/ Return \/ Close

Spec == Init /\ [][Next]_vars
=============================================================================
