---------------------------- MODULE BoundedFifo ----------------------------
(***************************************************************************)
(* What a sample ring promises its two users: a first-in first-out queue   *)
(* of at most N elements.  When a put is offered it is granted as much as  *)
(* there is room for at that moment, and exactly that prefix of the offer  *)
(* is appended later; when a get asks, it is granted as much as is queued  *)
(* at that moment, and later receives exactly that prefix of the queue.    *)
(* RingBuffer implements this.                                             *)
(***************************************************************************)
EXTENDS Naturals, Sequences

CONSTANTS N,         (* capacity in elements                               *)
          Elements   (* what is stored                                     *)

VARIABLES queue,     (* published elements, oldest first                   *)
          offered,   (* the elements of the put in progress                *)
          granted,   (* how many of them it may append                     *)
          asked,     (* how many elements the get in progress receives     *)
          delivered  (* what the last completed get handed to its caller   *)

fifoVars == <<queue, offered, granted, asked, delivered>>

Smaller(i, j) == IF i < j THEN i ELSE j

Init == queue = << >> /\ offered = << >> /\ granted = 0 /\ asked = 0 /\ delivered = << >>

Offer == /\ offered = << >>
         /\ offered' \in Seq(Elements)
         /\ granted' = Smaller(Len(offered'), N - Len(queue))
         /\ UNCHANGED <<queue, asked, delivered>>

Publish == /\ queue' = queue \o SubSeq(offered, 1, granted)
           /\ offered' = << >> /\ granted' = 0
           /\ UNCHANGED <<asked, delivered>>

Ask == /\ asked = 0
       /\ asked' \in 0..Len(queue)
       /\ UNCHANGED <<queue, offered, granted, delivered>>

Deliver == /\ delivered' = SubSeq(queue, 1, asked)
           /\ queue' = SubSeq(queue, asked + 1, Len(queue))
           /\ asked' = 0
           /\ UNCHANGED <<offered, granted>>

Next == Offer \/ Publish \/ Ask \/ Deliver
Spec == Init /\ [][Next]_fifoVars
============================================================================
