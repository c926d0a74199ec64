---------------------------- MODULE RdsReception ----------------------------
(***************************************************************************)
(* The synchroniser on a channel: a sender repeats groups of four blocks;  *)
(* bits arrive wrong, are lost or added, the station is changed, and a     *)
(* window that is not a whole block may pass a test by accident.  What a   *)
(* test says of a whole block is the subject of RdsBlockCheck.             *)
(***************************************************************************)
EXTENDS RdsGroups

CONSTANTS CrcBits,  (* NUM_BITS_CRC: the newest bits, which doMeggit leaves *)
          MaxLost   (* bound: bits lost at once                            *)

Group == 4 * L                      \* bits of a group

(* A whole group lost could not be noticed. *)
ASSUME ReceptionAssumption == CrcBits \in 0..L - 1 /\ MaxLost \in 0..Group - 1

Heal  == 8 * L - 1 - CrcBits        \* undisturbed bits it takes to be synchronised

VARIABLES
    phase,        (* bits of the current group that were sent              *)
    airTypeB,     (* whether it is a type B group                          *)
    clean,        (* undisturbed bits received in a row, up to Group       *)
    quiet,        (* ... and without an accident or a new bit clock, up to Heal *)
    soiled,       (* bits to come until those doMeggit inverted are shifted out *)
    genuine,      (* the blocks stored that are what this sender sent      *)
    decoded       (* of the group the last bit completed, if any           *)

airVars       == <<phase, airTypeB, clean>>
receptionVars == <<vars, airVars, quiet, soiled, genuine, decoded>>

Nothing == [genuine |-> FALSE, clean |-> 0]

ReceptionInit ==
    /\ Init
    /\ phase = 0 /\ airTypeB \in BOOLEAN /\ clean = 0 /\ quiet = 0 /\ soiled = 0
    /\ genuine = {} /\ decoded = Nothing

Capped(n, cap) == IF n < cap THEN n ELSE cap

----------------------------------------------------------------------------
(* The sender goes on by n bits; the type of each group is its own. *)
Sent(n) == IF phase + n < Group
           THEN phase' = phase + n /\ UNCHANGED airTypeB
           ELSE phase' = phase + n - Group /\ airTypeB' \in BOOLEAN

BitArrives   == Sent(1) /\ clean' = Capped(clean + 1, Group)
BitWrong     == Sent(1) /\ clean' = 0
BitAdded     == UNCHANGED <<phase, airTypeB>> /\ clean' = 0
BitsLost     == (\E n \in 1..MaxLost : Sent(n + 1)) /\ clean' = 1

(* The window holds a whole block as it was sent; it passes the test for
   block b if it is the b-th of its group and, for C, the offset word is the
   one for the type of the group. *)
Whole      == clean' >= L /\ soiled = 0 /\ phase' \in {0, L, 2 * L, 3 * L}
IsBlock(b) == /\ Whole /\ phase' = IF b = D THEN 0 ELSE b * L
              /\ b = C => isTypeBGroup = airTypeB'

(* A whole block is judged rightly; anything else may look like a block, and
   as a block B have any type bit. *)
Verdicts(b) == IF ~TestDue THEN {FALSE} ELSE IF Whole THEN {IsBlock(b)} ELSE BOOLEAN
TypeBits(b) == IF IsBlock(b) THEN {airTypeB'} ELSE IF b = B THEN BOOLEAN ELSE {FALSE}

(* doMeggit, on a block that fails while synchronised: it inverts any of the
   payload's bits in rdsBitstream, or none; the search for block A then goes
   over them again. *)
Inversion(ok) ==
    soiled' \in IF rdsIsSynchronized /\ TestDue /\ ~ok THEN 0..L - 1 - CrcBits
                ELSE {IF soiled = 0 THEN 0 ELSE soiled - 1}

(* A block that is stored is the sender's own, or not.  The group that is
   completed is forgotten. *)
Own(b)      == IF IsBlock(b) THEN genuine \cup {b} ELSE genuine \ {b}
Stored(ok)  == IF Stores(ok) THEN Own(rdsCurrentBlock) ELSE genuine

Hear(ok, typeBit, calm) ==
    /\ Bit(ok, typeBit) /\ Inversion(ok)
    /\ quiet' = IF calm /\ (Stores(ok) => IsBlock(rdsCurrentBlock))
                THEN Capped(quiet + 1, Heal) ELSE 0
    /\ decoded' = IF Completes THEN [genuine |-> Stored(ok) = Blocks, clean |-> clean']
                  ELSE Nothing
    /\ genuine' = IF Completes THEN {} ELSE Stored(ok)

Receive(calm) == \E ok \in Verdicts(rdsCurrentBlock), typeBit \in TypeBits(rdsCurrentBlock) :
                    Hear(ok, typeBit, calm)

BitReceived == \/ BitArrives /\ Receive(TRUE)
               \/ (BitWrong \/ BitAdded \/ BitsLost) /\ Receive(FALSE)

SetClock ==
    /\ synchronizeOnBitClk
    /\ quiet' = 0
    /\ UNCHANGED <<airVars, soiled, genuine, decoded, groups>>

(* The station changes; the synchroniser is not told.  What it has stored is
   no part of what the new sender sends. *)
Retune ==
    /\ phase' \in 0..Group - 1 /\ airTypeB' \in BOOLEAN /\ clean' = 0 /\ quiet' = 0
    /\ genuine' = {}
    /\ UNCHANGED <<vars, soiled, decoded>>

Switch == \E m \in Modes :
    SetMode(m) /\ UNCHANGED <<airVars, quiet, soiled, genuine, decoded, groups>>

ReceptionNext == BitReceived \/ SetClock \/ Retune \/ Switch

(* Samples keep coming, so the decoder is called; one of these steps is always
   possible, so that this is their weak fairness. *)
ReceptionSpec ==
    /\ ReceptionInit /\ [][ReceptionNext]_receptionVars
    /\ []<><<BitReceived \/ SetClock>>_receptionVars

----------------------------------------------------------------------------
ReceptionTypeOK ==
    /\ TypeOK
    /\ phase \in 0..Group - 1 /\ airTypeB \in BOOLEAN
    /\ clean \in 0..Group /\ quiet \in 0..Heal
    /\ soiled \in 0..L - 1 - CrcBits
    /\ genuine \subseteq Blocks
    /\ decoded \in [genuine : BOOLEAN, clean : 0..Group]

(* Unless a test was passed by accident, a group that is decoded is one group
   the sender sent, with no bit wrong, lost or added: no disturbance between
   two blocks, each of which is whole, goes unnoticed. *)
GroupIntact == decoded.genuine => decoded.clean = Group

(* Wherever the disturbances have left it, less than eight blocks of
   undisturbed bits synchronise the receiver: one to fail, the part of one
   that doMeggit can have inverted, four to come round to the end of block A,
   two for B and C (rds-blocksynchronizer.cpp:150, 175-195, 228-336). *)
HealsSoon == quiet = Heal => rdsIsSynchronized

(* If the disturbances end, groups are decoded for ever. *)
KeepsDecoding == <>[](quiet = Heal) => []<>(decoded.genuine)
============================================================================
