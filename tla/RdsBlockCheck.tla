--------------------------- MODULE RdsBlockCheck ---------------------------
(***************************************************************************)
(* The test of one received RDS block (rds-blocksynchronizer.cpp): 26 bits *)
(* of payload and checkword, disturbed on the way, against the offset word *)
(* of the block that is expected.                                          *)
(*                                                                         *)
(* A word is the set of the positions of its one bits, 0 the least         *)
(* significant: xor is the symmetric difference, a shift adds to every     *)
(* position.                                                               *)
(***************************************************************************)
EXTENDS Integers

CONSTANTS Payloads,       (* the data of a block, words of 16 bits         *)
          Disturbances    (* the bits that arrive wrong, words of 26 bits  *)

NUM_BITS_CRC       == 10
NUM_BITS_PER_BLOCK == 26
PayloadBits        == 0..15
BlockBits          == 0..25
CRC_POLY           == {10, 8, 7, 5, 4, 3, 0}         \* 0x5B9
REMAINDER_POLY     == {9, 8, 4, 3, 1, 0}             \* 0x31B

ASSUME CheckAssumption ==
    Payloads \subseteq SUBSET PayloadBits /\ Disturbances \subseteq SUBSET BlockBits

(* Mutant: the two forms of block C share an offset word. *)
getOffsetOneC == [A  |-> {7, 6, 5, 4, 3, 2}, B  |-> {8, 7, 4, 3},
                  C1 |-> {8, 6, 5, 3},       C2 |-> {8, 6, 5, 3},
                  D  |-> {8, 7, 5, 4, 2}]

Offsets == {"A", "B", "C1", "C2", "D"}
getOffset == [A  |-> {7, 6, 5, 4, 3, 2}, B  |-> {8, 7, 4, 3},
              C1 |-> {8, 6, 5, 3},       C2 |-> {9, 8, 6, 4},
              D  |-> {8, 7, 5, 4, 2}]

Xor(u, v) == (u \ v) \cup (v \ u)
Shift(w)  == {b + 1 : b \in w}

----------------------------------------------------------------------------
(* Mutant: the register is reduced before the shift. *)
RegisterReducedFirst(reg, bit) ==
    Xor(Shift(IF NUM_BITS_CRC - 1 \in reg THEN Xor(reg, CRC_POLY) ELSE reg),
        IF bit THEN REMAINDER_POLY ELSE {})

(* One turn of the loop of getSyndrome. *)
Register(reg, bit) ==
    Xor(Xor(Shift(reg), IF NUM_BITS_CRC - 1 \in reg THEN CRC_POLY ELSE {}),
        IF bit THEN REMAINDER_POLY ELSE {})

(* The register before bit k - 1 is looked at. *)
Registers(block) ==
    LET reg[k \in 0..NUM_BITS_PER_BLOCK] ==
            IF k = NUM_BITS_PER_BLOCK THEN {} ELSE Register(reg[k + 1], k \in block)
    IN  reg
(* Mutant: the check covers the payload only. *)
SyndromeOfPayload(bits, offsetWord) == Registers(Xor(bits, offsetWord))[NUM_BITS_CRC]

getSyndrome(bits, offsetWord) == Registers(Xor(bits, offsetWord))[0]

(* doMeggit: the bits of rdsBitstream it inverts.  Position 25 - i is looked
   at in turn i; the register is reduced before it is shifted. *)
Inverted(syndrome) ==
    LET clear(reg) == reg \cap 0..4 = {}
        reg[i \in 0..NUM_BITS_PER_BLOCK - NUM_BITS_CRC] ==
            IF i = 0 THEN syndrome
            ELSE LET r == reg[i - 1]
                 IN  Shift(IF NUM_BITS_CRC - 1 \in r /\ ~clear(r) THEN Xor(r, CRC_POLY) ELSE r)
    IN  {NUM_BITS_PER_BLOCK - 1 - i : i \in
            {j \in 0..NUM_BITS_PER_BLOCK - NUM_BITS_CRC - 1 : NUM_BITS_CRC - 1 \in reg[j] /\ clear(reg[j])}}

----------------------------------------------------------------------------
(* The sender: the checkword is the remainder of the payload, multiplied by
   x^10, on division by the generator, plus the offset word. *)
Divided(r, k) == IF k \in r THEN Xor(r, {b + k - NUM_BITS_CRC : b \in CRC_POLY}) ELSE r
Division(word) ==
    LET rest[k \in NUM_BITS_CRC..NUM_BITS_PER_BLOCK] ==
            IF k = NUM_BITS_PER_BLOCK THEN word ELSE Divided(rest[k + 1], k)
    IN  rest
LongDivision(word) == Division(word)[NUM_BITS_CRC]

Encoded(payload, offset) ==
    LET data == {b + NUM_BITS_CRC : b \in payload}
    IN  Xor(data \cup LongDivision(data), getOffset[offset])

----------------------------------------------------------------------------
VARIABLES sent,      (* [payload, offset] of the block on the air          *)
          disturbed, (* the bits that arrive wrong                         *)
          expected,  (* the offset of rdsCurrentBlock                      *)
          arrived, rdsBitstream, syndrome
checkVars == <<sent, disturbed, expected, arrived, rdsBitstream, syndrome>>

CheckInit ==
    /\ sent \in [payload : Payloads, offset : Offsets]
    /\ disturbed = {} /\ expected = "A" /\ arrived = FALSE /\ rdsBitstream = {} /\ syndrome = {0}

(* decodeBlock while synchronised: syndrome and, with fec, doMeggit; the
   result of doMeggit is not used. *)
decodeBlock(e, o) ==
    /\ ~arrived /\ arrived' = TRUE
    /\ disturbed' = e /\ expected' = o
    /\ LET bits == Xor(Encoded(sent.payload, sent.offset), e)
       IN  /\ syndrome' = getSyndrome(bits, getOffset[o])
           /\ rdsBitstream' = IF syndrome' = {} THEN bits
                              ELSE Xor(bits, Inverted(syndrome'))
    /\ UNCHANGED sent

CheckNext == \E e \in Disturbances, o \in Offsets : decodeBlock(e, o)
CheckSpec == CheckInit /\ [][CheckNext]_checkVars

----------------------------------------------------------------------------
Accepted == arrived /\ syndrome = {}

(* The register, its feedback and its premultiplied input (0x31B) accept a
   block exactly when it leaves no remainder on division by the generator
   (rds-blocksynchronizer.cpp:114-130). *)
AcceptedIffCodeword ==
    arrived => LET bits == Xor(Encoded(sent.payload, sent.offset), disturbed)
               IN  Accepted <=> LongDivision(Xor(bits, getOffset[expected])) = {}

(* An undisturbed block is accepted in its own place in the group, and in no
   other: the offset words tell A, B, C, C' and D apart
   (rds-blocksynchronizer.cpp:197-213). *)
OffsetsTellBlocksApart ==
    arrived /\ disturbed = {} => (Accepted <=> expected = sent.offset)

(* No burst of up to ten bits gets a block accepted in its own place. *)
Burst(e) == e # {} /\ \E low \in BlockBits : e \subseteq low..low + NUM_BITS_CRC - 1
BurstsRejected == arrived /\ Burst(disturbed) /\ expected = sent.offset => ~Accepted
============================================================================
