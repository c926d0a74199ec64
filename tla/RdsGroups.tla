----------------------------- MODULE RdsGroups -----------------------------
(***************************************************************************)
(* Which blocks make up a group that is decoded, whatever the tests of the *)
(* checkwords say: rdsGroup is not cleared when the synchronisation is     *)
(* lost, so blocks of an abandoned group stay in it.  The history is how   *)
(* many of the blocks stored last follow each other from a block A on.     *)
(***************************************************************************)
EXTENDS RdsBlockSync

VARIABLES since,    (* bits since setBlock was called last, at most L      *)
          chain,    (* blocks A, B, ... stored last, each L bits after the
                       one before it and with none between them           *)
          handed    (* the chain of the group the last bit completed, if any *)

NoGroup == D + 1
groups  == <<since, chain, handed>>
vars    == <<codeVars, groups>>

Init == CodeInit /\ since = L /\ chain = 0 /\ handed = NoGroup

(* setBlock is called when a test is passed. *)
Stores(ok) == TestDue /\ ok
Chain(ok)  == IF ~Stores(ok) THEN chain
              ELSE IF rdsCurrentBlock = A THEN A
              ELSE IF chain + 1 = rdsCurrentBlock /\ since + 1 = L THEN rdsCurrentBlock
              ELSE 0

(* A group is decoded when the synchroniser goes on from D to A and stays
   synchronised; its blocks are then what setBlock stored last. *)
Completes == rdsCurrentBlock = D /\ rdsCurrentBlock' = A /\ rdsIsSynchronized'

Bit(ok, typeBit) ==
    /\ pushBit(ok, typeBit)
    /\ chain' = Chain(ok)
    /\ since' = IF Stores(ok) THEN 0 ELSE IF since < L THEN since + 1 ELSE L
    /\ handed' = IF Completes THEN Chain(ok) ELSE NoGroup

Next == \/ \E ok, typeBit \in BOOLEAN : Bit(ok, typeBit)
        \/ (synchronizeOnBitClk \/ \E m \in Modes : SetMode(m)) /\ UNCHANGED groups
Spec == Init /\ [][Next]_vars

----------------------------------------------------------------------------
TypeOK == CodeTypeOK /\ since \in 0..L /\ chain \in 0..D /\ handed \in 0..NoGroup

(* Where the synchroniser is in the group says which blocks it has stored for
   that group, and when. *)
ChainFollowsPlace ==
    /\ Searching => rdsBitsinBlock = 0
    /\ rdsCurrentBlock = D => rdsIsSynchronized
    /\ rdsCurrentBlock # A => chain + 1 = rdsCurrentBlock /\ since = rdsBitsinBlock

(* A group that is decoded consists of four blocks received one after the
   other, however often the synchronisation was lost, the bit clock set anew
   and the decoder switched: no block left by an abandoned group is decoded
   with later ones (rds-decoder.cpp:106-132). *)
GroupConsecutive == handed \in {D, NoGroup}
============================================================================
