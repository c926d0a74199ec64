---------------------------- MODULE RdsBlockSync ----------------------------
(***************************************************************************)
(* Finding the blocks and groups in the RDS bit stream: pushBit of the     *)
(* rdsBlockSynchronizer, processBit of the rdsDecoder, and the bit clock   *)
(* resynchronisation of rdsDecoder_2, which all run on the processor       *)
(* thread; the user switches the decoder from the GUI thread.              *)
(*                                                                         *)
(* This module has the state and the operations of the code; the outcome   *)
(* of the test of a checkword and the group type bit of a block B are      *)
(* parameters.  RdsGroups leaves them open, RdsReception takes them from a *)
(* sender and a disturbed channel.                                         *)
(***************************************************************************)
EXTENDS Naturals

CONSTANT L          (* NUM_BITS_PER_BLOCK                                  *)

ASSUME SyncAssumption == L \in Nat /\ L >= 2

A == 1  B == 2  C == 3  D == 4
Blocks == A..D
Modes  == {"RDS_1", "RDS_2"}        \* RDS_3 differs from RDS_1 in the bits only
Many   == 4                         \* any number of errors above 3

VARIABLES
    rdsCurrentBlock, rdsBitsinBlock, rdsIsSynchronized,
    rdsNumofSyncErrors,
    isTypeBGroup,      (* the bit of block B in rdsGroup                   *)
    mode,              (* rdsModus                                         *)
    Resync             (* of rdsDecoder_2: it has not been used yet        *)

syncVars == <<rdsCurrentBlock, rdsBitsinBlock, rdsIsSynchronized, rdsNumofSyncErrors>>
codeVars == <<syncVars, isTypeBGroup, mode, Resync>>

CodeInit ==
    /\ rdsCurrentBlock = A /\ rdsBitsinBlock = 0 /\ rdsIsSynchronized = FALSE
    /\ rdsNumofSyncErrors = 0
    /\ isTypeBGroup = FALSE
    /\ mode \in Modes /\ Resync = TRUE

----------------------------------------------------------------------------
(* Mutant: the block after D is a fifth one. *)
NextBlockNoWrap(b) == b + 1

(* setNextBlock *)
NextBlock(b) == IF b = D THEN A ELSE b + 1

(* Mutant: the synchroniser keeps its place in the group. *)
resyncInPlace ==
    /\ rdsIsSynchronized' = FALSE /\ rdsBitsinBlock' = 0
    /\ UNCHANGED rdsCurrentBlock

resync == rdsCurrentBlock' = A /\ rdsIsSynchronized' = FALSE /\ rdsBitsinBlock' = 0

(* The counter is an uint16_t, read as an int16_t: above 3 it stays so until
   it reads as negative, which is as good as 0. *)
CountSyncError ==
    rdsNumofSyncErrors' \in IF rdsNumofSyncErrors = Many THEN {Many, 0}
                            ELSE {rdsNumofSyncErrors + 1}

(* setBlock: of what it stores, only the type bit of block B matters here. *)
setBlock(typeBit) == isTypeBGroup' = IF rdsCurrentBlock = B THEN typeBit ELSE isTypeBGroup

(* Searching for block A, every bit ends a window to test; otherwise every
   L-th does. *)
Searching == rdsCurrentBlock = A /\ ~rdsIsSynchronized
TestDue   == Searching \/ rdsBitsinBlock + 1 = L

----------------------------------------------------------------------------
(* The branches of pushBit, with what processBit does with their results;
   ok: the test is passed. *)
Buffering ==
    /\ ~TestDue
    /\ rdsBitsinBlock' = rdsBitsinBlock + 1
    /\ UNCHANGED <<rdsCurrentBlock, rdsIsSynchronized, rdsNumofSyncErrors, isTypeBGroup>>

(* Mutant: the last bit of block A is counted for the next block. *)
BlockACountsOn(ok) ==
    /\ Searching
    /\ IF ok THEN setBlock(FALSE) /\ rdsCurrentBlock' = B /\ rdsBitsinBlock' = 1
             ELSE UNCHANGED <<isTypeBGroup, rdsCurrentBlock, rdsBitsinBlock>>
    /\ UNCHANGED <<rdsIsSynchronized, rdsNumofSyncErrors>>

(* pushBitinBlockA *)
BlockA(ok) ==
    /\ Searching
    /\ IF ok THEN setBlock(FALSE) /\ rdsCurrentBlock' = B /\ rdsBitsinBlock' = 0
             ELSE UNCHANGED <<isTypeBGroup, rdsCurrentBlock, rdsBitsinBlock>>
    /\ UNCHANGED <<rdsIsSynchronized, rdsNumofSyncErrors>>

(* pushBitNotSynchronized: B and C must follow A at once, and C, which is
   SYNC_END_BLOCK, completes the synchronisation.  A failure is RDS_NO_SYNC. *)
NotSynchronized(ok, typeBit) ==
    /\ ~Searching /\ ~rdsIsSynchronized /\ TestDue
    /\ IF ok
       THEN /\ setBlock(typeBit)
            /\ rdsCurrentBlock' = NextBlock(rdsCurrentBlock) /\ rdsBitsinBlock' = 0
            /\ rdsIsSynchronized' = (rdsCurrentBlock = C)
            /\ UNCHANGED rdsNumofSyncErrors
       ELSE resync /\ CountSyncError /\ UNCHANGED isTypeBGroup

(* Mutant: a failed block is skipped and the group completed without it. *)
SynchronizedSkips(ok, typeBit) ==
    /\ rdsIsSynchronized /\ TestDue
    /\ rdsCurrentBlock' = NextBlock(rdsCurrentBlock) /\ rdsBitsinBlock' = 0
    /\ IF rdsCurrentBlock = D THEN isTypeBGroup' = FALSE
       ELSE IF ok THEN setBlock(typeBit) ELSE UNCHANGED isTypeBGroup
    /\ UNCHANGED <<rdsIsSynchronized, rdsNumofSyncErrors>>

(* pushBitSynchronized: block D makes the group complete, which is decoded
   and cleared.  A failure is RDS_NO_CRC. *)
Synchronized(ok, typeBit) ==
    /\ rdsIsSynchronized /\ TestDue
    /\ IF ok
       THEN /\ IF rdsCurrentBlock = D THEN isTypeBGroup' = FALSE ELSE setBlock(typeBit)
            /\ rdsCurrentBlock' = NextBlock(rdsCurrentBlock) /\ rdsBitsinBlock' = 0
            /\ UNCHANGED rdsIsSynchronized
       ELSE resync /\ UNCHANGED isTypeBGroup
    /\ UNCHANGED rdsNumofSyncErrors

(* doDecode of rdsDecoder_2, on the sample before it makes a bit. *)
ClockIsDue == mode = "RDS_2" /\ (Resync \/ rdsNumofSyncErrors = Many)

synchronizeOnBitClk ==
    /\ ClockIsDue
    /\ resync /\ rdsNumofSyncErrors' = 0 /\ Resync' = FALSE
    /\ UNCHANGED <<isTypeBGroup, mode>>

pushBit(ok, typeBit) ==
    /\ ~ClockIsDue
    /\ \/ Buffering \/ BlockA(ok)
       \/ NotSynchronized(ok, typeBit) \/ Synchronized(ok, typeBit)
    /\ UNCHANGED <<mode, Resync>>

(* setfmRdsSelector, on the GUI thread *)
SetMode(m) == mode' = m /\ UNCHANGED <<syncVars, isTypeBGroup, Resync>>

CodeTypeOK ==
    /\ rdsCurrentBlock \in Blocks /\ rdsBitsinBlock \in 0..L - 1
    /\ rdsIsSynchronized \in BOOLEAN /\ rdsNumofSyncErrors \in 0..Many
    /\ isTypeBGroup \in BOOLEAN /\ mode \in Modes /\ Resync \in BOOLEAN
============================================================================
