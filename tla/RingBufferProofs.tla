-------------------------- MODULE RingBufferProofs --------------------------
(***************************************************************************)
(* Proofs about RingBuffer for every size, every batch bound and every set *)
(* of elements.  The invariant is RingInv: the types, the bound on what is *)
(* available, and that a region fixed at the start of a call still fits    *)
(* the indices.  That the ring implements BoundedFifo needs what has been  *)
(* copied, too: FifoInv.                                                   *)
(***************************************************************************)
EXTENDS RingBuffer, SequenceTheorems, TLAPS

(* The masks, case by case: what & bigMask does to a sum or a difference of
   two indices, and & smallMask to an index. *)
LEMMA BigMaskCases ==
    ASSUME NEW i \in Int, i \in -2*N..4*N - 1
    PROVE  BigMask(i) = IF i < 0 THEN i + 2*N ELSE IF i < 2*N THEN i ELSE i - 2*N
  BY RingAssumption, Z3 DEF BigMask

LEMMA SmallMaskCases ==
    ASSUME NEW i \in Indices
    PROVE  SmallMask(i) = IF i < N THEN i ELSE i - N
  BY RingAssumption, Z3 DEF SmallMask, Indices

LEMMA WordFits ==
    ASSUME NEW i \in 0..2*N
    PROVE  i % Word = i
  BY RingAssumption, Z3

(* The number of elements between two indices. *)
LEMMA Distance ==
    ASSUME NEW w \in Indices, NEW r \in Indices
    PROVE  /\ BigMask(w - r) = IF w >= r THEN w - r ELSE w - r + 2*N
           /\ BigMask(w - r) \in 0..2*N - 1
  BY BigMaskCases, RingAssumption DEF Indices

LEMMA RoomFits ==
    ASSUME NEW a \in 0..N
    PROVE  (N - a) % Word = N - a
  BY WordFits, RingAssumption

LEMMA Room ==
    ASSUME NEW w \in Indices, NEW r \in Indices, BigMask(w - r) <= N
    PROVE  /\ BigMask(w - r) \in 0..N
           /\ (N - BigMask(w - r)) % Word = N - BigMask(w - r)
  <1>1. BigMask(w - r) \in 0..N
    BY Distance, RingAssumption
  <1> QED
    BY <1>1, RoomFits

LEMMA InitInv == Init => RingInv
  <1> SUFFICES ASSUME Init PROVE RingInv
    OBVIOUS
  <1> USE RingAssumption DEF Init
  <1>1. writeIndex \in Indices /\ readIndex \in Indices
    BY DEF Indices
  <1>2. ReadAvailable = 0
    BY <1>1, Distance DEF ReadAvailable
  <1>3. buffer \in [Slots -> Elements \cup {Blank}]
    OBVIOUS
  <1>4. TypeOK
    BY <1>1, <1>3 DEF TypeOK
  <1>5. AvailableBounded
    BY <1>2, RoomFits DEF AvailableBounded, WriteAvailable
  <1>6. RegionsHold
    BY DEF RegionsHold
  <1> QED
    BY <1>4, <1>5, <1>6 DEF RingInv

(* A batch is a sequence: what PutBegin is given. *)
LEMMA BatchIsSeq == ASSUME NEW d \in Batches PROVE d \in Seq(Elements)
  BY RingAssumption DEF Batches

(* Advancing an index by no more than there is room, or data. *)
LEMMA AdvanceWrite ==
    ASSUME NEW w \in Indices, NEW r \in Indices,
           NEW k \in Nat, k + BigMask(w - r) <= N
    PROVE  /\ BigMask(w + k) \in Indices
           /\ BigMask(BigMask(w + k) - r) = BigMask(w - r) + k
  <1> USE RingAssumption DEF Indices
  <1>1. w + k \in -2*N..4*N - 1
    BY Distance
  <1>2. BigMask(w + k) \in Indices
    BY <1>1, BigMaskCases
  <1> QED
    BY <1>1, <1>2, BigMaskCases, Distance

LEMMA AdvanceRead ==
    ASSUME NEW w \in Indices, NEW r \in Indices,
           NEW k \in Nat, k <= BigMask(w - r), BigMask(w - r) <= N
    PROVE  /\ BigMask(r + k) \in Indices
           /\ BigMask(w - BigMask(r + k)) = BigMask(w - r) - k
  <1> USE RingAssumption DEF Indices
  <1>1. r + k \in -2*N..4*N - 1
    BY Distance
  <1>2. BigMask(r + k) \in Indices
    BY <1>1, BigMaskCases
  <1> QED
    BY <1>1, <1>2, BigMaskCases, Distance

(* Every slot of a region that fits is a slot of the buffer. *)
LEMMA RegionSlotInRange ==
    ASSUME NEW first \in 0..N - 1, NEW i \in 0..N - 1
    PROVE  RegionSlot(first, i) \in 0..N - 1
  BY RingAssumption DEF RegionSlot

----------------------------------------------------------------------------
(* Every step keeps the invariant. *)
LEMMA StepInv == RingInv /\ [Next]_vars => RingInv'
  <1> SUFFICES ASSUME RingInv, [Next]_vars PROVE RingInv'
    OBVIOUS
  <1> USE RingAssumption DEF RingInv
  <1> DEFINE RA == ReadAvailable
  <1>0. /\ RA \in 0..N
        /\ WriteAvailable = N - RA
        /\ SmallMask(writeIndex) \in 0..N - 1
        /\ SmallMask(readIndex) \in 0..N - 1
    <2>1. writeIndex \in Indices /\ readIndex \in Indices
      BY DEF TypeOK
    <2>2. RA \in 0..N
      BY <2>1, Distance DEF ReadAvailable, AvailableBounded
    <2>3. WriteAvailable = N - RA
      BY <2>2, RoomFits DEF WriteAvailable
    <2>4. \A i \in Indices : SmallMask(i) \in 0..N - 1
      BY SmallMaskCases DEF Indices
    <2> QED
      BY <2>1, <2>2, <2>3, <2>4
  <1>1. ASSUME NEW data \in Batches, PutBegin(data) PROVE RingInv'
    <2>1. data \in Seq(Elements) /\ Len(data) \in Nat
      BY BatchIsSeq
    <2>2. /\ wCount' \in Nat /\ wCount' <= Len(data) /\ wCount' + RA <= N
      BY <1>0, <1>1, <2>1 DEF PutBegin, Clip
    <2>3. ReadAvailable' = RA /\ WriteAvailable' = WriteAvailable
      BY <1>1 DEF PutBegin, ringVars, ReadAvailable, WriteAvailable
    <2>4. TypeOK'
      BY <1>0, <1>1, <2>1, <2>2 DEF PutBegin, TypeOK, ringVars, readerVars
    <2>5. AvailableBounded'
      BY <2>3 DEF AvailableBounded
    <2>6. RegionsHold'
      BY <1>1, <2>2, <2>3 DEF PutBegin, RegionsHold, ringVars, readerVars, TypeOK
    <2> QED
      BY <2>4, <2>5, <2>6
  <1>2. CASE PutCopy
    <2>1. ReadAvailable' = RA /\ WriteAvailable' = WriteAvailable
      BY <1>2 DEF PutCopy, ReadAvailable, WriteAvailable
    <2>2. wData[wDone + 1] \in Elements
      BY <1>2, ElementOfSeq DEF PutCopy, TypeOK, RegionsHold
    <2>3. TypeOK'
      <3>1. buffer' \in [Slots -> Elements \cup {Blank}]
        BY <1>2, <2>2 DEF PutCopy, TypeOK
      <3>2. wDone' \in 0..wCount'
        BY <1>2 DEF PutCopy, TypeOK
      <3> QED
        BY <1>2, <3>1, <3>2 DEF PutCopy, TypeOK, readerVars
    <2>4. AvailableBounded'
      BY <2>1 DEF AvailableBounded
    <2>5. RegionsHold'
      BY <1>2, <2>1 DEF PutCopy, RegionsHold, readerVars
    <2> QED
      BY <2>3, <2>4, <2>5
  <1>3. CASE PutEnd
    <2>1. /\ writeIndex' \in Indices
          /\ ReadAvailable' = RA + wCount /\ RA + wCount \in 0..N
      BY <1>0, <1>3, AdvanceWrite DEF PutEnd, TypeOK, RegionsHold, ReadAvailable
    <2>2. TypeOK'
      BY <1>3, <2>1 DEF PutEnd, TypeOK, readerVars
    <2>3. AvailableBounded'
      BY <2>1, RoomFits DEF AvailableBounded, WriteAvailable
    <2>4. RegionsHold'
      BY <1>0, <1>3, <2>1 DEF PutEnd, RegionsHold, TypeOK, readerVars
    <2> QED
      BY <2>2, <2>3, <2>4
  <1>4. ASSUME NEW n \in 0..MaxBatch, GetBegin(n) PROVE RingInv'
    <2>1. ReadAvailable' = RA /\ WriteAvailable' = WriteAvailable
      BY <1>4 DEF GetBegin, ringVars, ReadAvailable, WriteAvailable
    <2>2. rCount' \in Nat /\ rCount' <= RA
      BY <1>0, <1>4 DEF GetBegin, Clip
    <2>3. TypeOK'
      BY <1>0, <1>4, <2>2 DEF GetBegin, TypeOK, ringVars, writerVars
    <2>4. AvailableBounded'
      BY <2>1 DEF AvailableBounded
    <2>5. RegionsHold'
      BY <1>4, <2>1, <2>2 DEF GetBegin, RegionsHold, ringVars, writerVars
    <2> QED
      BY <2>3, <2>4, <2>5
  <1>5. CASE GetCopy
    <2>1. ReadAvailable' = RA /\ WriteAvailable' = WriteAvailable
      BY <1>5 DEF GetCopy, ringVars, ReadAvailable, WriteAvailable
    <2>2. RegionSlot(rFirst, Len(rData)) \in Slots
      <3>1. rFirst \in 0..N - 1 /\ Len(rData) \in 0..N - 1
        BY <1>0, <1>5, LenProperties DEF GetCopy, TypeOK, RegionsHold
      <3>2. RegionSlot(rFirst, Len(rData)) \in 0..N - 1
        BY <3>1, RegionSlotInRange
      <3> QED
        BY <3>2 DEF Slots
    <2>3. TypeOK'
      <3>1. /\ rData' \in Seq(Elements \cup {Blank})
            /\ Len(rData') = Len(rData) + 1
        BY <1>5, <2>2, AppendProperties DEF GetCopy, TypeOK
      <3> QED
        BY <1>5, <3>1 DEF GetCopy, TypeOK, ringVars, writerVars
    <2>4. AvailableBounded'
      BY <2>1 DEF AvailableBounded
    <2>5. RegionsHold'
      BY <1>5, <2>1 DEF GetCopy, RegionsHold, ringVars, writerVars
    <2> QED
      BY <2>3, <2>4, <2>5
  <1>6. CASE GetEnd
    <2>1. /\ readIndex' \in Indices
          /\ ReadAvailable' = RA - rCount /\ RA - rCount \in 0..N
      BY <1>0, <1>6, AdvanceRead DEF GetEnd, TypeOK, RegionsHold, ReadAvailable
    <2>2. TypeOK'
      BY <1>6, <2>1 DEF GetEnd, TypeOK, writerVars
    <2>3. AvailableBounded'
      BY <2>1, RoomFits DEF AvailableBounded, WriteAvailable
    <2>4. RegionsHold'
      BY <1>0, <1>6, <2>1 DEF GetEnd, RegionsHold, TypeOK, writerVars
    <2> QED
      BY <2>2, <2>3, <2>4
  <1>7. CASE UNCHANGED vars
    BY <1>7 DEF vars, ringVars, writerVars, readerVars, TypeOK, AvailableBounded,
                RegionsHold, ReadAvailable, WriteAvailable
  <1> QED
    BY <1>1, <1>2, <1>3, <1>4, <1>5, <1>6, <1>7 DEF Next, Writer, Reader

(* Types, the bound on what is available and the regions in progress, in every
   reachable state (ringbuffer.h:156-307). *)
THEOREM Invariance == Spec => []RingInv
  <1> QED
    BY InitInv, StepInv, PTL DEF Spec

THEOREM TypeCorrect == Spec => []TypeOK
  <1>1. RingInv => TypeOK
    BY DEF RingInv
  <1> QED
    BY <1>1, Invariance, PTL

(* The two indices never overtake each other: never more than bufferSize
   elements to read, and the unsigned subtraction never wraps. *)
THEOREM Bounded == Spec => []AvailableBounded
  <1>1. RingInv => AvailableBounded
    BY DEF RingInv
  <1> QED
    BY <1>1, Invariance, PTL

----------------------------------------------------------------------------
(* The slots behind the write index and those from the read index on, while
   there are no more than N of either, do not meet. *)
LEMMA RegionsDisjoint ==
    ASSUME NEW w \in Indices, NEW r \in Indices, BigMask(w - r) <= N,
           NEW i \in Nat, NEW j \in Nat,
           i + BigMask(w - r) < N, j < BigMask(w - r)
    PROVE  RegionSlot(SmallMask(w), i) # RegionSlot(SmallMask(r), j)
  <1> DEFINE d == BigMask(w - r)
  <1> USE RingAssumption DEF Indices
  <1>1. /\ SmallMask(w) = IF w < N THEN w ELSE w - N
        /\ SmallMask(r) = IF r < N THEN r ELSE r - N
    BY SmallMaskCases
  <1>2. d \in Int /\ d = IF w >= r THEN w - r ELSE w - r + 2*N
    BY Distance
  <1> HIDE DEF d
  <1>3. i + d < N /\ j < d /\ d <= N
    BY DEF d
  <1>4. CASE w < N /\ r < N
    BY <1>1, <1>2, <1>3, <1>4 DEF RegionSlot
  <1>5. CASE w < N /\ r >= N
    BY <1>1, <1>2, <1>3, <1>5 DEF RegionSlot
  <1>6. CASE w >= N /\ r < N
    BY <1>1, <1>2, <1>3, <1>6 DEF RegionSlot
  <1>7. CASE w >= N /\ r >= N
    BY <1>1, <1>2, <1>3, <1>7 DEF RegionSlot
  <1> QED
    BY <1>4, <1>5, <1>6, <1>7

(* One reader and one writer never use a slot at the same time
   (ringbuffer.h:75). *)
THEOREM SlotsSafe == Spec => []NoSlotRace
  <1>1. RingInv => NoSlotRace
    <2> SUFFICES ASSUME RingInv PROVE NoSlotRace
      OBVIOUS
    <2> USE RingAssumption DEF RingInv
    <2>0. ReadAvailable \in 0..N
      BY Distance DEF ReadAvailable, AvailableBounded, TypeOK
    <2>1. WriterSlots \cap Published = {}
      <3> SUFFICES ASSUME NEW s \in WriterSlots, s \in Published PROVE FALSE
        OBVIOUS
      <3>1. wPc = "copy"
        BY DEF WriterSlots
      <3>2. PICK i \in wDone..wCount - 1 : s = RegionSlot(SmallMask(writeIndex), i)
        BY <3>1 DEF WriterSlots, RegionsHold
      <3>3. PICK j \in 0..ReadAvailable - 1 : s = RegionSlot(SmallMask(readIndex), j)
        BY DEF Published
      <3>4. i \in Nat /\ i + ReadAvailable < N
        BY <2>0, <3>1, <3>2 DEF RegionsHold, TypeOK
      <3>5. writeIndex \in Indices /\ readIndex \in Indices /\ j \in Nat /\ j < ReadAvailable
        BY <2>0, <3>3 DEF TypeOK
      <3>6. RegionSlot(SmallMask(writeIndex), i) # RegionSlot(SmallMask(readIndex), j)
        <4>1. ReadAvailable <= N
          BY <2>0
        <4> HIDE DEF RingInv
        <4> QED
          BY <3>4, <3>5, <4>1, RegionsDisjoint DEF ReadAvailable
      <3> QED
        BY <3>2, <3>3, <3>6
    <2>2. ReaderSlots \subseteq Published
      <3> SUFFICES ASSUME NEW s \in ReaderSlots PROVE s \in Published
        OBVIOUS
      <3>1. rPc = "copy"
        BY DEF ReaderSlots
      <3>2. PICK i \in Len(rData)..rCount - 1 : s = RegionSlot(SmallMask(readIndex), i)
        BY <3>1 DEF ReaderSlots, RegionsHold
      <3>3. i \in 0..ReadAvailable - 1
        BY <2>0, <3>1, <3>2, LenProperties DEF RegionsHold, TypeOK
      <3> QED
        BY <3>2, <3>3 DEF Published
    <2> QED
      BY <2>1, <2>2 DEF NoSlotRace
  <1> QED
    BY <1>1, Invariance, PTL

(* What one side has seen available stays available until it uses it. *)
THEOREM SeenStays == Spec => SeenAmountStays
  <1>1. RingInv /\ RingInv' /\ [Next]_vars
          => [ /\ UNCHANGED writeIndex => WriteAvailable' >= WriteAvailable
               /\ UNCHANGED readIndex  => ReadAvailable' >= ReadAvailable ]_vars
    <2> SUFFICES ASSUME RingInv, RingInv', [Next]_vars
                 PROVE  /\ UNCHANGED writeIndex => WriteAvailable' >= WriteAvailable
                        /\ UNCHANGED readIndex  => ReadAvailable' >= ReadAvailable
      OBVIOUS
    <2> USE RingAssumption DEF RingInv
    <2>0. /\ ReadAvailable \in 0..N /\ WriteAvailable = N - ReadAvailable
      BY Room DEF ReadAvailable, AvailableBounded, TypeOK, WriteAvailable
    <2>1. ReadAvailable' \in 0..N /\ WriteAvailable' = N - ReadAvailable'
      BY Room DEF ReadAvailable, AvailableBounded, TypeOK, WriteAvailable
    <2>2. CASE UNCHANGED <<writeIndex, readIndex>>
      BY <2>0, <2>1, <2>2 DEF ReadAvailable
    <2>3. CASE PutEnd
      <3>1. ReadAvailable' = ReadAvailable + wCount /\ wCount \in Nat
        BY <2>0, <2>3, AdvanceWrite DEF PutEnd, TypeOK, RegionsHold, ReadAvailable
      <3>2. UNCHANGED writeIndex => ReadAvailable' = ReadAvailable
        BY <2>3 DEF PutEnd, ReadAvailable
      <3> QED
        BY <2>0, <2>1, <3>1, <3>2
    <2>4. CASE GetEnd
      <3>1. ReadAvailable' = ReadAvailable - rCount /\ rCount \in Nat
        BY <2>0, <2>4, AdvanceRead DEF GetEnd, TypeOK, RegionsHold, ReadAvailable
      <3>2. UNCHANGED readIndex => ReadAvailable' = ReadAvailable
        BY <2>4 DEF GetEnd, ReadAvailable
      <3> QED
        BY <2>0, <2>1, <3>1, <3>2
    <2> QED
      BY <2>2, <2>3, <2>4 DEF Next, Writer, Reader, PutBegin, PutCopy, GetBegin, GetCopy,
                              vars, ringVars
  <1> QED
    BY <1>1, Invariance, PTL DEF Spec, SeenAmountStays

----------------------------------------------------------------------------
(* What a slot may hold. *)
Stored == Elements \cup {Blank}

(* What the two copies have done so far: the slots written hold the elements
   offered, and the elements taken are those still in their slots. *)
Copied ==
    /\ \A i \in 0..wDone - 1 : buffer[RegionSlot(wFirst, i)] = wData[i + 1]
    /\ \A i \in 1..Len(rData) : rData[i] = buffer[RegionSlot(rFirst, i - 1)]

FifoInv == RingInv /\ Copied

(* Two places of a region are two slots. *)
LEMMA RegionInjective ==
    ASSUME NEW first \in 0..N - 1, NEW i \in 0..N - 1, NEW j \in 0..N - 1, i # j
    PROVE  RegionSlot(first, i) # RegionSlot(first, j)
  BY RingAssumption DEF RegionSlot

(* The place behind the last published element is the place at the write
   index. *)
LEMMA RegionsMeet ==
    ASSUME NEW w \in Indices, NEW r \in Indices, NEW d \in 0..N, d = BigMask(w - r),
           NEW j \in Nat, j < N, d <= j
    PROVE  RegionSlot(SmallMask(r), j) = RegionSlot(SmallMask(w), j - d)
  <1>1. /\ SmallMask(w) = IF w < N THEN w ELSE w - N
        /\ SmallMask(r) = IF r < N THEN r ELSE r - N
    BY SmallMaskCases
  <1>2. d = IF w >= r THEN w - r ELSE w - r + 2*N
    BY Distance
  <1>3. w \in 0..2*N - 1 /\ r \in 0..2*N - 1 /\ N \in Nat \ {0}
    BY RingAssumption DEF Indices
  <1>4. CASE w < N /\ r < N
    BY <1>1, <1>2, <1>3, <1>4 DEF RegionSlot
  <1>5. CASE w < N /\ r >= N
    BY <1>1, <1>2, <1>3, <1>5 DEF RegionSlot
  <1>6. CASE w >= N /\ r < N
    BY <1>1, <1>2, <1>3, <1>6 DEF RegionSlot
  <1>7. CASE w >= N /\ r >= N
    BY <1>1, <1>2, <1>3, <1>7 DEF RegionSlot
  <1> QED
    BY <1>3, <1>4, <1>5, <1>6, <1>7

(* Behind the elements taken, the queue goes on where it did. *)
LEMMA RegionAdvances ==
    ASSUME NEW r \in Indices, NEW k \in 0..N, NEW j \in Nat, k + j < N
    PROVE  RegionSlot(SmallMask(BigMask(r + k)), j) = RegionSlot(SmallMask(r), k + j)
  <1> USE RingAssumption DEF Indices
  <1>1. r + k \in -2*N..4*N - 1
    OBVIOUS
  <1>2. BigMask(r + k) = IF r + k < 2*N THEN r + k ELSE r + k - 2*N
    BY <1>1, BigMaskCases
  <1>3. BigMask(r + k) \in Indices
    BY <1>1, <1>2
  <1>4. /\ SmallMask(r) = IF r < N THEN r ELSE r - N
        /\ SmallMask(BigMask(r + k)) = IF BigMask(r + k) < N THEN BigMask(r + k)
                                                             ELSE BigMask(r + k) - N
    BY <1>3, SmallMaskCases
  <1> QED
    BY <1>2, <1>4 DEF RegionSlot

(* Any index has its slot. *)
LEMMA MaskInRange ==
    ASSUME NEW i \in Indices
    PROVE  SmallMask(i) \in 0..N - 1
  BY SmallMaskCases, RingAssumption DEF Indices

LEMMA SlotOfRegion ==
    ASSUME NEW first \in 0..N - 1, NEW i \in 0..N - 1
    PROVE  RegionSlot(first, i) \in Slots
  BY RegionSlotInRange, RingAssumption DEF Slots

(* The published elements, as a sequence. *)
ContentsFacts ==
    /\ ReadAvailable \in 0..N
    /\ Contents \in Seq(Stored)
    /\ Len(Contents) = ReadAvailable
    /\ \A i \in 1..ReadAvailable :
         Contents[i] = buffer[RegionSlot(SmallMask(readIndex), i - 1)]

LEMMA ContentsIsSeq == RingInv => ContentsFacts
  <1> SUFFICES ASSUME RingInv PROVE ContentsFacts
    OBVIOUS
  <1>1. ReadAvailable \in 0..N
    BY Room DEF ReadAvailable, AvailableBounded, TypeOK, RingInv
  <1>2. SmallMask(readIndex) \in 0..N - 1
    BY MaskInRange DEF RingInv, TypeOK
  <1>3. ASSUME NEW i \in 1..ReadAvailable
        PROVE  buffer[RegionSlot(SmallMask(readIndex), i - 1)] \in Stored
    <2>1. i - 1 \in 0..N - 1
      BY <1>1, RingAssumption
    <2>2. RegionSlot(SmallMask(readIndex), i - 1) \in Slots
      BY <1>2, <2>1, SlotOfRegion
    <2> QED
      BY <2>2 DEF RingInv, TypeOK, Stored
  <1>4. Contents \in [1..ReadAvailable -> Stored]
    BY <1>3 DEF Contents
  <1>5. Contents \in Seq(Stored)
    BY <1>1, <1>4, SeqDef
  <1>6. Len(Contents) = ReadAvailable
    <2>1. DOMAIN Contents = 1..ReadAvailable /\ DOMAIN Contents = 1..Len(Contents)
      BY <1>4, <1>5, LenProperties
    <2>2. Len(Contents) \in Nat
      BY <1>5, LenProperties
    <2> QED
      BY <1>1, <2>1, <2>2
  <1> QED
    BY <1>1, <1>5, <1>6 DEF Contents, ContentsFacts

----------------------------------------------------------------------------
(* Neither copy is disturbed by the other thread. *)
LEMMA CopiedStep == FifoInv /\ [Next]_vars => Copied'
  <1> SUFFICES ASSUME FifoInv, [Next]_vars PROVE Copied'
    OBVIOUS
  <1> USE RingAssumption DEF FifoInv
  <1>0. ReadAvailable \in 0..N
    BY ContentsIsSeq DEF ContentsFacts
  <1>1. ASSUME NEW data \in Batches, PutBegin(data) PROVE Copied'
    BY <1>1 DEF PutBegin, Copied, ringVars, readerVars
  <1>2. CASE PutCopy
    <2> DEFINE slot == RegionSlot(wFirst, wDone)
    <2>1. /\ wDone \in Nat /\ wDone < wCount /\ wFirst \in 0..N - 1
          /\ wFirst = SmallMask(writeIndex) /\ wCount + ReadAvailable <= N
          /\ wCount \in Nat /\ wCount <= N
      BY <1>0, <1>2 DEF PutCopy, RingInv, TypeOK, RegionsHold
    <2>2. slot \in Slots
      BY <2>1, SlotOfRegion
    <2>3. /\ buffer'[slot] = wData[wDone + 1]
          /\ \A s \in Slots : s # slot => buffer'[s] = buffer[s]
      BY <1>2, <2>2 DEF PutCopy, RingInv, TypeOK
    <2>4. ASSUME NEW i \in 0..wDone' - 1
          PROVE  buffer'[RegionSlot(wFirst', i)] = wData'[i + 1]
      <3>1. wDone' = wDone + 1 /\ wFirst' = wFirst /\ wData' = wData
        BY <1>2 DEF PutCopy
      <3>2. CASE i = wDone
        BY <2>3, <3>1, <3>2
      <3>3. CASE i # wDone
        <4>1. i \in 0..wDone - 1
          BY <2>1, <3>1, <3>3
        <4>2. i \in 0..N - 1 /\ wDone \in 0..N - 1
          BY <2>1, <4>1
        <4>3. RegionSlot(wFirst, i) # slot /\ RegionSlot(wFirst, i) \in Slots
          BY <2>1, <3>3, <4>2, RegionInjective, SlotOfRegion
        <4> QED
          BY <2>3, <3>1, <4>1, <4>3 DEF Copied
      <3> QED
        BY <3>2, <3>3
    <2>5. ASSUME NEW i \in 1..Len(rData')
          PROVE  rData'[i] = buffer'[RegionSlot(rFirst', i - 1)]
      <3>1. rData' = rData /\ rFirst' = rFirst
        BY <1>2 DEF PutCopy, readerVars
      <3>2. i \in 1..Len(rData)
        BY <3>1
      <3>3. /\ Len(rData) \in Nat /\ Len(rData) <= rCount /\ rCount \in Nat
            /\ rFirst \in 0..N - 1 /\ writeIndex \in Indices /\ readIndex \in Indices
        BY LenProperties DEF RingInv, TypeOK
      <3>4. rCount <= ReadAvailable /\ rFirst = SmallMask(readIndex)
        BY <1>0, <3>2, <3>3 DEF RingInv, TypeOK, RegionsHold
      <3>5. i - 1 \in Nat /\ i - 1 < ReadAvailable /\ i - 1 \in 0..N - 1
        BY <1>0, <3>2, <3>3, <3>4
      <3>6. RegionSlot(rFirst, i - 1) # slot
        <4>1. wDone + ReadAvailable < N /\ ReadAvailable <= N
          BY <1>0, <2>1
        <4>2. RegionSlot(SmallMask(writeIndex), wDone) # RegionSlot(SmallMask(readIndex), i - 1)
          BY <2>1, <3>3, <3>5, <4>1, RegionsDisjoint DEF ReadAvailable
        <4> QED
          BY <2>1, <3>4, <4>2
      <3>7. RegionSlot(rFirst, i - 1) \in Slots
        BY <3>3, <3>5, SlotOfRegion
      <3> QED
        BY <2>3, <3>1, <3>2, <3>6, <3>7 DEF Copied
    <2> QED
      BY <2>4, <2>5 DEF Copied
  <1>3. CASE PutEnd
    BY <1>3 DEF PutEnd, Copied, readerVars
  <1>4. ASSUME NEW n \in 0..MaxBatch, GetBegin(n) PROVE Copied'
    BY <1>4 DEF GetBegin, Copied, ringVars, writerVars
  <1>5. CASE GetCopy
    <2> DEFINE e == buffer[RegionSlot(rFirst, Len(rData))]
    <2>1. e \in Stored /\ rData \in Seq(Stored) /\ Len(rData) \in Nat
      <3>1. rData \in Seq(Stored) /\ Len(rData) \in Nat
        BY LenProperties DEF RingInv, TypeOK, Stored
      <3>2. Len(rData) \in 0..N - 1 /\ rFirst \in 0..N - 1
        BY <1>0, <1>5, <3>1 DEF GetCopy, RingInv, TypeOK, RegionsHold
      <3>3. RegionSlot(rFirst, Len(rData)) \in Slots
        BY <3>2, SlotOfRegion
      <3> QED
        BY <3>1, <3>3 DEF RingInv, TypeOK, Stored
    <2>2. /\ rData' = Append(rData, e) /\ UNCHANGED <<buffer, rFirst, wDone, wFirst, wData>>
      BY <1>5 DEF GetCopy, ringVars, writerVars
    <2>3. /\ Len(rData') = Len(rData) + 1
          /\ \A i \in 1..Len(rData) : rData'[i] = rData[i]
          /\ rData'[Len(rData) + 1] = e
      BY <2>1, <2>2, AppendProperties
    <2>4. ASSUME NEW i \in 1..Len(rData')
          PROVE  rData'[i] = buffer'[RegionSlot(rFirst', i - 1)]
      <3>1. CASE i = Len(rData) + 1
        BY <2>1, <2>2, <2>3, <3>1
      <3>2. CASE i # Len(rData) + 1
        <4>1. i \in 1..Len(rData)
          BY <2>1, <2>3, <3>2
        <4> QED
          BY <2>2, <2>3, <4>1 DEF Copied
      <3> QED
        BY <3>1, <3>2
    <2> QED
      BY <2>2, <2>4 DEF Copied
  <1>6. CASE GetEnd
    BY <1>6 DEF GetEnd, Copied, writerVars
  <1>7. CASE UNCHANGED vars
    BY <1>7 DEF vars, ringVars, writerVars, readerVars, Copied
  <1> QED
    BY <1>1, <1>2, <1>3, <1>4, <1>5, <1>6, <1>7 DEF Next, Writer, Reader

LEMMA FifoInvariance == Spec => []FifoInv
  <1>1. Init => FifoInv
    BY InitInv DEF Init, FifoInv, Copied
  <1>2. FifoInv /\ [Next]_vars => FifoInv'
    BY StepInv, CopiedStep DEF FifoInv
  <1> QED
    BY <1>1, <1>2, PTL DEF Spec

(* Each step of the ring is a step of the queue, or leaves it as it is. *)
LEMMA StepIsFifoStep ==
    FifoInv /\ FifoInv' /\ [Next]_vars => [Fifo!Next]_(Fifo!fifoVars)
  <1> SUFFICES ASSUME FifoInv, FifoInv', [Next]_vars PROVE [Fifo!Next]_(Fifo!fifoVars)
    OBVIOUS
  <1> USE RingAssumption DEF FifoInv
  <1>0. /\ ReadAvailable \in 0..N /\ Contents \in Seq(Stored) /\ Len(Contents) = ReadAvailable
        /\ \A i \in 1..ReadAvailable :
             Contents[i] = buffer[RegionSlot(SmallMask(readIndex), i - 1)]
        /\ writeIndex \in Indices /\ readIndex \in Indices
    BY ContentsIsSeq DEF ContentsFacts, RingInv, TypeOK
  <1>00. /\ ReadAvailable' \in 0..N /\ Contents' \in Seq(Stored)
         /\ Len(Contents') = ReadAvailable'
         /\ \A i \in 1..ReadAvailable' :
              Contents'[i] = buffer'[RegionSlot(SmallMask(readIndex'), i - 1)]
    <2>1. RingInv'
      OBVIOUS
    <2>2. ContentsFacts'
      BY <2>1, ContentsIsSeq, PTL
    <2> QED
      BY <2>2 DEF ContentsFacts
  <1>1. ASSUME NEW data \in Batches, PutBegin(data) PROVE Fifo!Offer
    <2>1. wData = << >> /\ wData' = data /\ data \in Seq(Elements) /\ Len(data) \in Nat
      BY <1>1, BatchIsSeq DEF PutBegin, RingInv, RegionsHold
    <2>2. UNCHANGED <<Contents, rCount, delivered>>
      BY <1>1 DEF PutBegin, ringVars, readerVars, Contents, ReadAvailable
    <2>3. WriteAvailable = N - ReadAvailable
      BY <1>0, RoomFits DEF WriteAvailable
    <2>4. wCount' = Fifo!Smaller(Len(wData'), N - Len(Contents))
      BY <1>0, <1>1, <2>1, <2>3 DEF PutBegin, Clip, Fifo!Smaller
    <2> QED
      BY <2>1, <2>2, <2>4 DEF Fifo!Offer
  <1>2. CASE PutCopy
    <2> DEFINE slot == RegionSlot(wFirst, wDone)
    <2>1. /\ wDone \in Nat /\ wFirst = SmallMask(writeIndex) /\ wDone + ReadAvailable < N
          /\ wFirst \in 0..N - 1 /\ wDone \in 0..N - 1
      <3>1. /\ wDone \in Nat /\ wCount \in Nat /\ wDone < wCount
            /\ wFirst = SmallMask(writeIndex) /\ wFirst \in 0..N - 1
            /\ wCount + ReadAvailable <= N
        BY <1>2 DEF PutCopy, RingInv, TypeOK, RegionsHold
      <3> QED
        BY <1>0, <3>1
    <2>2. slot \in Slots /\ \A s \in Slots : s # slot => buffer'[s] = buffer[s]
      <3>1. slot \in Slots
        BY <2>1, SlotOfRegion
      <3> QED
        BY <1>2, <3>1 DEF PutCopy, RingInv, TypeOK
    <2>3. readIndex' = readIndex /\ ReadAvailable' = ReadAvailable
      BY <1>2 DEF PutCopy, ReadAvailable
    <2>4. ASSUME NEW i \in 1..ReadAvailable PROVE Contents'[i] = Contents[i]
      <3>1. i - 1 \in Nat /\ i - 1 < ReadAvailable /\ i - 1 \in 0..N - 1 /\ ReadAvailable <= N
        BY <1>0
      <3>2. RegionSlot(SmallMask(readIndex), i - 1) # slot
        BY <1>0, <2>1, <3>1, RegionsDisjoint DEF ReadAvailable
      <3>3. RegionSlot(SmallMask(readIndex), i - 1) \in Slots
        BY <1>0, <3>1, MaskInRange, SlotOfRegion
      <3> QED
        BY <1>0, <1>00, <2>2, <2>3, <3>2, <3>3
    <2>5. Contents' = Contents
      BY <1>0, <1>00, <2>3, <2>4, SeqEqual
    <2>6. UNCHANGED <<wData, wCount, rCount, delivered>>
      BY <1>2 DEF PutCopy, readerVars
    <2> QED
      BY <2>5, <2>6 DEF Fifo!fifoVars
  <1>3. CASE PutEnd
    <2> DEFINE new == SubSeq(wData, 1, wCount)
    <2>1. /\ wDone = wCount /\ wCount \in Nat /\ wFirst = SmallMask(writeIndex)
          /\ wCount <= Len(wData) /\ wCount + ReadAvailable <= N /\ wData \in Seq(Elements)
      BY <1>3 DEF PutEnd, RingInv, TypeOK, RegionsHold
    <2>2. \A i \in 1..wCount : wData[i] \in Stored
      <3>1. Len(wData) \in Nat
        BY <2>1, LenProperties
      <3> QED
        BY <2>1, <3>1, ElementOfSeq DEF Stored
    <2>3. /\ new \in Seq(Stored) /\ Len(new) = wCount
          /\ \A i \in 1..wCount : new[i] = wData[i]
      <3>1. /\ new \in Seq(Stored)
            /\ Len(new) = IF 1 <= wCount THEN wCount - 1 + 1 ELSE 0
            /\ \A i \in 1..wCount - 1 + 1 : new[i] = wData[1 + i - 1]
        BY <2>1, <2>2, SubSeqProperties
      <3> QED
        BY <2>1, <3>1
    <2>4. /\ readIndex' = readIndex /\ buffer' = buffer
          /\ ReadAvailable' = ReadAvailable + wCount
      <3>1. wCount \in Nat /\ wCount + BigMask(writeIndex - readIndex) <= N
        BY <1>0, <2>1 DEF ReadAvailable
      <3>2. BigMask(BigMask(writeIndex + wCount) - readIndex) = ReadAvailable + wCount
        BY <1>0, <3>1, AdvanceWrite DEF ReadAvailable
      <3> QED
        BY <1>3, <3>2 DEF PutEnd, ReadAvailable
    <2>5. /\ Contents \o new \in Seq(Stored)
          /\ Len(Contents \o new) = ReadAvailable + wCount
          /\ \A i \in 1..ReadAvailable + wCount :
               (Contents \o new)[i] = IF i <= ReadAvailable THEN Contents[i]
                                                            ELSE new[i - ReadAvailable]
      BY <1>0, <2>3, ConcatProperties
    <2>6. ASSUME NEW i \in 1..ReadAvailable + wCount PROVE Contents'[i] = (Contents \o new)[i]
      <3>1. Contents'[i] = buffer[RegionSlot(SmallMask(readIndex), i - 1)]
        BY <1>00, <2>4
      <3>2. CASE i <= ReadAvailable
        <4>1. i \in 1..ReadAvailable
          BY <1>0, <2>1, <3>2
        <4> QED
          BY <1>0, <2>5, <3>1, <3>2, <4>1
      <3>3. CASE ~(i <= ReadAvailable)
        <4>1. /\ i - 1 \in Nat /\ i - 1 < N /\ ReadAvailable <= i - 1
              /\ i - ReadAvailable \in 1..wCount /\ i - 1 - ReadAvailable \in 0..wDone - 1
              /\ i - 1 - ReadAvailable + 1 = i - ReadAvailable
          BY <1>0, <2>1, <3>3
        <4>2. RegionSlot(SmallMask(readIndex), i - 1)
                = RegionSlot(wFirst, i - 1 - ReadAvailable)
          BY <1>0, <2>1, <4>1, RegionsMeet DEF ReadAvailable
        <4>3. buffer[RegionSlot(wFirst, i - 1 - ReadAvailable)] = wData[i - ReadAvailable]
          BY <4>1 DEF Copied
        <4> QED
          BY <2>3, <2>5, <3>1, <3>3, <4>1, <4>2, <4>3
      <3> QED
        BY <3>2, <3>3
    <2>7. Contents' = Contents \o new
      BY <1>00, <2>4, <2>5, <2>6, SeqEqual
    <2>8. wData' = << >> /\ wCount' = 0 /\ UNCHANGED <<rCount, delivered>>
      BY <1>3 DEF PutEnd, readerVars
    <2>9. Fifo!Publish
      BY <2>7, <2>8 DEF Fifo!Publish
    <2> QED
      BY <2>9 DEF Fifo!Next
  <1>4. ASSUME NEW n \in 0..MaxBatch, GetBegin(n) PROVE Fifo!Ask
    <2>1. rCount = 0
      BY <1>4 DEF GetBegin, RingInv, RegionsHold
    <2>2. rCount' \in 0..Len(Contents)
      BY <1>0, <1>4 DEF GetBegin, Clip
    <2>3. UNCHANGED <<Contents, wData, wCount, delivered>>
      BY <1>4 DEF GetBegin, ringVars, writerVars, Contents, ReadAvailable
    <2> QED
      BY <2>1, <2>2, <2>3 DEF Fifo!Ask
  <1>5. CASE GetCopy
    BY <1>5 DEF GetCopy, ringVars, writerVars, Contents, ReadAvailable, Fifo!fifoVars
  <1>6. CASE GetEnd
    <2> DEFINE taken == SubSeq(Contents, 1, rCount)
               left  == SubSeq(Contents, rCount + 1, Len(Contents))
    <2>1. /\ Len(rData) = rCount /\ rCount \in Nat /\ rCount <= ReadAvailable
          /\ rFirst = SmallMask(readIndex) /\ rData \in Seq(Stored)
      BY <1>6 DEF GetEnd, RingInv, TypeOK, RegionsHold, Stored
    <2>2. \A i \in 1..ReadAvailable : Contents[i] \in Stored
      BY <1>0, ElementOfSeq
    <2>3. /\ taken \in Seq(Stored) /\ Len(taken) = rCount
          /\ \A i \in 1..rCount : taken[i] = Contents[i]
      <3>1. \A i \in 1..rCount : Contents[i] \in Stored
        BY <1>0, <2>1, <2>2
      <3>2. /\ taken \in Seq(Stored)
            /\ Len(taken) = IF 1 <= rCount THEN rCount - 1 + 1 ELSE 0
            /\ \A i \in 1..rCount - 1 + 1 : taken[i] = Contents[1 + i - 1]
        BY <2>1, <3>1, SubSeqProperties
      <3> QED
        BY <2>1, <3>2
    <2>4. ASSUME NEW i \in 1..rCount PROVE rData[i] = taken[i]
      <3>1. i \in 1..ReadAvailable /\ i \in 1..Len(rData)
        BY <1>0, <2>1
      <3> QED
        BY <1>0, <2>1, <2>3, <3>1 DEF Copied
    <2>5. rData = taken
      BY <2>1, <2>3, <2>4, SeqEqual
    <2>6. /\ left \in Seq(Stored) /\ Len(left) = ReadAvailable - rCount
          /\ \A i \in 1..ReadAvailable - rCount : left[i] = Contents[rCount + i]
      <3>1. \A i \in rCount + 1..ReadAvailable : Contents[i] \in Stored
        BY <1>0, <2>1, <2>2
      <3>2. /\ left \in Seq(Stored)
            /\ Len(left) = IF rCount + 1 <= ReadAvailable THEN ReadAvailable - (rCount + 1) + 1 ELSE 0
            /\ \A i \in 1..ReadAvailable - (rCount + 1) + 1 : left[i] = Contents[rCount + 1 + i - 1]
        BY <1>0, <2>1, <3>1, SubSeqProperties
      <3>3. ReadAvailable - (rCount + 1) + 1 = ReadAvailable - rCount
        BY <1>0, <2>1
      <3>4. \A i \in 1..ReadAvailable - rCount : rCount + 1 + i - 1 = rCount + i
        BY <1>0, <2>1
      <3> QED
        BY <1>0, <2>1, <3>2, <3>3, <3>4
    <2>7. /\ readIndex' = BigMask(readIndex + rCount) /\ buffer' = buffer
          /\ ReadAvailable' = ReadAvailable - rCount
      <3>1. BigMask(writeIndex - readIndex) = ReadAvailable
        BY DEF ReadAvailable
      <3>2. BigMask(writeIndex - BigMask(readIndex + rCount)) = ReadAvailable - rCount
        BY <1>0, <2>1, <3>1, AdvanceRead
      <3> QED
        BY <1>6, <3>2 DEF GetEnd, ReadAvailable
    <2>8. ASSUME NEW i \in 1..ReadAvailable - rCount PROVE Contents'[i] = left[i]
      <3>1. i - 1 \in Nat /\ rCount \in 0..N /\ rCount + (i - 1) < N
            /\ rCount + i \in 1..ReadAvailable /\ rCount + (i - 1) = rCount + i - 1
        BY <1>0, <2>1
      <3>2. RegionSlot(SmallMask(readIndex'), i - 1)
              = RegionSlot(SmallMask(readIndex), rCount + (i - 1))
        BY <1>0, <2>7, <3>1, RegionAdvances
      <3>3. Contents'[i] = buffer[RegionSlot(SmallMask(readIndex'), i - 1)]
        BY <1>00, <2>7
      <3>4. Contents[rCount + i] = buffer[RegionSlot(SmallMask(readIndex), rCount + i - 1)]
        BY <1>0, <3>1
      <3> QED
        BY <2>6, <3>1, <3>2, <3>3, <3>4
    <2>9. Contents' = left
      BY <1>00, <2>6, <2>7, <2>8, SeqEqual
    <2>10. rCount' = 0 /\ delivered' = rData /\ UNCHANGED <<wData, wCount>>
      BY <1>6 DEF GetEnd, writerVars
    <2>11. Fifo!Deliver
      BY <2>5, <2>9, <2>10 DEF Fifo!Deliver
    <2> QED
      BY <2>11 DEF Fifo!Next
  <1>7. CASE UNCHANGED vars
    BY <1>7 DEF vars, ringVars, writerVars, readerVars, Contents, ReadAvailable, Fifo!fifoVars
  <1> QED
    BY <1>1, <1>2, <1>3, <1>4, <1>5, <1>6, <1>7 DEF Next, Writer, Reader, Fifo!Next

(* The ring implements the bounded queue: what one thread puts, the other gets
   once, in order and unaltered (ringbuffer.h:269-307). *)
THEOREM ImplementsFifo == Spec => IsFifo
  <1>1. Init => Fifo!Init
    <2> SUFFICES ASSUME Init PROVE Fifo!Init
      OBVIOUS
    <2>1. RingInv
      BY InitInv
    <2>2. ReadAvailable = 0
      BY Distance, RingAssumption DEF Init, ReadAvailable, Indices
    <2>3. Contents = << >>
      BY <2>1, <2>2, ContentsIsSeq, EmptySeq DEF ContentsFacts
    <2> QED
      BY <2>3 DEF Init, Fifo!Init
  <1> QED
    BY <1>1, FifoInvariance, StepIsFifoStep, PTL DEF Spec, IsFifo, Fifo!Spec
=============================================================================
