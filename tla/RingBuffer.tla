----------------------------- MODULE RingBuffer -----------------------------
(***************************************************************************)
(* The lock-free ring between two threads (ringbuffer.h): one thread       *)
(* calls putDataIntoBuffer, one getDataFromBuffer, and the only state they *)
(* share is the two indices and the slots.  The indices run modulo twice   *)
(* the size, so that a full ring differs from an empty one.                *)
(*                                                                         *)
(* A call takes several steps: it fixes its region from the indices, moves *)
(* one element a step (memcpy is not atomic), and publishes by advancing   *)
(* its own index.                                                          *)
(***************************************************************************)
EXTENDS Integers, Sequences

CONSTANTS N,         (* bufferSize                                         *)
          Word,      (* 2^32: the arithmetic of uint32_t                   *)
          Elements,  (* what is stored                                     *)
          Blank,     (* the contents of a slot never written               *)
          MaxBatch   (* bound: elements in one call                        *)

ASSUME RingAssumption ==
    /\ N \in Nat \ {0}
    /\ Word \in Nat /\ Word > 2 * N
    /\ MaxBatch \in Nat

VARIABLES writeIndex, readIndex, buffer,
          wPc,       (* where putDataIntoBuffer is                         *)
          wData,     (* its argument                                       *)
          wFirst,    (* dataPtr1, as a slot                                *)
          wCount,    (* numWritten = size1 + size2                         *)
          wDone,     (* elements copied; the locals of an idle side are 0  *)
          rPc,       (* where getDataFromBuffer is                         *)
          rData,     (* what it has copied out                             *)
          rFirst, rCount,
          delivered  (* what the last get that returned handed over        *)

ringVars   == <<writeIndex, readIndex, buffer>>
writerVars == <<wPc, wData, wFirst, wCount, wDone>>
readerVars == <<rPc, rData, rFirst, rCount, delivered>>
vars       == <<ringVars, writerVars, readerVars>>

Batches == UNION {[1..n -> Elements] : n \in 0..MaxBatch}
Slots   == 0..2*N - 1              \* new char [2 * bufferSize * sizeof]
Indices == 0..2*N - 1

----------------------------------------------------------------------------
(* & bigMask and & smallMask; the size is a power of two. *)
(* Mutant: the indices wrap at the size, so that a full ring looks like an
   empty one. *)
BigMaskAtSize(i) == i % N

BigMask(i)   == i % (2 * N)
SmallMask(i) == i % N

ReadAvailable  == BigMask(writeIndex - readIndex)

(* Mutant: one element too many is offered to the writer. *)
WriteAvailableOffByOne == (N + 1 - ReadAvailable) % Word
WriteAvailable == (N - ReadAvailable) % Word

Clip(n, available) == IF n > available THEN available ELSE n

(* The slot of the i-th element of a region that starts at slot first: the
   first half runs to the end of the buffer, the second starts at slot 0. *)
RegionSlot(first, i) == IF first + i < N THEN first + i ELSE first + i - N

----------------------------------------------------------------------------
Init ==
    /\ writeIndex = 0 /\ readIndex = 0
    /\ buffer = [s \in Slots |-> Blank]
    /\ wPc = "idle" /\ wData = << >> /\ wFirst = 0 /\ wCount = 0 /\ wDone = 0
    /\ rPc = "idle" /\ rData = << >> /\ rFirst = 0 /\ rCount = 0
    /\ delivered = << >>

(* putDataIntoBuffer: GetRingBufferWriteRegions *)
PutBegin(data) ==
    /\ wPc = "idle"
    /\ wPc' = "copy"
    /\ wData' = data
    /\ wFirst' = SmallMask(writeIndex)
    /\ wCount' = Clip(Len(data), WriteAvailable)
    /\ wDone' = 0
    /\ UNCHANGED <<ringVars, readerVars>>

PutCopy ==
    /\ wPc = "copy" /\ wDone < wCount
    /\ buffer' = [buffer EXCEPT ![RegionSlot(wFirst, wDone)] = wData[wDone + 1]]
    /\ wDone' = wDone + 1
    /\ UNCHANGED <<writeIndex, readIndex, wPc, wData, wFirst, wCount, readerVars>>

(* Mutant: the index is advanced one element before the copy is complete. *)
PutEndEarly ==
    /\ wPc = "copy" /\ wDone + 1 >= wCount
    /\ writeIndex' = BigMask(writeIndex + wCount)
    /\ wPc' = "idle" /\ wData' = << >> /\ wFirst' = 0 /\ wCount' = 0 /\ wDone' = 0
    /\ UNCHANGED <<readIndex, buffer, readerVars>>

(* AdvanceRingBufferWriteIndex *)
PutEnd ==
    /\ wPc = "copy" /\ wDone = wCount
    /\ writeIndex' = BigMask(writeIndex + wCount)
    /\ wPc' = "idle" /\ wData' = << >> /\ wFirst' = 0 /\ wCount' = 0 /\ wDone' = 0
    /\ UNCHANGED <<readIndex, buffer, readerVars>>

(* getDataFromBuffer: GetRingBufferReadRegions *)
GetBegin(n) ==
    /\ rPc = "idle"
    /\ rPc' = "copy"
    /\ rData' = << >>
    /\ rFirst' = SmallMask(readIndex)
    /\ rCount' = Clip(n, ReadAvailable)
    /\ UNCHANGED <<ringVars, writerVars, delivered>>

GetCopy ==
    /\ rPc = "copy" /\ Len(rData) < rCount
    /\ rData' = Append(rData, buffer[RegionSlot(rFirst, Len(rData))])
    /\ UNCHANGED <<ringVars, writerVars, rPc, rFirst, rCount, delivered>>

(* AdvanceRingBufferReadIndex *)
GetEnd ==
    /\ rPc = "copy" /\ Len(rData) = rCount
    /\ readIndex' = BigMask(readIndex + rCount)
    /\ rPc' = "idle" /\ rData' = << >> /\ rFirst' = 0 /\ rCount' = 0
    /\ delivered' = rData
    /\ UNCHANGED <<writeIndex, buffer, writerVars>>

Writer == (\E data \in Batches : PutBegin(data)) \/ PutCopy \/ PutEnd
Reader == (\E n \in 0..MaxBatch : GetBegin(n)) \/ GetCopy \/ GetEnd

Next == Writer \/ Reader
Spec == Init /\ [][Next]_vars

----------------------------------------------------------------------------
TypeOK ==
    /\ writeIndex \in Indices /\ readIndex \in Indices
    /\ buffer \in [Slots -> Elements \cup {Blank}]
    /\ wPc \in {"idle", "copy"} /\ rPc \in {"idle", "copy"}
    /\ wData \in Seq(Elements)
    /\ wFirst \in 0..N - 1 /\ wCount \in Nat /\ wDone \in 0..wCount
    /\ rData \in Seq(Elements \cup {Blank}) /\ Len(rData) <= rCount
    /\ rFirst \in 0..N - 1 /\ rCount \in Nat
    /\ delivered \in Seq(Elements \cup {Blank})

(* Slots a call in progress still has to write, or to read, and the slots
   that hold published elements, which the reader owns. *)
WriterSlots == IF wPc = "copy" THEN {RegionSlot(wFirst, i) : i \in wDone..wCount - 1} ELSE {}
ReaderSlots == IF rPc = "copy" THEN {RegionSlot(rFirst, i) : i \in Len(rData)..rCount - 1} ELSE {}
Published   == {RegionSlot(SmallMask(readIndex), i) : i \in 0..ReadAvailable - 1}

(* Whatever the interleaving, there are never more than N elements to read:
   the two indices cannot overtake each other and the unsigned subtraction in
   GetRingBufferWriteAvailable cannot wrap (ringbuffer.h:156-166). *)
AvailableBounded == ReadAvailable <= N /\ WriteAvailable + ReadAvailable = N

(* A call in progress still fits the indices as they are now: the region was
   fixed from values the other thread has moved on from, and stays inside the
   room, or the data, there is (ringbuffer.h:199-267). *)
RegionsHold ==
    /\ wPc = "copy" => /\ wFirst = SmallMask(writeIndex)
                       /\ wCount <= Len(wData) /\ wCount + ReadAvailable <= N
    /\ rPc = "copy" => rFirst = SmallMask(readIndex) /\ rCount <= ReadAvailable
    /\ wPc = "idle" => wData = << >> /\ wCount = 0
    /\ rPc = "idle" => rCount = 0

RingInv == TypeOK /\ AvailableBounded /\ RegionsHold

(* "lockfree, however only for a single reader and a single writer"
   (ringbuffer.h:75): with one of each, the writer never stores into a slot
   that holds an element not read yet, and the reader copies only such slots,
   even while both memcpys are half-way. *)
NoSlotRace == WriterSlots \cap Published = {} /\ ReaderSlots \subseteq Published

(* Room a producer has seen does not shrink under it, and data a consumer has
   seen does not vanish: audioSink::putSamples and fmProcessor::run test the
   amount first and then transfer that amount (audiosink.cpp:219-230,
   fm-processor.cpp:391-420). *)
SeenAmountStays ==
    [][ /\ UNCHANGED writeIndex => WriteAvailable' >= WriteAvailable
        /\ UNCHANGED readIndex  => ReadAvailable' >= ReadAvailable ]_vars

(* The ring is a bounded queue: the elements published and not yet read are
   read once each, in the order they were put, as they were put; a put stores
   the prefix there was room for when it began and a get takes what was there
   when it began (ringbuffer.h:269-307). *)
Contents == [i \in 1..ReadAvailable |-> buffer[RegionSlot(SmallMask(readIndex), i - 1)]]

Fifo == INSTANCE BoundedFifo WITH
          queue <- Contents, offered <- wData, granted <- wCount, asked <- rCount
IsFifo == Fifo!Spec
============================================================================
