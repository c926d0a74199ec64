---------------------------- MODULE PlaybackProofs ----------------------------
(***************************************************************************)
(* The file player, for whatever files, blocks, buffers and rings there    *)
(* are: its types, that it is quiet while it is paused, and that what is   *)
(* heard is the file.                                                      *)
(***************************************************************************)
EXTENDS Playback, SequenceTheorems, TLAPS

----------------------------------------------------------------------------
(* Sequences: what is before and after, and what is left without some of it. *)
LEMMA FrontAndRest ==
    ASSUME NEW S, NEW q \in Seq(S), NEW n \in 0..Len(q)
    PROVE  /\ SubSeq(q, 1, n) \in Seq(S) /\ Len(SubSeq(q, 1, n)) = n
           /\ From(q, n) \in Seq(S) /\ Len(From(q, n)) = Len(q) - n
           /\ SubSeq(q, 1, n) \o From(q, n) = q
<1>1. Len(q) \in Nat /\ n \in Nat /\ n <= Len(q) /\ n + 1 \in Int OBVIOUS
<1>2. SubSeq(q, 1, n) \in Seq(S) /\ Len(SubSeq(q, 1, n)) = n
  <2>1. \A i \in 1..n : q[i] \in S BY <1>1
  <2>2. QED BY <1>1, <2>1, SubSeqProperties
<1>3. From(q, n) \in Seq(S) /\ Len(From(q, n)) = Len(q) - n
  <2>1. \A i \in n + 1..Len(q) : q[i] \in S BY <1>1
  <2>2. QED BY <1>1, <2>1, SubSeqProperties DEF From
<1>4. SubSeq(q, 1, n) \o SubSeq(q, n + 1, Len(q)) = SubSeq(q, 1, Len(q))
  <2>1. 1 \in 1..Len(q) + 1 /\ n \in 1 - 1..Len(q) /\ Len(q) \in n..Len(q) BY <1>1
  <2>2. QED BY <2>1, ConcatAdjacentSubSeq
<1>5. QED BY <1>2, <1>3, <1>4, SubSeqFull DEF From

LEMMA FromConcat ==
    ASSUME NEW S, NEW q \in Seq(S), NEW r \in Seq(S), NEW n \in 0..Len(q)
    PROVE  From(q \o r, n) = From(q, n) \o r
<1>1. Len(q) \in Nat /\ Len(r) \in Nat /\ n \in Nat /\ n <= Len(q) OBVIOUS
<1>2. q \o r \in Seq(S) /\ Len(q \o r) = Len(q) + Len(r) BY ConcatProperties
<1>3. n \in 0..Len(q \o r) BY <1>1, <1>2
<1>4. /\ From(q, n) \in Seq(S) /\ Len(From(q, n)) = Len(q) - n
      /\ From(q \o r, n) \in Seq(S) /\ Len(From(q \o r, n)) = Len(q) + Len(r) - n
  <2>1. From(q, n) \in Seq(S) /\ Len(From(q, n)) = Len(q) - n BY FrontAndRest
  <2>2. From(q \o r, n) \in Seq(S) /\ Len(From(q \o r, n)) = Len(q \o r) - n
    BY <1>2, <1>3, FrontAndRest
  <2>3. QED BY <1>2, <2>1, <2>2
<1>5. From(q, n) \o r \in Seq(S) /\ Len(From(q, n) \o r) = Len(q) - n + Len(r)
  BY <1>4, ConcatProperties
<1>6. ASSUME NEW i \in 1..Len(From(q \o r, n))
      PROVE  From(q \o r, n)[i] = (From(q, n) \o r)[i]
  <2>1. i \in Nat /\ i >= 1 /\ i <= Len(q) + Len(r) - n BY <1>1, <1>4
  <2>2. From(q \o r, n)[i] = (q \o r)[n + i]
    <3>1. From(q \o r, n)[i] = (q \o r)[(n + 1) + i - 1]
      <4>1. \A j \in n + 1..Len(q \o r) : (q \o r)[j] \in S BY <1>1, <1>2
      <4>2. i \in 1..Len(q \o r) - (n + 1) + 1 BY <1>1, <1>2, <2>1
      <4>3. QED BY <1>1, <1>2, <4>1, <4>2, SubSeqProperties DEF From
    <3>2. (n + 1) + i - 1 = n + i BY <1>1, <2>1
    <3>3. QED BY <3>1, <3>2
  <2>3. CASE n + i <= Len(q)
    <3>1. (q \o r)[n + i] = q[n + i] BY <1>1, <2>1, <2>3, ConcatProperties
    <3>2. (From(q, n) \o r)[i] = From(q, n)[i] BY <1>1, <1>4, <2>1, <2>3, ConcatProperties
    <3>3. From(q, n)[i] = q[(n + 1) + i - 1]
      <4>1. \A j \in n + 1..Len(q) : q[j] \in S BY <1>1
      <4>2. i \in 1..Len(q) - (n + 1) + 1 BY <1>1, <2>1, <2>3
      <4>3. QED BY <1>1, <4>1, <4>2, SubSeqProperties DEF From
    <3>4. (n + 1) + i - 1 = n + i BY <1>1, <2>1
    <3>5. QED BY <2>2, <3>1, <3>2, <3>3, <3>4
  <2>4. CASE ~(n + i <= Len(q))
    <3>1. (q \o r)[n + i] = r[n + i - Len(q)] BY <1>1, <2>1, <2>4, ConcatProperties
    <3>2. (From(q, n) \o r)[i] = r[i - (Len(q) - n)]
      <4>1. i \in 1..Len(From(q, n)) + Len(r) /\ ~(i <= Len(From(q, n)))
        BY <1>1, <1>4, <2>1, <2>4
      <4>2. QED BY <1>4, <4>1, ConcatProperties
    <3>3. i - (Len(q) - n) = n + i - Len(q) BY <1>1, <2>1
    <3>4. QED BY <2>2, <3>1, <3>2, <3>3
  <2>5. QED BY <2>3, <2>4
<1>7. Len(From(q \o r, n)) = Len(From(q, n) \o r) BY <1>1, <1>4, <1>5
<1>8. QED BY <1>4, <1>5, <1>6, <1>7, SeqEqual

LEMMA HeadAndTail ==
    ASSUME NEW S, NEW q \in Seq(S), q # <<>>
    PROVE  /\ Head(q) \in S /\ Tail(q) \in Seq(S) /\ <<Head(q)>> \in Seq(S)
           /\ Len(Tail(q)) = Len(q) - 1
           /\ q = <<Head(q)>> \o Tail(q)
<1>1. Head(q) \in S /\ Tail(q) \in Seq(S) /\ Len(Tail(q)) = Len(q) - 1 BY HeadTailProperties
<1>2. Len(q) \in Nat \ {0} BY EmptySeq
<1>3. SubSeq(q, 1, Len(q)) = <<q[1]>> \o SubSeq(q, 1 + 1, Len(q))
  <2>1. 1 \in 1..Len(q) /\ Len(q) \in 1..Len(q) BY <1>2
  <2>2. QED BY <2>1, SubSeqRecursiveFirst
<1>4. SubSeq(q, 1, Len(q)) = q BY SubSeqFull
<1>5. Tail(q) = SubSeq(q, 2, Len(q)) BY TailIsSubSeq
<1>6. q[1] = Head(q) OBVIOUS
<1>7. QED BY <1>1, <1>3, <1>4, <1>5, <1>6

(* One element is taken out of the middle. *)
LEMMA WithoutOne ==
    ASSUME NEW S, NEW a \in Seq(S), NEW x \in S, NEW b \in Seq(S)
    PROVE  File!RemoveAt(a \o (<<x>> \o b), Len(a) + 1) = a \o b
<1> DEFINE u == a \o (<<x>> \o b)
<1>1. <<x>> \in Seq(S) /\ Len(<<x>>) = 1 /\ Len(a) \in Nat /\ Len(b) \in Nat OBVIOUS
<1>2. <<x>> \o b \in Seq(S) /\ Len(<<x>> \o b) = 1 + Len(b) BY <1>1, ConcatProperties
<1>3. u \in Seq(S) /\ Len(u) = Len(a) + (1 + Len(b)) BY <1>2, ConcatProperties
<1> HIDE DEF u
<1>4. SubSeq(u, 1, Len(a)) = a
  <2>1. CASE Len(a) = 0
    <3>1. a = <<>> BY <2>1, EmptySeq
    <3>2. QED BY <2>1, <3>1, SubSeqEmpty
  <2>2. CASE Len(a) # 0
    <3>1. 1 \in 1..Len(a) /\ Len(a) \in 1..Len(a) BY <1>1, <2>2
    <3>2. SubSeq(u, 1, Len(a)) = SubSeq(a, 1, Len(a)) BY <1>2, <3>1, SubSeqOfConcat1 DEF u
    <3>3. QED BY <3>2, SubSeqFull
  <2>3. QED BY <2>1, <2>2
<1>5. SubSeq(u, Len(a) + 2, Len(u)) = b
  <2>1. From(u, Len(a) + 1) = b
    <3>1. u = (a \o <<x>>) \o b BY <1>1, ConcatAssociative DEF u
    <3>2. a \o <<x>> \in Seq(S) /\ Len(a \o <<x>>) = Len(a) + 1 BY <1>1, ConcatProperties
    <3>3. Len(a) + 1 \in 0..Len(a \o <<x>>) BY <1>1, <3>2
    <3>4. From(u, Len(a) + 1) = From(a \o <<x>>, Len(a) + 1) \o b
      BY <3>1, <3>2, <3>3, FromConcat
    <3>5. Len(a) + 1 + 1 > Len(a) + 1 BY <1>1
    <3>6. From(a \o <<x>>, Len(a) + 1) = <<>> BY <1>1, <3>2, <3>5, SubSeqEmpty DEF From
    <3>7. QED BY <3>4, <3>6, ConcatEmptySeq
  <2>2. Len(a) + 1 + 1 = Len(a) + 2 BY <1>1
  <2>3. QED BY <2>1, <2>2 DEF From
<1>6. Len(a) + 1 - 1 = Len(a) /\ Len(a) + 1 + 1 = Len(a) + 2 BY <1>1
<1>7. \A v, i : File!RemoveAt(v, i) = SubSeq(v, 1, i - 1) \o SubSeq(v, i + 1, Len(v))
  BY DEF File!RemoveAt
<1>8. File!RemoveAt(u, Len(a) + 1) = SubSeq(u, 1, Len(a)) \o SubSeq(u, Len(a) + 2, Len(u))
  <2>1. File!RemoveAt(u, Len(a) + 1)
            = SubSeq(u, 1, (Len(a) + 1) - 1) \o SubSeq(u, (Len(a) + 1) + 1, Len(u))
    BY <1>7, Zenon
  <2>2. /\ SubSeq(u, 1, (Len(a) + 1) - 1) = SubSeq(u, 1, Len(a))
        /\ SubSeq(u, (Len(a) + 1) + 1, Len(u)) = SubSeq(u, Len(a) + 2, Len(u))
    BY <1>6
  <2>3. QED BY <2>1, <2>2, Zenon
<1>9. QED BY <1>4, <1>5, <1>8 DEF u

----------------------------------------------------------------------------
(* Frames and their sound. *)
LEMMA SoundOfFrames ==
    ASSUME NEW S, NEW f \in Seq(S)
    PROVE  Sound(f) \in Seq(S \X {"left", "right"}) /\ Len(Sound(f)) = 2 * Len(f)
<1>1. Len(f) \in Nat /\ 2 * Len(f) \in Nat OBVIOUS
<1>2. ASSUME NEW i \in 1..2 * Len(f)
      PROVE  <<f[(i + 1) \div 2], IF i % 2 = 1 THEN "left" ELSE "right">>
                \in S \X {"left", "right"}
  <2>1. (i + 1) \div 2 \in 1..Len(f) BY <1>1, <1>2
  <2>2. f[(i + 1) \div 2] \in S BY <2>1, ElementOfSeq
  <2>3. QED BY <2>2
<1>3. Sound(f) \in [1..2 * Len(f) -> S \X {"left", "right"}] BY <1>2 DEF Sound
<1>4. QED BY <1>1, <1>3

LEMMA SoundAt ==
    ASSUME NEW S, NEW f \in Seq(S), NEW i \in 1..2 * Len(f)
    PROVE  Sound(f)[i] = <<f[(i + 1) \div 2], IF i % 2 = 1 THEN "left" ELSE "right">>
BY DEF Sound

LEMMA SoundConcat ==
    ASSUME NEW S, NEW f \in Seq(S), NEW g \in Seq(S)
    PROVE  Sound(f \o g) = Sound(f) \o Sound(g)
<1> DEFINE V == S \X {"left", "right"}
<1>1. Len(f) \in Nat /\ Len(g) \in Nat OBVIOUS
<1>2. f \o g \in Seq(S) /\ Len(f \o g) = Len(f) + Len(g) BY ConcatProperties
<1>3. /\ Sound(f) \in Seq(V) /\ Len(Sound(f)) = 2 * Len(f)
      /\ Sound(g) \in Seq(V) /\ Len(Sound(g)) = 2 * Len(g)
      /\ Sound(f \o g) \in Seq(V) /\ Len(Sound(f \o g)) = 2 * (Len(f) + Len(g))
  BY <1>2, SoundOfFrames
<1> HIDE DEF V
<1>4. /\ Sound(f) \o Sound(g) \in Seq(V)
      /\ Len(Sound(f) \o Sound(g)) = 2 * Len(f) + 2 * Len(g)
  <2>1. /\ Sound(f) \o Sound(g) \in Seq(V)
        /\ Len(Sound(f) \o Sound(g)) = Len(Sound(f)) + Len(Sound(g))
    BY <1>3, ConcatProperties
  <2>2. QED BY <1>3, <2>1
<1>5. ASSUME NEW i \in 1..Len(Sound(f \o g))
      PROVE  Sound(f \o g)[i] = (Sound(f) \o Sound(g))[i]
  <2> DEFINE side(k) == IF k % 2 = 1 THEN "left" ELSE "right"
             h(k)    == (k + 1) \div 2
  <2>1. i \in Nat /\ i >= 1 /\ i <= 2 * (Len(f) + Len(g)) BY <1>1, <1>3
  <2>2. i \in 1..2 * Len(f \o g) /\ h(i) \in 1..Len(f) + Len(g) BY <1>1, <1>2, <2>1
  <2>3. Sound(f \o g)[i] = <<(f \o g)[h(i)], side(i)>> BY <1>2, <2>2, SoundAt
  <2>4. CASE i <= 2 * Len(f)
    <3>1. h(i) \in 1..Len(f) /\ i \in 1..2 * Len(f) BY <1>1, <2>1, <2>4
    <3>2. (f \o g)[h(i)] = f[h(i)] BY <1>1, <2>2, <3>1, ConcatProperties
    <3>3. Sound(f)[i] = <<f[h(i)], side(i)>> BY <3>1, SoundAt
    <3>4. (Sound(f) \o Sound(g))[i] = Sound(f)[i]
      <4>1. i \in 1..Len(Sound(f)) + Len(Sound(g)) /\ i <= Len(Sound(f)) BY <1>1, <1>3, <2>1, <2>4
      <4>2. QED BY <1>3, <4>1, ConcatProperties
    <3>5. QED BY <2>3, <3>2, <3>3, <3>4
  <2>5. CASE ~(i <= 2 * Len(f))
    <3> DEFINE j == i - 2 * Len(f)
    <3>1. j \in 1..2 * Len(g) BY <1>1, <2>1, <2>5
    <3>2. h(i) > Len(f) /\ h(j) = h(i) - Len(f) /\ j % 2 = i % 2 BY <1>1, <2>1, <2>5
    <3>3. (f \o g)[h(i)] = g[h(j)] BY <1>1, <2>2, <3>2, ConcatProperties
    <3>4. Sound(g)[j] = <<g[h(j)], side(j)>> BY <3>1, SoundAt
    <3>5. side(j) = side(i) BY <3>2
    <3>6. (Sound(f) \o Sound(g))[i] = Sound(g)[j]
      <4>1. i \in 1..Len(Sound(f)) + Len(Sound(g)) /\ ~(i <= Len(Sound(f)))
            /\ i - Len(Sound(f)) = j
        BY <1>1, <1>3, <2>1, <2>5
      <4>2. QED BY <1>3, <4>1, ConcatProperties
    <3>7. QED BY <2>3, <3>3, <3>4, <3>5, <3>6
  <2>6. QED BY <2>4, <2>5
<1>6. Len(Sound(f \o g)) = Len(Sound(f) \o Sound(g)) BY <1>1, <1>3, <1>4
<1>7. QED BY <1>3, <1>4, <1>5, <1>6, SeqEqual

LEMMA SoundOfOne ==
    ASSUME NEW x
    PROVE  Sound(<<x>>) = Channels(x) /\ Channels(x) = <<<<x, "left">>>> \o <<<<x, "right">>>>
<1>1. <<x>> \in Seq({x}) /\ Len(<<x>>) = 1 OBVIOUS
<1>2. Sound(<<x>>) = [i \in 1..2 |-> <<<<x>>[(i + 1) \div 2],
                                       IF i % 2 = 1 THEN "left" ELSE "right">>]
  BY <1>1 DEF Sound
<1>3. /\ (1 + 1) \div 2 = 1 /\ (2 + 1) \div 2 = 1 /\ 1 % 2 = 1 /\ 2 % 2 = 0 OBVIOUS
<1>4. Sound(<<x>>) = <<<<x, "left">>, <<x, "right">>>> BY <1>2, <1>3
<1>5. Sound(<<x>>) = <<<<x, "left">>>> \o <<<<x, "right">>>> BY <1>4
<1>6. QED BY <1>4, <1>5, Zenon DEF Channels

----------------------------------------------------------------------------
(* The inductive invariant.  First the threads: their types, *)
ThreadTypes ==
    /\ guiPc \in {"opened", "idle", "stop, paused", "paused", "stop, select", "select",
                  "stop processor", "delete reader", "refused", "stop, delete sink", "delete sink",
                  "ended"}
    /\ runMode \in {"IDLE", "RUNNING", "PAUSED"}
    /\ readerPc \in {"starting", "loop", "room", "block", "ended"}
    /\ processorPc \in {"unstarted", "starting", "loop", "sound", "ended"}
    /\ ostream \in {"none", "stopped", "active", "finished", "closed"}
    /\ paCallbackReturn \in {"paContinue", "paAbort"}

Flags == /\ chosen \in BOOLEAN /\ readerPausing \in BOOLEAN /\ ExitCondition \in BOOLEAN
         /\ running \in BOOLEAN /\ raced \in BOOLEAN

(* the reader is told to end by its destructor only, but for what the flag is
   before the thread sets it, *)
ReaderToldToEnd == ExitCondition => Closing \/ readerPc = "starting"

(* and since it was to pause it has put the block it had begun, if any; *)
ReaderAtRest ==
    /\ late \in {0, 1, 2}
    /\ readerPausing => late = 0 \/ (late = 1 /\ readerPc \notin {"room", "block"})

(* the processor lives between the opening of the device and its deletion; *)
ProcessorInTime ==
    /\ guiPc = "opened" => processorPc = "unstarted"
    /\ Closing => processorPc \in {"unstarted", "ended"}

(* the stream has been stopped where the pause is reached, and in it. *)
StreamAtRest ==
    /\ guiPc = "paused" => IsStopped
    /\ runMode = "PAUSED" /\ ~chosen /\ ~Closing => IsStopped

Threads == ThreadTypes /\ ReaderToldToEnd /\ ProcessorInTime /\ StreamAtRest

(* Then what they hand on: its types, *)
BufferTypes ==
    /\ fileLength \in FileLengths /\ filePosition \in 0..fileLength
    /\ I_Buffer \in Seq(Samples) /\ Len(I_Buffer) <= RingSize
    /\ dataBuffer \in Seq(Samples) /\ Len(dataBuffer) <= Buffer
    /\ O_Buffer \in Seq(Values) /\ Len(O_Buffer) <= 2 * SinkSize

(* the reader has room for its block as long as it may be heard, *)
RoomForABlock == readerPc = "block" /\ ~Closing => HasRoom

(* the processor has samples only while it makes sound of them, *)
NothingKept == processorPc # "sound" => dataBuffer = <<>>

(* and the sink has left and right of each frame. *)
WholeFrames == Len(O_Buffer) % 2 = 0

Buffers == BufferTypes /\ RoomForABlock /\ NothingKept /\ WholeFrames

LEMMA Constants ==
    /\ \A n \in FileLengths : n \in Nat
    /\ Block \in Nat \ {0} /\ Buffer \in Nat \ {0} /\ RingSize \in Nat \ {0}
    /\ SinkSize \in Nat \ {0} /\ CallbackSize \in Nat \ {0}
    /\ Block + Slack <= RingSize /\ Slack = 1
<1>1. /\ Block \in Nat \ {0} /\ Buffer \in Nat \ {0} /\ RingSize \in Nat \ {0}
      /\ SinkSize \in Nat \ {0} /\ CallbackSize \in Nat \ {0}
      /\ \A n \in FileLengths : n \in Nat
  BY PlaybackAssumption
<1>2. RingSize >= Buffer - 1 + Block + Slack BY PlaybackAssumption
<1>3. QED BY <1>1, <1>2 DEF Slack

(* The invariant has what the type invariant and PausedIsQuiet say. *)
LEMMA Implied ==
    ASSUME Flags, Threads, ReaderAtRest, Buffers
    PROVE  TypeOK /\ PausedIsQuiet
<1>1. TypeOK
  <2>1. {chosen, readerPausing, ExitCondition, running, raced} \subseteq BOOLEAN
    BY Zenon DEF Flags
  <2>2. late \in 0..2 BY DEF ReaderAtRest
  <2>3. QED BY <2>1, <2>2, Zenon DEF Threads, ThreadTypes, Buffers, BufferTypes, TypeOK
<1>2. PausedIsQuiet BY DEF Threads, ReaderAtRest, StreamAtRest, IsStopped, PausedIsQuiet
<1>3. QED BY <1>1, <1>2

----------------------------------------------------------------------------
(* The threads keep their part of it. *)
LEMMA Stoppings ==
    /\ Stopping("paused") = "stop, paused" /\ Stopping("select") = "stop, select"
    /\ Stopping("delete sink") = "stop, delete sink"
BY DEF Stopping

LEMMA InitThreads == Init => Threads /\ ReaderAtRest /\ Flags
<1>1. Init => Threads
  BY DEF Init, Threads, ThreadTypes, ReaderToldToEnd, ProcessorInTime, StreamAtRest, IsStopped,
         Closing
<1>2. Init => ReaderAtRest BY DEF Init, ReaderAtRest
<1>3. Init => Flags BY Zenon DEF Init, Flags
<1>4. QED BY <1>1, <1>2, <1>3

LEMMA FlagsKept ==
    ASSUME Flags, [Next]_vars
    PROVE  Flags'
<1> USE DEF Flags
<1>1. CASE Reader
  BY <1>1, Zenon DEF Reader, ReaderStarts, ReaderLoops, ReaderHasRoom, ReaderPuts, gui, controls
<1>2. CASE Processor
  BY <1>2, Zenon DEF Processor, ProcessorStarts, getSamples, sendSampletoOutput, BufferDone,
                     ProcessorEnds, gui, controls, reader
<1>3. CASE paCallback_o
  BY <1>3, Zenon DEF paCallback_o, CallbackPlays, CallbackAborts, gui, controls
<1>4. CASE User
  BY <1>4, Zenon DEF User, Pause, Continue, SelectOutput, Quit, gui, controls
<1>5. CASE Handler
  <2>1. CASE setStart BY <2>1, Zenon DEF setStart
  <2>2. CASE WrongRate \/ ProcessorStopped
    BY <2>2, Zenon DEF WrongRate, ProcessorStopped, deleteReader
  <2>3. CASE Paused \/ selectDevice BY <2>3, Zenon DEF Paused, selectDevice, controls
  <2>4. CASE ReaderDeleted \/ SinkDeleted BY <2>4, Zenon DEF ReaderDeleted, SinkDeleted, controls
  <2>5. CASE \E there \in {"paused", "select", "delete sink"} : StreamStops(there)
    BY <2>5, Zenon DEF StreamStops, controls
  <2>6. QED BY <1>5, <2>1, <2>2, <2>3, <2>4, <2>5 DEF Handler
<1>6. CASE UNCHANGED vars BY <1>6, Zenon DEF vars, gui, controls
<1>7. QED BY <1>1, <1>2, <1>3, <1>4, <1>5, <1>6 DEF Next, Ended

LEMMA RestKept ==
    ASSUME ReaderAtRest, [Next]_vars
    PROVE  ReaderAtRest'
<1> USE DEF ReaderAtRest
<1>1. CASE Reader
  <2>1. CASE ReaderPuts
    <3>1. late' = IF readerPausing THEN Smaller(late + 1, 2) ELSE late BY <2>1, Zenon DEF ReaderPuts
    <3>2. readerPc = "block" /\ readerPausing' = readerPausing /\ readerPc' = "loop"
      BY <2>1, Zenon DEF ReaderPuts
    <3>3. QED BY <3>1, <3>2 DEF Smaller
  <2>2. CASE ~ReaderPuts
    BY <1>1, <2>2 DEF Reader, ReaderStarts, ReaderLoops, ReaderHasRoom, controls
  <2>3. QED BY <2>1, <2>2
<1>2. CASE UNCHANGED <<readerPc, readerPausing, late>> BY <1>2
<1>3. CASE UNCHANGED readerPc /\ late' = 0 BY <1>3
<1>4. Processor => UNCHANGED <<readerPc, readerPausing, late>>
  BY Zenon DEF Processor, ProcessorStarts, getSamples, sendSampletoOutput, BufferDone,
               ProcessorEnds, controls, reader
<1>5. paCallback_o => UNCHANGED <<readerPc, readerPausing, late>>
  BY Zenon DEF paCallback_o, CallbackPlays, CallbackAborts, controls, reader
<1>6. User => UNCHANGED <<readerPc, readerPausing, late>> \/ (UNCHANGED readerPc /\ late' = 0)
              \/ (Quit /\ UNCHANGED readerPc)
  BY Zenon DEF User, Pause, Continue, SelectOutput, Quit, controls, reader
<1>7. CASE Quit /\ UNCHANGED readerPc BY <1>7 DEF Quit
<1>8. Handler => UNCHANGED <<readerPc, readerPausing, late>> \/ (UNCHANGED readerPc /\ late' = 0)
  BY Zenon DEF Handler, setStart, WrongRate, Paused, selectDevice, ProcessorStopped, ReaderDeleted,
               SinkDeleted, StreamStops, deleteReader, controls, reader
<1>9. UNCHANGED vars => UNCHANGED <<readerPc, readerPausing, late>>
  BY Zenon DEF vars, controls, reader
<1>10. QED
  BY <1>1, <1>2, <1>3, <1>4, <1>5, <1>6, <1>7, <1>8, <1>9, Zenon DEF Next, Ended

LEMMA ReaderThreads ==
    ASSUME Threads, Reader
    PROVE  Threads'
<1> USE DEF Threads, ThreadTypes, Closing, gui, controls, processor, stream, Smaller
<1>1. ThreadTypes'
  <2>1. CASE ReaderStarts BY <2>1 DEF ReaderStarts
  <2>2. CASE ReaderLoops BY <2>2 DEF ReaderLoops
  <2>3. CASE ReaderHasRoom BY <2>3 DEF ReaderHasRoom
  <2>4. CASE ReaderPuts BY <2>4 DEF ReaderPuts
  <2>5. QED BY <2>1, <2>2, <2>3, <2>4 DEF Reader
<1>2. ReaderToldToEnd'
  BY DEF Reader, ReaderStarts, ReaderLoops, ReaderHasRoom, ReaderPuts, ReaderToldToEnd
<1>3. ProcessorInTime'
  BY DEF Reader, ReaderStarts, ReaderLoops, ReaderHasRoom, ReaderPuts, ProcessorInTime
<1>4. StreamAtRest'
  BY DEF Reader, ReaderStarts, ReaderLoops, ReaderHasRoom, ReaderPuts, StreamAtRest, IsStopped
<1>5. QED BY <1>1, <1>2, <1>3, <1>4, Zenon DEF Threads

LEMMA ProcessorThreads ==
    ASSUME Threads, Processor
    PROVE  Threads'
<1> USE DEF Threads, ThreadTypes, Closing, gui, controls, reader, stream, Processor,
            ProcessorStarts, getSamples, sendSampletoOutput, BufferDone, ProcessorEnds
<1>1. ThreadTypes' OBVIOUS
<1>2. ReaderToldToEnd' BY DEF ReaderToldToEnd
<1>3. ProcessorInTime' BY DEF ProcessorInTime
<1>4. StreamAtRest' BY DEF StreamAtRest, IsStopped
<1>5. QED BY <1>1, <1>2, <1>3, <1>4, Zenon DEF Threads

LEMMA CallbackThreads ==
    ASSUME Threads, paCallback_o
    PROVE  Threads'
<1> USE DEF Threads, ThreadTypes, Closing, gui, controls, reader, processor, paCallback_o,
            CallbackPlays, CallbackAborts
<1>1. ThreadTypes' BY DEF stream
<1>2. ReaderToldToEnd' BY DEF ReaderToldToEnd
<1>3. ProcessorInTime' BY DEF ProcessorInTime
<1>4. StreamAtRest' BY DEF StreamAtRest, IsStopped, stream
<1>5. QED BY <1>1, <1>2, <1>3, <1>4, Zenon DEF Threads

LEMMA UserThreads ==
    ASSUME Threads, User
    PROVE  Threads'
<1> USE Stoppings DEF Threads, ThreadTypes, Closing, gui, controls, reader, processor, stream,
                      IsStopped, StopThen, restart
<1>1. ThreadTypes'
  <2>1. CASE Pause BY <2>1 DEF Pause
  <2>2. CASE Continue BY <2>2 DEF Continue
  <2>3. CASE SelectOutput BY <2>3 DEF SelectOutput
  <2>4. CASE Quit BY <2>4 DEF Quit
  <2>5. QED BY <2>1, <2>2, <2>3, <2>4 DEF User
<1>2. ReaderToldToEnd' BY DEF User, Pause, Continue, SelectOutput, Quit, ReaderToldToEnd
<1>3. ProcessorInTime' BY DEF User, Pause, Continue, SelectOutput, Quit, ProcessorInTime
<1>4. StreamAtRest' BY DEF User, Pause, Continue, SelectOutput, Quit, StreamAtRest
<1>5. QED BY <1>1, <1>2, <1>3, <1>4, Zenon DEF Threads

LEMMA HandlerThreads ==
    ASSUME Threads, Handler
    PROVE  Threads'
<1> USE Stoppings DEF Threads, ThreadTypes, Closing, gui, controls, reader, processor, stream,
                      IsStopped, StopThen, restart, deleteReader
<1>1. ThreadTypes'
  <2>1. CASE setStart BY <2>1 DEF setStart
  <2>2. CASE WrongRate BY <2>2 DEF WrongRate
  <2>3. CASE Paused BY <2>3 DEF Paused
  <2>4. CASE selectDevice BY <2>4 DEF selectDevice
  <2>5. CASE ProcessorStopped BY <2>5 DEF ProcessorStopped
  <2>6. CASE ReaderDeleted BY <2>6 DEF ReaderDeleted
  <2>7. CASE SinkDeleted BY <2>7 DEF SinkDeleted
  <2>8. CASE \E there \in {"paused", "select", "delete sink"} : StreamStops(there)
    BY <2>8 DEF StreamStops
  <2>9. QED BY <2>1, <2>2, <2>3, <2>4, <2>5, <2>6, <2>7, <2>8 DEF Handler
<1> USE DEF Handler, setStart, WrongRate, Paused, selectDevice, ProcessorStopped, ReaderDeleted,
            SinkDeleted, StreamStops
<1>2. ReaderToldToEnd' BY DEF ReaderToldToEnd
<1>3. ProcessorInTime' BY DEF ProcessorInTime
<1>4. StreamAtRest' BY DEF StreamAtRest
<1>5. QED BY <1>1, <1>2, <1>3, <1>4, Zenon DEF Threads

LEMMA ThreadsKept ==
    ASSUME Threads, [Next]_vars
    PROVE  Threads'
<1>1. CASE UNCHANGED vars
  <2>1. UNCHANGED <<guiPc, runMode, chosen, readerPc, readerPausing, ExitCondition, processorPc,
                    running, ostream, paCallbackReturn>>
    BY <1>1, Zenon DEF vars, gui, reader, controls, processor, stream
  <2>2. QED
    <3>1. ThreadTypes' BY <2>1 DEF Threads, ThreadTypes
    <3>2. ReaderToldToEnd' BY <2>1 DEF Threads, ReaderToldToEnd, Closing
    <3>3. ProcessorInTime' BY <2>1 DEF Threads, ProcessorInTime, Closing
    <3>4. StreamAtRest' BY <2>1 DEF Threads, StreamAtRest, IsStopped, Closing
    <3>5. QED BY <3>1, <3>2, <3>3, <3>4, Zenon DEF Threads
<1>2. QED
  BY <1>1, ReaderThreads, ProcessorThreads, CallbackThreads, UserThreads, HandlerThreads
  DEF Next, Ended

----------------------------------------------------------------------------
(* What the steps do to the buffers. *)
LEMMA BlockRead ==
    ASSUME BufferTypes, NEW n, n = Smaller(Block, fileLength - filePosition)
    PROVE  /\ n \in 0..Block /\ n \in 0..fileLength - filePosition
           /\ n = 0 => /\ readBuffer.samples = [i \in 1..Block |-> Silence]
                       /\ readBuffer.position = 0 /\ filePosition = fileLength
           /\ n # 0 => /\ readBuffer.samples = [i \in 1..n |-> filePosition + i]
                       /\ \/ readBuffer.position = filePosition + n
                          \/ readBuffer.position = 0 /\ filePosition + n = fileLength
           /\ readBuffer.samples \in Seq(Samples)
           /\ Len(readBuffer.samples) \in 1..Block
           /\ readBuffer.position \in 0..fileLength
<1>1. Block \in Nat \ {0} /\ fileLength \in Nat /\ filePosition \in 0..fileLength
  BY Constants DEF BufferTypes
<1>2. n \in 0..Block /\ n \in 0..fileLength - filePosition
      /\ (n = 0 => filePosition = fileLength) /\ (n < Block => filePosition + n = fileLength)
  BY <1>1 DEF Smaller
<1>3. /\ readBuffer.samples = IF n = 0 THEN [i \in 1..Block |-> Silence]
                              ELSE [i \in 1..n |-> filePosition + i]
      /\ readBuffer.position = IF n < Block THEN 0 ELSE filePosition + n
  BY DEF readBuffer
<1>4. CASE n = 0
  <2>1. readBuffer.samples = [i \in 1..Block |-> Silence] /\ readBuffer.position = 0
    BY <1>1, <1>3, <1>4
  <2>2. [i \in 1..Block |-> Silence] \in [1..Block -> Samples] BY DEF Samples
  <2>3. readBuffer.samples \in Seq(Samples) /\ Len(readBuffer.samples) = Block
    BY <1>1, <2>1, <2>2
  <2>4. QED BY <1>1, <1>2, <1>4, <2>1, <2>3
<1>5. CASE n # 0
  <2>1. readBuffer.samples = [i \in 1..n |-> filePosition + i] BY <1>3, <1>5
  <2>2. ASSUME NEW i \in 1..n PROVE filePosition + i \in Samples
    <3>1. filePosition + i \in 1..fileLength BY <1>1, <1>2
    <3>2. fileLength \in FileLengths BY DEF BufferTypes
    <3>3. QED BY <3>1, <3>2 DEF Samples
  <2>3. [i \in 1..n |-> filePosition + i] \in [1..n -> Samples] BY <2>2
  <2>4. readBuffer.samples \in Seq(Samples) /\ Len(readBuffer.samples) = n
    <3>1. readBuffer.samples \in [1..n -> Samples] BY <2>1, <2>3
    <3>2. n \in Nat BY <1>1, <1>2
    <3>3. QED BY <3>1, <3>2
  <2>5. \/ readBuffer.position = filePosition + n
        \/ readBuffer.position = 0 /\ filePosition + n = fileLength
    BY <1>2, <1>3
  <2>6. QED BY <1>1, <1>2, <1>5, <2>1, <2>4, <2>5
<1>6. QED BY <1>4, <1>5

LEMMA PutsIs ==
    ASSUME Buffers, ReaderPuts
    PROVE  /\ I_Buffer' \in Seq(Samples) /\ Len(I_Buffer') <= RingSize
           /\ filePosition' \in 0..fileLength /\ filePosition' = readBuffer.position
           /\ ~Closing => I_Buffer' = I_Buffer \o readBuffer.samples
<1> DEFINE b == readBuffer.samples
           k == Smaller(RingSize - Len(I_Buffer), Len(b))
<1>1. /\ b \in Seq(Samples) /\ Len(b) \in 1..Block /\ readBuffer.position \in 0..fileLength
  BY BlockRead DEF Buffers
<1>2. I_Buffer' = I_Buffer \o SubSeq(b, 1, k) /\ filePosition' = readBuffer.position
  BY Zenon DEF ReaderPuts
<1>3. /\ I_Buffer \in Seq(Samples) /\ Len(I_Buffer) <= RingSize /\ Len(I_Buffer) \in Nat
      /\ RingSize \in Nat /\ Block \in Nat
  BY Constants DEF Buffers, BufferTypes
<1> HIDE DEF b
<1>4. k \in 0..Len(b) /\ Len(I_Buffer) + k <= RingSize BY <1>1, <1>3 DEF Smaller
<1>5. ~Closing => k = Len(b)
  BY <1>1, <1>3, Constants DEF Buffers, RoomForABlock, HasRoom, ReaderPuts, Smaller
<1> HIDE DEF k
<1>6. SubSeq(b, 1, k) \in Seq(Samples) /\ Len(SubSeq(b, 1, k)) = k BY <1>1, <1>4, FrontAndRest
<1>7. I_Buffer' \in Seq(Samples) /\ Len(I_Buffer') = Len(I_Buffer) + k
  BY <1>2, <1>3, <1>6, ConcatProperties
<1>8. ~Closing => SubSeq(b, 1, k) = b BY <1>1, <1>5, SubSeqFull
<1>9. QED BY <1>1, <1>2, <1>3, <1>4, <1>7, <1>8 DEF b

LEMMA GetsIs ==
    ASSUME Threads, Buffers, getSamples
    PROVE  /\ ~Closing /\ dataBuffer = <<>>
           /\ I_Buffer' \in Seq(Samples) /\ Len(I_Buffer') <= Len(I_Buffer)
           /\ dataBuffer' \in Seq(Samples) /\ Len(dataBuffer') <= Buffer
           /\ dataBuffer' \o I_Buffer' = I_Buffer
<1>1. ~Closing BY DEF Threads, ProcessorInTime, getSamples
<1>2. dataBuffer = <<>> BY DEF Buffers, NothingKept, getSamples
<1>3. I_Buffer \in Seq(Samples) /\ Buffer \in Nat \ {0} BY Constants DEF Buffers, BufferTypes
<1>4. Buffer \in 0..Len(I_Buffer) BY <1>3 DEF getSamples, SamplesAvailable
<1>5. /\ SubSeq(I_Buffer, 1, Buffer) \in Seq(Samples) /\ Len(SubSeq(I_Buffer, 1, Buffer)) = Buffer
      /\ From(I_Buffer, Buffer) \in Seq(Samples)
      /\ Len(From(I_Buffer, Buffer)) = Len(I_Buffer) - Buffer
      /\ SubSeq(I_Buffer, 1, Buffer) \o From(I_Buffer, Buffer) = I_Buffer
  BY <1>3, <1>4, FrontAndRest
<1>6. dataBuffer' = SubSeq(I_Buffer, 1, Buffer) /\ I_Buffer' = From(I_Buffer, Buffer)
  BY Zenon DEF getSamples
<1>7. Len(I_Buffer) - Buffer <= Len(I_Buffer) BY <1>3, <1>4
<1>8. QED BY <1>1, <1>2, <1>3, <1>5, <1>6, <1>7

LEMMA ChannelsOf ==
    ASSUME NEW x \in Samples
    PROVE  Channels(x) \in Seq(Values) /\ Len(Channels(x)) = 2
BY DEF Channels, Values

LEMMA SendIs ==
    ASSUME Threads, Buffers, sendSampletoOutput
    PROVE  /\ ~Closing
           /\ dataBuffer = <<Head(dataBuffer)>> \o dataBuffer' /\ Head(dataBuffer) \in Samples
           /\ dataBuffer' \in Seq(Samples) /\ Len(dataBuffer') <= Buffer
           /\ O_Buffer' \in Seq(Values) /\ Len(O_Buffer') <= 2 * SinkSize /\ Len(O_Buffer') % 2 = 0
           /\ \/ O_Buffer' = O_Buffer \o Channels(Head(dataBuffer))
              \/ O_Buffer' = O_Buffer /\ Len(O_Buffer) = 2 * SinkSize
<1>1. ~Closing BY DEF Threads, ProcessorInTime, sendSampletoOutput
<1>2. dataBuffer \in Seq(Samples) /\ Len(dataBuffer) <= Buffer /\ Buffer \in Nat
      /\ dataBuffer # <<>> /\ dataBuffer' = Tail(dataBuffer)
  BY Constants DEF Buffers, BufferTypes, sendSampletoOutput
<1>3. /\ Head(dataBuffer) \in Samples /\ Tail(dataBuffer) \in Seq(Samples)
      /\ Len(Tail(dataBuffer)) = Len(dataBuffer) - 1
      /\ dataBuffer = <<Head(dataBuffer)>> \o Tail(dataBuffer)
  BY <1>2, HeadAndTail
<1>4. Len(Tail(dataBuffer)) <= Buffer BY <1>2, <1>3
<1>5. /\ O_Buffer \in Seq(Values) /\ Len(O_Buffer) \in Nat /\ Len(O_Buffer) <= 2 * SinkSize
      /\ Len(O_Buffer) % 2 = 0 /\ SinkSize \in Nat
  BY Constants DEF Buffers, BufferTypes, WholeFrames
<1>6. O_Buffer' = IF 2 > 2 * SinkSize - Len(O_Buffer) THEN O_Buffer
                  ELSE O_Buffer \o Channels(Head(dataBuffer))
  BY Zenon DEF sendSampletoOutput, putSamples
<1>7. /\ O_Buffer \o Channels(Head(dataBuffer)) \in Seq(Values)
      /\ Len(O_Buffer \o Channels(Head(dataBuffer))) = Len(O_Buffer) + 2
  <2>1. Channels(Head(dataBuffer)) \in Seq(Values) /\ Len(Channels(Head(dataBuffer))) = 2
    BY <1>3, ChannelsOf
  <2>2. /\ O_Buffer \o Channels(Head(dataBuffer)) \in Seq(Values)
        /\ Len(O_Buffer \o Channels(Head(dataBuffer)))
              = Len(O_Buffer) + Len(Channels(Head(dataBuffer)))
    BY <1>5, <2>1, ConcatProperties
  <2>3. QED BY <2>1, <2>2
<1>8. CASE 2 > 2 * SinkSize - Len(O_Buffer)
  <2>1. O_Buffer' = O_Buffer BY <1>6, <1>8
  <2>2. Len(O_Buffer) = 2 * SinkSize BY <1>5, <1>8
  <2>3. QED BY <1>1, <1>2, <1>3, <1>4, <1>5, <2>1, <2>2
<1>9. CASE ~(2 > 2 * SinkSize - Len(O_Buffer))
  <2>1. O_Buffer' = O_Buffer \o Channels(Head(dataBuffer)) BY <1>6, <1>9
  <2>2. Len(O_Buffer) + 2 <= 2 * SinkSize /\ (Len(O_Buffer) + 2) % 2 = 0 BY <1>5, <1>9
  <2>3. QED BY <1>1, <1>2, <1>3, <1>4, <1>7, <2>1, <2>2
<1>10. QED BY <1>8, <1>9

LEMMA PlaysIs ==
    ASSUME Buffers, CallbackPlays, NEW n, n = Smaller(2 * CallbackSize, Len(O_Buffer))
    PROVE  /\ n \in 0..Len(O_Buffer) /\ n % 2 = 0 /\ O_Buffer' = From(O_Buffer, n)
           /\ O_Buffer' \in Seq(Values) /\ Len(O_Buffer') <= 2 * SinkSize /\ Len(O_Buffer') % 2 = 0
           /\ n = 0 => O_Buffer' = O_Buffer
<1>1. /\ O_Buffer \in Seq(Values) /\ Len(O_Buffer) \in Nat /\ Len(O_Buffer) <= 2 * SinkSize
      /\ Len(O_Buffer) % 2 = 0 /\ SinkSize \in Nat /\ CallbackSize \in Nat \ {0}
  <2>1. SinkSize \in Nat /\ CallbackSize \in Nat \ {0} BY Constants
  <2>2. QED BY <2>1 DEF Buffers, BufferTypes, WholeFrames
<1>2. n \in 0..Len(O_Buffer) /\ n % 2 = 0 /\ (n = 0 => Len(O_Buffer) = 0)
  <2>1. 2 * CallbackSize \in Nat /\ (2 * CallbackSize) % 2 = 0 /\ 2 * CallbackSize # 0 BY <1>1
  <2>2. n = 2 * CallbackSize \/ n = Len(O_Buffer) BY DEF Smaller
  <2>3. n <= Len(O_Buffer) BY <1>1, <2>1 DEF Smaller
  <2>4. QED BY <1>1, <2>1, <2>2, <2>3
<1>3. O_Buffer' = From(O_Buffer, n) BY Zenon DEF CallbackPlays
<1>4. From(O_Buffer, n) \in Seq(Values) /\ Len(From(O_Buffer, n)) = Len(O_Buffer) - n
  BY <1>1, <1>2, FrontAndRest
<1>5. Len(O_Buffer) - n <= 2 * SinkSize /\ (Len(O_Buffer) - n) % 2 = 0 BY <1>1, <1>2
<1>6. n = 0 => From(O_Buffer, n) = <<>> /\ O_Buffer = <<>> BY <1>1, <1>2, <1>4, EmptySeq
<1>7. QED BY <1>2, <1>3, <1>4, <1>5, <1>6

----------------------------------------------------------------------------
(* Who does something to them, and when. *)
handed == <<filePosition, I_Buffer, dataBuffer, O_Buffer>>

LEMMA WhoHands ==
    ASSUME [Next]_vars
    PROVE  /\ UNCHANGED fileLength
           /\ \/ ReaderPuts \/ getSamples \/ sendSampletoOutput \/ CallbackPlays
              \/ UNCHANGED handed
<1> USE DEF handed
<1>1. CASE Reader
  BY <1>1, Zenon DEF Reader, ReaderStarts, ReaderLoops, ReaderHasRoom, ReaderPuts, processor
<1>2. CASE Processor
  BY <1>2, Zenon DEF Processor, ProcessorStarts, getSamples, sendSampletoOutput, BufferDone,
                     ProcessorEnds, reader
<1>3. CASE paCallback_o
  BY <1>3, Zenon DEF paCallback_o, CallbackPlays, CallbackAborts, reader, processor
<1>4. CASE User
  BY <1>4, Zenon DEF User, Pause, Continue, SelectOutput, Quit, reader, processor
<1>5. CASE Handler
  BY <1>5, Zenon DEF Handler, setStart, WrongRate, Paused, selectDevice, ProcessorStopped,
                     ReaderDeleted, SinkDeleted, StreamStops, reader, processor
<1>6. CASE UNCHANGED vars BY <1>6, Zenon DEF vars, reader, processor
<1>7. QED BY <1>1, <1>2, <1>3, <1>4, <1>5, <1>6, Zenon DEF Next, Ended

LEMMA SameTruth ==
    ASSUME NEW G, NEW g, NEW h
    PROVE  ((g \in G) <=> (h \in G)) => (g \in G) = (h \in G)
OBVIOUS

LEMMA TruthOf ==
    ASSUME NEW G, NEW g
    PROVE  (g \in G => (g \in G) = TRUE) /\ (~(g \in G) => (g \in G) = FALSE)
OBVIOUS

LEMMA SameClosing == (Closing' <=> Closing) => Closing' = Closing
BY SameTruth, Zenon DEF Closing

LEMMA WhoCloses ==
    ASSUME Threads, [Next]_vars
    PROVE  \/ Closing' = Closing
           \/ ~Closing /\ Closing' /\ (WrongRate \/ ProcessorStopped) /\ UNCHANGED handed
<1>1. UNCHANGED guiPc => Closing' = Closing BY DEF Closing
<1>2. CASE Reader
  BY <1>1, <1>2, Zenon DEF Reader, ReaderStarts, ReaderLoops, ReaderHasRoom, ReaderPuts, gui
<1>3. CASE Processor
  BY <1>1, <1>3, Zenon DEF Processor, ProcessorStarts, getSamples, sendSampletoOutput, BufferDone,
                           ProcessorEnds, gui
<1>4. CASE paCallback_o
  BY <1>1, <1>4, Zenon DEF paCallback_o, CallbackPlays, CallbackAborts, gui
<1>5. CASE User
  <2>1. ~Closing /\ ~Closing'
    <3>1. CASE Pause BY <3>1, Stoppings DEF Pause, StopThen, Closing
    <3>2. CASE Continue BY <3>2 DEF Continue, Closing
    <3>3. CASE SelectOutput BY <3>3, Stoppings DEF SelectOutput, StopThen, Closing
    <3>4. CASE Quit BY <3>4 DEF Quit, Closing
    <3>5. QED BY <1>5, <3>1, <3>2, <3>3, <3>4 DEF User
  <2>2. QED BY <2>1, SameClosing
<1>6. CASE WrongRate \/ ProcessorStopped
  <2>1. ~Closing /\ Closing' BY <1>6 DEF WrongRate, ProcessorStopped, deleteReader, Closing
  <2>2. UNCHANGED handed BY <1>6, Zenon DEF WrongRate, ProcessorStopped, handed, reader, processor
  <2>3. QED BY <1>6, <2>1, <2>2
<1>7. CASE setStart \/ Paused \/ selectDevice
  <2>1. ~Closing /\ ~Closing' BY <1>7 DEF setStart, Paused, selectDevice, Closing
  <2>2. QED BY <2>1, SameClosing
<1>8. CASE ReaderDeleted \/ SinkDeleted
  <2>1. Closing /\ Closing'
    <3>1. CASE ReaderDeleted BY <3>1, Stoppings DEF ReaderDeleted, StopThen, Closing
    <3>2. CASE SinkDeleted BY <3>2 DEF SinkDeleted, Closing
    <3>3. QED BY <1>8, <3>1, <3>2
  <2>2. QED BY <2>1, SameClosing
<1>9. ASSUME NEW there \in {"paused", "select", "delete sink"}, StreamStops(there)
      PROVE  Closing' = Closing
  <2>1. CASE there = "delete sink"
    <3>1. Closing /\ Closing' BY <1>9, <2>1, Stoppings DEF StreamStops, Closing
    <3>2. QED BY <3>1, SameClosing
  <2>2. CASE there \in {"paused", "select"}
    <3>1. ~Closing /\ ~Closing' BY <1>9, <2>2, Stoppings DEF StreamStops, Closing
    <3>2. QED BY <3>1, SameClosing
  <2>3. QED BY <2>1, <2>2
<1>10. CASE UNCHANGED vars BY <1>1, <1>10, Zenon DEF vars, gui
<1>11. QED
  BY <1>2, <1>3, <1>4, <1>5, <1>6, <1>7, <1>8, <1>9, <1>10, Zenon DEF Next, Handler, Ended

LEMMA RoomKept ==
    ASSUME Threads, Buffers, [Next]_vars
    PROVE  RoomForABlock'
<1> SUFFICES ASSUME readerPc' = "block", ~Closing' PROVE HasRoom'
  BY DEF RoomForABlock
<1>1. ~Closing BY WhoCloses
<1>2. CASE ReaderHasRoom
  BY <1>1, <1>2 DEF ReaderHasRoom, HasRoom, Threads, ReaderToldToEnd
<1>3. CASE getSamples
  <2>1. readerPc = "block" BY <1>3 DEF getSamples
  <2>2. Len(I_Buffer') <= Len(I_Buffer) /\ I_Buffer' \in Seq(Samples) BY <1>3, GetsIs
  <2>3. RingSize - Len(I_Buffer) >= Block + Slack
    BY <1>1, <2>1 DEF Buffers, RoomForABlock, HasRoom
  <2>4. Len(I_Buffer) \in Nat /\ Len(I_Buffer') \in Nat /\ RingSize \in Nat /\ Block + Slack \in Nat
    <3>1. RingSize \in Nat /\ Block + Slack \in Nat BY Constants
    <3>2. QED BY <2>2, <3>1 DEF Buffers, BufferTypes
  <2>5. RingSize - Len(I_Buffer') >= Block + Slack BY <2>2, <2>3, <2>4
  <2>6. QED BY <2>5 DEF HasRoom
<1>4. CASE UNCHANGED <<readerPc, I_Buffer>>
  BY <1>1, <1>4 DEF Buffers, RoomForABlock, HasRoom
<1>5. ReaderStarts \/ ReaderLoops \/ ReaderPuts => readerPc' # "block"
  BY DEF ReaderStarts, ReaderLoops, ReaderPuts
<1>6. Processor => getSamples \/ UNCHANGED <<readerPc, I_Buffer>>
  BY Zenon DEF Processor, ProcessorStarts, sendSampletoOutput, BufferDone, ProcessorEnds, reader
<1>7. paCallback_o \/ User => UNCHANGED <<readerPc, I_Buffer>>
  BY Zenon DEF paCallback_o, CallbackPlays, CallbackAborts, User, Pause, Continue, SelectOutput,
               Quit, reader
<1>8. Handler => UNCHANGED <<readerPc, I_Buffer>>
  BY Zenon DEF Handler, setStart, WrongRate, Paused, selectDevice, ProcessorStopped, ReaderDeleted,
               SinkDeleted, StreamStops, reader
<1>9. UNCHANGED vars => UNCHANGED <<readerPc, I_Buffer>> BY Zenon DEF vars, reader
<1>10. QED
  BY <1>2, <1>3, <1>4, <1>5, <1>6, <1>7, <1>8, <1>9, Zenon DEF Next, Reader, Ended

LEMMA NothingKeptStill ==
    ASSUME Threads, NothingKept, [Next]_vars
    PROVE  NothingKept'
<1> USE DEF NothingKept
<1>1. CASE UNCHANGED dataBuffer /\ (processorPc = "sound" => processorPc' = "sound") BY <1>1
<1>2. CASE getSamples \/ sendSampletoOutput \/ BufferDone
  <2>1. CASE getSamples BY <2>1 DEF getSamples
  <2>2. CASE sendSampletoOutput BY <2>2 DEF sendSampletoOutput
  <2>3. CASE BufferDone BY <2>3 DEF BufferDone
  <2>4. QED BY <1>2, <2>1, <2>2, <2>3
<1>3. CASE ProcessorStarts \/ ProcessorEnds BY <1>3 DEF ProcessorStarts, ProcessorEnds
<1>4. CASE setStart
  <2>1. processorPc = "unstarted" BY <1>4 DEF setStart, Threads, ProcessorInTime
  <2>2. UNCHANGED dataBuffer BY <1>4, Zenon DEF setStart
  <2>3. QED BY <2>1, <2>2
<1>5. Reader => UNCHANGED processor
  BY Zenon DEF Reader, ReaderStarts, ReaderLoops, ReaderHasRoom, ReaderPuts
<1>6. paCallback_o \/ User => UNCHANGED processor
  BY Zenon DEF paCallback_o, CallbackPlays, CallbackAborts, User, Pause, Continue, SelectOutput,
               Quit
<1>7. Handler => setStart \/ UNCHANGED processor
  BY Zenon DEF Handler, WrongRate, Paused, selectDevice, ProcessorStopped, ReaderDeleted,
               SinkDeleted, StreamStops
<1>8. UNCHANGED vars => UNCHANGED processor BY Zenon DEF vars
<1>9. UNCHANGED processor => UNCHANGED dataBuffer /\ UNCHANGED processorPc BY Zenon DEF processor
<1>10. QED
  BY <1>1, <1>2, <1>3, <1>4, <1>5, <1>6, <1>7, <1>8, <1>9, Zenon DEF Next, Processor, Ended

LEMMA BuffersKept ==
    ASSUME Threads, Buffers, [Next]_vars
    PROVE  Buffers'
<1>1. RoomForABlock' BY RoomKept
<1>2. NothingKept' BY NothingKeptStill DEF Buffers
<1>3. UNCHANGED fileLength BY WhoHands
<1>4. BufferTypes' /\ WholeFrames'
  <2>1. CASE ReaderPuts
    <3>1. I_Buffer' \in Seq(Samples) /\ Len(I_Buffer') <= RingSize /\ filePosition' \in 0..fileLength
      BY <2>1, PutsIs
    <3>2. dataBuffer' = dataBuffer /\ O_Buffer' = O_Buffer BY <2>1, Zenon DEF ReaderPuts, processor
    <3>3. QED BY <1>3, <3>1, <3>2, Zenon DEF Buffers, BufferTypes, WholeFrames
  <2>2. CASE getSamples
    <3>1. /\ I_Buffer' \in Seq(Samples) /\ Len(I_Buffer') <= Len(I_Buffer)
          /\ dataBuffer' \in Seq(Samples) /\ Len(dataBuffer') <= Buffer
      BY <2>2, GetsIs
    <3>2. filePosition' = filePosition /\ O_Buffer' = O_Buffer BY <2>2, Zenon DEF getSamples
    <3>3. Len(I_Buffer') <= RingSize
      <4>1. Len(I_Buffer) \in Nat /\ Len(I_Buffer) <= RingSize /\ RingSize \in Nat
        BY Constants DEF Buffers, BufferTypes
      <4>2. QED BY <3>1, <4>1
    <3>4. QED BY <1>3, <3>1, <3>2, <3>3, Zenon DEF Buffers, BufferTypes, WholeFrames
  <2>3. CASE sendSampletoOutput
    <3>1. /\ dataBuffer' \in Seq(Samples) /\ Len(dataBuffer') <= Buffer
          /\ O_Buffer' \in Seq(Values) /\ Len(O_Buffer') <= 2 * SinkSize
          /\ Len(O_Buffer') % 2 = 0
      BY <2>3, SendIs
    <3>2. filePosition' = filePosition /\ I_Buffer' = I_Buffer
      BY <2>3, Zenon DEF sendSampletoOutput, reader
    <3>3. QED BY <1>3, <3>1, <3>2, Zenon DEF Buffers, BufferTypes, WholeFrames
  <2>4. CASE CallbackPlays
    <3>1. /\ O_Buffer' \in Seq(Values) /\ Len(O_Buffer') <= 2 * SinkSize
          /\ Len(O_Buffer') % 2 = 0
      BY <2>4, PlaysIs
    <3>2. filePosition' = filePosition /\ I_Buffer' = I_Buffer /\ dataBuffer' = dataBuffer
      BY <2>4, Zenon DEF CallbackPlays, reader, processor
    <3>3. QED BY <1>3, <3>1, <3>2, Zenon DEF Buffers, BufferTypes, WholeFrames
  <2>5. CASE UNCHANGED handed
    <3>1. /\ filePosition' = filePosition /\ I_Buffer' = I_Buffer /\ dataBuffer' = dataBuffer
          /\ O_Buffer' = O_Buffer
      BY <2>5, Zenon DEF handed
    <3>2. QED BY <1>3, <3>1, Zenon DEF Buffers, BufferTypes, WholeFrames
  <2>6. QED BY <2>1, <2>2, <2>3, <2>4, <2>5, WhoHands
<1>5. QED BY <1>1, <1>2, <1>4, Zenon DEF Buffers

LEMMA InitBuffers == Init => Buffers
<1> SUFFICES ASSUME Init PROVE Buffers
  OBVIOUS
<1>1. /\ fileLength \in FileLengths /\ filePosition = 0 /\ I_Buffer = <<>> /\ dataBuffer = <<>>
      /\ O_Buffer = <<>> /\ readerPc = "starting"
  BY Zenon DEF Init
<1>2. filePosition \in 0..fileLength BY <1>1, Constants
<1>3. /\ I_Buffer \in Seq(Samples) /\ Len(I_Buffer) = 0 /\ dataBuffer \in Seq(Samples)
      /\ Len(dataBuffer) = 0 /\ O_Buffer \in Seq(Values) /\ Len(O_Buffer) = 0
  BY <1>1
<1>4. 0 <= RingSize /\ 0 <= Buffer /\ 0 <= 2 * SinkSize BY Constants
<1>5. BufferTypes BY <1>1, <1>2, <1>3, <1>4 DEF BufferTypes
<1>6. RoomForABlock BY <1>1 DEF RoomForABlock
<1>7. NothingKept BY <1>1 DEF NothingKept
<1>8. WholeFrames BY <1>3 DEF WholeFrames
<1>9. QED BY <1>5, <1>6, <1>7, <1>8 DEF Buffers

----------------------------------------------------------------------------
Inv == Flags /\ Threads /\ ReaderAtRest /\ Buffers

(* All of this holds whatever the threads do, in whichever order: the invariant
   is inductive. *)
THEOREM Invariance == Spec => []Inv
<1>1. Init => Inv BY InitThreads, InitBuffers DEF Inv
<1>2. Inv /\ [Next]_vars => Inv' BY FlagsKept, ThreadsKept, RestKept, BuffersKept DEF Inv
<1>3. QED BY <1>1, <1>2, PTL DEF Spec

(* Whatever is played: the place in the file stays in it, the rings hold no
   more than they have room for, and every thread is where it can be
   (filehulp.cpp:126-202, audiosink.cpp:162-239). *)
THEOREM TypeCorrect == Spec => []TypeOK
<1>1. Inv => TypeOK BY Implied DEF Inv
<1>2. QED BY <1>1, Invariance, PTL

(* While the receiver is paused its stream is stopped, unless an output is
   chosen, and the reader puts one block more at most, wherever it was when it
   was told to pause (radio.cpp:1725-1747, filehulp.cpp:177-187). *)
THEOREM QuietWhilePaused == Spec => []PausedIsQuiet
<1>1. Inv => PausedIsQuiet BY Implied DEF Inv
<1>2. QED BY <1>1, Invariance, PTL

----------------------------------------------------------------------------
(* That all this plays the file: what is under way, and each kind of step. *)
place    == IF Closing THEN 0 ELSE filePosition
underway == IF Closing THEN O_Buffer ELSE O_Buffer \o Sound(dataBuffer \o I_Buffer)

LEMMA Underway ==
    ASSUME BufferTypes
    PROVE  /\ dataBuffer \o I_Buffer \in Seq(Samples)
           /\ Sound(dataBuffer \o I_Buffer) \in Seq(Values)
           /\ underway \in Seq(Values)
           /\ ~Closing => Len(underway) = Len(O_Buffer) + Len(Sound(dataBuffer \o I_Buffer))
<1>1. dataBuffer \in Seq(Samples) /\ I_Buffer \in Seq(Samples) /\ O_Buffer \in Seq(Values)
  BY DEF BufferTypes
<1>2. dataBuffer \o I_Buffer \in Seq(Samples) BY <1>1, ConcatProperties
<1>3. Sound(dataBuffer \o I_Buffer) \in Seq(Values) BY <1>2, SoundOfFrames DEF Values
<1>4. /\ O_Buffer \o Sound(dataBuffer \o I_Buffer) \in Seq(Values)
      /\ Len(O_Buffer \o Sound(dataBuffer \o I_Buffer))
            = Len(O_Buffer) + Len(Sound(dataBuffer \o I_Buffer))
  BY <1>1, <1>3, ConcatProperties
<1>5. QED BY <1>1, <1>2, <1>3, <1>4, Zenon DEF underway

LEMMA Stutters ==
    ASSUME UNCHANGED <<fileLength, place, underway>>, Closing' = Closing
    PROVE  UNCHANGED File!vars
BY Zenon DEF File!vars, place, underway

(* A block from the file joins what is under way, or silence does. *)
LEMMA TakesOrPauses ==
    ASSUME Inv, [Next]_vars, ReaderPuts
    PROVE  [File!Next]_File!vars
<1>1. UNCHANGED fileLength /\ Closing' = Closing /\ UNCHANGED <<dataBuffer, O_Buffer>>
  <2>1. UNCHANGED <<guiPc, dataBuffer, O_Buffer>> BY Zenon DEF ReaderPuts, gui, processor
  <2>2. Closing' = Closing BY <2>1, Zenon DEF Closing
  <2>3. QED BY <2>1, <2>2, WhoHands
<1>2. CASE Closing
  <2>1. UNCHANGED <<place, underway>> BY <1>1, <1>2, Zenon DEF place, underway
  <2>2. QED BY <1>1, <2>1, Stutters
<1>3. CASE ~Closing
  <2> DEFINE b == readBuffer.samples
             n == Smaller(Block, fileLength - filePosition)
  <2>1. /\ dataBuffer \in Seq(Samples) /\ I_Buffer \in Seq(Samples) /\ O_Buffer \in Seq(Values)
        /\ BufferTypes
    BY DEF Inv, Buffers, BufferTypes
  <2>2. /\ n \in 0..Block /\ n \in 0..fileLength - filePosition
        /\ n = 0 => /\ b = [i \in 1..Block |-> Silence]
                    /\ readBuffer.position = 0 /\ filePosition = fileLength
        /\ n # 0 => /\ b = [i \in 1..n |-> filePosition + i]
                    /\ \/ readBuffer.position = filePosition + n
                       \/ readBuffer.position = 0 /\ filePosition + n = fileLength
        /\ b \in Seq(Samples) /\ Len(b) \in 1..Block
    BY <2>1, BlockRead
  <2>3. I_Buffer' = I_Buffer \o b /\ filePosition' = readBuffer.position
    BY <1>3, PutsIs DEF Inv
  <2> HIDE DEF b, n
  <2>4. place = filePosition /\ place' = filePosition' /\ ~Closing'
    BY <1>1, <1>3, Zenon DEF place
  <2>5. underway' = underway \o Sound(b)
    <3>1. (dataBuffer \o I_Buffer) \o b = dataBuffer \o (I_Buffer \o b)
      <4>1. b \in Seq(Samples) BY <2>2
      <4>2. QED BY <2>1, <4>1, ConcatAssociative
    <3>2. dataBuffer \o I_Buffer \in Seq(Samples) /\ Sound(dataBuffer \o I_Buffer) \in Seq(Values)
      BY <2>1, Underway
    <3>3. Sound((dataBuffer \o I_Buffer) \o b) = Sound(dataBuffer \o I_Buffer) \o Sound(b)
      BY <2>2, <3>2, SoundConcat
    <3>4. Sound(b) \in Seq(Values) BY <2>2, SoundOfFrames DEF Values
    <3>5. (O_Buffer \o Sound(dataBuffer \o I_Buffer)) \o Sound(b)
             = O_Buffer \o (Sound(dataBuffer \o I_Buffer) \o Sound(b))
      BY <2>1, <3>2, <3>4, ConcatAssociative
    <3>6. underway' = O_Buffer \o Sound(dataBuffer \o (I_Buffer \o b))
      BY <1>1, <2>3, <2>4, Zenon DEF underway
    <3>7. underway = O_Buffer \o Sound(dataBuffer \o I_Buffer) BY <1>3, Zenon DEF underway
    <3>8. QED BY <3>1, <3>3, <3>5, <3>6, <3>7, Zenon
  <2>6. File!Sound(b) = Sound(b) BY Zenon DEF File!Sound, Sound
  <2>7. CASE n = 0
    <3>1. b = File!Repeated(Silence, Block) BY <2>2, <2>7 DEF File!Repeated
    <3>2. place = fileLength /\ place' = 0 BY <2>2, <2>3, <2>4, <2>7
    <3>3. Block \in 1..Len(underway')
      <4>1. underway \in Seq(Values) /\ Sound(b) \in Seq(Values) /\ Len(Sound(b)) = 2 * Len(b)
        BY <2>1, <2>2, Underway, SoundOfFrames DEF Values
      <4>2. Len(underway \o Sound(b)) = Len(underway) + Len(Sound(b)) BY <4>1, ConcatProperties
      <4>3. Len(b) = Block /\ Block \in Nat \ {0} /\ Len(underway) \in Nat
        BY <2>2, <2>7, <4>1, Constants
      <4>4. Len(underway') = Len(underway) + 2 * Block BY <2>5, <4>1, <4>2, <4>3
      <4>5. QED BY <4>3, <4>4
    <3>4. underway' = underway \o File!Sound(File!Repeated(Silence, Block))
      BY <2>5, <2>6, <3>1, Zenon
    <3>5. File!Pause BY <1>1, <1>3, <3>2, <3>3, <3>4, Zenon DEF File!Pause, place, underway
    <3>6. QED BY <3>5, Zenon DEF File!Next
  <2>8. CASE n # 0
    <3>1. b = [i \in 1..n |-> place + i] BY <2>2, <2>4, <2>8
    <3>2. n \in 1..fileLength - place
      <4>1. fileLength - filePosition \in Int
        BY <2>1, Constants DEF BufferTypes
      <4>2. QED BY <2>2, <2>4, <2>8, <4>1
    <3>3. place' \in {place + n} \cup (IF place + n = fileLength THEN {0} ELSE {})
      BY <2>2, <2>3, <2>4, <2>8
    <3>4. underway' = underway \o File!Sound([i \in 1..n |-> place + i])
      BY <2>5, <2>6, <3>1, Zenon
    <3>5. File!Take BY <1>1, <1>3, <3>2, <3>3, <3>4, Zenon DEF File!Take, place, underway
    <3>6. QED BY <3>5, Zenon DEF File!Next
  <2>9. QED BY <2>7, <2>8
<1>4. QED BY <1>2, <1>3

(* A buffer taken from the ring is still under way. *)
LEMMA GettingStutters ==
    ASSUME Inv, [Next]_vars, getSamples
    PROVE  UNCHANGED File!vars
<1>1. UNCHANGED fileLength /\ Closing' = Closing /\ UNCHANGED <<filePosition, O_Buffer>>
  <2>1. UNCHANGED <<guiPc, filePosition, O_Buffer>> BY Zenon DEF getSamples, gui
  <2>2. Closing' = Closing BY <2>1, Zenon DEF Closing
  <2>3. QED BY <2>1, <2>2, WhoHands
<1>2. ~Closing /\ dataBuffer = <<>> /\ dataBuffer' \o I_Buffer' = I_Buffer BY GetsIs DEF Inv
<1>3. dataBuffer \o I_Buffer = I_Buffer
  <2>1. I_Buffer \in Seq(Samples) BY DEF Inv, Buffers, BufferTypes
  <2>2. <<>> \o I_Buffer = I_Buffer BY <2>1, ConcatEmptySeq
  <2>3. QED BY <1>2, <2>2
<1>4. dataBuffer' \o I_Buffer' = dataBuffer \o I_Buffer BY <1>2, <1>3, Zenon
<1>5. UNCHANGED <<place, underway>> BY <1>1, <1>2, <1>4, Zenon DEF place, underway
<1>6. QED BY <1>1, <1>5, Stutters

(* So is a frame of sound put into the sink; or it is lost, and with it what is
   beyond the capacity first. *)
LEMMA SendingOrLosing ==
    ASSUME Inv, [Next]_vars, sendSampletoOutput
    PROVE  [File!Next]_File!vars
<1> DEFINE h == Head(dataBuffer)
           R == Sound(dataBuffer' \o I_Buffer)
           l == <<h, "left">>
           r == <<h, "right">>
<1>1. UNCHANGED fileLength /\ Closing' = Closing /\ UNCHANGED <<filePosition, I_Buffer>>
  <2>1. UNCHANGED <<guiPc, filePosition, I_Buffer>> BY Zenon DEF sendSampletoOutput, gui, reader
  <2>2. Closing' = Closing BY <2>1, Zenon DEF Closing
  <2>3. QED BY <2>1, <2>2, WhoHands
<1>2. /\ ~Closing /\ dataBuffer = <<h>> \o dataBuffer' /\ h \in Samples
      /\ dataBuffer' \in Seq(Samples)
      /\ \/ O_Buffer' = O_Buffer \o Channels(h)
         \/ O_Buffer' = O_Buffer /\ Len(O_Buffer) = 2 * SinkSize
  BY SendIs, Zenon DEF Inv
<1>3. I_Buffer \in Seq(Samples) /\ O_Buffer \in Seq(Values) /\ BufferTypes
  BY DEF Inv, Buffers, BufferTypes
<1> HIDE DEF h
<1>4. dataBuffer' \o I_Buffer \in Seq(Samples) /\ R \in Seq(Values)
  <2>1. dataBuffer' \o I_Buffer \in Seq(Samples) BY <1>2, <1>3, ConcatProperties
  <2>2. QED BY <2>1, SoundOfFrames DEF Values
<1>5. l \in Values /\ r \in Values BY <1>2 DEF Values
<1>6. <<l>> \in Seq(Values) /\ <<r>> \in Seq(Values) BY <1>5
<1>7. Sound(dataBuffer \o I_Buffer) = Channels(h) \o R
  <2>1. <<h>> \in Seq(Samples) BY <1>2
  <2>2. (<<h>> \o dataBuffer') \o I_Buffer = <<h>> \o (dataBuffer' \o I_Buffer)
    BY <1>2, <1>3, <2>1, ConcatAssociative
  <2>3. Sound(<<h>> \o (dataBuffer' \o I_Buffer)) = Sound(<<h>>) \o R
    BY <1>4, <2>1, SoundConcat
  <2>4. Sound(<<h>>) = Channels(h) BY SoundOfOne
  <2>5. dataBuffer \o I_Buffer = <<h>> \o (dataBuffer' \o I_Buffer) BY <1>2, <2>2, Zenon
  <2>6. QED BY <2>3, <2>4, <2>5, Zenon
<1>8. place' = place BY <1>1, Zenon DEF place
<1>9. underway = O_Buffer \o (Channels(h) \o R) /\ underway' = O_Buffer' \o R
  BY <1>1, <1>2, <1>7, Zenon DEF underway
<1> HIDE DEF R, l, r
<1>10. CASE O_Buffer' = O_Buffer \o Channels(h)
  <2>1. Channels(h) \in Seq(Values) BY <1>2, ChannelsOf
  <2>2. (O_Buffer \o Channels(h)) \o R = O_Buffer \o (Channels(h) \o R)
    BY <1>3, <1>4, <2>1, ConcatAssociative
  <2>3. underway' = underway BY <1>9, <1>10, <2>2, Zenon
  <2>4. QED BY <1>1, <1>8, <2>3, Stutters
<1>11. CASE O_Buffer' = O_Buffer /\ Len(O_Buffer) = 2 * SinkSize
  <2>1. Channels(h) \o R = <<l>> \o (<<r>> \o R)
    <3>1. Channels(h) = <<l>> \o <<r>> BY SoundOfOne DEF l, r
    <3>2. (<<l>> \o <<r>>) \o R = <<l>> \o (<<r>> \o R) BY <1>4, <1>6, ConcatAssociative
    <3>3. QED BY <3>1, <3>2, Zenon
  <2>2. <<r>> \o R \in Seq(Values) BY <1>4, <1>6, ConcatProperties
  <2>3. File!RemoveAt(O_Buffer \o (<<l>> \o (<<r>> \o R)), Len(O_Buffer) + 1)
           = O_Buffer \o (<<r>> \o R)
    BY <1>3, <1>5, <2>2, WithoutOne
  <2>4. File!RemoveAt(O_Buffer \o (<<r>> \o R), Len(O_Buffer) + 1) = O_Buffer \o R
    BY <1>3, <1>4, <1>5, WithoutOne
  <2>5. underway = O_Buffer \o (<<l>> \o (<<r>> \o R)) BY <1>9, <2>1, Zenon
  <2>6. underway' = File!RemoveAt(File!RemoveAt(underway, 2 * SinkSize + 1), 2 * SinkSize + 1)
    BY <1>9, <1>11, <2>3, <2>4, <2>5, Zenon
  <2>7. Len(underway) > 2 * SinkSize
    <3>1. <<l>> \o (<<r>> \o R) \in Seq(Values) /\ Len(<<l>> \o (<<r>> \o R)) = 1 + Len(<<r>> \o R)
      <4>1. Len(<<l>>) = 1 OBVIOUS
      <4>2. Len(<<l>> \o (<<r>> \o R)) = Len(<<l>>) + Len(<<r>> \o R)
            /\ <<l>> \o (<<r>> \o R) \in Seq(Values)
        BY <1>6, <2>2, ConcatProperties
      <4>3. QED BY <4>1, <4>2
    <3>2. Len(underway) = Len(O_Buffer) + Len(<<l>> \o (<<r>> \o R))
      BY <1>3, <2>5, <3>1, ConcatProperties
    <3>3. Len(<<r>> \o R) \in Nat BY <2>2
    <3>4. Len(O_Buffer) \in Nat /\ Len(O_Buffer) = 2 * SinkSize BY <1>3, <1>11
    <3>5. QED BY <3>1, <3>2, <3>3, <3>4
  <2>8. File!Lose BY <1>1, <1>8, <2>6, <2>7, Zenon DEF File!Lose, place, underway
  <2>9. QED BY <2>8, Zenon DEF File!Next
<1>12. QED BY <1>2, <1>10, <1>11

(* The callback plays what has been under way longest. *)
LEMMA Playing ==
    ASSUME Inv, [Next]_vars, CallbackPlays
    PROVE  [File!Next]_File!vars
<1> DEFINE n == Smaller(2 * CallbackSize, Len(O_Buffer))
<1>1. UNCHANGED fileLength /\ Closing' = Closing
      /\ UNCHANGED <<filePosition, dataBuffer, I_Buffer>>
  <2>1. UNCHANGED <<guiPc, filePosition, dataBuffer, I_Buffer>>
    BY Zenon DEF CallbackPlays, gui, reader, processor
  <2>2. Closing' = Closing BY <2>1, Zenon DEF Closing
  <2>3. QED BY <2>1, <2>2, WhoHands
<1>2. /\ n \in 0..Len(O_Buffer) /\ n % 2 = 0 /\ O_Buffer' = From(O_Buffer, n)
      /\ n = 0 => O_Buffer' = O_Buffer
  BY PlaysIs DEF Inv
<1> HIDE DEF n
<1>3. O_Buffer \in Seq(Values) /\ BufferTypes BY DEF Inv, Buffers, BufferTypes
<1>4. place' = place BY <1>1, Zenon DEF place
<1>5. CASE n = 0
  <2>1. underway' = underway BY <1>1, <1>2, <1>5, Zenon DEF underway
  <2>2. QED BY <1>1, <1>4, <2>1, Stutters
<1>6. CASE n # 0
  <2>1. underway' = From(underway, n)
    <3>1. CASE Closing BY <1>1, <1>2, <3>1, Zenon DEF underway
    <3>2. CASE ~Closing
      <4>1. Sound(dataBuffer \o I_Buffer) \in Seq(Values) BY <1>3, Underway
      <4>2. From(O_Buffer \o Sound(dataBuffer \o I_Buffer), n)
               = From(O_Buffer, n) \o Sound(dataBuffer \o I_Buffer)
        BY <1>2, <1>3, <4>1, FromConcat
      <4>3. underway = O_Buffer \o Sound(dataBuffer \o I_Buffer) BY <3>2, Zenon DEF underway
      <4>4. underway' = From(O_Buffer, n) \o Sound(dataBuffer \o I_Buffer)
        BY <1>1, <1>2, <3>2, Zenon DEF underway
      <4>5. QED BY <4>2, <4>3, <4>4, Zenon
    <3>3. QED BY <3>1, <3>2
  <2>2. n \in 1..Len(underway)
    <3>1. underway \in Seq(Values) /\ Sound(dataBuffer \o I_Buffer) \in Seq(Values)
          /\ (~Closing => Len(underway) = Len(O_Buffer) + Len(Sound(dataBuffer \o I_Buffer)))
      BY <1>3, Underway
    <3>2. Closing => Len(underway) = Len(O_Buffer) BY Zenon DEF underway
    <3>3. Len(Sound(dataBuffer \o I_Buffer)) \in Nat /\ Len(O_Buffer) \in Nat BY <1>3, <3>1
    <3>4. Len(underway) >= Len(O_Buffer) /\ Len(underway) \in Nat BY <3>1, <3>2, <3>3
    <3>5. QED BY <1>2, <1>6, <3>3, <3>4
  <2>3. underway' = SubSeq(underway, n + 1, Len(underway)) BY <2>1, Zenon DEF From
  <2>4. File!Play BY <1>1, <1>2, <1>4, <2>2, <2>3, Zenon DEF File!Play, place, underway
  <2>5. QED BY <2>4, Zenon DEF File!Next
<1>7. QED BY <1>5, <1>6

(* When the reader is deleted, what is not yet in the sink is forgotten. *)
LEMMA Forgetting ==
    ASSUME Inv, [Next]_vars, ~Closing, Closing', UNCHANGED handed
    PROVE  File!Close
<1>1. fileLength' = fileLength /\ O_Buffer' = O_Buffer BY WhoHands, Zenon DEF handed
<1>2. O_Buffer \in Seq(Values) /\ BufferTypes BY DEF Inv, Buffers, BufferTypes
<1>3. Sound(dataBuffer \o I_Buffer) \in Seq(Values) /\ underway \in Seq(Values)
      /\ Len(underway) = Len(O_Buffer) + Len(Sound(dataBuffer \o I_Buffer))
  BY <1>2, Underway
<1>4. Len(O_Buffer) \in 0..Len(underway)
  <2>1. Len(O_Buffer) \in Nat /\ Len(Sound(dataBuffer \o I_Buffer)) \in Nat BY <1>2, <1>3
  <2>2. QED BY <1>3, <2>1
<1>5. SubSeq(underway, 1, Len(O_Buffer)) = O_Buffer
  <2>1. underway = O_Buffer \o Sound(dataBuffer \o I_Buffer) BY Zenon DEF underway
  <2>2. CASE Len(O_Buffer) = 0
    <3>1. O_Buffer = <<>> BY <1>2, <2>2, EmptySeq
    <3>2. QED BY <2>2, <3>1, SubSeqEmpty
  <2>3. CASE Len(O_Buffer) # 0
    <3>1. 1 \in 1..Len(O_Buffer) /\ Len(O_Buffer) \in 1..Len(O_Buffer) BY <1>2, <2>3
    <3>2. SubSeq(underway, 1, Len(O_Buffer)) = SubSeq(O_Buffer, 1, Len(O_Buffer))
      BY <1>2, <1>3, <2>1, <3>1, SubSeqOfConcat1
    <3>3. QED BY <1>2, <3>2, SubSeqFull
  <2>4. QED BY <2>2, <2>3
<1>6. underway' = SubSeq(underway, 1, Len(O_Buffer)) BY <1>1, <1>5, Zenon DEF underway
<1>7. place' = 0 BY Zenon DEF place
<1>8. Closing' = TRUE BY TruthOf, Zenon DEF Closing
<1>9. QED BY <1>1, <1>4, <1>6, <1>7, <1>8, Zenon DEF File!Close, place, underway

LEMMA StepMaps ==
    ASSUME Inv, [Next]_vars
    PROVE  [File!Next]_File!vars
<1>1. CASE Closing' = Closing /\ UNCHANGED handed
  <2>1. fileLength' = fileLength /\ UNCHANGED <<place, underway>>
    BY <1>1, WhoHands, Zenon DEF handed, place, underway
  <2>2. QED BY <1>1, <2>1, Stutters
<1>2. CASE ~Closing /\ Closing' /\ UNCHANGED handed
  <2>1. File!Close BY <1>2, Forgetting
  <2>2. QED BY <2>1, Zenon DEF File!Next
<1>3. CASE ReaderPuts BY <1>3, TakesOrPauses
<1>4. CASE getSamples BY <1>4, GettingStutters
<1>5. CASE sendSampletoOutput BY <1>5, SendingOrLosing
<1>6. CASE CallbackPlays BY <1>6, Playing
<1>7. QED BY <1>1, <1>2, <1>3, <1>4, <1>5, <1>6, WhoHands, WhoCloses DEF Inv

(* What is heard is the file, frame after frame, left with its right, over and
   over again, and nothing is lost but frames for which the sink has no room:
   reader, ring, processor, sink and callback together are PlayedFile, whatever
   is paused, continued or chosen meanwhile (filehulp.cpp:126-202,
   audiosink.cpp:162-194, 218-239). *)
THEOREM PlaysAnyFile == Spec => PlaysTheFile
<1>1. Init => File!Init
  <2> SUFFICES ASSUME Init PROVE File!Init
    OBVIOUS
  <2>1. ~Closing BY DEF Init, Closing
  <2>2. /\ filePosition = 0 /\ fileLength \in FileLengths
        /\ O_Buffer = <<>> /\ dataBuffer = <<>> /\ I_Buffer = <<>>
    BY Zenon DEF Init
  <2>3. underway = <<>>
    <3>1. <<>> \o <<>> = <<>> /\ Sound(<<>>) = <<>> BY DEF Sound
    <3>2. QED BY <2>1, <2>2, <3>1, Zenon DEF underway
  <2>4. place = 0 BY <2>2, Zenon DEF place
  <2>5. Closing = FALSE BY <2>1, TruthOf, Zenon DEF Closing
  <2>6. QED BY <2>2, <2>3, <2>4, <2>5, Zenon DEF File!Init, place, underway
<1>2. Inv /\ [Next]_vars => [File!Next]_File!vars BY StepMaps
<1>3. QED BY <1>1, <1>2, Invariance, PTL DEF Spec, PlaysTheFile, File!Spec

===============================================================================
