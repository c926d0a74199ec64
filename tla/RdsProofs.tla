------------------------------ MODULE RdsProofs ------------------------------
(***************************************************************************)
(* Proofs about the receiving end of RDS: first the check of one block,    *)
(* then the block synchroniser, by itself and on a channel with a sender,  *)
(* then the group decoder with the display.                                *)
(***************************************************************************)
EXTENDS RdsBlockCheck, RdsReception, RdsGroupDecoder, FiniteSetTheorems, SequenceTheorems,
        TLAPS

(***************************************************************************)
(* RdsBlockCheck, for every payload and every disturbance.  The loop of    *)
(* getSyndrome is linear, so what it finds of a block is what it finds of  *)
(* the disturbance and of the difference of two offset words.  Multiples   *)
(* of the generator leave nothing in the register, and a word of ten bits, *)
(* wherever it lies, leaves nothing only when it is empty.                 *)
(***************************************************************************)
(* What holds for 26, and for k - 1 if it holds for k, holds for 0. *)
LEMMA CountDown ==
    ASSUME NEW S, 26 \in S, \A k \in Int : k \in 1..26 /\ k \in S => k - 1 \in S
    PROVE  \A k \in 0..26 : k \in S
  OBVIOUS

(* The loop of getSyndrome computes what it says. *)
LEMMA RegistersAre ==
    ASSUME NEW block
    PROVE  /\ Registers(block)[26] = {}
           /\ \A k \in 0..25 :
                 Registers(block)[k] = Register(Registers(block)[k + 1], k \in block)
<1> DEFINE E(k) == \E f : /\ f[26] = {}
                          /\ \A j \in k..25 : f[j] = Register(f[j + 1], j \in block)
           S == {k \in 0..26 : E(k)}
<1>1. 26 \in S
  <2>1. [j \in {26} |-> {}][26] = {} OBVIOUS
  <2>2. \A j \in 26..25 : FALSE OBVIOUS
  <2>3. E(26) BY <2>1, <2>2
  <2>4. QED BY <2>3
<1>2. ASSUME NEW k \in 1..26, k \in S PROVE k - 1 \in S
  <2>1. PICK f : /\ f[26] = {}
                 /\ \A j \in k..25 : f[j] = Register(f[j + 1], j \in block)
    BY <1>2
  <2> DEFINE g == [j \in k - 1..26 |-> IF j = k - 1 THEN Register(f[k], k - 1 \in block) ELSE f[j]]
  <2>2. g[26] = {} BY <2>1
  <2>3. ASSUME NEW j \in k - 1..25 PROVE g[j] = Register(g[j + 1], j \in block)
    <3>1. CASE j = k - 1 
      <4>1. g[j + 1] = f[k] /\ j + 1 = k BY <3>1
      <4>2. g[j] = Register(f[k], k - 1 \in block) BY <3>1
      <4>3. QED BY <4>1, <4>2, <3>1
    <3>2. CASE j # k - 1
      <4>1. g[j] = f[j] /\ g[j + 1] = f[j + 1] /\ j \in k..25 BY <3>2
      <4>2. QED BY <4>1, <2>1
    <3>3. QED BY <3>1, <3>2
  <2> HIDE DEF g
  <2>4. E(k - 1) BY <2>2, <2>3
  <2>5. QED BY <2>4
<1> HIDE DEF E
<1>3. \A k \in 0..26 : k \in S
  <2> HIDE DEF S
  <2>1. QED BY <1>1, <1>2, CountDown
<1>4. E(0) BY <1>3
<1>5. PICK f : /\ f[26] = {}
               /\ \A j \in 0..25 : f[j] = Register(f[j + 1], j \in block)
  BY <1>4 DEF E
<1> DEFINE Is(g) == g = [k \in 0..NUM_BITS_PER_BLOCK |->
                        IF k = NUM_BITS_PER_BLOCK THEN {} ELSE Register(g[k + 1], k \in block)]
           h == [k \in 0..26 |-> f[k]]
<1>6. Is(h)
  <2>1. ASSUME NEW k \in 0..26 PROVE h[k] = IF k = 26 THEN {} ELSE Register(h[k + 1], k \in block)
    <3>1. CASE k = 26 BY <3>1, <1>5
    <3>2. CASE k # 26
      <4>1. k \in 0..25 /\ k + 1 \in 0..26 BY <3>2
      <4>2. h[k] = f[k] /\ h[k + 1] = f[k + 1] BY <4>1
      <4>3. QED BY <1>5, <3>2, <4>1, <4>2
    <3>3. QED BY <3>1, <3>2
  <2>2. h = [k \in 0..26 |-> IF k = 26 THEN {} ELSE Register(h[k + 1], k \in block)] BY <2>1
  <2>3. QED BY <2>2 DEF NUM_BITS_PER_BLOCK
<1>7. Registers(block) = CHOOSE g : Is(g) BY DEF Registers
<1> HIDE DEF h
<1>8. Is(Registers(block)) BY <1>6, <1>7
<1>9. QED BY <1>8 DEF NUM_BITS_PER_BLOCK

(* A word bit by bit: the positions of the register, and the operators. *)
Reg == 0..9

LEMMA XorIs == \A u, v, x : x \in Xor(u, v) <=> ~(x \in u <=> x \in v)
  BY DEF Xor

(* A shift moves every bit one position up. *)
LEMMA ShiftIs == \A w \in SUBSET Int : \A x \in Int : x \in Shift(w) <=> x - 1 \in w
<1> SUFFICES ASSUME NEW w \in SUBSET Int, NEW x \in Int PROVE x \in Shift(w) <=> x - 1 \in w
  OBVIOUS
<1>1. ASSUME x - 1 \in w PROVE x \in Shift(w)
  <2>1. x = (x - 1) + 1 OBVIOUS
  <2>2. QED BY <1>1, <2>1 DEF Shift
<1>2. ASSUME x \in Shift(w) PROVE x - 1 \in w
  <2>1. PICK b \in w : x = b + 1 BY <1>2 DEF Shift
  <2>2. b \in Int /\ x - 1 = b BY <2>1
  <2>3. QED BY <2>2
<1>3. QED BY <1>1, <1>2

(* Two registers with the same bits are the same. *)
LEMMA SameBits ==
    ASSUME NEW u \in SUBSET Reg, NEW v \in SUBSET Reg,
           0 \in u <=> 0 \in v, 1 \in u <=> 1 \in v, 2 \in u <=> 2 \in v, 3 \in u <=> 3 \in v,
           4 \in u <=> 4 \in v, 5 \in u <=> 5 \in v, 6 \in u <=> 6 \in v, 7 \in u <=> 7 \in v,
           8 \in u <=> 8 \in v, 9 \in u <=> 9 \in v
    PROVE  u = v
<1>1. ASSUME NEW x \in Reg PROVE x \in u <=> x \in v
  <2>1. x \in {0, 1, 2, 3, 4, 5, 6, 7, 8, 9} BY DEF Reg
  <2>2. QED BY <2>1
<1>2. QED BY <1>1

(* One turn of the loop of getSyndrome, bit by bit: n follows r. *)
Turned(n, r, bit) ==
    /\ 0 \in n <=> ~(9 \in r <=> bit)
    /\ 1 \in n <=> ~(0 \in r <=> bit)
    /\ 2 \in n <=> 1 \in r
    /\ 3 \in n <=> ~(2 \in r <=> ~(9 \in r <=> bit))
    /\ 4 \in n <=> ~(3 \in r <=> ~(9 \in r <=> bit))
    /\ 5 \in n <=> ~(4 \in r <=> 9 \in r)
    /\ 6 \in n <=> 5 \in r
    /\ 7 \in n <=> ~(6 \in r <=> 9 \in r)
    /\ 8 \in n <=> ~(7 \in r <=> ~(9 \in r <=> bit))
    /\ 9 \in n <=> ~(8 \in r <=> bit)

(* This is what a turn does. *)
LEMMA RegisterIs ==
    ASSUME NEW r \in SUBSET Reg, NEW bit \in BOOLEAN
    PROVE  Register(r, bit) \in SUBSET Reg /\ Turned(Register(r, bit), r, bit)
<1> DEFINE s == Shift(r)
           c == IF 9 \in r THEN CRC_POLY ELSE {}
           i == IF bit THEN REMAINDER_POLY ELSE {}
           n == Register(r, bit)
<1>1. \A x \in Int : x \in s <=> x - 1 \in r BY ShiftIs DEF Reg
<1>2. \A x : x \in n <=> ~(~(x \in s <=> x \in c) <=> x \in i)
  <2>1. n = Xor(Xor(s, c), i) BY DEF Register, NUM_BITS_CRC
  <2> HIDE DEF n, s, c, i
  <2>2. QED BY <2>1, XorIs
<1>3. /\ 0 \notin s
      /\ 1 \in s <=> 0 \in r
      /\ 2 \in s <=> 1 \in r
      /\ 3 \in s <=> 2 \in r
      /\ 4 \in s <=> 3 \in r
      /\ 5 \in s <=> 4 \in r
      /\ 6 \in s <=> 5 \in r
      /\ 7 \in s <=> 6 \in r
      /\ 8 \in s <=> 7 \in r
      /\ 9 \in s <=> 8 \in r
      /\ 10 \in s <=> 9 \in r
  <2> HIDE DEF s
  <2>1. -1 \notin r BY DEF Reg
  <2>2. QED BY <1>1, <2>1
<1>4. /\ \A x \in CRC_POLY : x \in c <=> 9 \in r
      /\ \A x : x \notin CRC_POLY => x \notin c
      /\ \A x \in REMAINDER_POLY : x \in i <=> bit
      /\ \A x : x \notin REMAINDER_POLY => x \notin i
  OBVIOUS
<1>5. n \subseteq Reg
  <2>1. s \subseteq 0..10 BY DEF Reg, Shift
  <2>2. c \subseteq 0..10 /\ i \subseteq Reg /\ (10 \in c <=> 9 \in r)
    BY <1>4 DEF CRC_POLY, REMAINDER_POLY, Reg
  <2> HIDE DEF n, s, c, i
  <2>3. 10 \notin n BY <1>2, <1>3, <2>2 DEF Reg
  <2>4. ASSUME NEW x \in n PROVE x \in 0..10
    <3>1. x \in s \/ x \in c \/ x \in i BY <1>2
    <3>2. Reg \subseteq 0..10 BY DEF Reg
    <3>3. QED BY <2>1, <2>2, <3>1, <3>2
  <2>5. QED BY <2>3, <2>4 DEF Reg
<1> HIDE DEF n, s, c, i
<1>6. /\ 0 \in n <=> ~(9 \in r <=> bit)
      /\ 1 \in n <=> ~(0 \in r <=> bit)
      /\ 2 \in n <=> 1 \in r
      /\ 3 \in n <=> ~(2 \in r <=> ~(9 \in r <=> bit))
      /\ 4 \in n <=> ~(3 \in r <=> ~(9 \in r <=> bit))
  BY <1>2, <1>3, <1>4 DEF CRC_POLY, REMAINDER_POLY
<1>7. /\ 5 \in n <=> ~(4 \in r <=> 9 \in r)
      /\ 6 \in n <=> 5 \in r
      /\ 7 \in n <=> ~(6 \in r <=> 9 \in r)
      /\ 8 \in n <=> ~(7 \in r <=> ~(9 \in r <=> bit))
      /\ 9 \in n <=> ~(8 \in r <=> bit)
  BY <1>2, <1>3, <1>4 DEF CRC_POLY, REMAINDER_POLY
<1>8. Turned(n, r, bit) BY <1>6, <1>7 DEF Turned
<1>9. QED BY <1>5, <1>8 DEF n

(* The register has ten bits. *)
LEMMA RegistersTyped ==
    ASSUME NEW block
    PROVE  \A k \in 0..26 : Registers(block)[k] \in SUBSET Reg
<1> DEFINE S == {k \in 0..26 : Registers(block)[k] \in SUBSET Reg}
<1>1. 26 \in S BY RegistersAre
<1>2. ASSUME NEW k \in Int, k \in 1..26, k \in S PROVE k - 1 \in S
  <2>1. k - 1 \in 0..25 /\ (k - 1) + 1 = k BY <1>2
  <2>2. Registers(block)[k - 1] = Register(Registers(block)[k], k - 1 \in block)
    BY <2>1, RegistersAre
  <2>3. Registers(block)[k] \in SUBSET Reg BY <1>2
  <2>4. Registers(block)[k - 1] \in SUBSET Reg
    <3> DEFINE bit == k - 1 \in block
    <3>1. bit \in BOOLEAN OBVIOUS
    <3> HIDE DEF bit
    <3>2. Register(Registers(block)[k], bit) \in SUBSET Reg BY <2>3, <3>1, RegisterIs
    <3>3. QED BY <2>2, <3>2 DEF bit
  <2>5. QED BY <2>1, <2>4
<1> HIDE DEF S
<1>3. \A k \in 0..26 : k \in S BY <1>1, <1>2, CountDown
<1>4. QED BY <1>3 DEF S

(* A turn is linear: the register of a difference is the difference of the
   registers. *)
LEMMA LinearTurn ==
    ASSUME NEW r \in SUBSET Reg, NEW s \in SUBSET Reg, NEW a \in BOOLEAN, NEW b \in BOOLEAN,
           NEW c \in BOOLEAN, c <=> ~(a <=> b)
    PROVE  Register(Xor(r, s), c) = Xor(Register(r, a), Register(s, b))
<1> DEFINE p == Register(r, a)
           q == Register(s, b)
           x == Xor(r, s)
           n == Register(x, c)
           m == Xor(p, q)
<1>1. /\ x \in SUBSET Reg /\ p \in SUBSET Reg /\ q \in SUBSET Reg
      /\ Turned(p, r, a) /\ Turned(q, s, b)
  BY RegisterIs DEF Xor
<1>2. m \in SUBSET Reg BY <1>1 DEF Xor
<1>3. n \in SUBSET Reg /\ Turned(n, x, c) BY <1>1, RegisterIs
<1>4. \A y : /\ y \in x <=> ~(y \in r <=> y \in s)
             /\ y \in m <=> ~(y \in p <=> y \in q)
  BY XorIs
<1> HIDE DEF n, m, p, q, x
<1>5. /\ (0 \in n <=> 0 \in m) /\ (1 \in n <=> 1 \in m) /\ (2 \in n <=> 2 \in m)
      /\ (3 \in n <=> 3 \in m) /\ (4 \in n <=> 4 \in m)
  BY <1>1, <1>3, <1>4 DEF Turned
<1>6. /\ (5 \in n <=> 5 \in m) /\ (6 \in n <=> 6 \in m) /\ (7 \in n <=> 7 \in m)
      /\ (8 \in n <=> 8 \in m) /\ (9 \in n <=> 9 \in m)
  BY <1>1, <1>3, <1>4 DEF Turned
<1>7. n = m BY <1>2, <1>3, <1>5, <1>6, SameBits
<1>8. QED BY <1>7 DEF n, m, p, q, x

(* So is the loop. *)
LEMMA Linear ==
    ASSUME NEW u, NEW v
    PROVE  Registers(Xor(u, v))[0] = Xor(Registers(u)[0], Registers(v)[0])
<1> DEFINE f == Registers(u)
           g == Registers(v)
           h == Registers(Xor(u, v))
           S == {k \in 0..26 : h[k] = Xor(f[k], g[k])}
<1>0. \A k \in 0..26 : f[k] \in SUBSET Reg /\ g[k] \in SUBSET Reg BY RegistersTyped
<1>1. 26 \in S
  <2>1. f[26] = {} /\ g[26] = {} /\ h[26] = {} BY RegistersAre
  <2>2. QED BY <2>1 DEF Xor
<1>2. ASSUME NEW k \in Int, k \in 1..26, k \in S PROVE k - 1 \in S
  <2> DEFINE a == k - 1 \in u
             b == k - 1 \in v
             c == k - 1 \in Xor(u, v)
  <2>1. k - 1 \in 0..25 /\ (k - 1) + 1 = k BY <1>2
  <2>2. /\ f[k - 1] = Register(f[k], a) /\ g[k - 1] = Register(g[k], b)
        /\ h[k - 1] = Register(h[k], c)
    BY <2>1, RegistersAre
  <2>3. a \in BOOLEAN /\ b \in BOOLEAN /\ c \in BOOLEAN /\ (c <=> ~(a <=> b)) BY XorIs
  <2>4. h[k] = Xor(f[k], g[k]) /\ f[k] \in SUBSET Reg /\ g[k] \in SUBSET Reg BY <1>0, <1>2
  <2> HIDE DEF a, b, c, f, g, h
  <2>5. h[k - 1] = Xor(f[k - 1], g[k - 1]) BY <2>2, <2>3, <2>4, LinearTurn
  <2>6. QED BY <2>1, <2>5
<1> HIDE DEF S
<1>3. \A k \in 0..26 : k \in S BY <1>1, <1>2, CountDown
<1>4. QED BY <1>3 DEF S

(* A bit that is not set leaves an empty register empty. *)
LEMMA NothingComesOfNothing == Register({}, FALSE) = {}
<1>1. Shift({}) = {} BY DEF Shift
<1>2. QED BY <1>1 DEF Register, Xor

(* A word one position up takes one turn more. *)
LEMMA Shifted ==
    ASSUME NEW w \in SUBSET (0..24)
    PROVE  Registers(Shift(w))[0] = Register(Registers(w)[0], FALSE)
<1> DEFINE f == Registers(w)
           g == Registers(Shift(w))
           S == {k \in 0..26 : k > 0 => g[k] = f[k - 1]}
<1>1. 26 \in S
  <2>1. f[25] = Register(f[26], 25 \in w) /\ f[26] = {} /\ g[26] = {} BY RegistersAre
  <2>2. (25 \in w) = FALSE OBVIOUS
  <2>3. f[25] = Register({}, FALSE)
    <3>1. f[25] = Register({}, 25 \in w) BY <2>1
    <3>2. QED BY <2>2, <3>1
  <2>4. g[26] = f[25] BY <2>1, <2>3, NothingComesOfNothing
  <2> HIDE DEF f, g
  <2>5. QED BY <2>4
<1>2. ASSUME NEW k \in Int, k \in 1..26, k \in S PROVE k - 1 \in S
  <2>1. CASE k = 1 BY <2>1
  <2>2. CASE k # 1
    <3>1. k - 1 \in 0..25 /\ k - 2 \in 0..25 /\ (k - 1) + 1 = k /\ (k - 2) + 1 = k - 1
          /\ (k - 1) - 1 = k - 2
      BY <1>2, <2>2
    <3>2. /\ g[k - 1] = Register(g[k], k - 1 \in Shift(w))
          /\ f[k - 2] = Register(f[k - 1], k - 2 \in w)
      BY <3>1, RegistersAre
    <3>3. k - 1 \in Shift(w) <=> k - 2 \in w BY <3>1, ShiftIs
    <3>4. g[k] = f[k - 1] BY <1>2
    <3> HIDE DEF f, g
    <3>5. g[k - 1] = f[k - 2] BY <3>2, <3>3, <3>4
    <3>6. QED BY <3>1, <3>5
  <2>3. QED BY <2>1, <2>2
<1> HIDE DEF S
<1>3. \A k \in 0..26 : k \in S BY <1>1, <1>2, CountDown
<1>4. g[1] = f[0] BY <1>3 DEF S
<1>5. g[0] = Register(g[1], 0 \in Shift(w)) BY RegistersAre
<1>6. (0 \in Shift(w)) = FALSE BY DEF Shift
<1>7. g[0] = Register(f[0], 0 \in Shift(w)) BY <1>4, <1>5
<1> HIDE DEF f, g
<1>8. g[0] = Register(f[0], FALSE) BY <1>6, <1>7
<1>9. QED BY <1>8 DEF f, g

(* Until the first bit that is set the register stays empty. *)
LEMMA EmptyUntilSet ==
    ASSUME NEW block, NEW m \in 0..26, \A k \in m..25 : k \notin block
    PROVE  Registers(block)[m] = {}
<1> DEFINE f == Registers(block)
           S == {k \in 0..26 : k >= m => f[k] = {}}
<1>1. 26 \in S BY RegistersAre
<1>2. ASSUME NEW k \in Int, k \in 1..26, k \in S PROVE k - 1 \in S
  <2>1. CASE k - 1 >= m
    <3>1. k - 1 \in m..25 /\ k - 1 \in 0..25 /\ (k - 1) + 1 = k BY <1>2, <2>1
    <3>2. (k - 1 \in block) = FALSE BY <3>1
    <3>3. f[k - 1] = Register(f[k], k - 1 \in block) BY <3>1, RegistersAre
    <3>4. f[k] = {} BY <1>2, <2>1
    <3> HIDE DEF f
    <3>5. f[k - 1] = Register({}, FALSE) BY <3>2, <3>3, <3>4
    <3>6. f[k - 1] = {} BY <3>5, NothingComesOfNothing
    <3>7. QED BY <3>1, <3>6
  <2>2. CASE ~(k - 1 >= m) BY <1>2, <2>2
  <2>3. QED BY <2>1, <2>2
<1> HIDE DEF S
<1>3. \A k \in 0..26 : k \in S BY <1>1, <1>2, CountDown
<1>4. QED BY <1>3 DEF S

(* The turns of the loop, bit by bit. *)
LEMMA Turns ==
    ASSUME NEW block
    PROVE  \A k \in 0..25 : Turned(Registers(block)[k], Registers(block)[k + 1], k \in block)
<1> SUFFICES ASSUME NEW k \in 0..25
             PROVE  Turned(Registers(block)[k], Registers(block)[k + 1], k \in block)
  OBVIOUS
<1> DEFINE f == Registers(block)
           bit == k \in block
<1>1. f[k] = Register(f[k + 1], bit) BY RegistersAre
<1>2. f[k + 1] \in SUBSET Reg /\ bit \in BOOLEAN BY RegistersTyped
<1> HIDE DEF f, bit
<1>3. Turned(f[k], f[k + 1], bit) BY <1>1, <1>2, RegisterIs
<1>4. QED BY <1>3 DEF f, bit

(* The generator itself leaves nothing in the register. *)
LEMMA GeneratorVanishes == Registers(CRC_POLY)[0] = {}
<1> DEFINE f == Registers(CRC_POLY)
           One(k) == k \in CRC_POLY
<1>1. \A k \in 0..26 : f[k] \in SUBSET Reg BY RegistersTyped
<1>2. \A k \in 0..25 : Turned(f[k], f[k + 1], One(k)) BY Turns
<1>3. /\ One(10) /\ ~One(9) /\ One(8) /\ One(7) /\ ~One(6) /\ One(5) /\ One(4) /\ One(3)
      /\ ~One(2) /\ ~One(1) /\ One(0)
  BY DEF CRC_POLY
<1>4. \A k \in 11..25 : k \notin CRC_POLY BY DEF CRC_POLY
<1>5. f[11] = {} BY <1>4, EmptyUntilSet
<1> HIDE DEF f, One
<1>6. f[10] = {0, 1, 3, 4, 8, 9}
  <2>1. Turned(f[10], f[11], One(10)) BY <1>2
  <2>2. f[10] \in SUBSET Reg BY <1>1
  <2>3. QED BY <1>3, <1>5, <2>1, <2>2, SameBits DEF Turned, Reg
<1>7. f[9] = {0, 1, 2, 3, 7, 8, 9}
  <2>1. Turned(f[9], f[10], One(9)) BY <1>2
  <2>2. f[9] \in SUBSET Reg BY <1>1
  <2>3. QED BY <1>3, <1>6, <2>1, <2>2, SameBits DEF Turned, Reg
<1>8. f[8] = {2, 3, 4, 5, 7, 8}
  <2>1. Turned(f[8], f[9], One(8)) BY <1>2
  <2>2. f[8] \in SUBSET Reg BY <1>1
  <2>3. QED BY <1>3, <1>7, <2>1, <2>2, SameBits DEF Turned, Reg
<1>9. f[7] = {0, 1, 5, 6}
  <2>1. Turned(f[7], f[8], One(7)) BY <1>2
  <2>2. f[7] \in SUBSET Reg BY <1>1
  <2>3. QED BY <1>3, <1>8, <2>1, <2>2, SameBits DEF Turned, Reg
<1>10. f[6] = {1, 2, 6, 7}
  <2>1. Turned(f[6], f[7], One(6)) BY <1>2
  <2>2. f[6] \in SUBSET Reg BY <1>1
  <2>3. QED BY <1>3, <1>9, <2>1, <2>2, SameBits DEF Turned, Reg
<1>11. f[5] = {0, 1, 2, 4, 7, 9}
  <2>1. Turned(f[5], f[6], One(5)) BY <1>2
  <2>2. f[5] \in SUBSET Reg BY <1>1
  <2>3. QED BY <1>3, <1>10, <2>1, <2>2, SameBits DEF Turned, Reg
<1>12. f[4] = {2, 3, 7, 8, 9}
  <2>1. Turned(f[4], f[5], One(4)) BY <1>2
  <2>2. f[4] \in SUBSET Reg BY <1>1
  <2>3. QED BY <1>3, <1>11, <2>1, <2>2, SameBits DEF Turned, Reg
<1>13. f[3] = {1, 3, 4, 5, 7, 8}
  <2>1. Turned(f[3], f[4], One(3)) BY <1>2
  <2>2. f[3] \in SUBSET Reg BY <1>1
  <2>3. QED BY <1>3, <1>12, <2>1, <2>2, SameBits DEF Turned, Reg
<1>14. f[2] = {2, 4, 5, 6, 8, 9}
  <2>1. Turned(f[2], f[3], One(2)) BY <1>2
  <2>2. f[2] \in SUBSET Reg BY <1>1
  <2>3. QED BY <1>3, <1>13, <2>1, <2>2, SameBits DEF Turned, Reg
<1>15. f[1] = {0, 4, 6, 8, 9}
  <2>1. Turned(f[1], f[2], One(1)) BY <1>2
  <2>2. f[1] \in SUBSET Reg BY <1>1
  <2>3. QED BY <1>3, <1>14, <2>1, <2>2, SameBits DEF Turned, Reg
<1>16. f[0] = {}
  <2>1. Turned(f[0], f[1], One(0)) BY <1>2
  <2>2. f[0] \in SUBSET Reg BY <1>1
  <2>3. QED BY <1>3, <1>15, <2>1, <2>2, SameBits DEF Turned, Reg
<1>17. QED BY <1>16 DEF f

(* A word of ten bits that leaves nothing in the register is empty. *)
LEMMA NothingComesOnlyOfNothing ==
    ASSUME NEW r \in SUBSET Reg, Registers(r)[0] = {}
    PROVE  r = {}
<1> DEFINE f == Registers(r)
<1>1. \A k \in 0..25 : Turned(f[k], f[k + 1], k \in r) BY Turns
<1>2. \A k \in 10..25 : k \notin r BY DEF Reg
<1>3. f[10] = {} BY <1>2, EmptyUntilSet
<1>4. f[0] = {} OBVIOUS
<1> HIDE DEF f
<1>5. /\ Turned(f[9], f[10], 9 \in r) /\ Turned(f[8], f[9], 8 \in r)
      /\ Turned(f[7], f[8], 7 \in r) /\ Turned(f[6], f[7], 6 \in r)
      /\ Turned(f[5], f[6], 5 \in r) /\ Turned(f[4], f[5], 4 \in r)
      /\ Turned(f[3], f[4], 3 \in r) /\ Turned(f[2], f[3], 2 \in r)
      /\ Turned(f[1], f[2], 1 \in r) /\ Turned(f[0], f[1], 0 \in r)
  <2>1. \A k \in {0, 1, 2, 3, 4, 5, 6, 7, 8, 9} : k \in 0..25 OBVIOUS
  <2>2. QED BY <1>1, <2>1
<1>6. /\ 0 \notin r /\ 1 \notin r /\ 2 \notin r /\ 3 \notin r /\ 4 \notin r
      /\ 5 \notin r /\ 6 \notin r /\ 7 \notin r /\ 8 \notin r /\ 9 \notin r
  BY <1>3, <1>4, <1>5, SMTT(60) DEF Turned
<1>7. QED BY <1>6, SameBits DEF Reg

(* The generator, j positions up. *)
Raised(j) == {b + j : b \in CRC_POLY}

(* A multiple of the generator leaves nothing in the register. *)
LEMMA MultiplesVanish == \A j \in 0..15 : Registers(Raised(j))[0] = {}
<1> DEFINE V(j) == Registers(Raised(j))[0] = {}
<1>1. V(0)
  <2>1. Raised(0) = CRC_POLY
    <3>1. \A b \in CRC_POLY : b \in Int BY DEF CRC_POLY
    <3>2. QED BY <3>1 DEF Raised
  <2>2. QED BY <2>1, GeneratorVanishes
<1>2. ASSUME NEW j \in 0..14, V(j) PROVE V(j + 1)
  <2>1. Raised(j) \in SUBSET (0..24)
    <3>1. CRC_POLY \subseteq 0..10 BY DEF CRC_POLY
    <3>2. QED BY <3>1 DEF Raised
  <2>2. Raised(j + 1) = Shift(Raised(j))
    <3>1. ASSUME NEW x PROVE x \in Raised(j + 1) <=> x \in Shift(Raised(j))
      <4>1. \A b \in CRC_POLY : b \in Int BY DEF CRC_POLY
      <4>2. \A b \in CRC_POLY : b + (j + 1) = (b + j) + 1 BY <4>1
      <4>3. QED BY <4>2 DEF Raised, Shift
    <3>2. QED BY <3>1
  <2>3. Registers(Shift(Raised(j)))[0] = Register(Registers(Raised(j))[0], FALSE)
    BY <2>1, Shifted
  <2>4. QED BY <1>2, <2>2, <2>3, NothingComesOfNothing
<1> HIDE DEF V
<1>3. /\ V(0) /\ V(1) /\ V(2) /\ V(3) /\ V(4) /\ V(5) /\ V(6) /\ V(7) /\ V(8)
      /\ V(9) /\ V(10) /\ V(11) /\ V(12) /\ V(13) /\ V(14) /\ V(15)
  <2>1. \A j \in 0..14 : V(j) => V(j + 1) BY <1>2
  <2>2. V(1) /\ V(2) /\ V(3) /\ V(4) /\ V(5) BY <1>1, <2>1
  <2>3. V(6) /\ V(7) /\ V(8) /\ V(9) /\ V(10) BY <2>1, <2>2
  <2>4. V(11) /\ V(12) /\ V(13) /\ V(14) /\ V(15) BY <2>1, <2>3
  <2>5. QED BY <1>1, <2>2, <2>3, <2>4
<1>4. \A j \in 0..15 : V(j) BY <1>3
<1>5. QED BY <1>4 DEF V

(* A step of the division leaves the register as it is. *)
LEMMA DividedKeeps ==
    ASSUME NEW w \in SUBSET (0..25), NEW k \in 10..25
    PROVE  Registers(Divided(w, k))[0] = Registers(w)[0]
<1>1. CASE k \in w
  <2> DEFINE m == {b + k - NUM_BITS_CRC : b \in CRC_POLY}
  <2>1. m = Raised(k - 10)
    <3>1. \A b \in CRC_POLY : b \in Int BY DEF CRC_POLY
    <3>2. \A b \in CRC_POLY : b + k - 10 = b + (k - 10) BY <3>1
    <3>3. QED BY <3>2 DEF Raised, NUM_BITS_CRC
  <2>2. Registers(m)[0] = {}
    <3>1. k - 10 \in 0..15 OBVIOUS
    <3>2. QED BY <2>1, <3>1, MultiplesVanish
  <2>3. Divided(w, k) = Xor(w, m) BY <1>1 DEF Divided
  <2> HIDE DEF m
  <2>4. Registers(Xor(w, m))[0] = Xor(Registers(w)[0], Registers(m)[0]) BY Linear
  <2>5. QED BY <2>2, <2>3, <2>4 DEF Xor
<1>2. CASE k \notin w BY <1>2 DEF Divided
<1>3. QED BY <1>1, <1>2

(* A step of the division clears its bit and leaves the higher ones. *)
LEMMA DividedShorter ==
    ASSUME NEW k \in 10..25, NEW w \in SUBSET (0..k)
    PROVE  Divided(w, k) \in SUBSET (0..k - 1)
<1>1. CASE k \in w
  <2> DEFINE m == {b + k - NUM_BITS_CRC : b \in CRC_POLY}
             d == Divided(w, k)
  <2>1. m \subseteq 0..k
    <3>1. CRC_POLY \subseteq 0..10 BY DEF CRC_POLY
    <3>2. QED BY <3>1 DEF NUM_BITS_CRC
  <2>2. k \in m
    <3>1. 10 \in CRC_POLY /\ k = 10 + k - NUM_BITS_CRC BY DEF CRC_POLY, NUM_BITS_CRC
    <3>2. QED BY <3>1
  <2>3. d = Xor(w, m) BY <1>1 DEF Divided
  <2> HIDE DEF d, m
  <2>4. d \subseteq 0..k /\ k \notin d BY <1>1, <2>1, <2>2, <2>3 DEF Xor
  <2>5. QED BY <2>4 DEF d
<1>2. CASE k \notin w BY <1>2 DEF Divided
<1>3. QED BY <1>1, <1>2

(* The long division is the loop its comment describes. *)
LEMMA DivisionIs ==
    ASSUME NEW word
    PROVE  /\ Division(word)[26] = word
           /\ \A k \in 10..25 : Division(word)[k] = Divided(Division(word)[k + 1], k)
<1> DEFINE E(k) == \E f : /\ f[26] = word
                          /\ \A j \in k..25 : f[j] = Divided(f[j + 1], j)
           S == {k \in 0..26 : k >= 10 => E(k)}
<1>1. 26 \in S
  <2>1. [j \in {26} |-> word][26] = word OBVIOUS
  <2>2. \A j \in 26..25 : FALSE OBVIOUS
  <2>3. E(26) BY <2>1, <2>2
  <2>4. QED BY <2>3
<1>2. ASSUME NEW k \in Int, k \in 1..26, k \in S PROVE k - 1 \in S
  <2>0. CASE k - 1 < 10 BY <1>2, <2>0
  <2>5. CASE k - 1 >= 10
    <3>1. PICK f : /\ f[26] = word
                   /\ \A j \in k..25 : f[j] = Divided(f[j + 1], j)
      BY <1>2, <2>5
    <3> DEFINE g == [j \in k - 1..26 |-> IF j = k - 1 THEN Divided(f[k], k - 1) ELSE f[j]]
    <3>2. g[26] = word BY <1>2, <3>1
    <3>3. ASSUME NEW j \in k - 1..25 PROVE g[j] = Divided(g[j + 1], j)
      <4>1. CASE j = k - 1
        <5>1. g[j + 1] = f[k] /\ j + 1 = k BY <1>2, <4>1
        <5>2. g[j] = Divided(f[k], k - 1) BY <4>1
        <5>3. QED BY <5>1, <5>2, <4>1
      <4>2. CASE j # k - 1
        <5>1. g[j] = f[j] /\ g[j + 1] = f[j + 1] /\ j \in k..25 BY <1>2, <4>2
        <5>2. QED BY <5>1, <3>1
      <4>3. QED BY <4>1, <4>2
    <3> HIDE DEF g
    <3>4. E(k - 1) BY <3>2, <3>3
    <3>5. QED BY <1>2, <3>4
  <2>6. QED BY <1>2, <2>0, <2>5
<1> HIDE DEF E
<1>3. \A k \in 0..26 : k \in S
  <2> HIDE DEF S
  <2>1. QED BY <1>1, <1>2, CountDown
<1>4. E(10) BY <1>3
<1>5. PICK f : /\ f[26] = word
               /\ \A j \in 10..25 : f[j] = Divided(f[j + 1], j)
  BY <1>4 DEF E
<1> DEFINE Is(g) == g = [k \in NUM_BITS_CRC..NUM_BITS_PER_BLOCK |->
                        IF k = NUM_BITS_PER_BLOCK THEN word ELSE Divided(g[k + 1], k)]
           h == [k \in 10..26 |-> f[k]]
<1>6. Is(h)
  <2>1. ASSUME NEW k \in 10..26 PROVE h[k] = IF k = 26 THEN word ELSE Divided(h[k + 1], k)
    <3>1. CASE k = 26 BY <3>1, <1>5
    <3>2. CASE k # 26
      <4>1. k \in 10..25 /\ k + 1 \in 10..26 BY <3>2
      <4>2. h[k] = f[k] /\ h[k + 1] = f[k + 1] BY <4>1
      <4>3. QED BY <1>5, <3>2, <4>1, <4>2
    <3>3. QED BY <3>1, <3>2
  <2>2. h = [k \in 10..26 |-> IF k = 26 THEN word ELSE Divided(h[k + 1], k)] BY <2>1
  <2>3. QED BY <2>2 DEF NUM_BITS_PER_BLOCK, NUM_BITS_CRC
<1>7. Division(word) = CHOOSE g : Is(g) BY DEF Division
<1> HIDE DEF h
<1>8. Is(Division(word)) BY <1>6, <1>7
<1>9. QED BY <1>8 DEF NUM_BITS_PER_BLOCK, NUM_BITS_CRC

(* The remainder has ten bits and the syndrome of the word divided. *)
LEMMA RemainderIs ==
    ASSUME NEW w \in SUBSET (0..25)
    PROVE  /\ LongDivision(w) \in SUBSET Reg
           /\ Registers(LongDivision(w))[0] = Registers(w)[0]
<1> DEFINE d == Division(w)
           S == {k \in 0..26 : k >= 10 => /\ d[k] \in SUBSET (0..k - 1)
                                          /\ Registers(d[k])[0] = Registers(w)[0]}
<1>1. 26 \in S
  <2>1. d[26] = w BY DivisionIs
  <2>2. 0..26 - 1 = 0..25 OBVIOUS
  <2>3. Registers(d[26])[0] = Registers(w)[0] BY <2>1
  <2>4. d[26] \in SUBSET (0..26 - 1) BY <2>1, <2>2
  <2> HIDE DEF d
  <2>5. QED BY <2>3, <2>4
<1>2. ASSUME NEW k \in Int, k \in 1..26, k \in S PROVE k - 1 \in S
  <2>1. CASE k - 1 < 10 BY <1>2, <2>1
  <2>2. CASE k - 1 >= 10
    <3> DEFINE i == k - 1
    <3>1. i \in 10..25 /\ i + 1 = k BY <1>2, <2>2
    <3>2. d[i] = Divided(d[k], i) BY <3>1, DivisionIs
    <3>3. d[k] \in SUBSET (0..i) /\ Registers(d[k])[0] = Registers(w)[0] BY <1>2, <2>2
    <3>4. d[k] \in SUBSET (0..25) BY <3>1, <3>3
    <3> HIDE DEF d, i
    <3>5. d[i] \in SUBSET (0..i - 1) BY <3>1, <3>2, <3>3, DividedShorter
    <3>6. Registers(d[i])[0] = Registers(w)[0] BY <3>1, <3>2, <3>3, <3>4, DividedKeeps
    <3>7. i \in 0..26 BY <3>1
    <3>8. i \in S BY <3>5, <3>6, <3>7
    <3>9. QED BY <3>8 DEF i
  <2>3. QED BY <1>2, <2>1, <2>2
<1> HIDE DEF S
<1>3. \A k \in 0..26 : k \in S BY <1>1, <1>2, CountDown
<1>4. 10 \in S BY <1>3
<1>5. d[10] \in SUBSET (0..9) /\ Registers(d[10])[0] = Registers(w)[0] BY <1>4 DEF S
<1>6. QED BY <1>5 DEF LongDivision, NUM_BITS_CRC, Reg

(* Nothing comes of the empty word. *)
LEMMA EmptyWord == Registers({})[0] = {}
  BY EmptyUntilSet

(* A word is accepted exactly when it is a multiple of the generator. *)
LEMMA CodewordsVanish ==
    ASSUME NEW w \in SUBSET (0..25)
    PROVE  Registers(w)[0] = {} <=> LongDivision(w) = {}
<1>1. /\ LongDivision(w) \in SUBSET Reg
      /\ Registers(LongDivision(w))[0] = Registers(w)[0]
  BY RemainderIs
<1>2. Registers(w)[0] = {} => LongDivision(w) = {} BY <1>1, NothingComesOnlyOfNothing
<1>3. LongDivision(w) = {} => Registers(w)[0] = {} BY <1>1, EmptyWord
<1>4. QED BY <1>2, <1>3

(* A turn without a bit is one to one. *)
LEMMA EmptyFromEmpty ==
    ASSUME NEW r \in SUBSET Reg, Register(r, FALSE) = {}
    PROVE  r = {}
<1>1. Turned(Register(r, FALSE), r, FALSE) BY RegisterIs
<1>2. Turned({}, r, FALSE) BY <1>1
<1>3. QED BY <1>2, SameBits DEF Turned

(* A burst of ten bits leaves something in the register, wherever it lies. *)
LEMMA BurstsLeaveTraces ==
    ASSUME NEW low \in 0..25, NEW w \in SUBSET (low..low + 9), w \subseteq 0..25,
           Registers(w)[0] = {}
    PROVE  w = {}
<1> DEFINE Seen(v) == Registers(v)[0] = {} => v = {}
           At(m) == \A v \in SUBSET (m..m + 9) : v \subseteq 0..25 => Seen(v)
           S == {k \in 0..26 : k >= 1 => At(26 - k)}
<1>1. At(0)
  <2>1. 0..0 + 9 = Reg BY DEF Reg
  <2>2. QED BY <2>1, NothingComesOnlyOfNothing
<1>2. ASSUME NEW m \in 0..24, At(m) PROVE At(m + 1)
  <2> SUFFICES ASSUME NEW v \in SUBSET (m + 1..m + 1 + 9), v \subseteq 0..25,
                      Registers(v)[0] = {}
               PROVE  v = {}
    OBVIOUS
  <2> DEFINE u == {b - 1 : b \in v}
  <2>1. u \in SUBSET (0..24) /\ u \in SUBSET (m..m + 9) OBVIOUS
  <2>2. Shift(u) = v
    <3>1. \A b \in v : b \in Int /\ (b - 1) + 1 = b OBVIOUS
    <3>2. QED BY <3>1 DEF Shift
  <2>3. u = {} => v = {} OBVIOUS
  <2> HIDE DEF u
  <2>4. Register(Registers(u)[0], FALSE) = {} BY <2>1, <2>2, Shifted
  <2>5. Registers(u)[0] \in SUBSET Reg BY RegistersTyped
  <2>6. Registers(u)[0] = {} BY <2>4, <2>5, EmptyFromEmpty
  <2>7. u \subseteq 0..25 BY <2>1
  <2>8. u = {} BY <1>2, <2>1, <2>6, <2>7
  <2>9. QED BY <2>3, <2>8
<1> HIDE DEF At
<1>3. \A m \in 0..24 : At(m) => At(m + 1) BY <1>2
<1>4. At(1) /\ At(2) /\ At(3) /\ At(4) /\ At(5) /\ At(6) BY <1>1, <1>3
<1>5. At(7) /\ At(8) /\ At(9) /\ At(10) /\ At(11) /\ At(12) BY <1>3, <1>4
<1>6. At(13) /\ At(14) /\ At(15) /\ At(16) /\ At(17) /\ At(18) BY <1>3, <1>5
<1>7. At(19) /\ At(20) /\ At(21) /\ At(22) /\ At(23) /\ At(24) /\ At(25) BY <1>3, <1>6
<1>8. At(low) BY <1>1, <1>4, <1>5, <1>6, <1>7
<1>9. QED BY <1>8 DEF At

(* The five offset words are words of ten bits, each different from the others. *)
LEMMA OffsetsDiffer ==
    /\ \A o \in Offsets : getOffset[o] \in SUBSET Reg
    /\ \A o, p \in Offsets : Xor(getOffset[o], getOffset[p]) = {} <=> o = p
<1>1. \A o \in Offsets : getOffset[o] \in SUBSET Reg BY DEF Offsets, getOffset, Reg
<1>2. \A o, p \in Offsets : o # p => getOffset[o] # getOffset[p]
  <2>1. /\ 2 \in getOffset["A"] /\ 3 \in getOffset["A"]
        /\ 2 \notin getOffset["B"] /\ 3 \in getOffset["B"] /\ 7 \in getOffset["B"]
        /\ 2 \notin getOffset["C1"] /\ 3 \in getOffset["C1"] /\ 7 \notin getOffset["C1"]
        /\ 2 \notin getOffset["C2"] /\ 3 \notin getOffset["C2"]
        /\ 2 \in getOffset["D"] /\ 3 \notin getOffset["D"]
    BY DEF getOffset
  <2>2. QED BY <2>1 DEF Offsets
<1>3. \A u, v : Xor(u, v) = {} <=> u = v
  <2>1. SUFFICES ASSUME NEW u, NEW v PROVE Xor(u, v) = {} <=> u = v OBVIOUS
  <2>2. ASSUME Xor(u, v) = {} PROVE u = v
    <3>1. u \ v = {} /\ v \ u = {} BY <2>2 DEF Xor
    <3>2. QED BY <3>1
  <2>3. ASSUME u = v PROVE Xor(u, v) = {} BY <2>3 DEF Xor
  <2>4. QED BY <2>2, <2>3
<1>4. QED BY <1>1, <1>2, <1>3

(* Without its offset word an encoded block is a multiple of the generator. *)
LEMMA EncodedIs ==
    ASSUME NEW p \in SUBSET PayloadBits, NEW o \in Offsets
    PROVE  /\ Encoded(p, o) \in SUBSET (0..25)
           /\ Registers(Encoded(p, o))[0] = Registers(getOffset[o])[0]
<1> DEFINE data == {b + NUM_BITS_CRC : b \in p}
           rest == LongDivision(data)
           word == data \cup rest
<1>1. data \in SUBSET (10..25) BY DEF PayloadBits, NUM_BITS_CRC
<1> HIDE DEF data
<1>2. data \in SUBSET (0..25) BY <1>1
<1>3. rest \in SUBSET Reg /\ Registers(rest)[0] = Registers(data)[0] BY <1>2, RemainderIs
<1> HIDE DEF rest
<1>4. word = Xor(data, rest)
  <2>1. \A x \in rest : x \notin data BY <1>1, <1>3 DEF Reg
  <2>2. QED BY <2>1 DEF Xor
<1>5. Registers(word)[0] = {}
  <2>1. Registers(Xor(data, rest))[0] = Xor(Registers(data)[0], Registers(rest)[0]) BY Linear
  <2>2. Registers(Xor(data, rest))[0] = {} BY <1>3, <2>1 DEF Xor
  <2> HIDE DEF word
  <2>3. QED BY <1>4, <2>2
<1>6. Encoded(p, o) = Xor(word, getOffset[o]) BY DEF Encoded, data, rest
<1>7. word \in SUBSET (0..25) BY <1>2, <1>3 DEF Reg
<1> HIDE DEF word
<1>8. Registers(Encoded(p, o))[0] = Xor({}, Registers(getOffset[o])[0]) BY <1>5, <1>6, Linear
<1>9. getOffset[o] \in SUBSET (0..25) BY OffsetsDiffer DEF Reg
<1>10. QED BY <1>6, <1>7, <1>8, <1>9 DEF Xor

(* What getSyndrome finds of a block is what it finds of the disturbance and of
   the difference of the two offset words, whatever the payload. *)
THEOREM SyndromeIs ==
    ASSUME NEW p \in SUBSET PayloadBits, NEW o \in Offsets, NEW e, NEW x \in Offsets
    PROVE  getSyndrome(Xor(Encoded(p, o), e), getOffset[x])
             = Xor(Registers(e)[0], Registers(Xor(getOffset[o], getOffset[x]))[0])
<1> DEFINE R(w) == Registers(w)[0]
<1>1. getSyndrome(Xor(Encoded(p, o), e), getOffset[x]) = R(Xor(Xor(Encoded(p, o), e), getOffset[x]))
  BY DEF getSyndrome
<1>2. \A u, v : R(Xor(u, v)) = Xor(R(u), R(v)) BY Linear
<1>3. R(Encoded(p, o)) = R(getOffset[o]) BY EncodedIs
<1> HIDE DEF R
<1>4. getSyndrome(Xor(Encoded(p, o), e), getOffset[x])
        = Xor(Xor(R(getOffset[o]), R(e)), R(getOffset[x]))
  BY <1>1, <1>2, <1>3
<1>5. \A a, b, c : Xor(Xor(a, b), c) = Xor(b, Xor(a, c))
  <2>1. SUFFICES ASSUME NEW a, NEW b, NEW c, NEW y
                 PROVE  y \in Xor(Xor(a, b), c) <=> y \in Xor(b, Xor(a, c))
    BY DEF Xor
  <2>2. QED BY XorIs
<1>6. R(Xor(getOffset[o], getOffset[x])) = Xor(R(getOffset[o]), R(getOffset[x])) BY <1>2
<1>7. QED BY <1>4, <1>5, <1>6 DEF R

(* doMeggit leaves the check bits alone, which are the bits received last: this
   is what RdsReception takes of it (CrcBits, Inversion). *)
LEMMA CheckBitsLeft == \A s : Inverted(s) \subseteq NUM_BITS_CRC..NUM_BITS_PER_BLOCK - 1
  BY DEF Inverted, NUM_BITS_CRC, NUM_BITS_PER_BLOCK

(* The invariant of the check: the syndrome is the one of the block that has
   arrived. *)
CheckInv ==
    /\ sent \in [payload : Payloads, offset : Offsets]
    /\ disturbed \in SUBSET BlockBits
    /\ expected \in Offsets
    /\ arrived \in BOOLEAN
    /\ arrived => syndrome = getSyndrome(Xor(Encoded(sent.payload, sent.offset), disturbed),
                                         getOffset[expected])

(* The invariant is inductive: what decodeBlock computes is of the block it was
   given, as it was sent, disturbed and expected. *)
THEOREM CheckInvariance == CheckSpec => []CheckInv
<1>1. CheckInit => CheckInv BY DEF CheckInit, CheckInv, Offsets
<1>2. CheckInv /\ [CheckNext]_checkVars => CheckInv'
  <2> SUFFICES ASSUME CheckInv, [CheckNext]_checkVars PROVE CheckInv' OBVIOUS
  <2>1. ASSUME NEW e \in Disturbances, NEW o \in Offsets, decodeBlock(e, o) PROVE CheckInv'
    <3>1. e \in SUBSET BlockBits BY CheckAssumption
    <3>2. QED BY <2>1, <3>1 DEF CheckInv, decodeBlock
  <2>2. CASE UNCHANGED checkVars BY <2>2 DEF CheckInv, checkVars
  <2>3. QED BY <2>1, <2>2 DEF CheckNext
<1>3. QED BY <1>1, <1>2, PTL DEF CheckSpec

(* The syndrome of a block that has arrived. *)
LEMMA SyndromeOf ==
    ASSUME CheckInv, arrived
    PROVE  syndrome = Xor(Registers(disturbed)[0],
                          Registers(Xor(getOffset[sent.offset], getOffset[expected]))[0])
<1>1. sent.payload \in SUBSET PayloadBits /\ sent.offset \in Offsets /\ expected \in Offsets
  BY CheckAssumption DEF CheckInv
<1>2. QED BY <1>1, SyndromeIs DEF CheckInv

(* A block is accepted exactly when what is left of it after its offset word is
   taken away is a multiple of the generator. *)
THEOREM AcceptanceIsExact == CheckSpec => []AcceptedIffCodeword
<1>1. CheckInv => AcceptedIffCodeword
  <2> SUFFICES ASSUME CheckInv, arrived
               PROVE  syndrome = {} <=>
                        LongDivision(Xor(Xor(Encoded(sent.payload, sent.offset), disturbed),
                                         getOffset[expected])) = {}
    BY DEF AcceptedIffCodeword, Accepted
  <2> DEFINE word == Xor(Xor(Encoded(sent.payload, sent.offset), disturbed), getOffset[expected])
  <2>1. syndrome = Registers(word)[0] BY DEF CheckInv, getSyndrome
  <2>2. word \in SUBSET (0..25)
    <3>1. Encoded(sent.payload, sent.offset) \in SUBSET (0..25)
      BY CheckAssumption, EncodedIs DEF CheckInv
    <3>2. getOffset[expected] \in SUBSET (0..25) BY OffsetsDiffer DEF CheckInv, Reg
    <3>3. disturbed \in SUBSET (0..25) BY DEF CheckInv, BlockBits
    <3>4. QED BY <3>1, <3>2, <3>3 DEF Xor
  <2> HIDE DEF word
  <2>3. syndrome = {} <=> LongDivision(word) = {} BY <2>1, <2>2, CodewordsVanish
  <2>4. QED BY <2>3 DEF word
<1>2. QED BY <1>1, CheckInvariance, PTL

(* An undisturbed block of any payload is accepted in its own place and in no
   other. *)
THEOREM PlacesToldApart == CheckSpec => []OffsetsTellBlocksApart
<1>1. CheckInv => OffsetsTellBlocksApart
  <2> SUFFICES ASSUME CheckInv, arrived, disturbed = {}
               PROVE  syndrome = {} <=> expected = sent.offset
    BY DEF OffsetsTellBlocksApart, Accepted
  <2> DEFINE d == Xor(getOffset[sent.offset], getOffset[expected])
  <2>1. sent.offset \in Offsets /\ expected \in Offsets BY DEF CheckInv
  <2>2. d \in SUBSET Reg /\ (d = {} <=> sent.offset = expected)
    BY <2>1, OffsetsDiffer DEF Xor
  <2>3. syndrome = Registers(d)[0]
    <3>1. syndrome = Xor(Registers(disturbed)[0], Registers(d)[0]) BY SyndromeOf
    <3> HIDE DEF d
    <3>2. QED BY <3>1, EmptyWord DEF Xor
  <2> HIDE DEF d
  <2>4. syndrome = {} <=> d = {} BY <2>2, <2>3, EmptyWord, NothingComesOnlyOfNothing
  <2>5. QED BY <2>2, <2>4
<1>2. QED BY <1>1, CheckInvariance, PTL

(* Whatever the payload, no burst of up to ten bits gets through. *)
THEOREM BurstsAreRejected == CheckSpec => []BurstsRejected
<1>1. CheckInv => BurstsRejected
  <2> SUFFICES ASSUME CheckInv, arrived, Burst(disturbed), expected = sent.offset, syndrome = {}
               PROVE  FALSE
    BY DEF BurstsRejected, Accepted
  <2>1. syndrome = Registers(disturbed)[0]
    <3>1. syndrome = Xor(Registers(disturbed)[0],
                         Registers(Xor(getOffset[sent.offset], getOffset[expected]))[0])
      BY SyndromeOf
    <3>2. Xor(getOffset[sent.offset], getOffset[expected]) = {} BY OffsetsDiffer DEF CheckInv
    <3>3. QED BY <3>1, <3>2, EmptyWord DEF Xor
  <2>2. PICK low \in 0..25 : disturbed \subseteq low..low + 9
    <3>1. PICK low \in BlockBits : disturbed \subseteq low..low + NUM_BITS_CRC - 1 BY DEF Burst
    <3>2. low \in 0..25 /\ low + NUM_BITS_CRC - 1 = low + 9 BY DEF BlockBits, NUM_BITS_CRC
    <3>3. QED BY <3>1, <3>2
  <2>3. disturbed \subseteq 0..25 BY DEF CheckInv, BlockBits
  <2>4. disturbed = {} BY <2>1, <2>2, <2>3, BurstsLeaveTraces
  <2>5. QED BY <2>4 DEF Burst
<1>2. QED BY <1>1, CheckInvariance, PTL

------------------------------------------------------------------------------
(***************************************************************************)
(* RdsGroups and RdsReception, for every block length.  The                *)
(* invariant that carries the former is ChainFollowsPlace: each operation  *)
(* either goes on in the group and lets the chain grow with it, or goes    *)
(* back to block A, where nothing is claimed of what is stored.  The       *)
(* latter implements the former, and adds where the sender is when the     *)
(* blocks stored so far are its own (InStep).                              *)
(***************************************************************************)
Inv == TypeOK /\ ChainFollowsPlace /\ GroupConsecutive

(* The types of the numbers, and of the flags: CodeTypeOK in two parts. *)
Numbers == /\ rdsCurrentBlock \in 1..4 /\ rdsBitsinBlock \in 0..L - 1
           /\ rdsNumofSyncErrors \in 0..4
Flags   == /\ rdsIsSynchronized \in BOOLEAN /\ isTypeBGroup \in BOOLEAN
           /\ mode \in Modes /\ Resync \in BOOLEAN

(* SMT proves the part with the arithmetic, Zenon the Boolean one. *)
LEMMA TwoParts == CodeTypeOK <=> Numbers /\ Flags
  BY DEF CodeTypeOK, Numbers, Flags, Blocks, A, D, Many

(* The invariant holds initially. *)
LEMMA InitInv == Init => Inv
<1> SUFFICES ASSUME Init PROVE Inv
  OBVIOUS
<1>1. CodeTypeOK
  <2>1. Numbers
    BY SyncAssumption DEF Init, CodeInit, Numbers, A
  <2>2. Flags
    BY Zenon DEF Init, CodeInit, Flags
  <2> QED
    BY <2>1, <2>2, TwoParts
<1> QED
  BY <1>1, SyncAssumption
     DEF Init, CodeInit, Inv, TypeOK, ChainFollowsPlace, GroupConsecutive, NoGroup, Searching, A, D

(* What a bit does to the code's variables keeps them in their types, and the
   search for block A at the start of a block. *)
LEMMA BitTypes ==
    ASSUME Inv, NEW ok \in BOOLEAN, NEW typeBit \in BOOLEAN, pushBit(ok, typeBit)
    PROVE  CodeTypeOK'
<1>1. Numbers /\ Flags
  BY TwoParts DEF Inv, TypeOK
<1>2. Numbers'
  <2> USE <1>1, SyncAssumption DEF Numbers, A, B, C, D
  <2>1. CASE Buffering
    BY <2>1 DEF Buffering, TestDue
  <2>2. CASE BlockA(ok)
    <3>1. /\ rdsNumofSyncErrors' = rdsNumofSyncErrors
          /\ \/ rdsCurrentBlock' = B /\ rdsBitsinBlock' = 0
             \/ rdsCurrentBlock' = rdsCurrentBlock /\ rdsBitsinBlock' = rdsBitsinBlock
      BY <2>2, Zenon DEF BlockA
    <3> QED
      BY <3>1
  <2>3. CASE NotSynchronized(ok, typeBit)
    BY <2>3 DEF NotSynchronized, NextBlock, resync, CountSyncError, Many
  <2>4. CASE Synchronized(ok, typeBit)
    <3>1. /\ rdsNumofSyncErrors' = rdsNumofSyncErrors /\ rdsBitsinBlock' = 0
          /\ rdsCurrentBlock' = NextBlock(rdsCurrentBlock) \/ rdsCurrentBlock' = A
      BY <2>4, Zenon DEF Synchronized, resync
    <3> QED
      BY <3>1 DEF NextBlock
  <2> QED
    BY <2>1, <2>2, <2>3, <2>4 DEF pushBit
<1>3. isTypeBGroup' \in BOOLEAN
  BY <1>1, Zenon
     DEF Flags, pushBit, Buffering, BlockA, NotSynchronized, Synchronized, setBlock
<1>4. rdsIsSynchronized' \in BOOLEAN
  BY <1>1, Zenon
     DEF Flags, pushBit, Buffering, BlockA, NotSynchronized, Synchronized, resync
<1>5. mode' \in Modes /\ Resync' \in BOOLEAN
  BY <1>1, Zenon DEF Flags, pushBit
<1>6. Flags'
  BY <1>3, <1>4, <1>5 DEF Flags
<1> QED
  BY <1>2, <1>6, TwoParts, PTL

(* A bit keeps the chain in step with the place, and the group it completes
   is a chain of four. *)
LEMMA BitChain ==
    ASSUME Inv, NEW ok \in BOOLEAN, NEW typeBit \in BOOLEAN, Bit(ok, typeBit)
    PROVE  ChainFollowsPlace' /\ GroupConsecutive' /\ since' \in 0..L /\ chain' \in 0..4
<1> USE SyncAssumption DEF A, B, C, D, NoGroup
<1>1. rdsCurrentBlock \in 1..4 /\ rdsBitsinBlock \in 0..L - 1 /\ since \in 0..L /\ chain \in 0..4
  BY DEF Inv, TypeOK, CodeTypeOK, Blocks
<1>2. ChainFollowsPlace
  BY DEF Inv
<1>3. /\ pushBit(ok, typeBit) /\ chain' = Chain(ok)
      /\ since' = IF Stores(ok) THEN 0 ELSE IF since < L THEN since + 1 ELSE L
      /\ handed' = IF rdsCurrentBlock = 4 /\ rdsCurrentBlock' = 1 /\ rdsIsSynchronized'
                   THEN Chain(ok) ELSE 5
  BY DEF Bit, Completes
<1>4. since' \in 0..L /\ chain' \in 0..4
  BY <1>1, <1>3 DEF Chain
<1>5. CASE Buffering
  <2>1. /\ ~Stores(ok) /\ rdsCurrentBlock' = rdsCurrentBlock
        /\ rdsBitsinBlock' = rdsBitsinBlock + 1 /\ rdsIsSynchronized' = rdsIsSynchronized
        /\ ~Searching
    BY <1>5 DEF Buffering, Stores, TestDue
  <2> QED
    BY <1>1, <1>2, <1>3, <1>4, <2>1
       DEF ChainFollowsPlace, GroupConsecutive, Chain, Searching
<1>6. CASE Searching /\ BlockA(ok)
  <2>1. CASE ok
    <3>1. Stores(ok) /\ rdsCurrentBlock = 1 /\ rdsCurrentBlock' = 2 /\ rdsBitsinBlock' = 0
      BY <1>6, <2>1 DEF BlockA, Stores, TestDue, Searching
    <3> QED
      BY <1>3, <1>4, <3>1 DEF ChainFollowsPlace, GroupConsecutive, Chain, Searching
  <2>2. CASE ~ok
    <3>1. rdsCurrentBlock = 1 /\ rdsCurrentBlock' = 1 /\ rdsBitsinBlock' = rdsBitsinBlock
      BY <1>6, <2>2 DEF BlockA, Searching
    <3> QED
      BY <1>2, <1>3, <1>4, <1>6, <3>1 DEF ChainFollowsPlace, GroupConsecutive, Searching
  <2> QED
    BY <2>1, <2>2
<1>7. CASE ~Searching /\ TestDue /\ ok
  <2>1. /\ Stores(ok) /\ rdsBitsinBlock = L - 1 /\ rdsBitsinBlock' = 0
        /\ rdsCurrentBlock' = NextBlock(rdsCurrentBlock)
        /\ rdsCurrentBlock' = 4 => rdsIsSynchronized'
        /\ rdsCurrentBlock = 4 => rdsIsSynchronized'
    <3>1. NotSynchronized(ok, typeBit) \/ Synchronized(ok, typeBit)
      BY <1>3, <1>7, Zenon DEF pushBit, Buffering, BlockA
    <3>2. rdsBitsinBlock = L - 1 /\ Stores(ok)
      BY <1>1, <1>7 DEF TestDue, Stores
    <3>3. CASE NotSynchronized(ok, typeBit)
      <4>1. /\ rdsCurrentBlock' = NextBlock(rdsCurrentBlock) /\ rdsBitsinBlock' = 0
            /\ ~rdsIsSynchronized /\ (rdsIsSynchronized' <=> rdsCurrentBlock = 3)
        BY <1>7, <3>3 DEF NotSynchronized
      <4> QED
        BY <1>1, <1>2, <3>2, <4>1 DEF NextBlock, ChainFollowsPlace
    <3>4. CASE Synchronized(ok, typeBit)
      <4>1. /\ rdsCurrentBlock' = NextBlock(rdsCurrentBlock) /\ rdsBitsinBlock' = 0
            /\ rdsIsSynchronized'
        BY <1>7, <3>4, Zenon DEF Synchronized
      <4> QED
        BY <3>2, <4>1
    <3> QED
      BY <3>1, <3>3, <3>4
  <2>2. Chain(ok) = rdsCurrentBlock
    BY <1>1, <1>2, <2>1 DEF Chain, ChainFollowsPlace
  <2> QED
    BY <1>1, <1>3, <1>4, <2>1, <2>2
       DEF ChainFollowsPlace, GroupConsecutive, Searching, NextBlock
<1>8. CASE ~Searching /\ TestDue /\ ~ok
  <2>1. resync
    BY <1>3, <1>8, Zenon DEF pushBit, Buffering, BlockA, NotSynchronized, Synchronized
  <2> QED
    BY <1>3, <1>4, <2>1 DEF resync, ChainFollowsPlace, GroupConsecutive, Searching
<1>9. Buffering \/ (Searching /\ BlockA(ok)) \/ (~Searching /\ TestDue)
  BY <1>3, Zenon DEF pushBit, BlockA, NotSynchronized, Synchronized, Searching, TestDue
<1> QED
  BY <1>5, <1>6, <1>7, <1>8, <1>9

(* Every step preserves the invariant. *)
LEMMA StepInv == Inv /\ [Next]_vars => Inv'
<1> SUFFICES ASSUME Inv, [Next]_vars PROVE Inv'
  OBVIOUS
<1>1. ASSUME NEW ok \in BOOLEAN, NEW typeBit \in BOOLEAN, Bit(ok, typeBit)
      PROVE  Inv'
  <2>1. CodeTypeOK'
    BY <1>1, BitTypes DEF Bit
  <2>2. handed' \in 0..5
    BY <1>1, BitChain DEF GroupConsecutive, NoGroup, D
  <2> QED
    BY <1>1, <2>1, <2>2, BitChain DEF Inv, TypeOK, NoGroup, D
<1>2. CASE synchronizeOnBitClk /\ UNCHANGED groups
  <2>1. /\ rdsCurrentBlock' = 1 /\ rdsBitsinBlock' = 0
        /\ rdsNumofSyncErrors' = 0 /\ rdsIsSynchronized' = FALSE /\ Resync' = FALSE
        /\ isTypeBGroup' = isTypeBGroup /\ mode' = mode
        /\ since' = since /\ chain' = chain /\ handed' = handed
    BY <1>2, Zenon DEF synchronizeOnBitClk, resync, groups, A
  <2>2. CodeTypeOK'
    <3>1. Numbers'
      BY <2>1, SyncAssumption DEF Numbers
    <3>2. Flags'
      BY <2>1, TwoParts, Zenon DEF Inv, TypeOK, Flags
    <3> QED
      BY <3>1, <3>2, TwoParts, PTL
  <2> QED
    BY <2>1, <2>2
       DEF Inv, TypeOK, NoGroup, ChainFollowsPlace, GroupConsecutive, A, D, Searching
<1>3. CASE \E m \in Modes : SetMode(m) /\ UNCHANGED groups
  BY <1>3 DEF Inv, TypeOK, CodeTypeOK, ChainFollowsPlace, GroupConsecutive, NoGroup, SetMode,
              syncVars, groups, Searching
<1>4. CASE UNCHANGED vars
  BY <1>4 DEF Inv, TypeOK, CodeTypeOK, ChainFollowsPlace, GroupConsecutive, NoGroup, vars,
              codeVars, syncVars, groups, Searching
<1> QED
  BY <1>1, <1>2, <1>3, <1>4 DEF Next

(* The invariant holds in every reachable state, for every block length: the
   core of all that follows. *)
THEOREM Invariance == Spec => []Inv
  BY InitInv, StepInv, PTL DEF Spec

(* TypeOK: every variable of the synchroniser stays in its range, whatever
   bits arrive. *)
THEOREM TypeCorrect == Spec => []TypeOK
  BY Invariance, PTL DEF Inv

(* ChainFollowsPlace: the blocks stored for the group at hand are those before
   its place in the group, stored as long ago as that says. *)
THEOREM PlaceTellsChain == Spec => []ChainFollowsPlace
  BY Invariance, PTL DEF Inv

(* GroupConsecutive: whatever the tests of the checkwords say, whenever the
   synchronisation is lost and the decoder switched, the four blocks of a
   decoded group were received one after the other. *)
THEOREM GroupsAreConsecutive == Spec => []GroupConsecutive
  BY Invariance, PTL DEF Inv

----------------------------------------------------------------------------
(* What pushBit does, by the outcome of the test: a block goes on, ends, or
   is given up, which for a search means that it goes on. *)
GoesOn ==
    /\ rdsCurrentBlock' = rdsCurrentBlock /\ rdsBitsinBlock' = rdsBitsinBlock + 1
    /\ rdsIsSynchronized' <=> rdsIsSynchronized
    /\ isTypeBGroup' = isTypeBGroup
Ends(typeBit) ==
    /\ rdsCurrentBlock' = NextBlock(rdsCurrentBlock) /\ rdsBitsinBlock' = 0
    /\ rdsIsSynchronized' <=> (rdsIsSynchronized \/ rdsCurrentBlock = C)
    /\ rdsCurrentBlock = B => isTypeBGroup' = typeBit
GivenUp == rdsCurrentBlock' = A /\ rdsBitsinBlock' = 0 /\ ~rdsIsSynchronized'

LEMMA BitMoves ==
    ASSUME Inv, NEW ok \in BOOLEAN, NEW typeBit \in BOOLEAN, pushBit(ok, typeBit)
    PROVE  /\ ~TestDue => GoesOn
           /\ TestDue /\ ok => Ends(typeBit)
           /\ TestDue /\ ~ok => GivenUp
<1>1. rdsCurrentBlock \in 1..4 /\ rdsIsSynchronized \in BOOLEAN /\ ChainFollowsPlace
  BY DEF Inv, TypeOK, CodeTypeOK, Blocks, A, D
<1>2. CASE Buffering
  BY <1>2, Zenon DEF Buffering, GoesOn
<1>3. CASE BlockA(ok)
  <2>1. rdsCurrentBlock = 1 /\ rdsBitsinBlock = 0 /\ ~rdsIsSynchronized /\ TestDue
    BY <1>1, <1>3 DEF BlockA, Searching, TestDue, ChainFollowsPlace, A
  <2>2. CASE ok
    <3>1. rdsCurrentBlock' = 2 /\ rdsBitsinBlock' = 0 /\ rdsIsSynchronized' = rdsIsSynchronized
      BY <1>3, <2>2, Zenon DEF BlockA, B
    <3> QED
      BY <2>1, <2>2, <3>1 DEF Ends, NextBlock, A, B, C, D
  <2>3. CASE ~ok
    <3>1. /\ rdsCurrentBlock' = rdsCurrentBlock /\ rdsBitsinBlock' = rdsBitsinBlock
          /\ rdsIsSynchronized' = rdsIsSynchronized
      BY <1>3, <2>3, Zenon DEF BlockA
    <3> QED
      BY <2>1, <2>3, <3>1 DEF GivenUp, A
  <2> QED
    BY <2>2, <2>3
<1>4. CASE NotSynchronized(ok, typeBit)
  <2>1. ~rdsIsSynchronized /\ TestDue /\ ~Searching
    BY <1>4, Zenon DEF NotSynchronized
  <2>2. CASE ok
    <3>1. /\ rdsCurrentBlock' = NextBlock(rdsCurrentBlock) /\ rdsBitsinBlock' = 0
          /\ rdsIsSynchronized' <=> rdsCurrentBlock = C
          /\ rdsCurrentBlock = B => isTypeBGroup' = typeBit
      BY <1>4, <2>2, Zenon DEF NotSynchronized, setBlock
    <3> QED
      BY <2>1, <2>2, <3>1, Zenon DEF Ends
  <2>3. CASE ~ok
    BY <1>4, <2>1, <2>3, Zenon DEF NotSynchronized, resync, GivenUp
  <2> QED
    BY <2>2, <2>3
<1>5. CASE Synchronized(ok, typeBit)
  <2>1. rdsIsSynchronized /\ TestDue
    BY <1>5, Zenon DEF Synchronized
  <2>2. CASE ok
    <3>1. /\ rdsCurrentBlock' = NextBlock(rdsCurrentBlock) /\ rdsBitsinBlock' = 0
          /\ rdsIsSynchronized'
      BY <1>5, <2>1, <2>2, Zenon DEF Synchronized
    <3>2. rdsCurrentBlock = B => isTypeBGroup' = typeBit
      <4>1. B # D
        BY DEF B, D
      <4> QED
        BY <1>5, <2>2, <4>1, Zenon DEF Synchronized, setBlock
    <3> QED
      BY <2>1, <2>2, <3>1, <3>2, Zenon DEF Ends
  <2>3. CASE ~ok
    BY <1>5, <2>1, <2>3, Zenon DEF Synchronized, resync, GivenUp
  <2> QED
    BY <2>2, <2>3
<1> QED
  BY <1>2, <1>3, <1>4, <1>5, Zenon DEF pushBit

----------------------------------------------------------------------------
(* What a bit that is received does, whichever way it is disturbed. *)
Heard(ok, typeBit, calm) ==
    /\ Hear(ok, typeBit, calm)
    /\ IF calm THEN BitArrives ELSE BitWrong \/ BitAdded \/ BitsLost
    /\ TestDue /\ Whole => (ok <=> IsBlock(rdsCurrentBlock))
    /\ IsBlock(rdsCurrentBlock) => typeBit = airTypeB'

(* The types of what is on the air. *)
AirTypes == phase \in 0..4 * L - 1 /\ airTypeB \in BOOLEAN /\ clean \in 0..4 * L

LEMMA AirStep ==
    ASSUME AirTypes, BitArrives \/ BitWrong \/ BitAdded \/ BitsLost
    PROVE  AirTypes'
<1>1. L \in Nat /\ L >= 2 /\ MaxLost \in 0..4 * L - 1
  BY SyncAssumption, ReceptionAssumption DEF Group
<1>2. ASSUME NEW n \in 1..4 * L, Sent(n) PROVE phase' \in 0..4 * L - 1 /\ airTypeB' \in BOOLEAN
  <2>1. phase \in 0..4 * L - 1 /\ airTypeB \in BOOLEAN
    BY DEF AirTypes
  <2>2. phase' = IF phase + n < 4 * L THEN phase + n ELSE phase + n - 4 * L
    BY <1>2 DEF Sent, Group
  <2>3. airTypeB' \in BOOLEAN
    BY <1>2, <2>1, Zenon DEF Sent
  <2> QED
    BY <1>1, <2>1, <2>2, <2>3
<1>3. Sent(1) => phase' \in 0..4 * L - 1 /\ airTypeB' \in BOOLEAN
  BY <1>1, <1>2
<1>4. BitsLost => phase' \in 0..4 * L - 1 /\ airTypeB' \in BOOLEAN
  BY <1>1, <1>2 DEF BitsLost
<1>5. phase' \in 0..4 * L - 1 /\ airTypeB' \in BOOLEAN
  <2>1. CASE BitAdded
    BY <2>1 DEF BitAdded, AirTypes
  <2> QED
    BY <1>3, <1>4, <2>1, Zenon DEF BitArrives, BitWrong
<1>6. clean' \in 0..4 * L
  <2>1. clean' \in {0, 1, Capped(clean + 1, Group)}
    BY Zenon DEF BitArrives, BitWrong, BitAdded, BitsLost
  <2> QED
    BY <1>1, <2>1 DEF AirTypes, Capped, Group
<1> QED
  BY <1>5, <1>6 DEF AirTypes

LEMMA Received ==
    ASSUME AirTypes, BitReceived
    PROVE  AirTypes' /\ \E ok, typeBit, calm \in BOOLEAN : Heard(ok, typeBit, calm)
<1>1. PICK calm \in BOOLEAN :
         /\ Receive(calm)
         /\ IF calm THEN BitArrives ELSE BitWrong \/ BitAdded \/ BitsLost
  <2>1. CASE BitArrives /\ Receive(TRUE)
    BY <2>1, Zenon
  <2>2. CASE (BitWrong \/ BitAdded \/ BitsLost) /\ Receive(FALSE)
    BY <2>2, Zenon
  <2> QED
    BY <2>1, <2>2 DEF BitReceived
<1>2. AirTypes'
  BY <1>1, AirStep
<1>3. PICK ok \in Verdicts(rdsCurrentBlock), typeBit \in TypeBits(rdsCurrentBlock) :
         Hear(ok, typeBit, calm)
  BY <1>1, Zenon DEF Receive
<1>4. IsBlock(rdsCurrentBlock) \in BOOLEAN
  BY Zenon DEF IsBlock
<1>5. ok \in BOOLEAN /\ (TestDue /\ Whole => (ok <=> IsBlock(rdsCurrentBlock)))
  <2>1. CASE ~TestDue
    BY <2>1, Zenon DEF Verdicts
  <2>2. CASE TestDue /\ Whole
    <3>1. ok = IsBlock(rdsCurrentBlock)
      BY <2>2, Zenon DEF Verdicts
    <3> QED
      BY <1>4, <3>1, Zenon
  <2>3. CASE TestDue /\ ~Whole
    BY <2>3, Zenon DEF Verdicts
  <2> QED
    BY <2>1, <2>2, <2>3
<1>6. typeBit \in BOOLEAN /\ (IsBlock(rdsCurrentBlock) => typeBit = airTypeB')
  <2>1. airTypeB' \in BOOLEAN
    BY <1>2 DEF AirTypes
  <2> QED
    BY <2>1, Zenon DEF TypeBits
<1>7. Heard(ok, typeBit, calm)
  BY <1>1, <1>3, <1>5, <1>6, Zenon DEF Heard
<1> QED
  BY <1>2, <1>5, <1>6, <1>7, Zenon

(* Every step of the reception is one of RdsGroups, or none. *)
LEMMA ReceptionStep ==
    ASSUME AirTypes, [ReceptionNext]_receptionVars
    PROVE  AirTypes' /\ [Next]_vars
<1>1. CASE BitReceived
  <2>1. PICK ok, typeBit, calm \in BOOLEAN : Heard(ok, typeBit, calm)
    BY <1>1, Received
  <2>2. Next
    BY <2>1, Zenon DEF Heard, Hear, Next
  <2> QED
    BY <1>1, <2>2, Received
<1>2. CASE SetClock
  <2>1. Next
    BY <1>2, Zenon DEF SetClock, Next
  <2> QED
    BY <1>2, <2>1 DEF SetClock, AirTypes, airVars
<1>3. CASE Retune
  BY <1>3, SyncAssumption DEF Retune, AirTypes, Group
<1>4. CASE Switch
  <2>1. Next /\ UNCHANGED airVars
    BY <1>4, Zenon DEF Switch, Next
  <2> QED
    BY <2>1 DEF AirTypes, airVars
<1>5. CASE UNCHANGED receptionVars
  BY <1>5 DEF AirTypes, receptionVars, airVars
<1> QED
  BY <1>1, <1>2, <1>3, <1>4, <1>5 DEF ReceptionNext

LEMMA ReceptionStart == ReceptionInit => AirTypes /\ Init
  BY SyncAssumption DEF ReceptionInit, AirTypes

(* The reception implements RdsGroups: a sender and a channel are one way in
   which tests are passed or not, so that all that is proved of RdsGroups
   holds of it. *)
THEOREM ReceptionImplementsGroups == ReceptionSpec => Spec
<1>1. ReceptionSpec => []AirTypes
  BY ReceptionStart, ReceptionStep, PTL DEF ReceptionSpec
<1>2. AirTypes /\ [ReceptionNext]_receptionVars => [Next]_vars
  BY ReceptionStep
<1> QED
  BY <1>1, <1>2, ReceptionStart, PTL DEF ReceptionSpec, Spec

----------------------------------------------------------------------------
(* The types of what the reception is followed with. *)
Followed == /\ soiled \in 0..L - 1 - CrcBits /\ quiet \in 0..Heal
            /\ genuine \subseteq Blocks
            /\ decoded \in [genuine : BOOLEAN, clean : 0..Group]

LEMMA FollowedStart == ReceptionInit => Followed
  BY SyncAssumption, ReceptionAssumption
     DEF ReceptionInit, Followed, Heal, Group, Nothing

LEMMA FollowedStep ==
    ASSUME Inv, AirTypes, AirTypes', Followed, [ReceptionNext]_receptionVars
    PROVE  Followed'
<1>1. L \in Nat /\ L >= 2 /\ CrcBits \in 0..L - 1 /\ Heal \in Nat
  BY SyncAssumption, ReceptionAssumption DEF Heal
<1>2. ASSUME NEW ok \in BOOLEAN, NEW typeBit, NEW calm, Hear(ok, typeBit, calm)
      PROVE  Followed'
  <2>1. soiled' \in 0..L - 1 - CrcBits
    BY <1>1, <1>2 DEF Hear, Inversion, Followed
  <2>2. quiet' \in 0..Heal
    <3>1. quiet' \in {0, Capped(quiet + 1, Heal)}
      BY <1>2, Zenon DEF Hear
    <3> QED
      BY <1>1, <3>1 DEF Capped, Followed
  <2>3. Stored(ok) \subseteq Blocks
    <3>1. rdsCurrentBlock \in Blocks /\ genuine \subseteq Blocks
      BY DEF Inv, TypeOK, CodeTypeOK, Followed
    <3> QED
      BY <3>1, Zenon DEF Stored, Own
  <2>4. genuine' \subseteq Blocks
    BY <1>2, <2>3 DEF Hear
  <2>5. decoded' \in [genuine : BOOLEAN, clean : 0..Group]
    BY <1>1, <1>2 DEF Hear, Nothing, AirTypes, Group
  <2> QED
    BY <2>1, <2>2, <2>4, <2>5 DEF Followed
<1>3. CASE BitReceived
  BY <1>2, <1>3, Received, Zenon DEF Heard
<1>4. CASE SetClock
  BY <1>1, <1>4 DEF SetClock, Followed
<1>5. CASE Retune
  BY <1>1, <1>5 DEF Retune, Followed
<1>6. CASE Switch
  BY <1>6 DEF Switch, Followed
<1>7. CASE UNCHANGED receptionVars
  BY <1>7 DEF receptionVars, Followed
<1> QED
  BY <1>3, <1>4, <1>5, <1>6, <1>7 DEF ReceptionNext

(* ReceptionTypeOK: the types of the whole. *)
THEOREM ReceptionTypeCorrect == ReceptionSpec => []ReceptionTypeOK
<1>1. ReceptionInit => Inv /\ AirTypes /\ Followed
  BY InitInv, ReceptionStart, FollowedStart
<1>2. Inv /\ AirTypes /\ Followed /\ [ReceptionNext]_receptionVars
      => (Inv /\ AirTypes /\ Followed)'
  BY StepInv, ReceptionStep, FollowedStep
<1>3. Inv /\ AirTypes /\ Followed => ReceptionTypeOK
  BY DEF Inv, AirTypes, Followed, ReceptionTypeOK, Group
<1> QED
  BY <1>1, <1>2, <1>3, PTL DEF ReceptionSpec

(* GroupConsecutive, of the reception. *)
THEOREM ReceptionConsecutive == ReceptionSpec => []GroupConsecutive
  BY ReceptionImplementsGroups, GroupsAreConsecutive, PTL

----------------------------------------------------------------------------
(* Where the sender is, when it is in step with the synchroniser. *)
Due == rdsBitsinBlock + (IF rdsCurrentBlock = B THEN L
                         ELSE IF rdsCurrentBlock = C THEN 2 * L
                         ELSE IF rdsCurrentBlock = D THEN 3 * L ELSE 0)

(* As long as the blocks stored for the group at hand are the sender's own,
   nothing disturbed the group; or something did in the current block, which
   is then too short, or not where a block is, and will not be stored as
   another of its own. *)
InStep ==
    rdsCurrentBlock # A /\ 1..rdsCurrentBlock - 1 \subseteq genuine
    => \/ phase = Due /\ clean >= Due
       \/ clean < rdsBitsinBlock
       \/ rdsBitsinBlock > 0 /\ clean = rdsBitsinBlock /\ phase # Due

(* What a bit does to the place of the sender. *)
LEMMA AirMoves ==
    ASSUME AirTypes, BitArrives \/ BitWrong \/ BitAdded \/ BitsLost
    PROVE  \/ /\ phase' = IF phase + 1 < 4 * L THEN phase + 1 ELSE 0
              /\ clean' = IF clean < 4 * L THEN clean + 1 ELSE clean
           \/ clean' = 0
           \/ /\ clean' = 1
              /\ phase + 1 < 4 * L => phase' # phase + 1
              /\ phase + 1 = 4 * L => phase' # 0
<1>1. L \in Nat /\ L >= 2 /\ MaxLost \in 0..4 * L - 1
  BY SyncAssumption, ReceptionAssumption DEF Group
<1>2. CASE BitArrives
  BY <1>1, <1>2 DEF BitArrives, Sent, Capped, AirTypes, Group
<1>3. CASE BitsLost
  <2>1. PICK n \in 1..MaxLost : Sent(n + 1)
    BY <1>3 DEF BitsLost
  <2>2. phase' = IF phase + (n + 1) < 4 * L THEN phase + (n + 1) ELSE phase + (n + 1) - 4 * L
    BY <2>1 DEF Sent, Group
  <2> QED
    BY <1>1, <1>3, <2>1, <2>2 DEF BitsLost, AirTypes
<1> QED
  BY <1>2, <1>3 DEF BitWrong, BitAdded

LEMMA IntactBit ==
    ASSUME Inv, AirTypes, Followed, InStep,
           NEW ok \in BOOLEAN, NEW typeBit \in BOOLEAN, NEW calm \in BOOLEAN,
           Heard(ok, typeBit, calm)
    PROVE  InStep' /\ GroupIntact'
<1> USE SyncAssumption DEF A, B, C, D
<1>1. /\ rdsCurrentBlock \in 1..4 /\ rdsBitsinBlock \in 0..L - 1
      /\ phase \in 0..4 * L - 1 /\ clean \in 0..4 * L
      /\ Searching => rdsBitsinBlock = 0
  BY DEF Inv, TypeOK, CodeTypeOK, Blocks, AirTypes, ChainFollowsPlace
<1>2. \/ /\ phase' = IF phase + 1 < 4 * L THEN phase + 1 ELSE 0
         /\ clean' = IF clean < 4 * L THEN clean + 1 ELSE clean
      \/ clean' = 0
      \/ /\ clean' = 1
         /\ phase + 1 < 4 * L => phase' # phase + 1
         /\ phase + 1 = 4 * L => phase' # 0
  BY AirMoves, Zenon DEF Heard
<1>3. /\ ~TestDue => GoesOn
      /\ TestDue /\ ok => Ends(typeBit)
      /\ TestDue /\ ~ok => GivenUp
  BY BitMoves, Zenon DEF Heard, Hear, Bit
<1>4. /\ genuine' = IF Completes THEN {} ELSE Stored(ok)
      /\ decoded' = IF Completes THEN [genuine |-> Stored(ok) = Blocks, clean |-> clean']
                    ELSE Nothing
  BY DEF Heard, Hear
<1>5. IsBlock(rdsCurrentBlock)
      => clean' >= L /\ phase' = IF rdsCurrentBlock = 4 THEN 0 ELSE rdsCurrentBlock * L
  BY DEF IsBlock, Whole
<1>6. CASE ~TestDue
  <2>1. /\ rdsCurrentBlock' = rdsCurrentBlock /\ rdsBitsinBlock' = rdsBitsinBlock + 1
        /\ rdsBitsinBlock + 1 < L
    BY <1>1, <1>3, <1>6 DEF GoesOn, TestDue
  <2>2. decoded' = Nothing /\ genuine' = genuine
    BY <1>4, <1>6, <2>1 DEF Completes, Stored, Stores
  <2>3. GroupIntact'
    BY <2>2 DEF GroupIntact, Nothing
  <2>4. SUFFICES ASSUME rdsCurrentBlock # 1, 1..rdsCurrentBlock - 1 \subseteq genuine
        PROVE  \/ phase' = Due' /\ clean' >= Due'
               \/ clean' < rdsBitsinBlock'
               \/ rdsBitsinBlock' > 0 /\ clean' = rdsBitsinBlock' /\ phase' # Due'
    BY <2>1, <2>2, <2>3 DEF InStep
  <2>5. \/ phase = Due /\ clean >= Due
        \/ clean < rdsBitsinBlock
        \/ rdsBitsinBlock > 0 /\ clean = rdsBitsinBlock /\ phase # Due
    BY <2>4 DEF InStep
  <2>6. Due' = Due + 1 /\ Due \in Nat /\ Due + 1 < 4 * L
    BY <1>1, <2>1 DEF Due
  <2> QED
    BY <1>1, <1>2, <2>1, <2>5, <2>6
<1>7. CASE TestDue /\ ok
  <2>1. /\ rdsCurrentBlock' = NextBlock(rdsCurrentBlock) /\ rdsBitsinBlock' = 0
        /\ Stored(ok) = Own(rdsCurrentBlock)
    BY <1>3, <1>7 DEF Ends, Stored, Stores
  <2>2. CASE rdsCurrentBlock = 4
    <3>1. InStep'
      BY <2>1, <2>2 DEF InStep, NextBlock
    <3>2. ASSUME Own(4) = Blocks PROVE clean' = 4 * L
      <4>1. IsBlock(4) /\ {1, 2, 3} \subseteq genuine
        BY <3>2 DEF Own, Blocks
      <4>2. rdsBitsinBlock = L - 1
        BY <1>1, <1>7, <2>2 DEF TestDue, Searching
      <4>3. \/ phase = Due /\ clean >= Due
            \/ clean < rdsBitsinBlock
            \/ rdsBitsinBlock > 0 /\ clean = rdsBitsinBlock /\ phase # Due
        <5>1. 1..3 \subseteq genuine
          BY <4>1
        <5> QED
          BY <2>2, <5>1 DEF InStep
      <4>4. Due = 4 * L - 1
        BY <2>2, <4>2 DEF Due
      <4>5. clean' >= L /\ phase' = 0
        BY <1>5, <2>2, <4>1
      <4> QED
        BY <1>1, <1>2, <4>2, <4>3, <4>4, <4>5
    <3>3. GroupIntact'
      BY <1>4, <2>1, <2>2, <3>2 DEF GroupIntact, Nothing, Group
    <3> QED
      BY <3>1, <3>3
  <2>3. CASE rdsCurrentBlock # 4
    <3>1. genuine' = Own(rdsCurrentBlock) /\ decoded' = Nothing
      BY <1>4, <2>1, <2>3 DEF Completes
    <3>2. GroupIntact'
      BY <3>1 DEF GroupIntact, Nothing
    <3>3. rdsCurrentBlock' = rdsCurrentBlock + 1
      BY <2>1, <2>3 DEF NextBlock
    <3>4. SUFFICES ASSUME 1..rdsCurrentBlock \subseteq Own(rdsCurrentBlock)
          PROVE  phase' = Due' /\ clean' >= Due'
      BY <1>1, <3>1, <3>2, <3>3 DEF InStep
    <3>5. IsBlock(rdsCurrentBlock) /\ 1..rdsCurrentBlock - 1 \subseteq genuine
      BY <1>1, <3>4 DEF Own
    <3>6. clean' >= L /\ phase' = rdsCurrentBlock * L /\ Due' = rdsCurrentBlock * L
      BY <1>1, <1>5, <2>1, <2>3, <3>3, <3>5 DEF Due
    <3>7. CASE rdsCurrentBlock = 1
      BY <3>6, <3>7
    <3>8. CASE rdsCurrentBlock # 1
      <4>1. rdsBitsinBlock = L - 1
        BY <1>1, <1>7, <3>8 DEF TestDue, Searching
      <4>2. \/ phase = Due /\ clean >= Due
            \/ clean < rdsBitsinBlock
            \/ rdsBitsinBlock > 0 /\ clean = rdsBitsinBlock /\ phase # Due
        BY <3>5, <3>8 DEF InStep
      <4>3. Due + 1 = rdsCurrentBlock * L /\ Due \in Nat /\ Due + 1 < 4 * L
        BY <1>1, <2>3, <3>8, <4>1 DEF Due
      <4> QED
        BY <1>1, <1>2, <3>6, <4>1, <4>2, <4>3
    <3> QED
      BY <3>7, <3>8
  <2> QED
    BY <2>2, <2>3
<1>8. CASE TestDue /\ ~ok
  <2>1. rdsCurrentBlock' = 1 /\ ~rdsIsSynchronized'
    BY <1>3, <1>8 DEF GivenUp
  <2>2. decoded' = Nothing
    BY <1>4, <2>1 DEF Completes
  <2> QED
    BY <2>1, <2>2 DEF InStep, GroupIntact, Nothing
<1> QED
  BY <1>6, <1>7, <1>8

LEMMA IntactStep ==
    ASSUME Inv, AirTypes, Followed, InStep, GroupIntact, [ReceptionNext]_receptionVars
    PROVE  InStep' /\ GroupIntact'
<1>1. CASE BitReceived
  BY <1>1, Received, IntactBit
<1>2. CASE SetClock
  BY <1>2 DEF SetClock, synchronizeOnBitClk, resync, InStep, GroupIntact
<1>3. CASE Retune
  <2>1. rdsCurrentBlock \in 1..4 /\ rdsCurrentBlock' = rdsCurrentBlock /\ genuine' = {}
    BY <1>3 DEF Retune, vars, codeVars, syncVars, Inv, TypeOK, CodeTypeOK, Blocks, A, D
  <2> QED
    BY <1>3, <2>1 DEF Retune, InStep, GroupIntact, A
<1>4. CASE Switch
  BY <1>4 DEF Switch, SetMode, syncVars, airVars, InStep, Due, GroupIntact
<1>5. CASE UNCHANGED receptionVars
  BY <1>5 DEF receptionVars, vars, codeVars, syncVars, airVars, InStep, Due, GroupIntact
<1> QED
  BY <1>1, <1>2, <1>3, <1>4, <1>5 DEF ReceptionNext

(* GroupIntact: unless a test was passed by accident, a decoded group is one
   group of the sender with nothing wrong, lost or added in it. *)
THEOREM GroupsAreIntact == ReceptionSpec => []GroupIntact
<1>1. ReceptionInit => Inv /\ AirTypes /\ Followed /\ InStep /\ GroupIntact
  BY InitInv, ReceptionStart, FollowedStart
     DEF ReceptionInit, Init, CodeInit, InStep, GroupIntact, Nothing
<1>2. Inv /\ AirTypes /\ Followed /\ InStep /\ GroupIntact /\ [ReceptionNext]_receptionVars
      => (Inv /\ AirTypes /\ Followed /\ InStep /\ GroupIntact)'
  BY StepInv, ReceptionStep, FollowedStep, IntactStep
<1> QED
  BY <1>1, <1>2, PTL DEF ReceptionSpec

----------------------------------------------------------------------------
(* How long the synchroniser may still take.  The bits until the sender ends
   a block A, and those until a window can be whole again. *)
Ahead   == IF phase < L THEN L - phase ELSE 5 * L - phase
Spoilt  == IF soiled >= L - 1 - clean THEN soiled ELSE L - 1 - clean

(* The search finds the next block A, or the one after it; B and C follow. *)
Search  == Ahead + IF Ahead > Spoilt THEN 2 * L ELSE 6 * L
InTime  == quiet + Search <= Heal

(* Out of the search, either the present block began before the disturbances
   ended, or the sender is where the synchroniser expects it. *)
Late    == quiet <= rdsBitsinBlock
Within  == /\ phase = Due /\ clean >= rdsBitsinBlock /\ soiled <= L - 1 - rdsBitsinBlock
           /\ rdsCurrentBlock = C => isTypeBGroup = airTypeB
ToGo    == (IF rdsCurrentBlock = B THEN 2 * L ELSE L) - rdsBitsinBlock

Healing ==
    /\ clean >= quiet \/ clean >= L
    /\ Searching => InTime
    /\ ~Searching => Late \/ Within
    /\ ~Searching /\ ~rdsIsSynchronized => Late \/ quiet + ToGo <= Heal

Ranges == /\ rdsCurrentBlock \in 1..4 /\ rdsBitsinBlock \in 0..L - 1
          /\ rdsCurrentBlock = D => rdsIsSynchronized
          /\ phase \in 0..4 * L - 1 /\ clean \in 0..4 * L
          /\ soiled \in 0..L - 1 - CrcBits /\ quiet \in 0..Heal

LEMMA AllRanges == Inv /\ AirTypes /\ Followed => Ranges
  BY DEF Inv, TypeOK, CodeTypeOK, Blocks, A, D, ChainFollowsPlace, AirTypes, Followed, Ranges

(* A search that starts at most a block after the disturbances. *)
LEMMA FromLate == Ranges /\ quiet <= L /\ (clean >= quiet \/ clean >= L) => InTime
<1> SUFFICES ASSUME Ranges, quiet <= L, clean >= quiet \/ clean >= L PROVE InTime
  OBVIOUS
<1>1. L \in Nat /\ L >= 2 /\ CrcBits \in 0..L - 1 /\ Heal = 8 * L - 1 - CrcBits
  BY SyncAssumption, ReceptionAssumption DEF Heal
<1> QED
  BY <1>1 DEF InTime, Search, Ahead, Spoilt, Ranges

(* One bit more, one to go less. *)
LEMMA OneOn == \A quiet1, toGo1, quiet2, toGo2, heal \in Nat :
                 quiet1 + toGo1 <= heal /\ quiet2 <= quiet1 + 1 /\ toGo2 + 1 <= toGo1
                 => quiet2 + toGo2 <= heal
  OBVIOUS

(* A disturbance leaves the time it takes. *)
LEMMA FromQuiet == Ranges /\ quiet = 0 => Healing
<1> SUFFICES ASSUME Ranges, quiet = 0 PROVE Healing
  OBVIOUS
<1>1. L \in Nat /\ L >= 2 /\ CrcBits \in 0..L - 1 /\ Heal = 8 * L - 1 - CrcBits
  BY SyncAssumption, ReceptionAssumption DEF Heal
<1>2. Search \in Nat /\ Search <= Heal
  BY <1>1 DEF Search, Ahead, Spoilt, Ranges
<1>3. Late /\ clean >= quiet
  BY <1>1 DEF Late, Ranges
<1>4. InTime
  BY <1>1, <1>2 DEF InTime
<1> QED
  BY <1>3, <1>4 DEF Healing

(* What a bit that arrives well does to the sender and to its group type. *)
LEMMA Arrival ==
    ASSUME AirTypes, BitArrives
    PROVE  /\ phase' = IF phase + 1 < 4 * L THEN phase + 1 ELSE 0
           /\ clean' = IF clean < 4 * L THEN clean + 1 ELSE clean
           /\ phase + 1 < 4 * L => airTypeB' = airTypeB
  BY SyncAssumption DEF BitArrives, Sent, Capped, AirTypes, Group

LEMMA HealingBit ==
    ASSUME Inv, AirTypes, Followed, Ranges', Healing,
           NEW ok \in BOOLEAN, NEW typeBit \in BOOLEAN, NEW calm \in BOOLEAN,
           Heard(ok, typeBit, calm)
    PROVE  Healing'
<1> USE DEF A, B, C, D
<1>1. /\ L \in Nat /\ L >= 2 /\ CrcBits \in 0..L - 1 /\ Heal = 8 * L - 1 - CrcBits
      /\ Ranges
  BY SyncAssumption, ReceptionAssumption, AllRanges DEF Heal
<1>2. CASE quiet' = 0
  <2>1. (Ranges /\ quiet = 0)'
    BY <1>2
  <2> QED
    BY <2>1, FromQuiet, PTL
<1>3. CASE quiet' # 0
  <2>1. calm /\ (Stores(ok) => IsBlock(rdsCurrentBlock)) /\ quiet' = Capped(quiet + 1, Heal)
    BY <1>3, Zenon DEF Heard, Hear
  <2>2. /\ phase' = IF phase + 1 < 4 * L THEN phase + 1 ELSE 0
        /\ clean' = IF clean < 4 * L THEN clean + 1 ELSE clean
        /\ phase + 1 < 4 * L => airTypeB' = airTypeB
    BY <2>1, Arrival DEF Heard
  <2>3. /\ ~TestDue => GoesOn
        /\ TestDue /\ ok => Ends(typeBit)
        /\ TestDue /\ ~ok => GivenUp
    BY BitMoves, Zenon DEF Heard, Hear, Bit
  <2>4. /\ TestDue /\ Whole => (ok <=> IsBlock(rdsCurrentBlock))
        /\ IsBlock(rdsCurrentBlock) => typeBit = airTypeB'
        /\ Inversion(ok)
    BY Zenon DEF Heard, Hear
  <2>5. ~(rdsIsSynchronized /\ TestDue /\ ~ok) => soiled' = IF soiled = 0 THEN 0 ELSE soiled - 1
    BY <2>4 DEF Inversion
  <2>6. quiet' <= quiet + 1 /\ quiet' \in Nat
    BY <1>1, <2>1 DEF Capped, Ranges
  <2>7. clean' >= quiet' \/ clean' >= L
    BY <1>1, <2>2, <2>6 DEF Healing, Ranges
  <2>8. CASE Searching /\ ~ok
    <3>1. Searching' /\ rdsBitsinBlock' = 0 /\ ~rdsIsSynchronized
      BY <2>3, <2>8 DEF TestDue, GivenUp, Searching
    <3>2. soiled' = IF soiled = 0 THEN 0 ELSE soiled - 1
      BY <2>5, <3>1
    <3>3. ~(phase + 1 = L /\ clean + 1 >= L /\ soiled = 0)
      <4>1. SUFFICES ASSUME phase + 1 = L, clean + 1 >= L, soiled = 0 PROVE FALSE
        OBVIOUS
      <4>2. Whole
        BY <1>1, <2>2, <4>1 DEF Whole, Ranges
      <4>3. IsBlock(1)
        BY <1>1, <2>2, <4>1, <4>2 DEF IsBlock, Ranges
      <4> QED
        BY <2>4, <2>8, <4>2, <4>3 DEF TestDue, Searching
    <3>4. quiet + Search <= Heal
      BY <2>8 DEF Healing, InTime
    <3>5. InTime'
      <4>1. Ahead \in 1..4 * L /\ Ahead' = IF Ahead = 1 THEN 4 * L ELSE Ahead - 1
        BY <1>1, <2>2 DEF Ahead, Ranges
      <4>2. Spoilt \in 0..L - 1 /\ Spoilt' = IF Spoilt = 0 THEN 0 ELSE Spoilt - 1
        BY <1>1, <2>2, <3>2 DEF Spoilt, Ranges
      <4>3. ~(Ahead = 1 /\ Spoilt = 0)
        BY <1>1, <3>3 DEF Ahead, Spoilt, Ranges
      <4>4. Search' + 1 <= Search
        BY <1>1, <4>1, <4>2, <4>3 DEF Search
      <4>5. Search \in Nat /\ Search' \in Nat
        BY <1>1, <4>1, <4>2 DEF Search
      <4> QED
        <5>1. quiet \in Nat /\ Heal \in Nat
          BY <1>1 DEF Ranges
        <5> QED
          BY <2>6, <3>4, <4>4, <4>5, <5>1, OneOn, Zenon DEF InTime
    <3> QED
      BY <2>7, <3>1, <3>5 DEF Healing
  <2>9. CASE TestDue /\ ok
    <3>1. IsBlock(rdsCurrentBlock) /\ Ends(typeBit)
      BY <2>1, <2>3, <2>9 DEF Stores
    <3>2. /\ clean' >= L /\ soiled = 0
          /\ phase' = IF rdsCurrentBlock = 4 THEN 0 ELSE rdsCurrentBlock * L
      BY <3>1 DEF IsBlock, Whole
    <3>3. /\ rdsCurrentBlock' = NextBlock(rdsCurrentBlock) /\ rdsBitsinBlock' = 0
          /\ rdsIsSynchronized' <=> (rdsIsSynchronized \/ rdsCurrentBlock = 3)
          /\ rdsCurrentBlock = 2 => isTypeBGroup' = airTypeB'
      BY <2>4, <3>1 DEF Ends
    <3>4. Within'
      <4>1. soiled' = 0
        BY <2>5, <2>9, <3>2
      <4>2. phase' = Due'
        BY <1>1, <3>2, <3>3 DEF Due, NextBlock, Ranges
      <4>3. rdsCurrentBlock' = 3 => isTypeBGroup' = airTypeB'
        BY <1>1, <3>3 DEF NextBlock, Ranges
      <4> QED
        <5>1. clean' >= rdsBitsinBlock' /\ soiled' <= L - 1 - rdsBitsinBlock'
          BY <1>1, <2>2, <3>2, <3>3, <4>1 DEF Ranges
        <5> QED
          BY <4>2, <4>3, <5>1 DEF Within
    <3>5. ~Searching'
      BY <1>1, <3>3 DEF Searching, NextBlock, Ranges
    <3>6. ASSUME ~rdsIsSynchronized' PROVE quiet' + ToGo' <= Heal
      <4>1. CASE rdsCurrentBlock = 1
        <5>1. Searching
          BY <3>3, <3>6, <4>1 DEF Searching
        <5>2. phase = L - 1 /\ clean + 1 >= L /\ ToGo' = 2 * L
          BY <1>1, <2>2, <3>2, <3>3, <4>1 DEF NextBlock, ToGo, Ranges
        <5>3. Search = 2 * L + 1
          BY <1>1, <3>2, <5>2 DEF Search, Ahead, Spoilt, Ranges
        <5> QED
          <6>1. quiet + Search <= Heal
            BY <5>1 DEF Healing, InTime
          <6>2. quiet \in Nat /\ Heal \in Nat
            BY <1>1 DEF Ranges
          <6>3. Search \in Nat /\ ToGo' \in Nat /\ ToGo' + 1 <= Search
            BY <1>1, <5>2, <5>3
          <6> QED
            BY <2>6, <6>1, <6>2, <6>3, OneOn, Zenon
      <4>2. CASE rdsCurrentBlock # 1
        <5>1. rdsCurrentBlock = 2 /\ ~rdsIsSynchronized /\ ~Searching /\ ToGo' = L
          BY <1>1, <3>3, <3>6, <4>2 DEF NextBlock, ToGo, Searching, Ranges
        <5>2. rdsBitsinBlock = L - 1 /\ ToGo = L + 1
          BY <1>1, <2>9, <5>1 DEF TestDue, ToGo, Ranges
        <5> QED
          <6>1. quiet <= L - 1 \/ quiet + ToGo <= Heal
            BY <5>1, <5>2 DEF Healing, Late
          <6>2. quiet \in Nat /\ Heal \in Nat
            BY <1>1 DEF Ranges
          <6>3. quiet + ToGo <= Heal
            BY <1>1, <5>2, <6>1, <6>2
          <6>4. ToGo \in Nat /\ ToGo' \in Nat /\ ToGo' + 1 <= ToGo
            BY <1>1, <5>1, <5>2
          <6> QED
            BY <2>6, <6>2, <6>3, <6>4, OneOn, Zenon
      <4> QED
        BY <4>1, <4>2
    <3> QED
      BY <2>7, <3>4, <3>5, <3>6 DEF Healing
  <2>10. CASE ~TestDue
    <3>1. /\ rdsCurrentBlock' = rdsCurrentBlock /\ rdsBitsinBlock' = rdsBitsinBlock + 1
          /\ rdsIsSynchronized' <=> rdsIsSynchronized
          /\ isTypeBGroup' = isTypeBGroup
          /\ rdsBitsinBlock + 1 < L /\ ~Searching
      BY <1>1, <2>3, <2>10 DEF GoesOn, TestDue, Ranges
    <3>2. ~Searching'
      BY <3>1 DEF Searching
    <3>3. CASE Late
      BY <1>1, <2>6, <2>7, <3>1, <3>2, <3>3 DEF Healing, Late, Ranges
    <3>4. CASE Within /\ ~Late
      <4>1. phase' = Due' /\ phase + 1 < 4 * L
        BY <1>1, <2>2, <3>1, <3>4 DEF Within, Due, Ranges
      <4>2. soiled' <= L - 1 - rdsBitsinBlock'
        BY <1>1, <2>5, <2>10, <3>1, <3>4 DEF Within, Ranges
      <4>3. clean' >= rdsBitsinBlock'
        BY <1>1, <2>2, <3>1, <3>4 DEF Within, Ranges
      <4>4. rdsCurrentBlock' = 3 => isTypeBGroup' = airTypeB'
        BY <2>2, <3>1, <3>4, <4>1 DEF Within
      <4>5. Within'
        BY <4>1, <4>2, <4>3, <4>4 DEF Within
      <4>6. ToGo' + 1 = ToGo /\ ToGo \in Nat /\ ToGo' \in Nat
        BY <1>1, <3>1 DEF ToGo, Ranges
      <4>7. ~rdsIsSynchronized => quiet + ToGo <= Heal
        BY <3>1, <3>4 DEF Healing
      <4> QED
        <5>1. ~rdsIsSynchronized => quiet' + ToGo' <= Heal
          <6>1. quiet \in Nat /\ Heal \in Nat
            BY <1>1 DEF Ranges
          <6>2. ToGo' + 1 <= ToGo
            <7>1. ToGo <= ToGo
              BY <4>6
            <7> QED
              BY <4>6, <7>1, Zenon
          <6> QED
            BY <2>6, <4>6, <4>7, <6>1, <6>2, OneOn, Zenon
        <5> QED
          BY <2>7, <3>1, <3>2, <4>5, <5>1 DEF Healing
    <3> QED
      BY <3>1, <3>3, <3>4 DEF Healing
  <2>11. CASE ~Searching /\ TestDue /\ ~ok
    <3>1. rdsBitsinBlock = L - 1
      BY <1>1, <2>11 DEF TestDue, Ranges
    <3>2. Late
      <4>1. SUFFICES ASSUME Within PROVE FALSE
        BY <2>11 DEF Healing
      <4>2. phase = Due /\ clean + 1 >= L /\ soiled = 0
        BY <1>1, <3>1, <4>1 DEF Within, Ranges
      <4>3. /\ phase' = IF rdsCurrentBlock = 4 THEN 0 ELSE rdsCurrentBlock * L
            /\ rdsCurrentBlock # 4 => phase + 1 < 4 * L
        BY <1>1, <2>2, <3>1, <4>2 DEF Due, Ranges
      <4>4. Whole
        BY <1>1, <2>2, <4>2, <4>3 DEF Whole, Ranges
      <4>5. rdsCurrentBlock = 3 => isTypeBGroup = airTypeB'
        BY <2>2, <4>1, <4>3 DEF Within
      <4>6. IsBlock(rdsCurrentBlock)
        BY <4>3, <4>4, <4>5 DEF IsBlock
      <4> QED
        BY <2>4, <2>11, <4>4, <4>6
    <3>3. quiet' <= L
      BY <1>1, <2>6, <3>1, <3>2 DEF Late, Ranges
    <3>4. Searching'
      BY <2>3, <2>11 DEF GivenUp, Searching
    <3>5. InTime'
      <4>1. (Ranges /\ quiet <= L /\ (clean >= quiet \/ clean >= L))'
        BY <2>7, <3>3
      <4> QED
        BY <4>1, FromLate, PTL
    <3> QED
      BY <2>7, <3>4, <3>5 DEF Healing
  <2> QED
    BY <2>8, <2>9, <2>10, <2>11 DEF TestDue
<1> QED
  BY <1>2, <1>3

LEMMA HealingStep ==
    ASSUME Inv, AirTypes, Followed, Ranges', Healing, [ReceptionNext]_receptionVars
    PROVE  Healing'
<1>1. CASE BitReceived
  BY <1>1, Received, HealingBit
<1>2. CASE SetClock \/ Retune
  <2>1. (Ranges /\ quiet = 0)'
    BY <1>2 DEF SetClock, Retune
  <2> QED
    BY <2>1, FromQuiet, PTL
<1>3. CASE Switch
  BY <1>3 DEF Switch, SetMode, syncVars, airVars, Healing, Searching, Search, Ahead, Spoilt,
              InTime, Late, Within, Due, ToGo
<1>4. CASE UNCHANGED receptionVars
  BY <1>4 DEF receptionVars, vars, codeVars, syncVars, airVars, Healing, Searching, InTime,
              Search, Ahead, Spoilt, Late, Within, Due, ToGo
<1> QED
  BY <1>1, <1>2, <1>3, <1>4 DEF ReceptionNext

(* HealsSoon: for every block length, every number of bits lost at once and
   every share of the block doMeggit can invert, Heal undisturbed bits
   synchronise the receiver, wherever they find it. *)
THEOREM ReceptionHeals == ReceptionSpec => []HealsSoon
<1>1. ReceptionInit => Inv /\ AirTypes /\ Followed /\ Healing
  BY InitInv, ReceptionStart, FollowedStart, AllRanges, FromQuiet DEF ReceptionInit
<1>2. Inv /\ AirTypes /\ Followed /\ Healing /\ [ReceptionNext]_receptionVars
      => (Inv /\ AirTypes /\ Followed /\ Healing)'
  <2> SUFFICES ASSUME Inv, AirTypes, Followed, Healing, [ReceptionNext]_receptionVars
               PROVE  (Inv /\ AirTypes /\ Followed /\ Healing)'
    OBVIOUS
  <2>1. (Inv /\ AirTypes /\ Followed)'
    BY StepInv, ReceptionStep, FollowedStep
  <2>2. Ranges'
    BY <2>1, AllRanges, PTL
  <2> QED
    BY <2>1, <2>2, HealingStep
<1>3. Inv /\ AirTypes /\ Followed /\ Healing => HealsSoon
  <2> SUFFICES ASSUME Ranges, Healing, quiet = Heal, ~rdsIsSynchronized PROVE FALSE
    BY AllRanges DEF HealsSoon
  <2>1. L \in Nat /\ L >= 2 /\ CrcBits \in 0..L - 1 /\ Heal = 8 * L - 1 - CrcBits
    BY SyncAssumption, ReceptionAssumption DEF Heal
  <2>2. CASE Searching
    BY <2>1, <2>2 DEF Healing, InTime, Search, Ahead, Spoilt, Ranges
  <2>3. CASE ~Searching
    BY <2>1, <2>3 DEF Healing, Late, ToGo, Ranges
  <2> QED
    BY <2>2, <2>3
<1> QED
  BY <1>1, <1>2, <1>3, PTL DEF ReceptionSpec

(***************************************************************************)
(* RdsGroupDecoder, for any stations, labels and texts of any length, and  *)
(* any number of signals under way.                                        *)
(***************************************************************************)
(* Labels and texts with segments of one station, or of one text, only. *)
LabelOf(s)  == [LabelSegs -> {s, Blank}]
TextOf(t)   == [TextSegs -> {t, Blank}]
TextFrom(s) == [TextSegs -> [of : {s}, ab : {0, 1}] \cup {Blank}]
TextWith(f) == [TextSegs -> [of : Stations, ab : {f}] \cup {Blank}]

PureLabels  == UNION {LabelOf(s) : s \in Stations}
PureTexts   == UNION {TextOf(t) : t \in TextId}
PureSignals == [box : {"label"}, value : PureLabels] \cup [box : {"text"}, value : PureTexts]

Decoding  == {"name", "mark", "flag", "text"}
Resetting == {"resetPi", "resetLabel", "resetText", "resetEnd", "newPi"}

Types ==
    /\ tuned \in Stations /\ heard \in Stations /\ airText \in {0, 1} /\ programme \in Programmes
    /\ piCode \in Stations \cup {Blank} /\ textABflag \in {-1, 0, 1}
    /\ nameMarks \in SUBSET (0..5) /\ textMarks \in SUBSET TextSegs
    /\ pc \in {"wait", "check"} \cup Resetting \cup Decoding
    /\ IF pc = "wait" THEN grp = WithoutGroup ELSE grp \in Groups
    /\ pc \in {"name", "mark"} => grp.kind = "name"
    /\ pc \in {"flag", "text"} => grp.kind = "text"

Pure ==
    /\ stationLabel \in PureLabels /\ labelBox \in PureLabels
    /\ textBuffer \in PureTexts /\ textBox \in PureTexts
    /\ events \in Seq(PureSignals)

(* The label in the buffer is of the station with the PI code, ... *)
LabelInv ==
    /\ piCode # Blank => stationLabel \in LabelOf(piCode)
    /\ pc \in Decoding => piCode \in {grp.of, Blank} /\ stationLabel \in LabelOf(grp.of)
    /\ pc \in Resetting \ {"resetPi"} => piCode = Blank
    /\ pc \in {"resetText", "resetEnd", "newPi"} => stationLabel = NoLabel

(* ... and the text, which is the one the flag says. *)
TextInv ==
    /\ piCode # Blank => textBuffer \in TextFrom(piCode)
    /\ textABflag # -1 => textBuffer \in TextWith(textABflag)
    /\ pc \in Decoding => textBuffer \in TextFrom(grp.of)
    /\ pc = "text" => /\ textABflag \in {grp.ab, -1}
                      /\ textBuffer \in TextOf([of |-> grp.of, ab |-> grp.ab])
    /\ pc \in {"resetEnd", "newPi"} => textBuffer = NoText

DInv == Types /\ Pure /\ LabelInv /\ TextInv

----------------------------------------------------------------------------
LEMMA NothingIsPure ==
    ASSUME NEW s0 \in Stations
    PROVE  /\ \A s : NoLabel \in LabelOf(s)
           /\ \A s : NoText \in TextOf(s) /\ NoText \in TextFrom(s) /\ NoText \in TextWith(s)
           /\ NoLabel \in PureLabels /\ NoText \in PureTexts
  <1>1. \A s : NoLabel \in LabelOf(s)
    BY DEF NoLabel, LabelOf
  <1>2. \A s : NoText \in TextOf(s) /\ NoText \in TextFrom(s) /\ NoText \in TextWith(s)
    BY DEF NoText, TextOf, TextFrom, TextWith
  <1>3. NoLabel \in PureLabels
    BY <1>1 DEF PureLabels
  <1>4. [of |-> s0, ab |-> 0] \in TextId
    BY DEF TextId
  <1> QED
    BY <1>1, <1>2, <1>3, <1>4 DEF PureTexts

(* A segment of the same station, or of the same text, keeps them pure. *)
LEMMA StorePure ==
    /\ \A s \in Stations : \A l \in LabelOf(s) : \A i \in LabelSegs :
         [l EXCEPT ![i] = s] \in LabelOf(s)
    /\ \A s \in Stations, f \in {0, 1} :
         LET t == [of |-> s, ab |-> f]
         IN  \A b \in TextOf(t) : \A i \in TextSegs :
               [b EXCEPT ![i] = t] \in TextOf(t)
    /\ \A s \in Stations, f \in {0, 1} :
         LET t == [of |-> s, ab |-> f]
         IN  TextOf(t) \subseteq TextFrom(s) /\ TextOf(t) \subseteq TextWith(f)
             /\ TextOf(t) \subseteq PureTexts
    /\ \A s \in Stations : LabelOf(s) \subseteq PureLabels
  <1>1. \A s \in Stations : \A l \in LabelOf(s) : \A i \in LabelSegs :
          [l EXCEPT ![i] = s] \in LabelOf(s)
    BY DEF LabelOf
  <1>2. ASSUME NEW s \in Stations, NEW f \in {0, 1}
        PROVE  LET t == [of |-> s, ab |-> f]
               IN  /\ \A b \in TextOf(t) : \A i \in TextSegs : [b EXCEPT ![i] = t] \in TextOf(t)
                   /\ TextOf(t) \subseteq TextFrom(s) /\ TextOf(t) \subseteq TextWith(f)
                   /\ TextOf(t) \subseteq PureTexts
    <2> DEFINE t == [of |-> s, ab |-> f]
    <2>1. t \in [of : {s}, ab : {0, 1}] /\ t \in [of : Stations, ab : {f}] /\ t \in TextId
      BY DEF TextId
    <2> HIDE DEF t
    <2>2. \A b \in TextOf(t) : \A i \in TextSegs : [b EXCEPT ![i] = t] \in TextOf(t)
      BY DEF TextOf
    <2>3. TextOf(t) \subseteq TextFrom(s) /\ TextOf(t) \subseteq TextWith(f)
      BY <2>1 DEF TextOf, TextFrom, TextWith
    <2>4. TextOf(t) \subseteq PureTexts
      BY <2>1 DEF PureTexts
    <2> QED
      BY <2>2, <2>3, <2>4 DEF t
  <1>3. \A s \in Stations : LabelOf(s) \subseteq PureLabels
    BY DEF PureLabels
  <1> QED
    BY <1>1, <1>2, <1>3

LEMMA InitDInv == DecoderInit => DInv
  <1> SUFFICES ASSUME DecoderInit PROVE DInv
    OBVIOUS
  <1>1. tuned \in Stations
    BY DEF DecoderInit
  <1>2. Types
    BY <1>1 DEF DecoderInit, Types
  <1>3. Pure
    BY <1>1, NothingIsPure DEF DecoderInit, Pure
  <1>4. LabelInv
    BY DEF DecoderInit, LabelInv, Decoding, Resetting
  <1>5. TextInv
    BY DEF DecoderInit, TextInv, Decoding
  <1> QED
    BY <1>2, <1>3, <1>4, <1>5 DEF DInv

----------------------------------------------------------------------------
LEMMA TypesStep == Types /\ [DecoderNext]_displayVars => Types'
  <1> SUFFICES ASSUME Types, [DecoderNext]_displayVars PROVE Types'
    OBVIOUS
  <1> USE DEF Types, Decoding, Resetting, decoderVars, labelVars, textVars, boxes
  <1>1. CASE CatchUp BY <1>1 DEF CatchUp
  <1>2. CASE NewText BY <1>2 DEF NewText
  <1>3. ASSUME NEW g \in Groups, TakeGroup(g) PROVE Types' BY <1>3 DEF TakeGroup
  <1>4. CASE CheckPi
    <2>1. grp \in Groups /\ grp.kind \in {"name", "text"} BY <1>4 DEF CheckPi, Groups
    <2>2. QED BY <1>4, <2>1 DEF CheckPi, Body
  <1>5. CASE ResetPi BY <1>5 DEF ResetPi, ClearPi
  <1>6. CASE ResetLabel BY <1>6 DEF ResetLabel, ClearLabel
  <1>7. CASE ResetText BY <1>7 DEF ResetText, ClearText
  <1>8. CASE ResetEnd BY <1>8 DEF ResetEnd
  <1>9. CASE NewPi
    <2>1. grp \in Groups /\ grp.kind \in {"name", "text"} /\ grp.of \in Stations
      BY <1>9 DEF NewPi, Groups
    <2>2. QED BY <1>9, <2>1 DEF NewPi, Body
  <1>10. CASE StoreName BY <1>10 DEF StoreName
  <1>11. CASE MarkName
    <2>1. nameMarks' \in SUBSET (0..5) BY <1>11 DEF MarkName, BitsOf
    <2>2. QED BY <1>11, <2>1 DEF MarkName
  <1>12. CASE CheckFlag
    <2>1. grp \in Groups /\ grp.ab \in {0, 1} BY <1>12 DEF CheckFlag, Groups
    <2>2. QED BY <1>12, <2>1 DEF CheckFlag
  <1>13. ASSUME NEW ends \in BOOLEAN, StoreText(ends) PROVE Types'
    <2>1. grp \in Groups /\ grp.kind = "text" BY <1>13 DEF StoreText
    <2>2. grp.seg \in TextSegs BY <2>1 DEF Groups
    <2>3. QED BY <1>13, <2>1, <2>2 DEF StoreText
  <1>14. ASSUME NEW s \in Stations, NEW big \in BOOLEAN, Tune(s, big) PROVE Types'
    BY <1>14 DEF Tune
  <1>15. CASE GuiResetPi BY <1>15 DEF GuiResetPi, ClearPi
  <1>16. CASE GuiResetLabel BY <1>16 DEF GuiResetLabel, ClearLabel
  <1>17. CASE GuiResetText BY <1>17 DEF GuiResetText, ClearText
  <1>18. CASE GuiResetEnd BY <1>18 DEF GuiResetEnd
  <1>19. CASE Show BY <1>19 DEF Show
  <1>20. CASE UNCHANGED displayVars BY <1>20 DEF displayVars
  <1> QED
    BY <1>1, <1>2, <1>3, <1>4, <1>5, <1>6, <1>7, <1>8, <1>9, <1>10, <1>11, <1>12, <1>13,
       <1>14, <1>15, <1>16, <1>17, <1>18, <1>19, <1>20
       DEF DecoderNext, Processor, Decode, GuiReset

LEMMA LabelStep == Types /\ LabelInv /\ [DecoderNext]_displayVars => LabelInv'
  <1> SUFFICES ASSUME Types, LabelInv, [DecoderNext]_displayVars PROVE LabelInv'
    OBVIOUS
  <1> USE DEF LabelInv, Decoding, Resetting
  <1>0. tuned \in Stations /\ (pc # "wait" => grp.of \in Stations) /\ Blank \notin Stations
    BY DecoderAssumption DEF Types, Groups
  <1>1. ASSUME UNCHANGED <<piCode, stationLabel, pc, grp>> PROVE LabelInv'
    BY <1>1
  <1>2. CASE CatchUp BY <1>1, <1>2 DEF CatchUp, decoderVars
  <1>3. CASE NewText BY <1>1, <1>3 DEF NewText, decoderVars
  <1>4. ASSUME NEW g \in Groups, TakeGroup(g) PROVE LabelInv' BY <1>4 DEF TakeGroup, decoderVars
  <1>5. CASE CheckPi
    <2>1. pc = "check" /\ UNCHANGED <<piCode, stationLabel, grp>>
          /\ pc' = IF piCode = grp.of THEN Body ELSE "resetPi"
      BY <1>5 DEF CheckPi, decoderVars
    <2>2. CASE piCode = grp.of
      <3>1. pc' \in {"name", "flag"} BY <2>1, <2>2 DEF Body
      <3>2. stationLabel \in LabelOf(grp.of) BY <1>0, <2>1, <2>2
      <3> QED BY <2>1, <2>2, <3>1, <3>2
    <2>3. CASE piCode # grp.of BY <2>1, <2>3
    <2> QED BY <2>2, <2>3
  <1>6. CASE ResetPi BY <1>6 DEF ResetPi, ClearPi, labelVars
  <1>7. CASE ResetLabel BY <1>7 DEF ResetLabel, ClearLabel
  <1>8. CASE ResetText BY <1>8 DEF ResetText, ClearText, labelVars
  <1>9. CASE ResetEnd BY <1>9 DEF ResetEnd, decoderVars
  <1>10. CASE NewPi
    <2>1. pc' \in {"name", "flag"} BY <1>10 DEF NewPi, Body
    <2>2. stationLabel' \in LabelOf(grp.of) BY <1>10, <1>0, NothingIsPure DEF NewPi, labelVars
    <2> QED BY <1>10, <2>1, <2>2 DEF NewPi
  <1>11. CASE StoreName
    <2>1. grp \in Groups /\ grp.kind = "name" /\ pc = "name" BY <1>11 DEF StoreName, Types
    <2>2. grp.seg \in LabelSegs /\ grp.of \in Stations BY <2>1 DEF Groups
    <2>3. stationLabel' \in LabelOf(grp.of) BY <1>11, <2>1, <2>2, StorePure DEF StoreName
    <2> QED BY <1>11, <2>3 DEF StoreName
  <1>12. CASE MarkName BY <1>12 DEF MarkName
  <1>13. CASE CheckFlag BY <1>13 DEF CheckFlag, labelVars
  <1>14. ASSUME NEW ends \in BOOLEAN, StoreText(ends) PROVE LabelInv'
    BY <1>14 DEF StoreText, labelVars
  <1>15. ASSUME NEW s \in Stations, NEW big \in BOOLEAN, Tune(s, big) PROVE LabelInv'
    BY <1>1, <1>15 DEF Tune, decoderVars
  <1>16. CASE GuiResetPi BY <1>16 DEF GuiResetPi, ClearPi, labelVars
  <1>17. CASE GuiResetLabel BY <1>17, <1>0, NothingIsPure DEF GuiResetLabel, ClearLabel
  <1>18. CASE GuiResetText BY <1>1, <1>18 DEF GuiResetText, labelVars
  <1>19. CASE GuiResetEnd BY <1>1, <1>19 DEF GuiResetEnd, decoderVars
  <1>20. CASE Show BY <1>1, <1>20 DEF Show, decoderVars
  <1>21. CASE UNCHANGED displayVars BY <1>1, <1>21 DEF displayVars, decoderVars
  <1> QED
    BY <1>2, <1>3, <1>4, <1>5, <1>6, <1>7, <1>8, <1>9, <1>10, <1>11, <1>12, <1>13,
       <1>14, <1>15, <1>16, <1>17, <1>18, <1>19, <1>20, <1>21
       DEF DecoderNext, Processor, Decode, GuiReset

LEMMA TextStep == Types /\ LabelInv /\ TextInv /\ [DecoderNext]_displayVars => TextInv'
  <1> SUFFICES ASSUME Types, LabelInv, TextInv, [DecoderNext]_displayVars PROVE TextInv'
    OBVIOUS
  <1> USE DEF TextInv, Decoding, Resetting
  <1>0. tuned \in Stations /\ (pc # "wait" => grp.of \in Stations) /\ Blank \notin Stations
    BY DecoderAssumption DEF Types, Groups
  <1>1. ASSUME UNCHANGED <<piCode, textBuffer, textABflag, pc, grp>> PROVE TextInv'
    BY <1>1
  <1>2. CASE CatchUp BY <1>1, <1>2 DEF CatchUp, decoderVars
  <1>3. CASE NewText BY <1>1, <1>3 DEF NewText, decoderVars
  <1>4. ASSUME NEW g \in Groups, TakeGroup(g) PROVE TextInv' BY <1>4 DEF TakeGroup, decoderVars
  <1>5. CASE CheckPi
    <2>1. pc = "check" /\ UNCHANGED <<piCode, textBuffer, textABflag, grp>>
          /\ pc' = IF piCode = grp.of THEN Body ELSE "resetPi"
      BY <1>5 DEF CheckPi, decoderVars
    <2>2. CASE piCode = grp.of
      <3>1. pc' \in {"name", "flag"} BY <2>1, <2>2 DEF Body
      <3>2. textBuffer \in TextFrom(grp.of) BY <1>0, <2>1, <2>2
      <3> QED BY <2>1, <2>2, <3>1, <3>2
    <2>3. CASE piCode # grp.of BY <2>1, <2>3
    <2> QED BY <2>2, <2>3
  <1>6. CASE ResetPi BY <1>6 DEF ResetPi, ClearPi, textVars
  <1>7. CASE ResetLabel BY <1>7 DEF ResetLabel, textVars
  <1>8. CASE ResetText BY <1>8, <1>0, NothingIsPure DEF ResetText, ClearText
  <1>9. CASE ResetEnd BY <1>9 DEF ResetEnd, decoderVars
  <1>10. CASE NewPi
    <2>1. pc' \in {"name", "flag"} BY <1>10 DEF NewPi, Body
    <2>2. textBuffer' \in TextFrom(grp.of) BY <1>10, <1>0, NothingIsPure DEF NewPi, textVars
    <2> QED BY <1>10, <2>1, <2>2 DEF NewPi, textVars
  <1>11. CASE StoreName BY <1>11 DEF StoreName, textVars
  <1>12. CASE MarkName BY <1>12 DEF MarkName, textVars
  <1>13. CASE CheckFlag
    <2>1. grp \in Groups /\ grp.kind = "text" /\ pc = "flag" /\ pc' = "text" /\ grp' = grp
          /\ piCode' = piCode
      BY <1>13 DEF CheckFlag, Types
    <2>2. grp.ab \in {0, 1} /\ grp.of \in Stations BY <2>1 DEF Groups
    <2>3. CASE textABflag = grp.ab
      <3>1. UNCHANGED textVars BY <1>13, <2>3 DEF CheckFlag
      <3>2. textBuffer \in TextWith(grp.ab) /\ textBuffer \in TextFrom(grp.of)
        BY <2>1, <2>2, <2>3
      <3>3. textBuffer \in TextOf([of |-> grp.of, ab |-> grp.ab])
        BY <3>2, <1>0, DecoderAssumption DEF TextWith, TextFrom, TextOf
      <3> QED BY <2>1, <2>3, <3>1, <3>2, <3>3 DEF textVars
    <2>4. CASE textABflag # grp.ab
      <3>1. textABflag' = grp.ab /\ textBuffer' = NoText BY <1>13, <2>4 DEF CheckFlag
      <3> QED BY <1>0, <2>1, <3>1, NothingIsPure
    <2> QED BY <2>3, <2>4
  <1>14. ASSUME NEW ends \in BOOLEAN, StoreText(ends) PROVE TextInv'
    <2> DEFINE t == [of |-> grp.of, ab |-> grp.ab]
    <2>1. grp \in Groups /\ grp.kind = "text" /\ pc = "text" BY <1>14 DEF StoreText, Types
    <2>2. grp.ab \in {0, 1} /\ grp.of \in Stations /\ grp.seg \in TextSegs BY <2>1 DEF Groups
    <2>3. textBuffer \in TextOf(t) /\ textBuffer' = [textBuffer EXCEPT ![grp.seg] = t]
      BY <1>14, <2>1 DEF StoreText
    <2>4. textBuffer' \in TextOf(t) BY <2>2, <2>3, StorePure
    <2>5. textBuffer' \in TextFrom(grp.of) /\ textBuffer' \in TextWith(grp.ab)
      BY <2>2, <2>4, StorePure
    <2>6. textABflag \in {grp.ab, -1} /\ piCode \in {grp.of, Blank}
      BY <2>1 DEF LabelInv
    <2>7. pc' = "wait" /\ UNCHANGED <<piCode, textABflag>> BY <1>14 DEF StoreText
    <2> QED BY <2>5, <2>6, <2>7
  <1>15. ASSUME NEW s \in Stations, NEW big \in BOOLEAN, Tune(s, big) PROVE TextInv'
    BY <1>1, <1>15 DEF Tune, decoderVars
  <1>16. CASE GuiResetPi BY <1>16 DEF GuiResetPi, ClearPi, textVars
  <1>17. CASE GuiResetLabel BY <1>1, <1>17 DEF GuiResetLabel, textVars
  <1>18. CASE GuiResetText BY <1>18, <1>0, NothingIsPure DEF GuiResetText, ClearText
  <1>19. CASE GuiResetEnd BY <1>1, <1>19 DEF GuiResetEnd, decoderVars
  <1>20. CASE Show BY <1>1, <1>20 DEF Show, decoderVars
  <1>21. CASE UNCHANGED displayVars BY <1>1, <1>21 DEF displayVars, decoderVars
  <1> QED
    BY <1>2, <1>3, <1>4, <1>5, <1>6, <1>7, <1>8, <1>9, <1>10, <1>11, <1>12, <1>13,
       <1>14, <1>15, <1>16, <1>17, <1>18, <1>19, <1>20, <1>21
       DEF DecoderNext, Processor, Decode, GuiReset

(* What is sent is pure, and what is shown was sent. *)
LEMMA SignalsArePure ==
    /\ \A l \in PureLabels : SetLabel(l) \in PureSignals
    /\ \A t \in PureTexts : SetText(t) \in PureSignals
  BY DEF SetLabel, SetText, PureSignals

LEMMA QueuePure ==
    ASSUME events \in Seq(PureSignals), NEW es \in Seq(PureSignals), Queue(es)
    PROVE  events' \in Seq(PureSignals)
  BY ConcatProperties DEF Queue

LEMMA ShowPure ==
    ASSUME Pure, Show
    PROVE  /\ labelBox' \in PureLabels /\ textBox' \in PureTexts
           /\ events' \in Seq(PureSignals)
  <1>1. events # << >> /\ events \in Seq(PureSignals) /\ events' = Tail(events)
    BY DEF Show, Pure
  <1>2. Head(events) \in PureSignals /\ Tail(events) \in Seq(PureSignals)
    BY <1>1, HeadTailProperties
  <1>3. \/ Head(events).box = "label" /\ Head(events).value \in PureLabels
        \/ Head(events).box = "text" /\ Head(events).value \in PureTexts
    BY <1>2 DEF PureSignals
  <1>4. CASE Head(events).box = "label"
    BY <1>1, <1>2, <1>3, <1>4 DEF Show, Pure
  <1>5. CASE Head(events).box = "text"
    BY <1>1, <1>2, <1>3, <1>5 DEF Show, Pure
  <1> QED
    BY <1>3, <1>4, <1>5

(* What StoreText sends: a part of the text it stores. *)
LEMMA TextSignals ==
    ASSUME Types, TextInv, NEW ends \in BOOLEAN, StoreText(ends)
    PROVE  LET t      == [of |-> grp.of, ab |-> grp.ab]
               before == [i \in TextSegs |-> IF i < grp.seg THEN textBuffer'[i] ELSE Blank]
           IN  /\ textBuffer' \in TextOf(t) /\ before \in TextOf(t)
               /\ grp.of \in Stations /\ grp.ab \in {0, 1}
               /\ \E m1, m2 \in BOOLEAN :
                    Queue((IF m1 THEN <<SetText(before)>> ELSE << >>)
                          \o (IF m2 THEN <<SetText(textBuffer')>> ELSE << >>))
  <1> DEFINE t      == [of |-> grp.of, ab |-> grp.ab]
             before == [i \in TextSegs |-> IF i < grp.seg THEN textBuffer'[i] ELSE Blank]
  <1>1. grp \in Groups /\ grp.kind = "text" /\ pc = "text" BY DEF StoreText, Types
  <1>2. grp.ab \in {0, 1} /\ grp.of \in Stations /\ grp.seg \in TextSegs BY <1>1 DEF Groups
  <1>3. textBuffer \in TextOf(t) /\ textBuffer' = [textBuffer EXCEPT ![grp.seg] = t]
    BY <1>1 DEF StoreText, TextInv
  <1>4. textBuffer' \in TextOf(t) BY <1>2, <1>3, StorePure
  <1>5. before \in TextOf(t) BY <1>4 DEF TextOf
  <1>6. Queue((IF textMarks' = 0..grp.seg THEN <<SetText(before)>> ELSE << >>)
              \o (IF ends \/ textMarks' = TextSegs THEN <<SetText(textBuffer')>> ELSE << >>))
    BY DEF StoreText
  <1> QED
    BY <1>2, <1>4, <1>5, <1>6

LEMMA PureStep == DInv /\ [DecoderNext]_displayVars => Pure'
  <1> SUFFICES ASSUME DInv, [DecoderNext]_displayVars PROVE Pure'
    OBVIOUS
  <1> USE DEF DInv
  <1>0. tuned \in Stations /\ (pc # "wait" => grp.of \in Stations)
    BY DEF Types, Groups
  <1>1. ASSUME UNCHANGED <<stationLabel, textBuffer, events, labelBox, textBox>> PROVE Pure'
    BY <1>1 DEF Pure
  <1>2. NoLabel \in PureLabels /\ NoText \in PureTexts
    BY <1>0, NothingIsPure
  <1>3. CASE CatchUp BY <1>1, <1>3 DEF CatchUp, decoderVars, boxes
  <1>4. CASE NewText BY <1>1, <1>4 DEF NewText, decoderVars, boxes
  <1>5. ASSUME NEW g \in Groups, TakeGroup(g) PROVE Pure'
    BY <1>1, <1>5 DEF TakeGroup, decoderVars, boxes
  <1>6. CASE CheckPi BY <1>1, <1>6 DEF CheckPi, decoderVars, boxes
  <1>7. CASE ResetPi BY <1>1, <1>7 DEF ResetPi, labelVars, textVars, boxes
  <1>8. CASE ResetLabel BY <1>2, <1>8 DEF Pure, ResetLabel, ClearLabel, textVars, boxes
  <1>9. CASE ResetText BY <1>2, <1>9 DEF Pure, ResetText, ClearText, labelVars, boxes
  <1>10. CASE ResetEnd
    <2>1. <<SetText(NoText), SetLabel(stationLabel)>> \in Seq(PureSignals)
      <3>1. SetText(NoText) \in PureSignals /\ SetLabel(stationLabel) \in PureSignals
        BY <1>2, SignalsArePure DEF Pure
      <3> QED BY <3>1
    <2>2. events' \in Seq(PureSignals)
      BY <1>10, <2>1, QueuePure DEF ResetEnd, ResetSignals, Pure
    <2> QED BY <1>10, <2>2 DEF Pure, ResetEnd, decoderVars, boxes
  <1>11. CASE NewPi BY <1>1, <1>11 DEF NewPi, labelVars, textVars, boxes
  <1>12. CASE StoreName
    <2>1. grp \in Groups /\ grp.kind = "name" /\ pc = "name" BY <1>12 DEF StoreName, Types
    <2>2. grp.seg \in LabelSegs /\ grp.of \in Stations BY <2>1 DEF Groups
    <2>3. stationLabel \in LabelOf(grp.of) BY <2>1 DEF LabelInv, Decoding
    <2>4. stationLabel' \in PureLabels BY <1>12, <2>2, <2>3, StorePure DEF StoreName
    <2>5. <<SetLabel(stationLabel')>> \in Seq(PureSignals)
      <3>1. SetLabel(stationLabel') \in PureSignals BY <2>4, SignalsArePure
      <3> QED BY <3>1
    <2>6. events' \in Seq(PureSignals) BY <1>12, <2>5, QueuePure DEF StoreName, Pure
    <2> QED BY <1>12, <2>4, <2>6 DEF Pure, StoreName, textVars, boxes
  <1>13. CASE MarkName
    <2>1. <<SetLabel(stationLabel)>> \in Seq(PureSignals)
      <3>1. SetLabel(stationLabel) \in PureSignals BY SignalsArePure DEF Pure
      <3> QED BY <3>1
    <2>2. Queue(<<SetLabel(stationLabel)>>) \/ UNCHANGED events BY <1>13 DEF MarkName
    <2>3. events' \in Seq(PureSignals) BY <2>1, <2>2, QueuePure DEF Pure
    <2> QED BY <1>13, <2>3 DEF Pure, MarkName, textVars, boxes
  <1>14. CASE CheckFlag
    <2>1. <<SetText(NoText)>> \in Seq(PureSignals)
      <3>1. SetText(NoText) \in PureSignals BY <1>2, SignalsArePure
      <3> QED BY <3>1
    <2>2. CASE textABflag = grp.ab
      BY <1>1, <1>14, <2>2 DEF CheckFlag, labelVars, textVars, boxes
    <2>3. CASE textABflag # grp.ab
      <3>1. textBuffer' = NoText /\ Queue(<<SetText(NoText)>>) BY <1>14, <2>3 DEF CheckFlag
      <3>2. events' \in Seq(PureSignals) BY <2>1, <3>1, QueuePure DEF Pure
      <3> QED BY <1>2, <1>14, <3>1, <3>2 DEF Pure, CheckFlag, labelVars, boxes
    <2> QED BY <2>2, <2>3
  <1>15. ASSUME NEW ends \in BOOLEAN, StoreText(ends) PROVE Pure'
    <2> DEFINE t      == [of |-> grp.of, ab |-> grp.ab]
               before == [i \in TextSegs |-> IF i < grp.seg THEN textBuffer'[i] ELSE Blank]
    <2>1. /\ textBuffer' \in TextOf(t) /\ before \in TextOf(t)
          /\ grp.of \in Stations /\ grp.ab \in {0, 1}
      BY <1>15, TextSignals
    <2>2. PICK m1, m2 \in BOOLEAN :
               Queue((IF m1 THEN <<SetText(before)>> ELSE << >>)
                     \o (IF m2 THEN <<SetText(textBuffer')>> ELSE << >>))
      BY <1>15, TextSignals
    <2>3. textBuffer' \in PureTexts /\ before \in PureTexts BY <2>1, StorePure
    <2> HIDE DEF before
    <2>4. SetText(before) \in PureSignals /\ SetText(textBuffer') \in PureSignals
      BY <2>3, SignalsArePure
    <2>5. /\ (IF m1 THEN <<SetText(before)>> ELSE << >>) \in Seq(PureSignals)
          /\ (IF m2 THEN <<SetText(textBuffer')>> ELSE << >>) \in Seq(PureSignals)
      BY <2>4
    <2>6. (IF m1 THEN <<SetText(before)>> ELSE << >>)
            \o (IF m2 THEN <<SetText(textBuffer')>> ELSE << >>) \in Seq(PureSignals)
      BY <2>5, ConcatProperties
    <2>7. events' \in Seq(PureSignals) BY <2>2, <2>6, QueuePure DEF Pure
    <2> QED BY <1>15, <2>3, <2>7 DEF Pure, StoreText, labelVars, boxes
  <1>16. ASSUME NEW s \in Stations, NEW big \in BOOLEAN, Tune(s, big) PROVE Pure'
    BY <1>1, <1>16 DEF Tune, decoderVars, boxes
  <1>17. CASE GuiResetPi BY <1>1, <1>17 DEF GuiResetPi, labelVars, textVars, boxes
  <1>18. CASE GuiResetLabel BY <1>2, <1>18 DEF Pure, GuiResetLabel, ClearLabel, textVars, boxes
  <1>19. CASE GuiResetText BY <1>2, <1>19 DEF Pure, GuiResetText, ClearText, labelVars, boxes
  <1>20. CASE GuiResetEnd BY <1>2, <1>20 DEF Pure, GuiResetEnd, decoderVars
  <1>21. CASE Show BY <1>21, ShowPure DEF Pure, Show, decoderVars
  <1>22. CASE UNCHANGED displayVars BY <1>1, <1>22 DEF displayVars, decoderVars, boxes
  <1> QED
    BY <1>3, <1>4, <1>5, <1>6, <1>7, <1>8, <1>9, <1>10, <1>11, <1>12, <1>13, <1>14, <1>15,
       <1>16, <1>17, <1>18, <1>19, <1>20, <1>21, <1>22
       DEF DecoderNext, Processor, Decode, GuiReset

LEMMA DecoderInvariance == DecoderSpec => []DInv
  <1>1. DInv /\ [DecoderNext]_displayVars => DInv'
    BY TypesStep, LabelStep, TextStep, PureStep DEF DInv
  <1> QED
    BY InitDInv, <1>1, PTL DEF DecoderSpec

----------------------------------------------------------------------------
LEMMA OneOf ==
    ASSUME NEW S, NEW l, NEW x, l \in [S -> {x, Blank}]
    PROVE  Cardinality(Of(l)) <= 1
  <1>1. Of(l) \subseteq {x}
    BY DEF Of
  <1>2. Cardinality({x}) = 1 /\ IsFiniteSet({x})
    BY FS_Singleton
  <1>3. Cardinality(Of(l)) <= Cardinality({x})
    BY <1>1, <1>2, FS_Subset
  <1> QED
    BY <1>2, <1>3

(* A label is never made of segments of two stations, however many there are
   and whatever the two threads do to the decoder (rds-groupdecoder.cpp:106-110,
   184-205). *)
THEOREM LabelNeverMixed == DecoderSpec => []NoMixedLabel
  <1>1. ASSUME NEW l \in PureLabels PROVE Cardinality(Of(l)) <= 1
    <2>1. PICK s \in Stations : l \in LabelOf(s) BY DEF PureLabels
    <2> QED BY <2>1, OneOf DEF LabelOf
  <1>2. DInv => NoMixedLabel
    BY <1>1 DEF DInv, Pure, NoMixedLabel
  <1> QED
    BY <1>2, DecoderInvariance, PTL

(* A radio text is never made of two (rds-groupdecoder.cpp:229-248). *)
THEOREM TextNeverMixed == DecoderSpec => []NoMixedText
  <1>1. ASSUME NEW b \in PureTexts PROVE Cardinality(Of(b)) <= 1
    <2>1. PICK t \in TextId : b \in TextOf(t) BY DEF PureTexts
    <2> QED BY <2>1, OneOf DEF TextOf
  <1>2. DInv => NoMixedText
    BY <1>1 DEF DInv, Pure, NoMixedText
  <1> QED
    BY <1>2, DecoderInvariance, PTL

THEOREM DecoderTypeCorrect == DecoderSpec => []DecoderTypeOK
  <1>1. ASSUME NEW l \in PureLabels PROVE l \in Labels
    BY DEF PureLabels, LabelOf, Labels
  <1>2. ASSUME NEW b \in PureTexts PROVE b \in Texts
    BY DEF PureTexts, TextOf, Texts
  <1>3. ASSUME NEW e \in PureSignals PROVE e.value \in Labels \cup Texts
    BY <1>1, <1>2 DEF PureSignals
  <1>4. ASSUME DInv PROVE DecoderTypeOK
    <2>1. \A i \in 1..Len(events) : events[i].value \in Labels \cup Texts
      BY <1>3, <1>4, ElementOfSeq DEF DInv, Pure
    <2>2. stationLabel \in Labels /\ labelBox \in Labels /\ textBuffer \in Texts /\ textBox \in Texts
      BY <1>1, <1>2, <1>4 DEF DInv, Pure
    <2>3. grp \in Groups \cup {WithoutGroup}
      BY <1>4 DEF DInv, Types
    <2> QED
      BY <1>4, <2>1, <2>2, <2>3 DEF DInv, Types, DecoderTypeOK
  <1> QED
    BY <1>4, DecoderInvariance, PTL

----------------------------------------------------------------------------
(* What a box shows once the signals es have been delivered is one of S: the
   last signal for it says so, or the box itself if there is none. *)
EndsIn(es, b, box, S) ==
    /\ \A i \in 1..Len(es) :
         es[i].box = b /\ (\A j \in i + 1..Len(es) : es[j].box # b) => es[i].value \in S
    /\ (\A i \in 1..Len(es) : es[i].box # b) => box \in S

LEMMA EndsWithout ==
    ASSUME NEW b, NEW box, NEW S
    PROVE  EndsIn(<< >>, b, box, S) <=> box \in S
  BY DEF EndsIn

LEMMA EndsMore ==
    ASSUME NEW es, NEW b, NEW box, NEW S, NEW T, S \subseteq T, EndsIn(es, b, box, S)
    PROVE  EndsIn(es, b, box, T)
  BY DEF EndsIn

(* One more signal, for the box or not for it. *)
LEMMA EndsAppend ==
    ASSUME NEW es \in Seq(PureSignals), NEW e \in PureSignals, NEW b, NEW box, NEW S,
           IF e.box = b THEN e.value \in S ELSE EndsIn(es, b, box, S)
    PROVE  EndsIn(es \o <<e>>, b, box, S)
  <1> DEFINE fs == es \o <<e>>
  <1>1. /\ Len(fs) = Len(es) + 1 /\ Len(es) \in Nat /\ fs[Len(es) + 1] = e
        /\ \A i \in 1..Len(es) : fs[i] = es[i]
    <2>1. fs = Append(es, e) BY AppendIsConcat
    <2> QED BY <2>1, AppendProperties, LenProperties
  <1> HIDE DEF fs
  <1>2. CASE e.box = b
    <2>1. ASSUME NEW i \in 1..Len(fs), fs[i].box = b, \A j \in i + 1..Len(fs) : fs[j].box # b
          PROVE  fs[i].value \in S
      <3>1. i = Len(es) + 1
        <4> SUFFICES ASSUME i # Len(es) + 1 PROVE FALSE OBVIOUS
        <4>1. Len(es) + 1 \in i + 1..Len(fs) BY <1>1
        <4> QED BY <1>1, <1>2, <2>1, <4>1
      <3> QED BY <1>1, <1>2, <3>1
    <2>2. Len(es) + 1 \in 1..Len(fs) /\ fs[Len(es) + 1].box = b BY <1>1, <1>2
    <2> QED BY <2>1, <2>2 DEF EndsIn, fs
  <1>3. CASE e.box # b
    <2>1. ASSUME NEW i \in 1..Len(fs), fs[i].box = b, \A j \in i + 1..Len(fs) : fs[j].box # b
          PROVE  fs[i].value \in S
      <3>1. i \in 1..Len(es) BY <1>1, <1>3, <2>1
      <3>2. \A j \in i + 1..Len(es) : es[j].box # b
        <4> SUFFICES ASSUME NEW j \in i + 1..Len(es) PROVE es[j].box # b OBVIOUS
        <4>1. j \in i + 1..Len(fs) /\ j \in 1..Len(es) BY <1>1, <3>1
        <4> QED BY <1>1, <2>1, <4>1
      <3> QED BY <1>1, <1>3, <2>1, <3>1, <3>2 DEF EndsIn
    <2>2. ASSUME \A i \in 1..Len(fs) : fs[i].box # b PROVE box \in S
      <3>1. \A i \in 1..Len(es) : es[i].box # b BY <1>1, <2>2
      <3> QED BY <1>3, <3>1 DEF EndsIn
    <2> QED BY <2>1, <2>2 DEF EndsIn, fs
  <1> QED BY <1>2, <1>3

(* The oldest signal is delivered. *)
LEMMA EndsTail ==
    ASSUME NEW es \in Seq(PureSignals), es # << >>, NEW b, NEW box, NEW S, EndsIn(es, b, box, S)
    PROVE  EndsIn(Tail(es), b, IF Head(es).box = b THEN Head(es).value ELSE box, S)
  <1> DEFINE ts == Tail(es)
             shown == IF Head(es).box = b THEN Head(es).value ELSE box
  <1>1. /\ Len(es) \in Nat \ {0} /\ Len(ts) = Len(es) - 1 /\ Head(es) = es[1]
        /\ \A i \in 1..Len(ts) : ts[i] = es[i + 1]
    <2>1. Len(es) \in Nat \ {0} BY EmptySeq
    <2> QED BY <2>1, HeadTailProperties
  <1> HIDE DEF ts
  <1>2. ASSUME NEW i \in 1..Len(ts), ts[i].box = b, \A j \in i + 1..Len(ts) : ts[j].box # b
        PROVE  ts[i].value \in S
    <2>1. i + 1 \in 1..Len(es) /\ ts[i] = es[i + 1] BY <1>1
    <2>2. \A j \in i + 1 + 1..Len(es) : es[j].box # b
      <3> SUFFICES ASSUME NEW j \in i + 1 + 1..Len(es) PROVE es[j].box # b OBVIOUS
      <3>1. j - 1 \in i + 1..Len(ts) /\ j - 1 \in 1..Len(ts) /\ j - 1 + 1 = j BY <1>1
      <3> QED BY <1>1, <1>2, <3>1
    <2> QED BY <1>2, <2>1, <2>2 DEF EndsIn
  <1>3. ASSUME \A i \in 1..Len(ts) : ts[i].box # b PROVE shown \in S
    <2>1. \A j \in 2..Len(es) : es[j].box # b
      <3> SUFFICES ASSUME NEW j \in 2..Len(es) PROVE es[j].box # b OBVIOUS
      <3>1. j - 1 \in 1..Len(ts) /\ j - 1 + 1 = j BY <1>1
      <3> QED BY <1>1, <1>3, <3>1
    <2>2. CASE Head(es).box = b
      <3>1. 1 \in 1..Len(es) /\ 1 + 1 = 2 BY <1>1
      <3> QED BY <1>1, <2>1, <2>2, <3>1 DEF EndsIn
    <2>3. CASE Head(es).box # b
      <3>1. \A j \in 1..Len(es) : es[j].box # b
        <4> SUFFICES ASSUME NEW j \in 1..Len(es) PROVE es[j].box # b OBVIOUS
        <4>1. j = 1 \/ j \in 2..Len(es) BY <1>1
        <4> QED BY <1>1, <2>1, <2>3, <4>1
      <3> QED BY <2>3, <3>1 DEF EndsIn
    <2> QED BY <2>2, <2>3
  <1> QED BY <1>2, <1>3 DEF EndsIn, ts

(* The display will show the station with the PI code, or nothing, once all that
   is under way has arrived. *)
ShownInv ==
    /\ piCode # Blank => /\ EndsIn(events, "label", labelBox, LabelOf(piCode))
                         /\ EndsIn(events, "text", textBox, TextFrom(piCode))
    /\ pc = "newPi" => /\ EndsIn(events, "label", labelBox, {NoLabel})
                       /\ EndsIn(events, "text", textBox, {NoText})

(* A signal sent leaves the other box to what it was to show. *)
LEMMA LabelSent ==
    ASSUME events \in Seq(PureSignals), NEW l \in PureLabels, Queue(<<SetLabel(l)>>),
           UNCHANGED boxes, NEW Ls, NEW T, l \in Ls, EndsIn(events, "text", textBox, T)
    PROVE  /\ EndsIn(events', "label", labelBox', Ls)
           /\ EndsIn(events', "text", textBox', T)
  <1>1. SetLabel(l) \in PureSignals /\ SetLabel(l).box = "label" /\ SetLabel(l).value = l
    BY SignalsArePure DEF SetLabel
  <1>2. events' = events \o <<SetLabel(l)>> /\ UNCHANGED <<labelBox, textBox>>
    BY DEF Queue, boxes
  <1>3. EndsIn(events \o <<SetLabel(l)>>, "label", labelBox, Ls)
    BY <1>1, EndsAppend
  <1>4. EndsIn(events \o <<SetLabel(l)>>, "text", textBox, T)
    BY <1>1, EndsAppend
  <1> QED BY <1>2, <1>3, <1>4

LEMMA TextSent ==
    ASSUME NEW es \in Seq(PureSignals), NEW t \in PureTexts, NEW Ls, NEW T, t \in T,
           EndsIn(es, "label", labelBox, Ls)
    PROVE  /\ EndsIn(es \o <<SetText(t)>>, "label", labelBox, Ls)
           /\ EndsIn(es \o <<SetText(t)>>, "text", textBox, T)
           /\ es \o <<SetText(t)>> \in Seq(PureSignals)
  <1>1. SetText(t) \in PureSignals /\ SetText(t).box = "text" /\ SetText(t).value = t
    BY SignalsArePure DEF SetText
  <1>2. EndsIn(es \o <<SetText(t)>>, "label", labelBox, Ls)
    BY <1>1, EndsAppend
  <1>3. EndsIn(es \o <<SetText(t)>>, "text", textBox, T)
    BY <1>1, EndsAppend
  <1>4. <<SetText(t)>> \in Seq(PureSignals)
    BY <1>1
  <1> QED BY <1>2, <1>3, <1>4, ConcatProperties

LEMMA Associates ==
    ASSUME NEW a \in Seq(PureSignals), NEW b \in Seq(PureSignals), NEW c \in Seq(PureSignals)
    PROVE  a \o (b \o c) = (a \o b) \o c
  BY ConcatAssociative

LEMMA TwoSignals ==
    ASSUME NEW a \in PureSignals, NEW b \in PureSignals
    PROVE  <<a>> \o <<b>> = <<a, b>> /\ <<a>> \in Seq(PureSignals) /\ <<b>> \in Seq(PureSignals)
  <1>1. /\ <<a>> \in Seq(PureSignals) /\ Len(<<a>>) = 1 /\ <<a>>[1] = a
        /\ <<b>> \in Seq(PureSignals) /\ Len(<<b>>) = 1 /\ <<b>>[1] = b
    OBVIOUS
  <1>2. <<a, b>> \in Seq(PureSignals) /\ Len(<<a, b>>) = 2
        /\ <<a, b>>[1] = a /\ <<a, b>>[2] = b
    OBVIOUS
  <1> DEFINE s == <<a>>
             t == <<b>>
             u == <<a, b>>
  <1>3. s \o t = u
    <2> HIDE DEF s, t, u
    <2>0. s \in Seq(PureSignals) /\ Len(s) = 1 /\ s[1] = a
          /\ t \in Seq(PureSignals) /\ Len(t) = 1 /\ t[1] = b
          /\ u \in Seq(PureSignals) /\ Len(u) = 2 /\ u[1] = a /\ u[2] = b
      BY <1>1, <1>2 DEF s, t, u
    <2>1. /\ s \o t \in Seq(PureSignals) /\ Len(s \o t) = Len(s) + Len(t)
          /\ \A i \in 1..Len(s) + Len(t) : (s \o t)[i] = IF i <= Len(s) THEN s[i] ELSE t[i - Len(s)]
      BY <2>0, ConcatProperties
    <2>2. \A i \in 1..Len(u) : (s \o t)[i] = u[i]
      BY <2>0, <2>1
    <2> QED BY <2>0, <2>1, <2>2, SeqEqual
  <1> QED BY <1>1, <1>3

(* reset of the processor tells both boxes to show nothing. *)
LEMMA ResetSent ==
    ASSUME DInv, ResetEnd
    PROVE  /\ EndsIn(events', "label", labelBox', {NoLabel})
           /\ EndsIn(events', "text", textBox', {NoText})
  <1>1. /\ events \in Seq(PureSignals) /\ stationLabel = NoLabel
        /\ NoLabel \in PureLabels /\ NoText \in PureTexts
    BY NothingIsPure DEF DInv, Types, Pure, LabelInv, ResetEnd
  <1> DEFINE e1 == SetText(NoText)
             e2 == SetLabel(NoLabel)
  <1>2. events' = events \o <<e1, e2>> /\ UNCHANGED <<labelBox, textBox>>
    BY <1>1 DEF ResetEnd, Queue, ResetSignals, boxes
  <1>3. /\ e1 \in PureSignals /\ e1.box = "text" /\ e1.value = NoText
        /\ e2 \in PureSignals /\ e2.box = "label" /\ e2.value = NoLabel
    BY <1>1, SignalsArePure DEF SetText, SetLabel
  <1> HIDE DEF e1, e2
  <1>4. events \o <<e1, e2>> = (events \o <<e1>>) \o <<e2>>
    <2>1. <<e1>> \in Seq(PureSignals) /\ <<e2>> \in Seq(PureSignals) /\ <<e1>> \o <<e2>> = <<e1, e2>>
      BY <1>3, TwoSignals
    <2>2. events \o (<<e1>> \o <<e2>>) = (events \o <<e1>>) \o <<e2>>
      BY <1>1, <2>1, Associates
    <2> QED BY Zenon, <2>1, <2>2
  <1>5. events \o <<e1>> \in Seq(PureSignals)
    <2>1. <<e1>> \in Seq(PureSignals) BY <1>3
    <2> QED BY <1>1, <2>1, ConcatProperties
  <1>6. EndsIn(events \o <<e1>>, "text", textBox, {NoText})
    BY <1>1, <1>3, EndsAppend
  <1>7. EndsIn((events \o <<e1>>) \o <<e2>>, "text", textBox, {NoText})
    BY <1>3, <1>5, <1>6, EndsAppend
  <1>8. EndsIn((events \o <<e1>>) \o <<e2>>, "label", labelBox, {NoLabel})
    BY <1>3, <1>5, EndsAppend
  <1> QED BY <1>2, <1>4, <1>7, <1>8

(* What StoreText sends, for the station the text is from. *)
LEMMA StoreSent ==
    ASSUME DInv, NEW ends \in BOOLEAN, StoreText(ends), NEW Ls,
           EndsIn(events, "label", labelBox, Ls), EndsIn(events, "text", textBox, TextFrom(grp.of))
    PROVE  /\ EndsIn(events', "label", labelBox', Ls)
           /\ EndsIn(events', "text", textBox', TextFrom(grp.of))
  <1> DEFINE t      == [of |-> grp.of, ab |-> grp.ab]
             before == [i \in TextSegs |-> IF i < grp.seg THEN textBuffer'[i] ELSE Blank]
             T      == TextFrom(grp.of)
  <1>1. /\ textBuffer' \in TextOf(t) /\ before \in TextOf(t)
        /\ grp.of \in Stations /\ grp.ab \in {0, 1}
    BY TextSignals DEF DInv
  <1>2. PICK m1, m2 \in BOOLEAN :
             Queue((IF m1 THEN <<SetText(before)>> ELSE << >>)
                   \o (IF m2 THEN <<SetText(textBuffer')>> ELSE << >>))
    BY TextSignals DEF DInv
  <1>3. /\ textBuffer' \in PureTexts /\ before \in PureTexts
        /\ textBuffer' \in T /\ before \in T
    BY <1>1, StorePure
  <1>4. UNCHANGED <<labelBox, textBox>> BY DEF StoreText, boxes
  <1>5. events \in Seq(PureSignals) BY DEF DInv, Pure
  <1> HIDE DEF before, T
  <1> DEFINE s1 == IF m1 THEN <<SetText(before)>> ELSE << >>
             s2 == IF m2 THEN <<SetText(textBuffer')>> ELSE << >>
  <1>6. s1 \in Seq(PureSignals) /\ s2 \in Seq(PureSignals)
    <2>1. SetText(before) \in PureSignals /\ SetText(textBuffer') \in PureSignals
      BY <1>3, SignalsArePure
    <2> QED BY <2>1
  <1>7. /\ EndsIn(events \o s1, "label", labelBox, Ls) /\ EndsIn(events \o s1, "text", textBox, T)
        /\ events \o s1 \in Seq(PureSignals)
    <2>1. CASE m1 BY <1>3, <1>5, <2>1, TextSent
    <2>2. CASE ~m1
      <3>1. events \o s1 = events BY <1>5, <2>2, ConcatEmptySeq
      <3> QED BY <1>5, <3>1 DEF T
    <2> QED BY <2>1, <2>2
  <1> DEFINE es == events \o s1
  <1>8. /\ EndsIn(es \o s2, "label", labelBox, Ls) /\ EndsIn(es \o s2, "text", textBox, T)
    <2> HIDE DEF es
    <2>0. /\ EndsIn(es, "label", labelBox, Ls) /\ EndsIn(es, "text", textBox, T)
          /\ es \in Seq(PureSignals)
      BY <1>7 DEF es
    <2>1. CASE m2 BY <1>3, <2>0, <2>1, TextSent
    <2>2. CASE ~m2
      <3>1. es \o s2 = es BY <2>0, <2>2, ConcatEmptySeq
      <3> QED BY <2>0, <3>1
    <2> QED BY <2>1, <2>2
  <1>9. events' = es \o s2
    <2>1. events' = events \o (s1 \o s2) BY <1>2 DEF Queue
    <2>2. events \o (s1 \o s2) = (events \o s1) \o s2 
      <3> HIDE DEF s1, s2
      <3> QED BY <1>5, <1>6, Associates
    <2> QED BY <2>1, <2>2
  <1> QED BY <1>4, <1>8, <1>9 DEF T

LEMMA ShownStep == DInv /\ DInv' /\ ShownInv /\ [DecoderNext]_displayVars => ShownInv'
  <1> SUFFICES ASSUME DInv, DInv', ShownInv, [DecoderNext]_displayVars PROVE ShownInv'
    OBVIOUS
  <1>0. /\ Blank \notin Stations /\ (pc # "wait" => grp \in Groups /\ grp.of \in Stations)
        /\ tuned \in Stations /\ events \in Seq(PureSignals)
        /\ NoLabel \in PureLabels /\ NoText \in PureTexts
    BY DecoderAssumption, NothingIsPure DEF DInv, Types, Pure, Groups
  <1>1. ASSUME UNCHANGED <<events, labelBox, textBox>>, piCode' \in {piCode, Blank},
               pc' = "newPi" => pc = "newPi"
        PROVE  ShownInv'
    BY <1>1 DEF ShownInv
  (* a signal of the processor, which is decoding *)
  <1>2. ASSUME pc \in Decoding, pc' # "newPi", piCode' = piCode,
               piCode # Blank =>
                  /\ EndsIn(events', "label", labelBox', LabelOf(piCode))
                  /\ EndsIn(events', "text", textBox', TextFrom(piCode))
        PROVE  ShownInv'
    BY <1>2 DEF ShownInv
  <1>3. pc \in Decoding /\ piCode # Blank => piCode = grp.of
    BY DEF DInv, LabelInv
  <1>4. CASE CatchUp BY <1>1, <1>4 DEF CatchUp, decoderVars, boxes
  <1>5. CASE NewText BY <1>1, <1>5 DEF NewText, decoderVars, boxes
  <1>6. ASSUME NEW g \in Groups, TakeGroup(g) PROVE ShownInv'
    BY <1>1, <1>6 DEF TakeGroup, decoderVars, boxes
  <1>7. CASE CheckPi BY <1>1, <1>7 DEF CheckPi, Body, decoderVars, boxes
  <1>8. CASE ResetPi BY <1>1, <1>8 DEF ResetPi, ClearPi, boxes
  <1>9. CASE ResetLabel BY <1>1, <1>9 DEF ResetLabel, boxes
  <1>10. CASE ResetText BY <1>1, <1>10 DEF ResetText, boxes
  <1>11. CASE ResetEnd
    <2>1. piCode = Blank /\ piCode' = Blank /\ pc' = "newPi"
      BY <1>11 DEF ResetEnd, decoderVars, DInv, LabelInv, Resetting
    <2> QED BY <1>11, <2>1, ResetSent DEF ShownInv
  <1>12. CASE NewPi
    <2>1. /\ piCode' = grp.of /\ pc' \in {"name", "flag"} /\ UNCHANGED <<events, labelBox, textBox>>
          /\ pc = "newPi"
      BY <1>12 DEF NewPi, Body, boxes
    <2>2. {NoLabel} \subseteq LabelOf(grp.of) /\ {NoText} \subseteq TextFrom(grp.of)
      BY <1>0, NothingIsPure
    <2>3. EndsIn(events, "label", labelBox, LabelOf(grp.of))
      BY <2>1, <2>2, EndsMore DEF ShownInv
    <2>4. EndsIn(events, "text", textBox, TextFrom(grp.of))
      BY <2>1, <2>2, EndsMore DEF ShownInv
    <2> QED BY <2>1, <2>3, <2>4 DEF ShownInv
  <1>13. CASE StoreName
    <2>1. /\ pc = "name" /\ pc' = "mark" /\ UNCHANGED <<piCode, grp, labelBox, textBox>>
          /\ Queue(<<SetLabel(stationLabel')>>) /\ UNCHANGED boxes
      BY <1>13 DEF StoreName, boxes
    <2>2. stationLabel' \in LabelOf(grp.of) /\ stationLabel' \in PureLabels
      BY <2>1 DEF DInv, LabelInv, Pure, Decoding
    <2>3. ASSUME piCode # Blank
          PROVE  /\ EndsIn(events', "label", labelBox', LabelOf(piCode))
                 /\ EndsIn(events', "text", textBox', TextFrom(piCode))
      <3>1. piCode = grp.of BY <1>3, <2>1, <2>3 DEF Decoding
      <3> QED BY <1>0, <2>1, <2>2, <2>3, <3>1, LabelSent DEF ShownInv
    <2> QED BY <1>2, <2>1, <2>3 DEF Decoding
  <1>14. CASE MarkName
    <2>1. /\ pc = "mark" /\ pc' = "wait" /\ UNCHANGED <<piCode, boxes>>
          /\ Queue(<<SetLabel(stationLabel)>>) \/ UNCHANGED events
      BY <1>14 DEF MarkName
    <2>2. stationLabel \in LabelOf(grp.of) /\ stationLabel \in PureLabels
      BY <2>1 DEF DInv, LabelInv, Pure, Decoding
    <2>3. CASE UNCHANGED events BY <1>1, <2>1, <2>3 DEF boxes
    <2>4. CASE Queue(<<SetLabel(stationLabel)>>)
      <3>1. ASSUME piCode # Blank
            PROVE  /\ EndsIn(events', "label", labelBox', LabelOf(piCode))
                   /\ EndsIn(events', "text", textBox', TextFrom(piCode))
        <4>1. piCode = grp.of BY <1>3, <2>1, <3>1 DEF Decoding
        <4> QED BY <1>0, <2>1, <2>2, <2>4, <3>1, <4>1, LabelSent DEF ShownInv
      <3> QED BY <1>2, <2>1, <3>1 DEF Decoding
    <2> QED BY <2>1, <2>3, <2>4
  <1>15. CASE CheckFlag
    <2>1. /\ pc = "flag" /\ pc' = "text" /\ UNCHANGED <<piCode, labelBox, textBox>>
          /\ IF textABflag = grp.ab THEN UNCHANGED events ELSE Queue(<<SetText(NoText)>>)
      BY <1>15 DEF CheckFlag, boxes
    <2>2. CASE UNCHANGED events BY <1>1, <2>1, <2>2
    <2>3. CASE Queue(<<SetText(NoText)>>)
      <3>1. ASSUME piCode # Blank
            PROVE  /\ EndsIn(events', "label", labelBox', LabelOf(piCode))
                   /\ EndsIn(events', "text", textBox', TextFrom(piCode))
        <4>1. events' = events \o <<SetText(NoText)>> BY <2>3 DEF Queue
        <4>2. NoText \in TextFrom(piCode) BY <1>0, NothingIsPure
        <4>3. EndsIn(events, "label", labelBox, LabelOf(piCode)) BY <3>1 DEF ShownInv
        <4>4. /\ EndsIn(events \o <<SetText(NoText)>>, "label", labelBox, LabelOf(piCode))
              /\ EndsIn(events \o <<SetText(NoText)>>, "text", textBox, TextFrom(piCode))
          BY <1>0, <4>2, <4>3, TextSent
        <4> QED BY <2>1, <4>1, <4>4
      <3> QED BY <1>2, <2>1, <3>1 DEF Decoding
    <2> QED BY <2>1, <2>2, <2>3
  <1>16. ASSUME NEW ends \in BOOLEAN, StoreText(ends) PROVE ShownInv'
    <2>1. pc = "text" /\ pc' = "wait" /\ piCode' = piCode BY <1>16 DEF StoreText
    <2>2. ASSUME piCode # Blank
          PROVE  /\ EndsIn(events', "label", labelBox', LabelOf(piCode))
                 /\ EndsIn(events', "text", textBox', TextFrom(piCode))
      <3>1. piCode = grp.of BY <1>3, <2>1, <2>2 DEF Decoding
      <3> QED BY <1>16, <2>2, <3>1, StoreSent DEF ShownInv
    <2> QED BY <1>2, <2>1, <2>2 DEF Decoding
  <1>17. ASSUME NEW s \in Stations, NEW big \in BOOLEAN, Tune(s, big) PROVE ShownInv'
    BY <1>1, <1>17 DEF Tune, decoderVars, boxes
  <1>18. CASE GuiResetPi BY <1>1, <1>18 DEF GuiResetPi, ClearPi, boxes
  <1>19. CASE GuiResetLabel BY <1>1, <1>19 DEF GuiResetLabel, boxes
  <1>20. CASE GuiResetText BY <1>1, <1>20 DEF GuiResetText, boxes
  <1>21. CASE GuiResetEnd
    <2>1. /\ textBox' = NoText /\ labelBox' = stationLabel
          /\ UNCHANGED <<events, piCode, pc, stationLabel>>
      BY <1>21 DEF GuiResetEnd, decoderVars
    <2>2. ASSUME piCode # Blank
          PROVE  /\ EndsIn(events', "label", labelBox', LabelOf(piCode))
                 /\ EndsIn(events', "text", textBox', TextFrom(piCode))
      <3>1. stationLabel \in LabelOf(piCode) /\ NoText \in TextFrom(piCode)
        BY <1>0, <2>2, NothingIsPure DEF DInv, LabelInv
      <3> QED BY <2>1, <2>2, <3>1 DEF ShownInv, EndsIn
    <2>3. ASSUME pc = "newPi"
          PROVE  /\ EndsIn(events', "label", labelBox', {NoLabel})
                 /\ EndsIn(events', "text", textBox', {NoText})
      <3>1. stationLabel = NoLabel BY <2>3 DEF DInv, LabelInv
      <3> QED BY <2>1, <2>3, <3>1 DEF ShownInv, EndsIn
    <2> QED BY <2>1, <2>2, <2>3 DEF ShownInv
  <1>22. CASE Show
    <2>1. /\ events # << >> /\ events' = Tail(events) /\ UNCHANGED <<piCode, pc>>
      BY <1>22 DEF Show, decoderVars
    <2>2. Head(events) \in PureSignals BY <1>0, <2>1, HeadTailProperties
    <2>3. Head(events).box \in {"label", "text"} BY <2>2 DEF PureSignals
    <2>4. labelBox' = IF Head(events).box = "label" THEN Head(events).value ELSE labelBox
      BY <1>22 DEF Show
    <2>5. textBox' = IF Head(events).box = "text" THEN Head(events).value ELSE textBox
      BY <1>22, <2>3 DEF Show
    <2>6. ASSUME NEW Ls, EndsIn(events, "label", labelBox, Ls)
          PROVE  EndsIn(events', "label", labelBox', Ls)
      BY <1>0, <2>1, <2>4, <2>6, EndsTail
    <2>7. ASSUME NEW T, EndsIn(events, "text", textBox, T)
          PROVE  EndsIn(events', "text", textBox', T)
      BY <1>0, <2>1, <2>5, <2>7, EndsTail
    <2> QED BY <2>1, <2>6, <2>7 DEF ShownInv
  <1>23. CASE UNCHANGED displayVars BY <1>1, <1>23 DEF displayVars, decoderVars, boxes
  <1> QED
    BY <1>4, <1>5, <1>6, <1>7, <1>8, <1>9, <1>10, <1>11, <1>12, <1>13, <1>14, <1>15,
       <1>16, <1>17, <1>18, <1>19, <1>20, <1>21, <1>22, <1>23
       DEF DecoderNext, Processor, Decode, GuiReset

(* Once the decoder has the PI code of the station tuned and the signals are
   delivered, nothing of another station is on display, however many signals
   the two threads had under way (rds-groupdecoder.cpp:91-110). *)
THEOREM DisplayEndsRight == DecoderSpec => []ShowsStationTuned
  <1>1. DecoderInit => ShownInv
    BY DEF DecoderInit, ShownInv
  <1>2. DInv /\ ShownInv => ShowsStationTuned
    <2> SUFFICES ASSUME DInv, ShownInv, piCode = tuned, events = << >>
                 PROVE  Of(labelBox) \subseteq {tuned} /\ \A t \in Of(textBox) : t.of = tuned
      BY DEF ShowsStationTuned
    <2>1. piCode # Blank
      BY DecoderAssumption DEF DInv, Types
    <2>2. labelBox \in LabelOf(tuned) /\ textBox \in TextFrom(tuned)
      BY <2>1, EndsWithout DEF ShownInv
    <2>3. Of(labelBox) \subseteq {tuned}
      BY <2>2 DEF LabelOf, Of
    <2>4. \A t \in Of(textBox) : t.of = tuned
      BY <2>2 DEF TextFrom, Of
    <2> QED BY <2>3, <2>4
  <1> QED
    BY <1>1, <1>2, DecoderInvariance, ShownStep, PTL DEF DecoderSpec
==============================================================================
