----------------------------- MODULE Crc32Proofs -----------------------------
(***************************************************************************)
(* The check sum of the engine (crc32.h) is the standard one, for messages *)
(* of any length: the register of the shifting loop, read backwards, is    *)
(* the remainder of what has been divided so far.                          *)
(*                                                                         *)
(* The loops are recursive functions.  That they have the values their     *)
(* equations give, and what these are, is shown by induction over sets of  *)
(* naturals, which the well-founded minimum of the library provides.       *)
(***************************************************************************)
EXTENDS Crc32, TLAPS, WellFoundedInduction

-----------------------------------------------------------------------------
(* What a sequence is made of.                                             *)
LEMMA Elements ==
  ASSUME NEW S, NEW q \in Seq(S)
  PROVE  Len(q) \in Nat /\ \A i \in 1..Len(q) : q[i] \in S
OBVIOUS

(* A set of naturals with zero and every successor is all of them.         *)
LEMMA SetInduction ==
  ASSUME NEW S, 0 \in S, \A n \in Nat : n \in S => n + 1 \in S
  PROVE  Nat \subseteq S
<1> SUFFICES ASSUME Nat \ S # {} PROVE FALSE
  OBVIOUS
<1>1. PICK x \in Nat \ S : \A y \in Nat \ S : <<y, x>> \notin OpToRel(<, Nat)
  BY NatLessThanWellFounded, WFMin
<1>2. x # 0 /\ x - 1 \in Nat /\ x - 1 + 1 = x /\ x - 1 < x
  OBVIOUS
<1>3. x - 1 \notin S
  BY <1>2
<1> QED
  BY <1>1, <1>2, <1>3 DEF OpToRel

(* The same up to a bound.                                                 *)
LEMMA BoundedInduction ==
  ASSUME NEW m \in Nat, NEW S, 0 \in S, \A i \in 1..m : i - 1 \in S => i \in S
  PROVE  0..m \subseteq S
<1> DEFINE T == {n \in Nat : n <= m => n \in S}
<1>1. 0 \in T
  OBVIOUS
<1>2. ASSUME NEW n \in Nat, n \in T PROVE n + 1 \in T
  <2>1. CASE n + 1 <= m
    <3>1. n \in S /\ n + 1 \in 1..m /\ n + 1 - 1 = n
      BY <1>2, <2>1
    <3> QED
      BY <3>1
  <2>2. CASE ~(n + 1 <= m)
    BY <2>2
  <2> QED
    BY <2>1, <2>2
<1> HIDE DEF T
<1>3. Nat \subseteq T
  BY <1>1, <1>2, SetInduction
<1> QED
  BY <1>3 DEF T

\* g is the states, all of S, of a loop of m rounds that starts at c.
IsLoop(g, S, c, m, F) ==
  /\ g \in [0..m -> S]
  /\ g[0] = c
  /\ \A i \in 1..m : g[i - 1] \in S /\ g[i] = F[i][g[i - 1]]

(* A loop whose rounds stay in S has a function of its states.             *)
LEMMA LoopExists ==
  ASSUME NEW S, NEW c \in S, NEW m \in Nat, NEW F \in [1..m -> [S -> S]]
  PROVE  \E g : IsLoop(g, S, c, m, F)
<1> DEFINE Good(k, g) == g \in [0..k -> S] /\ g[0] = c /\ \A i \in 1..k : g[i] = F[i][g[i - 1]]
           T == {k \in 0..m : \E g \in [0..k -> S] : Good(k, g)}
<1>1. 0 \in T
  <2> DEFINE g == [i \in 0..0 |-> c]
  <2>1. g \in [0..0 -> S] /\ g[0] = c /\ 1..0 = {}
    OBVIOUS
  <2>2. Good(0, g)
    BY <2>1
  <2> HIDE DEF g, Good
  <2>3. \E f \in [0..0 -> S] : Good(0, f)
    BY <2>1, <2>2
  <2> QED
    BY <2>3
<1>2. ASSUME NEW k \in 1..m, k - 1 \in T PROVE k \in T
  <2>1. PICK g \in [0..(k - 1) -> S] : Good(k - 1, g)
    BY <1>2
  <2> DEFINE h == [i \in 0..k |-> IF i = k THEN F[k][g[k - 1]] ELSE g[i]]
  <2>2. F[k] \in [S -> S] /\ g[k - 1] \in S
    OBVIOUS
  <2>3. \A i \in 0..k : i # k => i \in 0..(k - 1)
    OBVIOUS
  <2>4. h \in [0..k -> S]
    BY <2>2, <2>3
  <2>5. h[0] = c
    BY <2>1
  <2>6. ASSUME NEW i \in 1..k PROVE h[i] = F[i][h[i - 1]]
    <3>1. i \in 0..k /\ i - 1 \in 0..k /\ i - 1 # k
      OBVIOUS
    <3>2. h[i - 1] = g[i - 1]
      BY <3>1
    <3>3. CASE i = k
      BY <3>1, <3>2, <3>3
    <3>4. CASE i # k
      <4>1. i \in 1..(k - 1)
        BY <3>4
      <4> QED
        BY <2>1, <3>1, <3>2, <3>4, <4>1
    <3> QED
      BY <3>3, <3>4
  <2>7. Good(k, h)
    BY <2>4, <2>5, <2>6
  <2> HIDE DEF h, Good
  <2>8. \E f \in [0..k -> S] : Good(k, f)
    BY <2>4, <2>7
  <2> QED
    BY <2>8
<1> HIDE DEF T
<1>3. 0..m \subseteq T
  BY <1>1, <1>2, BoundedInduction
<1>4. PICK g \in [0..m -> S] : Good(m, g)
  BY <1>3 DEF T
<1>5. \A i \in 1..m : i - 1 \in 0..m
  OBVIOUS
<1> QED
  BY <1>4, <1>5 DEF IsLoop

-----------------------------------------------------------------------------
Word == SUBSET (0..31)

(* Exclusive or is commutative, associative and its own inverse.           *)
LEMMA XorFacts ==
  /\ \A a, b : Xor(a, b) = Xor(b, a)
  /\ \A a, b, c : Xor(Xor(a, b), c) = Xor(a, Xor(b, c))
  /\ \A a : Xor(a, {}) = a
BY DEF Xor

(* A byte has eight bits.                                                  *)
LEMMA BitsOfByte == \A b \in 0..255 : Bits(b, 0) \in SUBSET (0..7)
<1> SUFFICES ASSUME NEW b \in 0..255 PROVE Bits(b, 0) \in SUBSET (0..7)
  OBVIOUS
<1>1. /\ BitAt(b, 8) = 0 /\ BitAt(b, 9) = 0 /\ BitAt(b, 10) = 0 /\ BitAt(b, 11) = 0
      /\ BitAt(b, 12) = 0 /\ BitAt(b, 13) = 0 /\ BitAt(b, 14) = 0 /\ BitAt(b, 15) = 0
  BY DEF BitAt
<1>2. \A j \in 0..15 : j \in 0..7 \/ j \in {8, 9, 10, 11, 12, 13, 14, 15}
  OBVIOUS
<1>3. {j \in 0..15 : BitAt(b, j) = 1} \subseteq 0..7
  BY <1>1, <1>2
<1> QED
  BY <1>3 DEF Bits

(* The one bits of 0xEDB8 ...                                              *)
LEMMA PolyHigh == {j \in 0..15 : BitAt(60856, j) = 1} = {3, 4, 5, 7, 8, 10, 11, 13, 14, 15}
<1>1. /\ BitAt(60856, 3) = 1 /\ BitAt(60856, 4) = 1 /\ BitAt(60856, 5) = 1 /\ BitAt(60856, 7) = 1
      /\ BitAt(60856, 8) = 1 /\ BitAt(60856, 10) = 1 /\ BitAt(60856, 11) = 1 /\ BitAt(60856, 13) = 1
      /\ BitAt(60856, 14) = 1 /\ BitAt(60856, 15) = 1
  BY DEF BitAt
<1>2. /\ BitAt(60856, 0) = 0 /\ BitAt(60856, 1) = 0 /\ BitAt(60856, 2) = 0 /\ BitAt(60856, 6) = 0
      /\ BitAt(60856, 9) = 0 /\ BitAt(60856, 12) = 0
  BY DEF BitAt
<1>3. \A j \in 0..15 : j \in {3, 4, 5, 7, 8, 10, 11, 13, 14, 15} \/ j \in {0, 1, 2, 6, 9, 12}
  OBVIOUS
<1>4. \A j \in {3, 4, 5, 7, 8, 10, 11, 13, 14, 15} : j \in 0..15 /\ BitAt(60856, j) = 1
  BY <1>1
<1>5. \A j \in {0, 1, 2, 6, 9, 12} : BitAt(60856, j) = 0
  BY <1>2
<1> QED
  BY <1>3, <1>4, <1>5

(* ... and of 0x8320, ...                                                  *)
LEMMA PolyLow == {j \in 0..15 : BitAt(33568, j) = 1} = {5, 8, 9, 15}
<1>1. /\ BitAt(33568, 5) = 1 /\ BitAt(33568, 8) = 1 /\ BitAt(33568, 9) = 1 /\ BitAt(33568, 15) = 1
  BY DEF BitAt
<1>2. /\ BitAt(33568, 0) = 0 /\ BitAt(33568, 1) = 0 /\ BitAt(33568, 2) = 0 /\ BitAt(33568, 3) = 0
      /\ BitAt(33568, 4) = 0 /\ BitAt(33568, 6) = 0 /\ BitAt(33568, 7) = 0 /\ BitAt(33568, 10) = 0
      /\ BitAt(33568, 11) = 0 /\ BitAt(33568, 12) = 0 /\ BitAt(33568, 13) = 0 /\ BitAt(33568, 14) = 0
  BY DEF BitAt
<1>3. \A j \in 0..15 : j \in {5, 8, 9, 15} \/ j \in {0, 1, 2, 3, 4, 6, 7, 10, 11, 12, 13, 14}
  OBVIOUS
<1>4. \A j \in {5, 8, 9, 15} : j \in 0..15 /\ BitAt(33568, j) = 1
  BY <1>1
<1>5. \A j \in {0, 1, 2, 3, 4, 6, 7, 10, 11, 12, 13, 14} : BitAt(33568, j) = 0
  BY <1>2
<1> QED
  BY <1>3, <1>4, <1>5

(* ... of 0x04C1 ...                                                       *)
LEMMA GeneratorHigh == {j \in 0..15 : BitAt(1217, j) = 1} = {0, 6, 7, 10}
<1>1. /\ BitAt(1217, 0) = 1 /\ BitAt(1217, 6) = 1 /\ BitAt(1217, 7) = 1 /\ BitAt(1217, 10) = 1
  BY DEF BitAt
<1>2. /\ BitAt(1217, 1) = 0 /\ BitAt(1217, 2) = 0 /\ BitAt(1217, 3) = 0 /\ BitAt(1217, 4) = 0
      /\ BitAt(1217, 5) = 0 /\ BitAt(1217, 8) = 0 /\ BitAt(1217, 9) = 0 /\ BitAt(1217, 11) = 0
      /\ BitAt(1217, 12) = 0 /\ BitAt(1217, 13) = 0 /\ BitAt(1217, 14) = 0 /\ BitAt(1217, 15) = 0
  BY DEF BitAt
<1>3. \A j \in 0..15 : j \in {0, 6, 7, 10} \/ j \in {1, 2, 3, 4, 5, 8, 9, 11, 12, 13, 14, 15}
  OBVIOUS
<1>4. \A j \in {0, 6, 7, 10} : j \in 0..15 /\ BitAt(1217, j) = 1
  BY <1>1
<1>5. \A j \in {1, 2, 3, 4, 5, 8, 9, 11, 12, 13, 14, 15} : BitAt(1217, j) = 0
  BY <1>2
<1> QED
  BY <1>3, <1>4, <1>5

(* ... and of 0x1DB7.                                                      *)
LEMMA GeneratorLow == {j \in 0..15 : BitAt(7607, j) = 1} = {0, 1, 2, 4, 5, 7, 8, 10, 11, 12}
<1>1. /\ BitAt(7607, 0) = 1 /\ BitAt(7607, 1) = 1 /\ BitAt(7607, 2) = 1 /\ BitAt(7607, 4) = 1
      /\ BitAt(7607, 5) = 1 /\ BitAt(7607, 7) = 1 /\ BitAt(7607, 8) = 1 /\ BitAt(7607, 10) = 1
      /\ BitAt(7607, 11) = 1 /\ BitAt(7607, 12) = 1
  BY DEF BitAt
<1>2. /\ BitAt(7607, 3) = 0 /\ BitAt(7607, 6) = 0 /\ BitAt(7607, 9) = 0 /\ BitAt(7607, 13) = 0
      /\ BitAt(7607, 14) = 0 /\ BitAt(7607, 15) = 0
  BY DEF BitAt
<1>3. \A j \in 0..15 : j \in {0, 1, 2, 4, 5, 7, 8, 10, 11, 12} \/ j \in {3, 6, 9, 13, 14, 15}
  OBVIOUS
<1>4. \A j \in {0, 1, 2, 4, 5, 7, 8, 10, 11, 12} : j \in 0..15 /\ BitAt(7607, j) = 1
  BY <1>1
<1>5. \A j \in {3, 6, 9, 13, 14, 15} : BitAt(7607, j) = 0
  BY <1>2
<1> QED
  BY <1>3, <1>4, <1>5

(* The two polynomials are each other's mirror image.                      *)
LEMMA Mirror ==
  /\ Poly \subseteq 0..31
  /\ Generator = {32} \cup {31 - i : i \in Poly}
<1>1. Poly = {19, 20, 21, 23, 24, 26, 27, 29, 30, 31} \cup {5, 8, 9, 15}
  BY PolyHigh, PolyLow DEF Poly, Bits
<1>2. Generator = {32} \cup {16, 22, 23, 26} \cup {0, 1, 2, 4, 5, 7, 8, 10, 11, 12}
  BY GeneratorHigh, GeneratorLow DEF Generator, Bits
<1>3. {31 - i : i \in Poly} = {12, 11, 10, 8, 7, 5, 4, 2, 1, 0} \cup {26, 23, 22, 16}
  BY <1>1
<1> QED
  BY <1>1, <1>2, <1>3

-----------------------------------------------------------------------------
\* The polynomial of a word read backwards, times x^s.
Image(d, s) == {31 - i + s : i \in d}

(* Which powers it has.                                                    *)
LEMMA InImage ==
  ASSUME NEW d \in Word, NEW s \in Nat
  PROVE  /\ Image(d, s) \in SUBSET (s..(s + 31))
         /\ \A x \in Nat : x \in Image(d, s) <=> 31 + s - x \in d
<1>1. \A i \in d : 31 - i + s \in s..(s + 31) /\ 31 + s - (31 - i + s) = i
  BY DEF Word
<1>2. \A x \in Nat : 31 - (31 + s - x) + s = x
  OBVIOUS
<1> QED
  BY <1>1, <1>2 DEF Image

(* A word of ones is thirty-two powers in a row.                           *)
LEMMA ImageOfOnes == \A s \in Nat : Image(0..31, s) = s..(s + 31)
<1> SUFFICES ASSUME NEW s \in Nat PROVE Image(0..31, s) = s..(s + 31)
  OBVIOUS
<1>1. \A i \in 0..31 : 31 - i + s \in s..(s + 31)
  OBVIOUS
<1>2. \A x \in s..(s + 31) : 31 + s - x \in 0..31 /\ 31 - (31 + s - x) + s = x
  OBVIOUS
<1> QED
  BY <1>1, <1>2 DEF Image

(* Reading backwards twice gives the word back.                            *)
LEMMA ImageBack == \A d \in Word : {31 - i : i \in Image(d, 0)} = d
<1> SUFFICES ASSUME NEW d \in Word PROVE {31 - i : i \in Image(d, 0)} = d
  OBVIOUS
<1>1. \A i \in d : 31 - (31 - i + 0) = i
  BY DEF Word
<1>2. {31 - i : i \in Image(d, 0)} = {31 - (31 - i + 0) : i \in d}
  BY DEF Image
<1> QED
  BY <1>1, <1>2

(* Of an exclusive or, it is the exclusive or.                             *)
LEMMA ImageOfXor ==
  ASSUME NEW c \in Word, NEW d \in Word, NEW s \in Nat
  PROVE  Xor(c, d) \in Word /\ Image(Xor(c, d), s) = Xor(Image(c, s), Image(d, s))
<1>1. Xor(c, d) \in Word
  BY DEF Xor, Word
<1>2. \A x \in Nat : x \in Image(Xor(c, d), s) <=> x \in Xor(Image(c, s), Image(d, s))
  BY <1>1, InImage DEF Xor
<1>3. Image(Xor(c, d), s) \subseteq Nat /\ Xor(Image(c, s), Image(d, s)) \subseteq Nat
  <2>1. s..(s + 31) \subseteq Nat
    OBVIOUS
  <2> QED
    BY <1>1, <2>1, InImage DEF Xor
<1> QED
  BY <1>1, <1>2, <1>3

(* The register stays a word ...                                           *)
LEMMA CrcBitTyped == \A d \in Word : CrcBit(d) \in Word
<1> SUFFICES ASSUME NEW d \in Word PROVE CrcBit(d) \in Word
  OBVIOUS
<1>1. {i - 1 : i \in d \ {0}} \in Word /\ Poly \in Word /\ {} \in Word
  BY Mirror DEF Word
<1> QED
  BY <1>1, 0 \in Nat, ImageOfXor DEF CrcBit

(* ... and one round of the loop is one step of the division.              *)
LEMMA BitStep ==
  ASSUME NEW d \in Word, NEW s \in Nat, NEW N, 32 + s \notin N
  PROVE  Reduce(Xor(Image(d, s + 1), N), 32 + s) = Xor(Image(CrcBit(d), s), N)
<1> DEFINE e == 32 + s
           a == {i - 1 : i \in d \ {0}}
           D == {g + e - 32 : g \in Generator}
<1>1. a \in Word /\ Poly \in Word /\ {} \in Word
  BY Mirror DEF Word
<1>3. Image(d, s + 1) = Image(a, s) \cup (IF 0 \in d THEN {e} ELSE {})
  <2>1. \A i \in d \ {0} : 31 - i + (s + 1) = 31 - (i - 1) + s
    BY DEF Word
  <2>2. 31 - 0 + (s + 1) = e
    OBVIOUS
  <2> QED
    BY <2>1, <2>2 DEF Image
<1>4. D = {e} \cup Image(Poly, s)
  <2>1. \A i \in 0..31 : (31 - i) + e - 32 = 31 - i + s
    OBVIOUS
  <2>2. 32 + e - 32 = e
    OBVIOUS
  <2>3. D = {32 + e - 32} \cup {(31 - i) + e - 32 : i \in Poly}
    BY Mirror
  <2> QED
    BY <2>1, <2>2, <2>3, Mirror DEF Image
<1>5. e \notin Image(a, s) /\ e \notin Image(Poly, s)
  <2>1. e \notin s..(s + 31)
    OBVIOUS
  <2> QED
    BY <1>1, <2>1, InImage
<1>6. Image({}, s) = {}
  BY DEF Image
<1>7. Reduce(Xor(Image(d, s + 1), N), e) =
        IF e \in Xor(Image(d, s + 1), N) THEN Xor(Xor(Image(d, s + 1), N), D)
        ELSE Xor(Image(d, s + 1), N)
  BY DEF Reduce
<1> HIDE DEF e, a, D
<1>8. CASE 0 \in d
  <2>1. Image(CrcBit(d), s) = Xor(Image(a, s), Image(Poly, s))
    BY <1>1, <1>8, ImageOfXor DEF CrcBit, a
  <2>2. Image(d, s + 1) = Image(a, s) \cup {e} /\ e \notin N
    BY <1>3, <1>8 DEF e
  <2>3. e \in Xor(Image(d, s + 1), N)
    BY <2>2 DEF Xor
  <2>4. Xor(Xor(Image(d, s + 1), N), D) = Xor(Xor(Image(a, s), Image(Poly, s)), N)
    BY <1>4, <1>5, <2>2 DEF Xor
  <2> QED
    BY <1>7, <2>1, <2>3, <2>4 DEF e
<1>9. CASE 0 \notin d
  <2>1. CrcBit(d) = a
    BY <1>9, XorFacts DEF CrcBit, a
  <2>2. Image(d, s + 1) = Image(a, s) /\ e \notin N
    BY <1>3, <1>9 DEF e
  <2>3. e \notin Xor(Image(d, s + 1), N)
    BY <1>5, <2>2 DEF Xor
  <2> QED
    BY <1>7, <2>1, <2>2, <2>3 DEF e
<1> QED
  BY <1>8, <1>9

(* The division never goes below zero.                                     *)
LEMMA ReduceTyped ==
  ASSUME NEW r \in SUBSET Nat, NEW e \in Nat, e >= 32
  PROVE  Reduce(r, e) \in SUBSET Nat
<1>1. Generator \subseteq Nat
  BY Mirror
<1>2. \A g \in Nat : g + e - 32 \in Nat
  OBVIOUS
<1> QED
  BY <1>1, <1>2 DEF Reduce, Xor

-----------------------------------------------------------------------------
(* The words the inner loop goes through.                                  *)
LEMMA BitLoopRounds ==
  ASSUME NEW c \in Word, NEW b \in 0..255
  PROVE  /\ BitLoop(c, b)[0] = Xor(c, Bits(b, 0))
         /\ \A j \in 1..8 : BitLoop(c, b)[j] = CrcBit(BitLoop(c, b)[j - 1])
<1> DEFINE x == Xor(c, Bits(b, 0))
           F == [j \in 1..8 |-> [d \in Word |-> CrcBit(d)]]
           E(g) == [bit \in 0..8 |->
                     IF bit = 0 THEN Xor(c, Bits(b, 0)) ELSE CrcBit(g[bit - 1])]
<1>1. x \in Word
  <2>1. Bits(b, 0) \in Word
    BY BitsOfByte DEF Word
  <2> QED
    BY <2>1, ImageOfXor, 0 \in Nat
<1>2. F \in [1..8 -> [Word -> Word]]
  BY CrcBitTyped
<1> HIDE DEF x, F
<1>3. PICK g : IsLoop(g, Word, x, 8, F)
  BY <1>1, <1>2, 8 \in Nat, LoopExists
<1>4. g = E(g)
  <2>1. \A i \in 0..8 : i # 0 => i \in 1..8 /\ i - 1 \in 0..8
    OBVIOUS
  <2>2. \A i \in 1..8 : g[i] = CrcBit(g[i - 1])
    BY <1>3, <2>1 DEF IsLoop, F
  <2>3. g = [i \in 0..8 |-> g[i]] /\ g[0] = x
    BY <1>3 DEF IsLoop
  <2> QED
    BY <2>1, <2>2, <2>3 DEF x
<1>5. BitLoop(c, b) = CHOOSE f : f = E(f)
  BY DEF BitLoop
<1>6. BitLoop(c, b) = E(BitLoop(c, b))
  BY <1>4, <1>5
<1> QED
  BY <1>6

(* The remainders of the division by eight powers.                         *)
LEMMA BitRestsRounds ==
  ASSUME NEW r \in SUBSET Nat, NEW e \in Nat, e >= 32
  PROVE  /\ BitRests(r, e) \in [0..8 -> SUBSET Nat]
         /\ BitRests(r, e)[0] = r
         /\ \A j \in 1..8 : BitRests(r, e)[j] = Reduce(BitRests(r, e)[j - 1], e + 8 - j)
<1> DEFINE F == [j \in 1..8 |-> [q \in SUBSET Nat |-> Reduce(q, e + 8 - j)]]
           E(g) == [j \in 0..8 |-> IF j = 0 THEN r ELSE Reduce(g[j - 1], e + 8 - j)]
<1>1. ASSUME NEW j \in 1..8, NEW q \in SUBSET Nat
      PROVE  Reduce(q, e + 8 - j) \in SUBSET Nat
  <2>1. e + 8 - j \in Nat /\ e + 8 - j >= 32
    OBVIOUS
  <2> QED
    BY <2>1, ReduceTyped
<1>2. F \in [1..8 -> [SUBSET Nat -> SUBSET Nat]]
  BY <1>1
<1> HIDE DEF F
<1>3. PICK g : IsLoop(g, SUBSET Nat, r, 8, F)
  BY <1>2, 8 \in Nat, LoopExists
<1>4. g = E(g)
  <2>1. \A i \in 0..8 : i # 0 => i \in 1..8 /\ i - 1 \in 0..8
    OBVIOUS
  <2>2. \A i \in 1..8 : g[i] = Reduce(g[i - 1], e + 8 - i)
    BY <1>3, <2>1 DEF IsLoop, F
  <2>3. g = [i \in 0..8 |-> g[i]] /\ g[0] = r
    BY <1>3 DEF IsLoop
  <2> QED
    BY <2>1, <2>2, <2>3
<1>5. BitRests(r, e) = CHOOSE f : f = E(f)
  BY DEF BitRests
<1>6. BitRests(r, e) = E(BitRests(r, e))
  BY <1>4, <1>5
<1> DEFINE h == BitRests(r, e)
           T == {j \in 0..8 : h[j] \in SUBSET Nat}
<1>7. h[0] = r /\ \A j \in 1..8 : h[j] = Reduce(h[j - 1], e + 8 - j)
  BY <1>6
<1> HIDE DEF h
<1>8. 0 \in T
  <2>1. h[0] \in SUBSET Nat /\ 0 \in 0..8
    BY <1>7
  <2> QED
    BY <2>1
<1>9. \A j \in 1..8 : j - 1 \in T => j \in T
  BY <1>1, <1>7
<1> HIDE DEF T
<1>10. 0..8 \subseteq T
  BY <1>8, <1>9, 8 \in Nat, BoundedInduction
<1>11. h \in [0..8 -> SUBSET Nat]
  <2>1. h = [j \in 0..8 |-> h[j]]
    BY <1>6 DEF h
  <2> QED
    BY <1>10, <2>1 DEF T
<1> QED
  BY <1>7, <1>11 DEF h

(* A byte through the register is eight steps of the division.             *)
LEMMA ByteStep ==
  ASSUME NEW c \in Word, NEW b \in 0..255, NEW s \in Nat,
         NEW N \in SUBSET (0..(s + 31))
  PROVE  /\ CrcByte(c, b) \in Word
         /\ ReduceByte(Xor(Image(Xor(c, Bits(b, 0)), s + 8), N), 32 + s) =
              Xor(Image(CrcByte(c, b), s), N)
<1> DEFINE x == Xor(c, Bits(b, 0))
           r == Xor(Image(x, s + 8), N)
           d == BitLoop(c, b)
           q == BitRests(r, 32 + s)
           T == {j \in 0..8 : d[j] \in Word /\ q[j] = Xor(Image(d[j], s + (8 - j)), N)}
<1>1. x \in Word
  <2>1. Bits(b, 0) \in Word
    BY BitsOfByte DEF Word
  <2> QED
    BY <2>1, ImageOfXor, 0 \in Nat
<1>2. r \in SUBSET Nat
  <2>1. s + 8 \in Nat /\ 0..(s + 31) \subseteq Nat /\ (s + 8)..(s + 8 + 31) \subseteq Nat
    OBVIOUS
  <2>2. Image(x, s + 8) \in SUBSET ((s + 8)..(s + 8 + 31))
    BY <1>1, <2>1, InImage
  <2> QED
    BY <2>1, <2>2 DEF Xor
<1>3. d[0] = x /\ \A j \in 1..8 : d[j] = CrcBit(d[j - 1])
  BY BitLoopRounds
<1>4. q[0] = r /\ \A j \in 1..8 : q[j] = Reduce(q[j - 1], 32 + s + 8 - j)
  <2>1. 32 + s \in Nat /\ 32 + s >= 32
    OBVIOUS
  <2> QED
    BY <1>2, <2>1, BitRestsRounds
<1> HIDE DEF d, q, x
<1>5. 0 \in T
  BY <1>1, <1>3, <1>4
<1>6. ASSUME NEW j \in 1..8, j - 1 \in T PROVE j \in T
  <2> DEFINE t == s + (8 - j)
  <2>1. t \in Nat /\ 32 + s + 8 - j = 32 + t /\ s + (8 - (j - 1)) = t + 1
    OBVIOUS
  <2>2. 32 + t \notin N
    <3>1. 32 + t > s + 31
      OBVIOUS
    <3> QED
      BY <3>1
  <2>3. d[j - 1] \in Word /\ q[j - 1] = Xor(Image(d[j - 1], t + 1), N)
    BY <1>6, <2>1
  <2>4. d[j] = CrcBit(d[j - 1]) /\ q[j] = Reduce(q[j - 1], 32 + t)
    BY <1>3, <1>4, <2>1
  <2> HIDE DEF t
  <2>5. d[j] \in Word /\ q[j] = Xor(Image(d[j], t), N)
    BY <2>1, <2>2, <2>3, <2>4, BitStep, CrcBitTyped
  <2> QED
    BY <2>5 DEF t
<1> HIDE DEF T
<1>7. 8 \in T
  <2>1. 0..8 \subseteq T
    BY <1>5, <1>6, 8 \in Nat, BoundedInduction
  <2> QED
    BY <2>1
<1>8. d[8] \in Word /\ q[8] = Xor(Image(d[8], s), N)
  BY <1>7 DEF T
<1> QED
  BY <1>8 DEF CrcByte, ReduceByte, d, q, x

-----------------------------------------------------------------------------
(* The words the outer loop goes through.                                  *)
LEMMA ByteLoopRounds ==
  ASSUME NEW bytes \in Seq(0..255)
  PROVE  /\ ByteLoop(bytes)[0] = 0..31
         /\ \A i \in 1..Len(bytes) :
              ByteLoop(bytes)[i] = CrcByte(ByteLoop(bytes)[i - 1], bytes[i])
<1> DEFINE m == Len(bytes)
           F == [i \in 1..m |-> [c \in Word |-> CrcByte(c, bytes[i])]]
           E(g) == [i \in 0..m |->
                     IF i = 0 THEN 0..31
                     ELSE UNION {CrcByte(c, bytes[i]) : c \in {g[i - 1]}}]
<1>1. m \in Nat /\ \A i \in 1..m : bytes[i] \in 0..255
  BY Elements
<1>2. 0..31 \in Word
  BY DEF Word
<1>3. F \in [1..m -> [Word -> Word]]
  <2>1. ASSUME NEW i \in 1..m, NEW c \in Word PROVE CrcByte(c, bytes[i]) \in Word
    <3>1. {} \in SUBSET (0..(0 + 31)) /\ 0 \in Nat
      OBVIOUS
    <3> QED
      BY <1>1, <3>1, ByteStep
  <2> QED
    BY <2>1
<1> HIDE DEF m, F
<1>4. PICK g : IsLoop(g, Word, 0..31, m, F)
  BY <1>1, <1>2, <1>3, LoopExists
<1>5. \A c, i : UNION {CrcByte(d, bytes[i]) : d \in {c}} = CrcByte(c, bytes[i])
  OBVIOUS
<1>6. ASSUME NEW i \in 1..m
      PROVE  i \in 0..m /\ i # 0 /\ g[i] = CrcByte(g[i - 1], bytes[i])
  <2>1. i \in 0..m /\ i # 0
    BY <1>1
  <2>2. g[i - 1] \in Word /\ g[i] = F[i][g[i - 1]]
    BY <1>4 DEF IsLoop
  <2>3. F[i] = [c \in Word |-> CrcByte(c, bytes[i])]
    BY DEF F
  <2>4. F[i][g[i - 1]] = CrcByte(g[i - 1], bytes[i])
    BY <2>2, <2>3
  <2> QED
    BY <2>1, <2>2, <2>4
<1>7. g = E(g)
  <2>1. \A i \in 0..m : i = 0 \/ i \in 1..m
    BY <1>1
  <2>2. g = [i \in 0..m |-> g[i]] /\ g[0] = 0..31
    BY <1>4 DEF IsLoop
  <2>3. \A i \in 0..m :
          g[i] = IF i = 0 THEN 0..31 ELSE UNION {CrcByte(c, bytes[i]) : c \in {g[i - 1]}}
    <3> SUFFICES ASSUME NEW i \in 1..m
                 PROVE  g[i] = UNION {CrcByte(c, bytes[i]) : c \in {g[i - 1]}}
      BY <2>1, <2>2
    <3> QED
      BY <1>5, <1>6
  <2> QED
    BY <2>2, <2>3
<1>8. ByteLoop(bytes) = CHOOSE f : f = E(f)
  BY DEF ByteLoop, m
<1> DEFINE h == ByteLoop(bytes)
<1> HIDE DEF h
<1>9. h = E(h)
  BY <1>7, <1>8 DEF h
<1>10. \A i \in 1..m : h[i] = CrcByte(h[i - 1], bytes[i])
  <2> SUFFICES ASSUME NEW i \in 1..m PROVE h[i] = CrcByte(h[i - 1], bytes[i])
    OBVIOUS
  <2>1. h[i] = UNION {CrcByte(c, bytes[i]) : c \in {h[i - 1]}}
    BY <1>6, <1>9
  <2> QED
    BY <1>5, <2>1
<1>11. 0 \in 0..m
  BY <1>1
<1>12. h[0] = 0..31
  BY <1>9, <1>11
<1> QED
  BY <1>10, <1>12 DEF h, m

(* The remainders of the division byte by byte.                            *)
LEMMA ByteRestsRounds ==
  ASSUME NEW p \in SUBSET Nat, NEW n \in Nat
  PROVE  /\ ByteRests(p, n)[0] = p
         /\ \A k \in 1..n :
              ByteRests(p, n)[k] = ReduceByte(ByteRests(p, n)[k - 1], 32 + 8 * (n - k))
<1> DEFINE F == [k \in 1..n |-> [q \in SUBSET Nat |-> ReduceByte(q, 32 + 8 * (n - k))]]
           E(g) == [k \in 0..n |->
                     IF k = 0 THEN p
                     ELSE UNION {ReduceByte(r, 32 + 8 * (n - k)) : r \in {g[k - 1]}}]
<1>1. ASSUME NEW k \in 1..n, NEW q \in SUBSET Nat
      PROVE  ReduceByte(q, 32 + 8 * (n - k)) \in SUBSET Nat
  <2> DEFINE e == 32 + 8 * (n - k)
  <2>1. e \in Nat /\ e >= 32
    OBVIOUS
  <2> HIDE DEF e
  <2>2. BitRests(q, e) \in [0..8 -> SUBSET Nat]
    BY <2>1, BitRestsRounds
  <2> QED
    BY <2>2 DEF ReduceByte, e
<1>2. F \in [1..n -> [SUBSET Nat -> SUBSET Nat]]
  BY <1>1
<1> HIDE DEF F
<1>3. PICK g : IsLoop(g, SUBSET Nat, p, n, F)
  BY <1>2, LoopExists
<1>4. \A q, e : UNION {ReduceByte(r, e) : r \in {q}} = ReduceByte(q, e)
  OBVIOUS
<1>5. ASSUME NEW k \in 1..n
      PROVE  k \in 0..n /\ k # 0 /\ g[k] = ReduceByte(g[k - 1], 32 + 8 * (n - k))
  <2>1. g[k - 1] \in SUBSET Nat /\ g[k] = F[k][g[k - 1]]
    BY <1>3 DEF IsLoop
  <2>2. F[k] = [q \in SUBSET Nat |-> ReduceByte(q, 32 + 8 * (n - k))]
    BY DEF F
  <2>3. F[k][g[k - 1]] = ReduceByte(g[k - 1], 32 + 8 * (n - k))
    BY <2>1, <2>2
  <2> QED
    BY <2>1, <2>3
<1>6. g = E(g)
  <2>1. \A k \in 0..n : k = 0 \/ k \in 1..n
    OBVIOUS
  <2>2. g = [k \in 0..n |-> g[k]] /\ g[0] = p
    BY <1>3 DEF IsLoop
  <2>3. \A k \in 0..n :
          g[k] = IF k = 0 THEN p
                 ELSE UNION {ReduceByte(r, 32 + 8 * (n - k)) : r \in {g[k - 1]}}
    <3> SUFFICES ASSUME NEW k \in 1..n
                 PROVE  g[k] = UNION {ReduceByte(r, 32 + 8 * (n - k)) : r \in {g[k - 1]}}
      BY <2>1, <2>2
    <3> QED
      BY <1>4, <1>5
  <2> QED
    BY <2>2, <2>3
<1>7. ByteRests(p, n) = CHOOSE f : f = E(f)
  BY DEF ByteRests
<1> DEFINE h == ByteRests(p, n)
<1> HIDE DEF h
<1>8. h = E(h)
  BY <1>6, <1>7 DEF h
<1>9. \A k \in 1..n : h[k] = ReduceByte(h[k - 1], 32 + 8 * (n - k))
  <2> SUFFICES ASSUME NEW k \in 1..n
               PROVE  h[k] = ReduceByte(h[k - 1], 32 + 8 * (n - k))
    OBVIOUS
  <2>1. h[k] = UNION {ReduceByte(r, 32 + 8 * (n - k)) : r \in {h[k - 1]}}
    BY <1>5, <1>8
  <2> QED
    BY <1>4, <2>1
<1>10. h[0] = p
  BY <1>8
<1> QED
  BY <1>9, <1>10 DEF h

-----------------------------------------------------------------------------
\* The powers of the byte k of a message.
PowersOf(bytes, k) == {8 * Len(bytes) + 31 - (8 * (k - 1) + j) : j \in Bits(bytes[k], 0)}

\* The powers of the bytes after the first i.
Remaining(bytes, i) == UNION {PowersOf(bytes, k) : k \in (i + 1)..Len(bytes)}

(* What is left of a message after i bytes is below the register.          *)
LEMMA RemainingSplit ==
  ASSUME NEW bytes \in Seq(0..255), NEW i \in 1..Len(bytes)
  PROVE  LET s == 8 * (Len(bytes) - i)
         IN  /\ Remaining(bytes, i) \in SUBSET (0..(s + 31))
             /\ Remaining(bytes, i - 1) =
                  Xor(Image(Bits(bytes[i], 0), s + 8), Remaining(bytes, i))
<1> DEFINE m == Len(bytes)
           s == 8 * (m - i)
<1>1. m \in Nat /\ i \in Nat /\ i <= m /\ s \in Nat
  OBVIOUS
<1>2. \A k \in 1..m : Bits(bytes[k], 0) \in SUBSET (0..7)
  <2>1. \A k \in 1..m : bytes[k] \in 0..255
    BY Elements
  <2> QED
    BY <2>1, BitsOfByte
<1>3. Remaining(bytes, i) \in SUBSET (0..(s + 31))
  <2>1. ASSUME NEW k \in (i + 1)..m, NEW j \in 0..7
        PROVE  8 * m + 31 - (8 * (k - 1) + j) \in 0..(s + 31)
    BY <1>1
  <2>2. \A k \in (i + 1)..m : k \in 1..m
    BY <1>1
  <2>3. \A k \in (i + 1)..m : PowersOf(bytes, k) \subseteq 0..(s + 31)
    BY <1>2, <2>1, <2>2 DEF PowersOf
  <2> QED
    BY <2>3 DEF Remaining
<1>4. PowersOf(bytes, i) = Image(Bits(bytes[i], 0), s + 8)
  <2>1. \A j \in 0..7 : 8 * m + 31 - (8 * (i - 1) + j) = 31 - j + (s + 8)
    BY <1>1
  <2> QED
    BY <1>2, <2>1 DEF PowersOf, Image
<1>5. \A x \in Image(Bits(bytes[i], 0), s + 8) : x \notin 0..(s + 31)
  <2>1. \A j \in 0..7 : 31 - j + (s + 8) \notin 0..(s + 31)
    BY <1>1
  <2> QED
    BY <1>2, <2>1 DEF Image
<1>6. Remaining(bytes, i - 1) = PowersOf(bytes, i) \cup Remaining(bytes, i)
  <2>1. i - 1 + 1 = i /\ \A k : k \in i..m <=> k = i \/ k \in (i + 1)..m
    BY <1>1
  <2> QED
    BY <2>1 DEF Remaining
<1> HIDE DEF s
<1>7. Remaining(bytes, i - 1) = Xor(Image(Bits(bytes[i], 0), s + 8), Remaining(bytes, i))
  BY <1>3, <1>4, <1>5, <1>6 DEF Xor
<1> QED
  BY <1>3, <1>7 DEF s

(* What crc32.h computes is the check sum of the standard, for messages of *)
(* any length and any content.                                             *)
THEOREM CrcCorrect ==
  ASSUME NEW bytes \in Seq(0..255)
  PROVE  crc32(bytes) = ReferenceCrc(bytes)
<1> DEFINE m == Len(bytes)
           p == Xor(MessagePoly(bytes), (8 * m)..(8 * m + 31))
           c == ByteLoop(bytes)
           q == ByteRests(p, m)
           T == {i \in 0..m : /\ c[i] \in Word
                              /\ q[i] = Xor(Image(c[i], 8 * (m - i)), Remaining(bytes, i))}
<1>1. m \in Nat /\ \A i \in 1..m : bytes[i] \in 0..255
  BY Elements
<1>2. MessagePoly(bytes) = Remaining(bytes, 0)
  <2>1. 0 + 1 = 1
    OBVIOUS
  <2> QED
    BY <2>1 DEF MessagePoly, Remaining, PowersOf
<1>3. Image(0..31, 8 * m) = (8 * m)..(8 * m + 31)
  <2>1. 8 * m \in Nat
    BY <1>1
  <2> QED
    BY <2>1, ImageOfOnes
<1>4. p \in SUBSET Nat
  <2>1. ASSUME NEW k \in 1..m, NEW j \in 0..7 PROVE 8 * m + 31 - (8 * (k - 1) + j) \in Nat
    BY <1>1
  <2>2. \A k \in 1..m : Bits(bytes[k], 0) \in SUBSET (0..7)
    BY <1>1, BitsOfByte
  <2>3. \A k \in 1..m : PowersOf(bytes, k) \subseteq Nat
    BY <2>1, <2>2 DEF PowersOf
  <2>4. (8 * m)..(8 * m + 31) \subseteq Nat
    BY <1>1
  <2>5. MessagePoly(bytes) \subseteq Nat
    BY <2>3 DEF MessagePoly, PowersOf
  <2> QED
    BY <2>4, <2>5 DEF Xor
<1>5. c[0] = 0..31 /\ \A i \in 1..m : c[i] = CrcByte(c[i - 1], bytes[i])
  BY ByteLoopRounds
<1>6. q[0] = p /\ \A i \in 1..m : q[i] = ReduceByte(q[i - 1], 32 + 8 * (m - i))
  BY <1>1, <1>4, ByteRestsRounds
<1> HIDE DEF c, q
<1>7. 0 \in T
  <2>1. 0 \in 0..m /\ 8 * (m - 0) = 8 * m
    BY <1>1
  <2>2. q[0] = Xor(Image(c[0], 8 * m), Remaining(bytes, 0))
    BY <1>2, <1>3, <1>5, <1>6, XorFacts
  <2> QED
    BY <1>5, <2>1, <2>2 DEF Word
<1>8. ASSUME NEW i \in 1..m, i - 1 \in T PROVE i \in T
  <2> DEFINE s == 8 * (m - i)
             B == Bits(bytes[i], 0)
             N == Remaining(bytes, i)
  <2>1. s \in Nat /\ i \in 0..m /\ 8 * (m - (i - 1)) = s + 8 /\ s + 8 \in Nat
    BY <1>1
  <2>2. N \in SUBSET (0..(s + 31)) /\ Remaining(bytes, i - 1) = Xor(Image(B, s + 8), N)
    BY RemainingSplit
  <2>3. c[i - 1] \in Word /\ q[i - 1] = Xor(Image(c[i - 1], s + 8), Remaining(bytes, i - 1))
    BY <1>8, <2>1
  <2>4. bytes[i] \in 0..255 /\ B \in Word
    <3>1. bytes[i] \in 0..255
      BY <1>1
    <3>2. 0..7 \subseteq 0..31
      OBVIOUS
    <3> QED
      BY <3>1, <3>2, BitsOfByte DEF Word
  <2>5. c[i] = CrcByte(c[i - 1], bytes[i]) /\ q[i] = ReduceByte(q[i - 1], 32 + s)
    BY <1>5, <1>6
  <2> HIDE DEF s, N
  <2>6. q[i - 1] = Xor(Image(Xor(c[i - 1], B), s + 8), N)
    <3>1. Image(Xor(c[i - 1], B), s + 8) = Xor(Image(c[i - 1], s + 8), Image(B, s + 8))
      BY <2>1, <2>3, <2>4, ImageOfXor
    <3> QED
      BY <2>2, <2>3, <3>1, XorFacts
  <2>7. c[i] \in Word /\ q[i] = Xor(Image(c[i], s), N)
    <3> HIDE DEF B
    <3>1. /\ CrcByte(c[i - 1], bytes[i]) \in Word
          /\ ReduceByte(Xor(Image(Xor(c[i - 1], Bits(bytes[i], 0)), s + 8), N), 32 + s) =
               Xor(Image(CrcByte(c[i - 1], bytes[i]), s), N)
      BY <2>1, <2>2, <2>3, <2>4, ByteStep
    <3> QED
      BY <2>5, <2>6, <3>1 DEF B
  <2> QED
    BY <2>1, <2>7 DEF s, N
<1> HIDE DEF T
<1>9. m \in T
  <2>1. 0..m \subseteq T
    BY <1>1, <1>7, <1>8, BoundedInduction
  <2> QED
    BY <1>1, <2>1
<1>10. c[m] \in Word /\ q[m] = Image(c[m], 0)
  <2>1. (m + 1)..m = {} /\ 8 * (m - m) = 0
    BY <1>1
  <2>2. Remaining(bytes, m) = {}
    BY <2>1 DEF Remaining
  <2> QED
    BY <1>9, <2>1, <2>2, XorFacts DEF T
<1>11. {31 - i : i \in q[m]} = c[m]
  BY <1>10, ImageBack
<1>12. crc32(bytes) = Complement(c[m])
  BY DEF crc32, c
<1>13. ReferenceCrc(bytes) = Complement({31 - i : i \in q[m]})
  BY DEF ReferenceCrc, Remainder, q
<1> QED
  BY <1>11, <1>12, <1>13
=============================================================================
