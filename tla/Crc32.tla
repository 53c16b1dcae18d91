-------------------------------- MODULE Crc32 --------------------------------
(***************************************************************************)
(* The check sum of the wire protocol                                      *)
(* (include/libtfbsm/interactions/protocol/crc32.h).  A word is the set of *)
(* the positions of its one bits: exclusive or is the symmetric            *)
(* difference.  The same sets stand for polynomials over the field of two  *)
(* elements, a polynomial being the set of its exponents.                  *)
(*                                                                         *)
(* UNION {F(c) : c \in {d}} is F(d), with d evaluated first: a loop's step *)
(* written this way nests no deeper than the loop is long.                 *)
(***************************************************************************)
EXTENDS Naturals, Sequences

Xor(a, b) == (a \ b) \cup (b \ a)

BitAt(n, j) == (n \div 2^j) % 2

\* The bits of n < 2^16 from position p on.
Bits(n, p) == {i + p : i \in {j \in 0..15 : BitAt(n, j) = 1}}

-----------------------------------------------------------------------------
\* 0xEDB88320
Poly == Bits(60856, 16) \cup Bits(33568, 0)

Complement(c) == (0..31) \ c

\* Mutant: the mask is all ones whatever the bit shifted out.
CrcBitMask(c) == Xor({i - 1 : i \in c \ {0}}, Poly)

\* crc >> 1, and the polynomial where the bit shifted out is one: the mask
\* ~(crc & 1) + 1 is all ones or zero.
CrcBit(c) == Xor({i - 1 : i \in c \ {0}}, IF 0 \in c THEN Poly ELSE {})

\* The word after each round of the inner loop, ...
BitLoop(c, b) ==
  LET crc[bit \in 0..8] ==
        IF bit = 0 THEN Xor(c, Bits(b, 0)) ELSE CrcBit(crc[bit - 1])
  IN  crc

CrcByte(c, b) == BitLoop(c, b)[8]

\* ... and after each byte.
ByteLoop(bytes) ==
  LET crc[i \in 0..Len(bytes)] ==
        IF i = 0 THEN 0..31 ELSE UNION {CrcByte(c, bytes[i]) : c \in {crc[i - 1]}}
  IN  crc

crc32(bytes) == Complement(ByteLoop(bytes)[Len(bytes)])

-----------------------------------------------------------------------------
(* The definition: the bits of the message, lowest of each byte first, are *)
(* the coefficients of a polynomial from the highest down; times x^32, its *)
(* highest 32 coefficients complemented, its remainder by the generator    *)
(* x^32 + x^26 + ... + 1 is the sum, complemented and read backwards.      *)
Generator == {32} \cup Bits(1217, 16) \cup Bits(7607, 0)

MessagePoly(bytes) ==
  UNION {{8 * Len(bytes) + 31 - (8 * (i - 1) + j) : j \in Bits(bytes[i], 0)} :
           i \in 1..Len(bytes)}

\* r without its power e
Reduce(r, e) == IF e \in r THEN Xor(r, {g + e - 32 : g \in Generator}) ELSE r

\* r without its powers from e + 7 down to e, one after the other
BitRests(r, e) ==
  LET rest[j \in 0..8] == IF j = 0 THEN r ELSE Reduce(rest[j - 1], e + 8 - j)
  IN  rest

ReduceByte(r, e) == BitRests(r, e)[8]

\* The remainder of p, of degree less than 8 * n + 32, eight powers at a time.
ByteRests(p, n) ==
  LET rest[k \in 0..n] ==
        IF k = 0 THEN p
        ELSE UNION {ReduceByte(r, 32 + 8 * (n - k)) : r \in {rest[k - 1]}}
  IN  rest

Remainder(p, n) == ByteRests(p, n)[n]

ReferenceCrc(bytes) ==
  LET n == 8 * Len(bytes)
      r == Remainder(Xor(MessagePoly(bytes), n..(n + 31)), Len(bytes))
  IN  Complement({31 - i : i \in r})
=============================================================================
