----------------------------- MODULE WireProofs -----------------------------
(***************************************************************************)
(* Theorems about Wire, for every configuration, every byte order and all  *)
(* prices: what is written at an offset is what is read there.             *)
(***************************************************************************)
EXTENDS Wire, Crc32Proofs

-----------------------------------------------------------------------------
\* w is a word of n bytes, whatever they are.
IsWord(n, w) == w = [i \in 1..n |-> w[i]]

(* Its length is n.                                                        *)
LEMMA WordLength ==
  ASSUME NEW n \in Nat, NEW w, IsWord(n, w)
  PROVE  Len(w) = n /\ DOMAIN w = 1..n
<1> DEFINE S == {w[i] : i \in 1..n}
<1>1. w \in [1..n -> S]
  BY DEF IsWord
<1> HIDE DEF S
<1> QED
  BY <1>1

(* Swapping the bytes of a word twice gives it back.                       *)
LEMMA SwapTwice ==
  ASSUME NEW n \in Nat, NEW w, IsWord(n, w)
  PROVE  bswap(bswap(w)) = w
<1>1. Len(w) = n
  BY WordLength
<1>2. \A i \in 1..n : n + 1 - i \in 1..n /\ n + 1 - (n + 1 - i) = i
  OBVIOUS
<1>3. bswap(w) = [i \in 1..n |-> w[n + 1 - i]]
  BY <1>1 DEF bswap
<1>4. Len(bswap(w)) = n
  BY <1>3, WordLength DEF IsWord
<1>5. bswap(bswap(w)) = [i \in 1..n |-> bswap(w)[n + 1 - i]]
  BY <1>4 DEF bswap
<1>6. \A i \in 1..n : bswap(w)[n + 1 - i] = w[i]
  BY <1>2, <1>3
<1> QED
  BY <1>5, <1>6 DEF IsWord

(* On any host, what is written is the word highest byte first ...         *)
LEMMA WriteIsPut ==
  ASSUME NEW n \in Nat, NEW w, IsWord(n, w), NEW h, NEW buf, NEW off
  PROVE  Write(h, buf, off, w) = Put(buf, off, w)
BY SwapTwice DEF Write, InMemory, ToBig

(* ... and what is read is what the bytes are.                             *)
LEMMA ReadIsGet ==
  ASSUME NEW buf, NEW n \in Nat, NEW off, NEW h
  PROVE  Read(h, buf, off, n) = Get(buf, off, n)
<1>1. IsWord(n, Get(buf, off, n))
  BY DEF Get, IsWord
<1> QED
  BY <1>1, SwapTwice DEF Read, InMemory, ToBig

(* The bytes of two fields that do not overlap.                            *)
LEMMA Apart ==
  \A off, n, off1, n1, i \in Nat :
    /\ off1 + n1 <= 40
    /\ off1 + n1 <= off \/ off + n <= off1
    /\ 1 <= i /\ i <= n1
    => off1 + i \in 1..40 /\ off1 + i \notin (off + 1)..(off + n)
OBVIOUS

(* A word put into a buffer is there, and nothing else has changed.        *)
LEMMA PutThenGet ==
  ASSUME NEW buf, IsWord(40, buf), NEW n \in Nat, NEW w, IsWord(n, w),
         NEW off \in Nat, off + n <= 40
  PROVE  /\ IsWord(40, Put(buf, off, w))
         /\ Get(Put(buf, off, w), off, n) = w
         /\ \A off1, n1 \in Nat :
              off1 + n1 <= 40 /\ (off1 + n1 <= off \/ off + n <= off1) =>
                Get(Put(buf, off, w), off1, n1) = Get(buf, off1, n1)
<1>1. Len(w) = n /\ DOMAIN buf = 1..40
  BY WordLength
<1>2. Put(buf, off, w) =
        [k \in 1..40 |-> IF k \in (off + 1)..(off + n) THEN w[k - off] ELSE buf[k]]
  BY <1>1 DEF Put
<1>3. IsWord(40, Put(buf, off, w))
  BY <1>2 DEF IsWord
<1>4. Get(Put(buf, off, w), off, n) = w
  <2>1. \A i \in 1..n : /\ off + i \in 1..40 /\ off + i \in (off + 1)..(off + n)
                        /\ off + i - off = i
    OBVIOUS
  <2>2. \A i \in 1..n : Put(buf, off, w)[off + i] = w[i]
    BY <1>2, <2>1
  <2> QED
    BY <2>2 DEF Get, IsWord
<1>5. ASSUME NEW off1 \in Nat, NEW n1 \in Nat, off1 + n1 <= 40,
             off1 + n1 <= off \/ off + n <= off1
      PROVE  Get(Put(buf, off, w), off1, n1) = Get(buf, off1, n1)
  <2>1. ASSUME NEW i \in 1..n1
        PROVE  off1 + i \in 1..40 /\ off1 + i \notin (off + 1)..(off + n)
    <3>1. i \in Nat /\ 1 <= i /\ i <= n1
      OBVIOUS
    <3> QED
      BY <1>5, <3>1, Apart
  <2>2. \A i \in 1..n1 : Put(buf, off, w)[off1 + i] = buf[off1 + i]
    BY <1>2, <2>1
  <2> QED
    BY <2>2 DEF Get
<1> QED
  BY <1>3, <1>4, <1>5

-----------------------------------------------------------------------------
\* A packet whose fields are words, before its check sum is known.
IsPacket(p) ==
  /\ IsWord(4, p.option_instrument_code) /\ IsWord(4, p.spot_instrument_code)
  /\ IsWord(4, p.price_exponent)
  /\ IsWord(8, p.market_price) /\ IsWord(8, p.predicted_price) /\ IsWord(8, p.ts)
  /\ p.crc32 = Zero32

(* Every field of a packet is in its frame at its offset, highest byte     *)
(* first.                                                                  *)
LEMMA FrameHolds ==
  ASSUME NEW p, IsPacket(p), NEW h
  PROVE  /\ IsWord(40, serialize(h, p))
         /\ Get(serialize(h, p), 0, 4) = p.option_instrument_code
         /\ Get(serialize(h, p), 4, 4) = p.spot_instrument_code
         /\ Get(serialize(h, p), 8, 4) = p.price_exponent
         /\ Get(serialize(h, p), 12, 8) = p.market_price
         /\ Get(serialize(h, p), 20, 8) = p.predicted_price
         /\ Get(serialize(h, p), 28, 8) = p.ts
<1> DEFINE c == CheckSum(h, p)
           b0 == [k \in 1..40 |-> 0]
           b1 == Put(b0, 0, p.option_instrument_code)
           b2 == Put(b1, 4, p.spot_instrument_code)
           b3 == Put(b2, 8, p.price_exponent)
           b4 == Put(b3, 12, p.market_price)
           b5 == Put(b4, 20, p.predicted_price)
           b6 == Put(b5, 28, p.ts)
           b7 == Put(b6, 36, c)
<1>1. IsWord(4, c)
  <2>1. c = WordOf(crc32(Get(Fields(h, p), 0, 36)))
    BY DEF CheckSum, IsPacket
  <2> QED
    BY <2>1 DEF WordOf, IsWord
<1>2. \A buf, off, w : IsWord(4, w) \/ IsWord(8, w) =>
        Write(h, buf, off, w) = Put(buf, off, w)
  BY 4 \in Nat, 8 \in Nat, WriteIsPut
<1>3. serialize(h, p) = b7
  <2>1. Fields(h, p) = b6
    BY <1>2 DEF Fields, IsPacket
  <2> QED
    BY <1>1, <1>2, <2>1 DEF serialize, c
<1>4. IsWord(40, b0)
  BY DEF IsWord
<1> HIDE DEF b0, c
<1>put. ASSUME NEW buf, IsWord(40, buf), NEW w, IsWord(8, w), NEW off \in Nat, off + 8 <= 40
        PROVE  /\ IsWord(40, Put(buf, off, w))
               /\ Get(Put(buf, off, w), off, 8) = w
               /\ \A off1, n1 \in Nat :
                    off1 + n1 <= off =>
                      Get(Put(buf, off, w), off1, n1) = Get(buf, off1, n1)
  <2>1. 8 \in Nat /\ \A off1, n1 \in Nat : off1 + n1 <= off => off1 + n1 <= 40
    BY <1>put
  <2> QED
    BY <1>put, <2>1, PutThenGet
<1>5. IsWord(40, b1) /\ Get(b1, 0, 4) = p.option_instrument_code
  BY <1>4, PutThenGet DEF IsPacket
<1> HIDE DEF b1
<1>6. /\ IsWord(40, b2) /\ Get(b2, 4, 4) = p.spot_instrument_code
      /\ Get(b2, 0, 4) = Get(b1, 0, 4)
  BY <1>5, PutThenGet DEF IsPacket
<1> HIDE DEF b2
<1>7. /\ IsWord(40, b3) /\ Get(b3, 8, 4) = p.price_exponent
      /\ Get(b3, 0, 4) = Get(b2, 0, 4) /\ Get(b3, 4, 4) = Get(b2, 4, 4)
  BY <1>6, PutThenGet DEF IsPacket
<1> HIDE DEF b3
<1>8. /\ IsWord(40, b4) /\ Get(b4, 12, 8) = p.market_price
      /\ Get(b4, 0, 4) = Get(b3, 0, 4) /\ Get(b4, 4, 4) = Get(b3, 4, 4)
      /\ Get(b4, 8, 4) = Get(b3, 8, 4)
  BY <1>7, <1>put DEF IsPacket
<1> HIDE DEF b4
<1>9. /\ IsWord(40, b5) /\ Get(b5, 20, 8) = p.predicted_price
      /\ Get(b5, 0, 4) = Get(b4, 0, 4) /\ Get(b5, 4, 4) = Get(b4, 4, 4)
      /\ Get(b5, 8, 4) = Get(b4, 8, 4) /\ Get(b5, 12, 8) = Get(b4, 12, 8)
  BY <1>8, <1>put DEF IsPacket
<1> HIDE DEF b5
<1>10. /\ IsWord(40, b6) /\ Get(b6, 28, 8) = p.ts
       /\ Get(b6, 0, 4) = Get(b5, 0, 4) /\ Get(b6, 4, 4) = Get(b5, 4, 4)
       /\ Get(b6, 8, 4) = Get(b5, 8, 4) /\ Get(b6, 12, 8) = Get(b5, 12, 8)
       /\ Get(b6, 20, 8) = Get(b5, 20, 8)
  BY <1>9, <1>put DEF IsPacket
<1> HIDE DEF b6
<1>11. /\ IsWord(40, b7)
       /\ Get(b7, 0, 4) = Get(b6, 0, 4) /\ Get(b7, 4, 4) = Get(b6, 4, 4)
       /\ Get(b7, 8, 4) = Get(b6, 8, 4) /\ Get(b7, 12, 8) = Get(b6, 12, 8)
       /\ Get(b7, 20, 8) = Get(b6, 20, 8) /\ Get(b7, 28, 8) = Get(b6, 28, 8)
  BY <1>1, <1>10, PutThenGet
<1> HIDE DEF b7
<1> QED
  BY <1>3, <1>5, <1>6, <1>7, <1>8, <1>9, <1>10, <1>11

-----------------------------------------------------------------------------
(* Where the elements of two sequences end up.                             *)
LEMMA Concatenated ==
  ASSUME NEW s \in Seq(Int), NEW t \in Seq(Int)
  PROVE  /\ s \o t \in Seq(Int) /\ Len(s \o t) = Len(s) + Len(t)
         /\ \A i \in 1..Len(s) : (s \o t)[i] = s[i]
         /\ \A i \in 1..Len(t) : (s \o t)[Len(s) + i] = t[i]
<1>1. s \o t \in Seq(Int) /\ Len(s \o t) = Len(s) + Len(t)
  OBVIOUS
<1>2. ASSUME NEW i \in (Len(s) + 1)..(Len(s) + Len(t))
      PROVE  (s \o t)[i] = t[i - Len(s)]
  OBVIOUS
<1>3. ASSUME NEW i \in 1..Len(t) PROVE (s \o t)[Len(s) + i] = t[i]
  <2> DEFINE j == Len(s) + i
  <2>1. j \in (Len(s) + 1)..(Len(s) + Len(t)) /\ j - Len(s) = i
    OBVIOUS
  <2> HIDE DEF j
  <2>2. (s \o t)[j] = t[i]
    BY <2>1, <1>2
  <2> QED
    BY <2>2 DEF j
<1>4. \A i \in 1..Len(s) : (s \o t)[i] = s[i]
  OBVIOUS
<1> QED
  BY <1>1, <1>3, <1>4

\* What 32 bits hold of a number.
Low32(n) == n % 4294967296

(* That much is read of the word of a number.                              *)
LEMMA WordOfNumber32 ==
  ASSUME NEW n \in Nat
  PROVE  /\ IsWord(4, Word32(n)) /\ Word32(n) \in Seq(Int) /\ Len(Word32(n)) = 4
         /\ Number32(Word32(n)) = Low32(n)
<1> DEFINE a == (n \div 16777216) % 256
           b == (n \div 65536) % 256
           c == (n \div 256) % 256
           d == n % 256
<1>1. a * 16777216 + b * 65536 + c * 256 + d = n % 4294967296
  <2> DEFINE q1 == n \div 256
             q2 == q1 \div 256
             q3 == q2 \div 256
             q4 == q3 \div 256
  <2>1. /\ q1 \in Nat /\ q2 \in Nat /\ q3 \in Nat /\ q4 \in Nat
        /\ a \in 0..255 /\ b \in 0..255 /\ c \in 0..255 /\ d \in 0..255
    BY SMT
  <2>2. n = q1 * 256 + d
    BY SMT
  <2>3. q2 = n \div 65536 /\ q1 = q2 * 256 + c
    BY SMT
  <2>4. q3 = n \div 16777216 /\ q2 = q3 * 256 + b
    BY SMT
  <2>5. q3 = q4 * 256 + a
    BY <2>4, SMT
  <2> HIDE DEF a, b, c, d, q1, q2, q3, q4
  <2>6. n = q4 * 4294967296 + (a * 16777216 + b * 65536 + c * 256 + d)
    BY <2>1, <2>2, <2>3, <2>4, <2>5, SMT
  <2>7. /\ 0 <= a * 16777216 + b * 65536 + c * 256 + d
        /\ a * 16777216 + b * 65536 + c * 256 + d < 4294967296
    BY <2>1, SMT
  <2> DEFINE r == a * 16777216 + b * 65536 + c * 256 + d
  <2> HIDE DEF r
  <2>8. r \in Nat /\ r < 4294967296 /\ n = q4 * 4294967296 + r
    BY <2>1, <2>6, <2>7, SMT DEF r
  <2>9. r = n % 4294967296
    BY <2>1, <2>8, SMT
  <2> QED
    BY <2>9, SMT DEF r
<1>2. a \in Int /\ b \in Int /\ c \in Int /\ d \in Int
  OBVIOUS
<1>3. Word32(n) = <<a, b, c, d>>
  BY DEF Word32
<1> HIDE DEF a, b, c, d
<1> QED
  BY <1>1, <1>2, <1>3 DEF IsWord, Number32, Low32

(* One below 2^64 is both halves of its word.                              *)
LEMMA WordOfNumber64 ==
  ASSUME NEW n \in Nat
  PROVE  /\ IsWord(8, Word64(n))
         /\ Fits64(n) => Number64(Word64(n)) = n
<1> DEFINE h == (n \div 65536) \div 65536
<1>0. h \in Nat
  BY SMT
<1>1. (h * 65536) * 65536 + Low32(n) = n
  BY SMT DEF Low32
<1> DEFINE high == Word32(h)
           low == Word32(n)
<1> HIDE DEF h
<1>2. high \in Seq(Int) /\ low \in Seq(Int) /\ Len(high) = 4 /\ Len(low) = 4
  BY <1>0, WordOfNumber32
<1>3. IsWord(4, high) /\ IsWord(4, low)
  BY <1>0, WordOfNumber32
<1>4. Number32(high) = Low32(h) /\ Number32(low) = Low32(n)
  BY <1>0, WordOfNumber32
<1>5. Word64(n) = high \o low
  BY DEF Word64, h
<1> HIDE DEF high, low
<1>6. /\ Word64(n) \in Seq(Int) /\ Len(Word64(n)) = Len(high) + Len(low)
      /\ \A i \in 1..Len(high) : Word64(n)[i] = high[i]
      /\ \A i \in 1..Len(low) : Word64(n)[Len(high) + i] = low[i]
  <2>1. high \in Seq(Int) /\ low \in Seq(Int)
    BY <1>2
  <2> QED
    BY <1>5, <2>1, Concatenated
<1>7. Get(Word64(n), 0, 4) = high /\ Get(Word64(n), 4, 4) = low
  <2>1. \A i \in 1..4 : Word64(n)[0 + i] = high[i] /\ Word64(n)[4 + i] = low[i]
    BY <1>2, <1>6
  <2> QED
    BY <1>3, <2>1 DEF Get, IsWord
<1>8. IsWord(8, Word64(n))
  BY <1>2, <1>6 DEF IsWord
<1>9. Number64(Word64(n)) = (Number32(high) * 65536) * 65536 + Number32(low)
  BY <1>7, SMT DEF Number64
<1>10. ASSUME h < 4294967296 PROVE Number64(Word64(n)) = n
  <2>1. Low32(h) = h
    BY <1>0, <1>10, SMT DEF Low32
  <2>2. Low32(n) \in Nat
    BY SMT DEF Low32
  <2> HIDE DEF h
  <2> QED
    BY <1>0, <1>1, <1>4, <1>9, <2>1, <2>2, SMT
<1>11. ASSUME Fits64(n) PROVE h < 4294967296
  <2>1. h \div 65536 < 65536
    BY <1>11 DEF Fits64, h
  <2> HIDE DEF h
  <2> QED
    BY <1>0, <2>1, SMT
<1> QED
  BY <1>8, <1>10, <1>11

(* What the conversion of a price may give shows it.                       *)
LEMMA FixedBounds ==
  ASSUME NEW x \in Nat, NEW n \in Fixed(x)
  PROVE  n \in Nat /\ Shows(n, x)
<1> DEFINE r == Rounding(x)
<1>1. r \in Nat
  BY SMT DEF Rounding
<1>2. /\ n \in ((x - r) \div 10 - 1)..((x + r) \div 10)
      /\ n >= 0 /\ x <= 10 * n + 10 + r
  BY DEF Fixed
<1> HIDE DEF r
<1>3. n \in Nat /\ n <= (x + r) \div 10
  BY <1>1, <1>2, SMT
<1>4. 10 * n <= x + r
  BY <1>1, <1>3, SMT
<1> QED
  BY <1>2, <1>3, <1>4 DEF Shows, r

-----------------------------------------------------------------------------
\* The packet the sink makes of estimation e when its prices come to m and q.
PacketOf(e, m, q) ==
  [option_instrument_code |-> Code[e.option],
   spot_instrument_code |-> Code[e.spot],
   price_exponent |-> Word32(precision_),
   market_price |-> Word64(m),
   predicted_price |-> Word64(q),
   ts |-> e.ts,
   crc32 |-> Zero32]

\* The packet in the frame is the estimation's.
Sent ==
  \E m \in Fixed(est.market), q \in Fixed(est.price) :
    packet = PacketOf(est, m, q) /\ frame = serialize(host, packet)

WireInv ==
  /\ est \in Estimation
  /\ stage = "estimated" => packet = Nothing /\ obs = Nothing
  /\ packet # Nothing => Sent
  /\ stage = "sent" => obs = Nothing /\ (Sent \/ Len(frame) < 40)
  /\ obs # Nothing => Sent /\ obs = Observation(Decode(frame))

(* What the sink makes of an estimation is a packet of words.              *)
LEMMA SinkMakesPacket ==
  ASSUME NEW e \in Estimation, NEW m \in Fixed(e.market), NEW q \in Fixed(e.price)
  PROVE  IsPacket(PacketOf(e, m, q))
<1>1. e.market \in Nat /\ e.price \in Nat
  BY WireAssumption DEF Estimation
<1>2. m \in Nat /\ q \in Nat /\ precision_ \in Nat
  BY <1>1, FixedBounds DEF precision_
<1>3. IsWord(4, Word32(precision_)) /\ IsWord(8, Word64(m)) /\ IsWord(8, Word64(q))
  BY <1>2, WordOfNumber32, WordOfNumber64
<1>4. IsWord(4, Code[e.option]) /\ IsWord(4, Code[e.spot]) /\ IsWord(8, e.ts)
  BY WireAssumption DEF Estimation, U32, U64, IsWord
<1> QED
  BY <1>3, <1>4 DEF PacketOf, IsPacket

(* Nothing is sent or shown but what was estimated.                        *)
LEMMA WireStarts == WireInit => WireInv
BY DEF WireInit, WireInv

(* The sink, the mock, foreign messages and the handler keep that.         *)
LEMMA WireStep == WireInv /\ [WireNext]_wireVars => WireInv'
<1> SUFFICES ASSUME WireInv, [WireNext]_wireVars PROVE WireInv'
  OBVIOUS
<1>1. CASE onPriceEstimation
  <2>1. Sent'
    BY <1>1 DEF onPriceEstimation, Sent, PacketOf
  <2> QED
    BY <1>1, <2>1 DEF onPriceEstimation, WireInv
<1>2. CASE MockSend
  BY <1>2 DEF MockSend, sendbuffer, WireInv, Sent
<1>3. CASE Foreign
  <2>1. Len(frame') < 40
    <3>1. PICK n \in {0, 32, 39} : frame' = [k \in 1..n |-> 0]
      BY <1>3 DEF Foreign
    <3>2. Len(frame') = n
      BY <3>1
    <3> QED
      BY <3>2
  <2> QED
    BY <1>3, <2>1 DEF Foreign, WireInv, Sent
<1>4. CASE Handle
  <2>1. stage = "sent" /\ obs = Nothing /\ stage' \in {"discarded", "published"}
        /\ UNCHANGED <<host, upstream, est, packet, frame>>
    BY <1>4 DEF Handle, WireInv
  <2>2. obs' # Nothing => Len(frame) >= 40 /\ obs' = Observation(Decode(frame))
    BY <1>4, <2>1 DEF Handle
  <2>3. Len(frame) >= 40 /\ ~Sent => FALSE
    <3>1. CASE Len(frame) < 40
      BY <3>1
    <3> QED
      BY <2>1, <3>1 DEF WireInv
  <2> QED
    BY <2>1, <2>2, <2>3 DEF WireInv, Sent
<1>5. CASE UNCHANGED wireVars
  BY <1>5 DEF wireVars, WireInv, Sent
<1> QED
  BY <1>1, <1>2, <1>3, <1>4, <1>5 DEF WireNext

(* A frame is read by any host of the engine's protocol, of either byte    *)
(* order, as the packet that was written, the check sum included.          *)
THEOREM FieldsCorrect == WireSpec => []FieldsSurvive
<1>1. WireInv => FieldsSurvive
  <2> SUFFICES ASSUME WireInv, packet # Nothing, NEW h \in Hosts
               PROVE  deserialize(h, frame) =
                        [packet EXCEPT !.crc32 = IF @ = Zero32 THEN Get(frame, 36, 4) ELSE @]
    BY DEF FieldsSurvive
  <2>1. PICK m \in Fixed(est.market), q \in Fixed(est.price) :
          packet = PacketOf(est, m, q) /\ frame = serialize(host, packet)
    BY DEF WireInv, Sent
  <2>2. IsPacket(packet)
    BY <2>1, SinkMakesPacket DEF WireInv
  <2>3. /\ Get(frame, 0, 4) = packet.option_instrument_code
        /\ Get(frame, 4, 4) = packet.spot_instrument_code
        /\ Get(frame, 8, 4) = packet.price_exponent
        /\ Get(frame, 12, 8) = packet.market_price
        /\ Get(frame, 20, 8) = packet.predicted_price
        /\ Get(frame, 28, 8) = packet.ts
    BY <2>1, <2>2, FrameHolds
  <2>4. \A off : Read(h, frame, off, 4) = Get(frame, off, 4)
    BY 4 \in Nat, ReadIsGet
  <2>5. \A off : Read(h, frame, off, 8) = Get(frame, off, 8)
    BY 8 \in Nat, ReadIsGet
  <2>6. deserialize(h, frame) =
          [option_instrument_code |-> packet.option_instrument_code,
           spot_instrument_code |-> packet.spot_instrument_code,
           price_exponent |-> packet.price_exponent,
           market_price |-> packet.market_price,
           predicted_price |-> packet.predicted_price,
           ts |-> packet.ts,
           crc32 |-> Get(frame, 36, 4)]
    BY <2>3, <2>4, <2>5 DEF deserialize
  <2> QED
    BY <2>1, <2>6 DEF PacketOf
<1> QED
  BY <1>1, WireStarts, WireStep, PTL DEF WireSpec

(* What a consumer is shown is the estimation's time and its two prices,   *)
(* each cut off after six digits, a large one up to the rounding of two    *)
(* doubles, on engines of either byte order.                               *)
THEOREM PricesCorrect == WireSpec => []PricesSurvive
<1>1. WireInv => PricesSurvive
  <2> SUFFICES ASSUME WireInv, obs # Nothing
               PROVE  /\ obs.exponent = precision_
                      /\ Shows(obs.market, est.market) /\ Shows(obs.price, est.price)
                      /\ obs.producedAt = est.ts
    BY DEF PricesSurvive
  <2>1. PICK m \in Fixed(est.market), q \in Fixed(est.price) :
          packet = PacketOf(est, m, q) /\ frame = serialize(host, packet)
    BY DEF WireInv, Sent
  <2>2. IsPacket(packet)
    BY <2>1, SinkMakesPacket DEF WireInv
  <2>3. /\ Get(frame, 8, 4) = Word32(precision_)
        /\ Get(frame, 12, 8) = Word64(m) /\ Get(frame, 20, 8) = Word64(q)
        /\ Get(frame, 28, 8) = est.ts
    BY <2>1, <2>2, FrameHolds DEF PacketOf
  <2>4. est.market \in Nat /\ est.price \in Nat /\ Fits64(m) /\ Fits64(q)
    BY <2>1, WireAssumption DEF WireInv, Estimation
  <2>5. Number64(Word64(m)) = m /\ Number64(Word64(q)) = q
    BY <2>1, <2>4, FixedBounds, WordOfNumber64
  <2>6. Number32(Word32(precision_)) = precision_
    <3>1. Low32(6) = 6
      BY SMT DEF Low32
    <3> QED
      BY <3>1, WordOfNumber32 DEF precision_
  <2>7. /\ obs.exponent = precision_ /\ obs.market = m /\ obs.price = q
        /\ obs.producedAt = est.ts
    BY <2>3, <2>5, <2>6 DEF WireInv, Observation, Decode
  <2> QED
    BY <2>4, <2>7, FixedBounds
<1> QED
  BY <1>1, WireStarts, WireStep, PTL DEF WireSpec

-----------------------------------------------------------------------------
(* A word of bytes put into bytes leaves bytes.                            *)
LEMMA PutBytes ==
  ASSUME NEW buf \in [1..40 -> Byte], NEW n \in Nat, NEW w \in [1..n -> Byte],
         NEW off \in Nat, off + n <= 40
  PROVE  Put(buf, off, w) \in [1..40 -> Byte]
<1>1. Len(w) = n /\ DOMAIN buf = 1..40
  BY WordLength DEF IsWord
<1>2. \A k \in 1..40 : k \in (off + 1)..(off + n) => k - off \in 1..n
  OBVIOUS
<1> QED
  BY <1>1, <1>2 DEF Put

(* The words of numbers are made of bytes.                                 *)
LEMMA NumberBytes ==
  ASSUME NEW n \in Nat
  PROVE  Word32(n) \in U32 /\ Word64(n) \in U64
<1>1. \A x \in Nat : Word32(x) \in U32
  <2> SUFFICES ASSUME NEW x \in Nat PROVE Word32(x) \in U32
    OBVIOUS
  <2>1. /\ (x \div 16777216) % 256 \in Byte /\ (x \div 65536) % 256 \in Byte
        /\ (x \div 256) % 256 \in Byte /\ x % 256 \in Byte
    BY SMT DEF Byte
  <2> QED
    BY <2>1 DEF Word32, U32
<1> DEFINE k == (n \div 65536) \div 65536
           h == Word32(k)
           l == Word32(n)
<1>2. k \in Nat
  BY SMT
<1> HIDE DEF k
<1>3. h \in U32 /\ l \in U32
  BY <1>1, <1>2
<1>4. h \in Seq(Int) /\ Len(h) = 4 /\ l \in Seq(Int) /\ Len(l) = 4
  BY <1>2, WordOfNumber32
<1>5. Word64(n) = h \o l
  BY DEF Word64, k
<1> HIDE DEF h, l
<1>6. /\ \A i \in 1..Len(h) : (h \o l)[i] = h[i]
      /\ \A i \in 1..Len(l) : (h \o l)[Len(h) + i] = l[i]
  <2>1. h \in Seq(Int) /\ l \in Seq(Int)
    BY <1>4
  <2> QED
    BY <2>1, Concatenated
<1>7. ASSUME NEW i \in 1..8 PROVE (h \o l)[i] \in Byte
  <2>1. CASE i \in 1..4
    BY <1>3, <1>4, <1>6, <2>1 DEF U32
  <2>2. CASE i - 4 \in 1..4
    <3>1. PICK j \in 1..4 : i = 4 + j
      BY <2>2
    <3>2. (h \o l)[4 + j] = l[j]
      BY <1>4, <1>6
    <3> QED
      BY <1>3, <3>1, <3>2 DEF U32
  <2>3. i \in 1..4 \/ i - 4 \in 1..4
    OBVIOUS
  <2> QED
    BY <2>1, <2>2, <2>3
<1>8. IsWord(8, Word64(n))
  BY WordOfNumber64
<1>9. Word64(n) \in [1..8 -> Byte]
  BY <1>5, <1>7, <1>8 DEF IsWord
<1> QED
  BY <1>1, <1>9 DEF U64

(* So is the word of any bits.                                             *)
LEMMA BitsBytes == \A c : WordOf(c) \in U32
<1>1. \A c, p : ByteOf(c, p) \in Byte
  BY SMT DEF ByteOf, Byte
<1> QED
  BY <1>1 DEF WordOf, U32

(* The packet of an estimation is a packet, ...                            *)
LEMMA PacketTyped ==
  ASSUME NEW e \in Estimation, NEW m \in Fixed(e.market), NEW q \in Fixed(e.price)
  PROVE  PacketOf(e, m, q) \in Packet
<1>1. m \in Nat /\ q \in Nat /\ precision_ \in Nat
  BY FixedBounds, WireAssumption DEF Estimation, precision_
<1>2. Code[e.option] \in U32 /\ Code[e.spot] \in U32 /\ e.ts \in U64
  BY WireAssumption DEF Estimation
<1>3. Zero32 \in U32
  BY DEF Zero32, U32, Byte
<1> QED
  BY <1>1, <1>2, <1>3, NumberBytes DEF PacketOf, Packet

(* ... and its frame is forty bytes.                                       *)
LEMMA FrameBytes ==
  ASSUME NEW p \in Packet, IsPacket(p), NEW h
  PROVE  serialize(h, p) \in [1..40 -> Byte]
<1> DEFINE c == CheckSum(h, p)
           b0 == [k \in 1..40 |-> 0]
           b1 == Put(b0, 0, p.option_instrument_code)
           b2 == Put(b1, 4, p.spot_instrument_code)
           b3 == Put(b2, 8, p.price_exponent)
           b4 == Put(b3, 12, p.market_price)
           b5 == Put(b4, 20, p.predicted_price)
           b6 == Put(b5, 28, p.ts)
           b7 == Put(b6, 36, c)
<1>1. c \in U32
  BY BitsBytes DEF CheckSum, IsPacket
<1>2. \A buf, off, w : IsWord(4, w) \/ IsWord(8, w) =>
        Write(h, buf, off, w) = Put(buf, off, w)
  BY 4 \in Nat, 8 \in Nat, WriteIsPut
<1>3. serialize(h, p) = b7
  <2>1. Fields(h, p) = b6
    BY <1>2 DEF Fields, IsPacket
  <2>2. IsWord(4, c)
    BY <1>1 DEF U32, IsWord
  <2> QED
    BY <1>2, <2>1, <2>2 DEF serialize, c
<1>4. b0 \in [1..40 -> Byte]
  BY DEF Byte
<1> HIDE DEF b0, c
<1>put. ASSUME NEW buf \in [1..40 -> Byte], NEW off \in Nat, NEW w
        PROVE  /\ w \in U32 /\ off + 4 <= 40 => Put(buf, off, w) \in [1..40 -> Byte]
               /\ w \in U64 /\ off + 8 <= 40 => Put(buf, off, w) \in [1..40 -> Byte]
  BY 4 \in Nat, 8 \in Nat, PutBytes DEF U32, U64
<1>fields. /\ p.option_instrument_code \in U32 /\ 0 \in Nat /\ 0 + 4 <= 40
  BY DEF Packet
<1>5. b1 \in [1..40 -> Byte]
  BY <1>4, <1>put, <1>fields
<1> HIDE DEF b1
<1>6. b2 \in [1..40 -> Byte]
  BY <1>5, <1>put DEF Packet
<1> HIDE DEF b2
<1>7. b3 \in [1..40 -> Byte]
  BY <1>6, <1>put DEF Packet
<1> HIDE DEF b3
<1>8. b4 \in [1..40 -> Byte]
  BY <1>7, <1>put DEF Packet
<1> HIDE DEF b4
<1>9. b5 \in [1..40 -> Byte]
  BY <1>8, <1>put DEF Packet
<1> HIDE DEF b5
<1>10. b6 \in [1..40 -> Byte]
  BY <1>9, <1>put DEF Packet
<1> HIDE DEF b6
<1>11. b7 \in [1..40 -> Byte]
  BY <1>1, <1>10, <1>put
<1> QED
  BY <1>3, <1>11

(* What is sent is a packet in a frame of forty bytes.                     *)
LEMMA SentTyped ==
  ASSUME est \in Estimation, Sent
  PROVE  packet \in Packet /\ packet # Nothing /\ frame \in [1..40 -> Byte]
<1>1. PICK m \in Fixed(est.market), q \in Fixed(est.price) :
        packet = PacketOf(est, m, q) /\ frame = serialize(host, packet)
  BY DEF Sent
<1>2. packet \in Packet /\ IsPacket(packet)
  BY <1>1, PacketTyped, SinkMakesPacket
<1> QED
  BY <1>1, <1>2, FrameBytes, WireAssumption

(* Every field holds what its type allows, a frame of an estimation forty  *)
(* bytes.                                                                  *)
THEOREM WireTyped == WireSpec => []WireTypeOK
<1> DEFINE Enums == /\ host \in Hosts
                    /\ upstream \in {"engine", "mock", "stopped"}
                    /\ stage \in {"estimated", "sent", "published", "discarded"}
<1>1. WireInit => Enums
  BY DEF WireInit
<1>2. Enums /\ [WireNext]_wireVars => Enums'
  BY DEF WireNext, wireVars, onPriceEstimation, MockSend, Foreign, Handle
<1>3. WireInv /\ Enums => WireTypeOK
  BY SentTyped DEF WireInv, WireTypeOK
<1> QED
  BY <1>1, <1>2, <1>3, WireStarts, WireStep, PTL DEF WireSpec

(* What is written into a buffer leaves its length.                        *)
LEMMA WriteKeepsLength ==
  \A h, buf, off, w : IsWord(40, buf) => IsWord(40, Write(h, buf, off, w))
<1> SUFFICES ASSUME NEW h, NEW buf, NEW off, NEW w, IsWord(40, buf)
             PROVE  IsWord(40, Write(h, buf, off, w))
  OBVIOUS
<1> DEFINE m == InMemory(h, ToBig(h, w))
<1>1. DOMAIN buf = 1..40
  BY 40 \in Nat, WordLength
<1> HIDE DEF m
<1>2. Put(buf, off, m) =
        [k \in 1..40 |-> IF k \in (off + 1)..(off + Len(m)) THEN m[k - off] ELSE buf[k]]
  BY <1>1 DEF Put
<1>3. IsWord(40, Put(buf, off, m))
  BY <1>2 DEF IsWord
<1> QED
  BY <1>3 DEF Write, m

(* A function on the first n numbers is a sequence.                        *)
LEMMA WordIsSeq == ASSUME NEW S, NEW n \in Nat, NEW f \in [1..n -> S] PROVE f \in Seq(S)
OBVIOUS

(* The last word of a frame is the check sum of the bytes before it: the   *)
(* fields stay as they were when the sum was taken of them.                *)
LEMMA FrameSum ==
  ASSUME NEW p, IsPacket(p), NEW h
  PROVE  Get(serialize(h, p), 36, 4) = WordOf(crc32(Get(serialize(h, p), 0, 36)))
<1> DEFINE b == Fields(h, p)
           c == WordOf(crc32(Get(b, 0, 36)))
<1>1. IsWord(40, b)
  <2>1. IsWord(40, [k \in 1..40 |-> 0])
    BY DEF IsWord
  <2> QED
    BY <2>1, WriteKeepsLength DEF Fields
<1>2. IsWord(4, c)
  BY DEF WordOf, IsWord
<1>3. CheckSum(h, p) = c
  BY DEF CheckSum, IsPacket
<1> HIDE DEF b, c
<1>4. serialize(h, p) = Put(b, 36, c)
  BY <1>2, <1>3, 4 \in Nat, WriteIsPut DEF serialize, b
<1>5. 4 \in Nat /\ 36 \in Nat /\ 0 \in Nat /\ 36 + 4 <= 40 /\ 0 + 36 <= 40 /\ 0 + 36 <= 36
  OBVIOUS
<1>6. Get(Put(b, 36, c), 36, 4) = c /\ Get(Put(b, 36, c), 0, 36) = Get(b, 0, 36)
  BY <1>1, <1>2, <1>5, PutThenGet
<1> QED
  BY <1>4, <1>6 DEF c

(* "CRC32 may be incorrect here :(" (protocol.hpp:110): it never is, of no *)
(* estimation on no host.                                                  *)
THEOREM CheckSumCorrect == WireSpec => []CrcIsRemainder
<1>1. WireInv => CrcIsRemainder
  <2> SUFFICES ASSUME WireInv, packet # Nothing
               PROVE  Get(frame, 36, 4) = WordOf(ReferenceCrc(Get(frame, 0, 36)))
    BY DEF CrcIsRemainder
  <2>1. PICK m \in Fixed(est.market), q \in Fixed(est.price) :
          packet = PacketOf(est, m, q) /\ frame = serialize(host, packet)
    BY DEF WireInv, Sent
  <2>2. IsPacket(packet)
    BY <2>1, SinkMakesPacket DEF WireInv
  <2>3. Get(frame, 36, 4) = WordOf(crc32(Get(frame, 0, 36)))
    BY <2>1, <2>2, FrameSum
  <2>4. frame \in [1..40 -> 0..255]
    BY SentTyped DEF WireInv, Byte
  <2>5. Get(frame, 0, 36) \in [1..36 -> 0..255]
    <3>1. \A i \in 1..36 : 0 + i \in 1..40
      OBVIOUS
    <3> QED
      BY <2>4, <3>1 DEF Get
  <2>6. Get(frame, 0, 36) \in Seq(0..255)
    BY <2>5, 36 \in Nat, WordIsSeq
  <2> QED
    BY <2>3, <2>6, CrcCorrect
<1> QED
  BY <1>1, WireStarts, WireStep, PTL DEF WireSpec

\* No two symbols have one code, no two codes one name, and no symbol is the
\* name of what is unknown.
OneToOne ==
  /\ \A y, z \in Symbols : Code[y] = Code[z] => y = z
  /\ \A c, d \in DOMAIN Instrument : Instrument[c] = Instrument[d] => c = d
  /\ Unnamed \notin Symbols

(* Between tables that are one to one every instrument both know keeps its *)
(* name, in the right place, and what is published was estimated.          *)
THEOREM NamesCorrect == WireSpec => [](OneToOne => NamesSurvive)
<1>1. WireInv => (OneToOne => NamesSurvive)
  <2> SUFFICES ASSUME WireInv, OneToOne, obs # Nothing
               PROVE  /\ packet # Nothing
                      /\ \A y \in Symbols :
                           Code[y] \in DOMAIN Instrument /\ Instrument[Code[y]] = y =>
                             /\ obs.option = y <=> est.option = y
                             /\ obs.spot = y <=> est.spot = y
    BY DEF NamesSurvive
  <2>1. PICK m \in Fixed(est.market), q \in Fixed(est.price) :
          packet = PacketOf(est, m, q) /\ frame = serialize(host, packet)
    BY DEF WireInv, Sent
  <2>2. IsPacket(packet)
    BY <2>1, SinkMakesPacket DEF WireInv
  <2>3. Get(frame, 0, 4) = Code[est.option] /\ Get(frame, 4, 4) = Code[est.spot]
    BY <2>1, <2>2, FrameHolds DEF PacketOf
  <2>4. /\ obs.option = GetInstrumentByCode(Code[est.option])[1]
        /\ obs.spot = GetInstrumentByCode(Code[est.spot])[1]
    BY <2>3 DEF WireInv, Observation, Decode
  <2>5. est.option \in Symbols /\ est.spot \in Symbols
    BY DEF WireInv, Estimation
  <2>6. ASSUME NEW y \in Symbols, NEW z \in Symbols,
               Code[y] \in DOMAIN Instrument, Instrument[Code[y]] = y
        PROVE  GetInstrumentByCode(Code[z])[1] = y <=> z = y
    BY <2>6 DEF GetInstrumentByCode, OneToOne
  <2> QED
    BY <2>4, <2>5, <2>6, SentTyped DEF WireInv
<1> QED
  BY <1>1, WireStarts, WireStep, PTL DEF WireSpec

-----------------------------------------------------------------------------
(* EstimationsPublished: no estimation the sink has sent is discarded: the *)
(* length is right, and the two errors of the names cannot occur, so that  *)
(* the handler publishes what it reads (root.go:65-76).                    *)
EstimationsPublished ==
  packet # Nothing =>
    stage = "sent" \/ (stage = "published" /\ obs = Observation(Decode(frame)))

\* What the handler has done, of any message.
Handled ==
  /\ stage = "discarded" => Len(frame) < 40
  /\ stage = "published" => obs = Observation(Decode(frame))

(* The sink can convert every price, so that it sends every estimation.    *)
LEMMA PriceFits == \A x \in Nat : Fixed(x) # {}
<1> SUFFICES ASSUME NEW x \in Nat PROVE x \div 10 \in Fixed(x)
  OBVIOUS
<1> DEFINE r == Rounding(x)
<1>1. r \in Nat
  BY SMT DEF Rounding
<1> HIDE DEF r
<1>2. /\ (x - r) \div 10 - 1 <= x \div 10 /\ x \div 10 <= (x + r) \div 10
      /\ x \div 10 >= 0 /\ x <= 10 * (x \div 10) + 10 + r
      /\ x \div 10 \in Int /\ (x - r) \div 10 - 1 \in Int /\ (x + r) \div 10 \in Int
  BY <1>1, SMT
<1> QED
  BY <1>2 DEF Fixed, r

(* An estimation once sent is a frame of forty bytes, and the handler      *)
(* discards none of those.                                                 *)
THEOREM NothingDiscarded == WireSpec => []EstimationsPublished
<1>1. WireInit => Handled
  BY DEF WireInit, Handled
<1>2. Handled /\ [WireNext]_wireVars => Handled'
  <2> SUFFICES ASSUME Handled, [WireNext]_wireVars PROVE Handled'
    OBVIOUS
  <2>1. CASE onPriceEstimation
    BY <2>1 DEF onPriceEstimation, Handled
  <2>2. CASE MockSend \/ Foreign
    BY <2>2 DEF MockSend, Foreign, Handled
  <2>3. CASE Handle
    BY <2>3 DEF Handle, GetInstrumentByCode, Handled
  <2>4. CASE UNCHANGED wireVars
    BY <2>4 DEF wireVars, Handled
  <2> QED
    BY <2>1, <2>2, <2>3, <2>4 DEF WireNext
<1>3. WireInv /\ WireTypeOK /\ Handled => EstimationsPublished
  <2> SUFFICES ASSUME WireInv, WireTypeOK, Handled, packet # Nothing
               PROVE  stage = "sent" \/ (stage = "published" /\ obs = Observation(Decode(frame)))
    BY DEF EstimationsPublished
  <2>1. frame \in [1..40 -> Byte]
    BY DEF WireTypeOK
  <2>2. Len(frame) = 40
    BY <2>1
  <2>3. stage \in {"sent", "published", "discarded"}
    BY DEF WireInv, WireTypeOK
  <2> QED
    BY <2>2, <2>3 DEF Handled
<1> QED
  BY <1>1, <1>2, <1>3, WireStarts, WireStep, WireTyped, PTL DEF WireSpec
=============================================================================
