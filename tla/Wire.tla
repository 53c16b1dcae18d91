-------------------------------- MODULE Wire --------------------------------
(***************************************************************************)
(* An estimation on its way from the engine's sink                         *)
(* (src/libtfbsm/interactions/zmq_price_sink.cpp, protocol.hpp) to the     *)
(* feeder's handler (feeder/pkg/app/root.go, observation_dto.go): prices   *)
(* become fixed-point integers, fields become 40 bytes, highest byte first *)
(* on any host, and the feeder turns them back into prices and names.      *)
(*                                                                         *)
(* A word is the function of its bytes from the highest to the lowest.     *)
(* Prices are doubles of the engine, each taken to the nearest unit of one *)
(* digit more than the sink's precision_, so that what the conversion cuts *)
(* off can be seen.                                                        *)
(***************************************************************************)
EXTENDS Integers, Sequences, Crc32

CONSTANTS Symbols,    \* the instruments of the engine's configuration
          Code,       \* symbol_codes_, from symbols to words
          Instrument, \* InstrumentCodes of the feeder, from words to names
          Unnamed,    \* the empty name
          Values,     \* prices, in units of 10^-(precision_ + 1)
          Stamps,     \* time stamps, as words
          Nothing     \* no packet, no observation

Byte == 0..255
U32 == [1..4 -> Byte]
U64 == [1..8 -> Byte]
Packet == [option_instrument_code : U32, spot_instrument_code : U32,
           price_exponent : U32, market_price : U64, predicted_price : U64,
           ts : U64, crc32 : U32]

VARIABLES host,     \* the byte order of the engine's host
          upstream, \* who is sending: "engine", "mock", or "stopped"
          est,      \* the estimation given to the sink
          packet,   \* estimationPacket
          frame,    \* the message of the socket
          obs,      \* the observation the feeder makes of it
          stage     \* "estimated", "sent", "published" or "discarded"

wireVars == <<host, upstream, est, packet, frame, obs, stage>>

Hosts == {"little", "big"}
Estimation == [option : Symbols, spot : Symbols, market : Values,
               price : Values, ts : Stamps]

-----------------------------------------------------------------------------
(* Numbers as words: n modulo 2^32 and modulo 2^64.                        *)
Word32(n) ==
  <<(n \div 16777216) % 256, (n \div 65536) % 256, (n \div 256) % 256, n % 256>>
Word64(n) == Word32((n \div 65536) \div 65536) \o Word32(n)

\* The byte of the bits in c from position p on, the word of all its bits.
ByteOf(c, p) ==
  LET bit(j) == IF p + j \in c THEN 1 ELSE 0
  IN  bit(0) + 2 * bit(1) + 4 * bit(2) + 8 * bit(3)
      + 16 * bit(4) + 32 * bit(5) + 64 * bit(6) + 128 * bit(7)
WordOf(c) == [i \in 1..4 |-> ByteOf(c, 32 - 8 * i)]

Zero32 == [i \in 1..4 |-> 0]
precision_ == 6

\* Mutant: rounding to the nearest.
FixedRounded(x) == {(x + 5) \div 10}

\* The whole units by which the rounding of a price x to a double and that of
\* its product may move it: less than one part in 2^52, so none below 2^52
\* units, a price of 450 million.
Rounding(x) == ((x \div 65536) \div 65536) \div 1048576

\* static_cast<uint64_t>(price * pow(10, precision_)) cuts off; the product of
\* doubles may come out just below the integer it should be, and of a large
\* price above it.
Fixed(x) ==
  {n \in ((x - Rounding(x)) \div 10 - 1)..((x + Rounding(x)) \div 10) :
     n >= 0 /\ x <= 10 * n + 10 + Rounding(x)}

\* n < 2^64: only then is the conversion to uint64_t defined.
Fits64(n) == ((n \div 65536) \div 65536) \div 65536 < 65536

ASSUME WireAssumption ==
  /\ Code \in [Symbols -> U32]
  /\ Values \subseteq Nat
  /\ \A x \in Values : \A n \in Fixed(x) : Fits64(n)
  /\ Stamps \subseteq U64
  /\ Nothing \notin Packet

-----------------------------------------------------------------------------
(* protocol.hpp.                                                           *)
bswap(w) == [i \in 1..Len(w) |-> w[Len(w) + 1 - i]]

\* The bytes of a word in the memory of a host, and the word in bytes.
InMemory(h, w) == IF h = "little" THEN bswap(w) ELSE w

\* Mutant: the bytes are swapped whatever the host.
ToBigAlways(h, w) == bswap(w)

\* to_be32, to_be64 and from_be32, from_be64
ToBig(h, w) == IF h = "little" THEN bswap(w) ELSE w

\* memcpy of m to buf at offset off, and of n bytes of buf from there
Put(buf, off, m) ==
  [k \in DOMAIN buf |-> IF k \in (off + 1)..(off + Len(m)) THEN m[k - off] ELSE buf[k]]
Get(buf, off, n) == [i \in 1..n |-> buf[off + i]]

\* write32 and write64; read32 and read64
Write(h, buf, off, w) == Put(buf, off, InMemory(h, ToBig(h, w)))
Read(h, buf, off, n) == ToBig(h, InMemory(h, Get(buf, off, n)))

\* The fields before the check sum.
Fields(h, p) ==
  LET b0 == [k \in 1..40 |-> 0]
      b1 == Write(h, b0, 0, p.option_instrument_code)
      b2 == Write(h, b1, 4, p.spot_instrument_code)
      b3 == Write(h, b2, 8, p.price_exponent)
      b4 == Write(h, b3, 12, p.market_price)
      b5 == Write(h, b4, 20, p.predicted_price)
  IN  Write(h, b5, 28, p.ts)

CheckSum(h, p) ==
  IF p.crc32 = Zero32 THEN WordOf(crc32(Get(Fields(h, p), 0, 36))) ELSE p.crc32

\* Mutant: the check sum is forgotten.
SerializeShort(h, p) == Get(Fields(h, p), 0, 36)

serialize(h, p) == Write(h, Fields(h, p), 36, CheckSum(h, p))

\* Of at least 40 bytes: it throws on fewer.
deserialize(h, data) ==
  [option_instrument_code |-> Read(h, data, 0, 4),
   spot_instrument_code |-> Read(h, data, 4, 4),
   price_exponent |-> Read(h, data, 8, 4),
   market_price |-> Read(h, data, 12, 8),
   predicted_price |-> Read(h, data, 20, 8),
   ts |-> Read(h, data, 28, 8),
   crc32 |-> Read(h, data, 36, 4)]

-----------------------------------------------------------------------------
\* What the engine may give to its sink.
WireInit ==
  /\ host \in Hosts
  /\ upstream \in {"engine", "mock"}
  /\ est \in Estimation
  /\ packet = Nothing /\ frame = <<>> /\ obs = Nothing
  /\ stage = "estimated"

\* ZeroMQPriceSink::onPriceEstimation
onPriceEstimation ==
  /\ stage = "estimated" /\ upstream = "engine"
  /\ \E market \in Fixed(est.market), price \in Fixed(est.price) :
       packet' = [option_instrument_code |-> Code[est.option],
                  spot_instrument_code |-> Code[est.spot],
                  price_exponent |-> Word32(precision_),
                  market_price |-> Word64(market),
                  predicted_price |-> Word64(price),
                  ts |-> est.ts,
                  crc32 |-> Zero32]
  /\ frame' = serialize(host, packet')
  /\ stage' = "sent"
  /\ UNCHANGED <<host, upstream, est, obs>>

\* The mock upstream encodes the 40 bytes into a buffer of 32: it reports the
\* error and stops.
sendbuffer == 32
MockSend ==
  /\ stage = "estimated" /\ upstream = "mock"
  /\ IF sendbuffer < 40
     THEN upstream' = "stopped" /\ UNCHANGED <<frame, stage>>
     ELSE stage' = "sent" /\ frame' = [k \in 1..sendbuffer |-> 0] /\ UNCHANGED upstream
  /\ UNCHANGED <<host, est, packet, obs>>

\* A message of another length, from an upstream of another version.
Foreign ==
  /\ stage = "estimated" /\ upstream = "engine"
  /\ \E n \in {0, 32, 39} : frame' = [k \in 1..n |-> 0]
  /\ stage' = "sent"
  /\ UNCHANGED <<host, upstream, est, packet, obs>>

-----------------------------------------------------------------------------
(* The feeder.                                                             *)

\* Mutant: the DTO declares the two codes in the other order.
DecodeSwapped(b) ==
  [OptionInstrumentCode |-> Get(b, 4, 4), SpotInstrumentCode |-> Get(b, 0, 4),
   PriceExponent |-> Get(b, 8, 4), MarketPrice |-> Get(b, 12, 8),
   PredictedPrice |-> Get(b, 20, 8), ProducedAt |-> Get(b, 28, 8)]

\* binary.Decode into the fields of ObservationDTO, in their order; the check
\* sum is decoded too, and never looked at.
Decode(b) ==
  [OptionInstrumentCode |-> Get(b, 0, 4), SpotInstrumentCode |-> Get(b, 4, 4),
   PriceExponent |-> Get(b, 8, 4), MarketPrice |-> Get(b, 12, 8),
   PredictedPrice |-> Get(b, 20, 8), ProducedAt |-> Get(b, 28, 8)]

\* The second result is true for every code, and a missing key of the map
\* gives the empty name.
GetInstrumentByCode(code) ==
  <<IF code \in DOMAIN Instrument THEN Instrument[code] ELSE Unnamed, TRUE>>

\* The numbers of words.
Number32(w) == w[1] * 16777216 + w[2] * 65536 + w[3] * 256 + w[4]
Number64(w) == (Number32(Get(w, 0, 4)) * 65536) * 65536 + Number32(Get(w, 4, 4))

\* ObservationDTO.Observation: a price is its number in units of 10^-exponent.
Observation(dto) ==
  [spot |-> GetInstrumentByCode(dto.SpotInstrumentCode)[1],
   option |-> GetInstrumentByCode(dto.OptionInstrumentCode)[1],
   market |-> Number64(dto.MarketPrice), price |-> Number64(dto.PredictedPrice),
   exponent |-> Number32(dto.PriceExponent), producedAt |-> dto.ProducedAt]

\* The handler of addZMQHandlers, up to ProcessObservation.
Handle ==
  /\ stage = "sent"
  /\ \/ /\ Len(frame) < 40
        /\ stage' = "discarded" /\ UNCHANGED obs
     \/ /\ Len(frame) >= 40
        /\ LET dto == Decode(frame) IN
             IF /\ GetInstrumentByCode(dto.SpotInstrumentCode)[2]
                /\ GetInstrumentByCode(dto.OptionInstrumentCode)[2]
             THEN obs' = Observation(dto) /\ stage' = "published"
             ELSE stage' = "discarded" /\ UNCHANGED obs
  /\ UNCHANGED <<host, upstream, est, packet, frame>>

WireNext == onPriceEstimation \/ MockSend \/ Foreign \/ Handle

WireSpec == WireInit /\ [][WireNext]_wireVars

-----------------------------------------------------------------------------
WireTypeOK ==
  /\ host \in Hosts
  /\ upstream \in {"engine", "mock", "stopped"}
  /\ est \in Estimation
  /\ packet \in Packet \cup {Nothing}
  /\ stage \in {"estimated", "sent", "published", "discarded"}
  /\ packet # Nothing => frame \in [1..40 -> Byte]

(* FieldsSurvive: whatever the byte order of the two hosts, deserialize    *)
(* gives back every field serialize was given, and of the check sum, which *)
(* serialize fills in, the word it wrote (protocol.hpp:86-149).            *)
FieldsSurvive ==
  packet # Nothing =>
    \A h \in Hosts :
      deserialize(h, frame) =
        [packet EXCEPT !.crc32 = IF @ = Zero32 THEN Get(frame, 36, 4) ELSE @]

(* CrcIsRemainder: the last word of a frame is the standard check sum of   *)
(* the 36 bytes before it, bit for bit: "CRC32 may be incorrect here :("   *)
(* (protocol.hpp:110) is not so.                                           *)
CrcIsRemainder ==
  packet # Nothing => Get(frame, 36, 4) = WordOf(ReferenceCrc(Get(frame, 0, 36)))

\* n units of the sixth digit are what may be shown of the price x: at most a
\* unit too little for what is cut off, and what the roundings amount to.
Shows(n, x) ==
  /\ 10 * n <= x + Rounding(x)
  /\ x <= 10 * n + 10 + Rounding(x)

(* PricesSurvive: a consumer is shown the engine's prices to their sixth   *)
(* digit: below 450 million never more than the price and at most one unit *)
(* of that digit less, above it within the rounding of two doubles; the    *)
(* market price and the estimation are not exchanged, the time is as it    *)
(* was (zmq_price_sink.cpp:23-25, observation_dto.go:41-52).               *)
PricesSurvive ==
  obs # Nothing =>
    /\ obs.exponent = precision_
    /\ Shows(obs.market, est.market) /\ Shows(obs.price, est.price)
    /\ obs.producedAt = est.ts

(* NamesSurvive: an instrument on which the tables of the engine and of    *)
(* the feeder agree is named to the consumers in exactly the observations  *)
(* of its own estimations, and nothing is published of a frame that is too *)
(* short (zmq_price_sink.cpp:19-22, root.go:65-70, config.go:18-20).       *)
NamesSurvive ==
  obs # Nothing =>
    /\ packet # Nothing
    /\ \A y \in Symbols : Code[y] \in DOMAIN Instrument /\ Instrument[Code[y]] = y =>
         /\ obs.option = y <=> est.option = y
         /\ obs.spot = y <=> est.spot = y

(* UnknownDiscarded: "option instrument not found", "spot instrument not   *)
(* found" (observation_dto.go:33 and 38): an observation of an instrument  *)
(* the feeder has no name for is an error, and discarded.                  *)
UnknownDiscarded == obs # Nothing => obs.option # Unnamed /\ obs.spot # Unnamed
=============================================================================
