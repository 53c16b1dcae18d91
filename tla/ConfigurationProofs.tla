------------------------- MODULE ConfigurationProofs -------------------------
(***************************************************************************)
(* Theorems about Valuation and Configuration, for any number of paths and *)
(* any documents.                                                          *)
(***************************************************************************)
EXTENDS Configuration, TLAPS

Numbers == {"zero", "num"}

-----------------------------------------------------------------------------
(* Classes.                                                                *)

(* Products and sums of numbers of ordinary size are of ordinary size.     *)
LEMMA NumbersClosed ==
  ASSUME NEW x \in Numbers, NEW y \in Numbers
  PROVE  Times(x, y) \subseteq Numbers /\ Plus(x, y) \subseteq Numbers
<1>1. CASE x = "zero" /\ y = "zero"
  BY <1>1 DEF Times, Plus, Numbers
<1>2. CASE x = "num" /\ y = "num"
  BY <1>2 DEF Times, Plus, Numbers
<1>3. CASE x # y
  BY <1>3 DEF Times, Plus, Numbers
<1> QED
  BY <1>1, <1>2, <1>3 DEF Numbers

(* So are all products of two sets of them.                                *)
LEMMA NumbersAll ==
  ASSUME NEW X, X \subseteq Numbers, NEW Y, Y \subseteq Numbers
  PROVE  TimesAll(X, Y) \subseteq Numbers
BY NumbersClosed DEF TimesAll

(* A nan makes a nan of every product and sum.                             *)
LEMMA NanSpreads ==
  \A x : Times(x, "nan") = {"nan"} /\ Plus(x, "nan") = {"nan"}
BY DEF Times, Plus

(* Sums stay among the classes.                                            *)
LEMMA SumsClosed ==
  ASSUME NEW x \in Sums, NEW y \in Sums
  PROVE  Plus(x, y) \subseteq Sums
<1>1. CASE x = "nan" \/ y = "nan"
  BY <1>1 DEF Plus, Sums
<1>2. CASE ~(x = "nan" \/ y = "nan") /\ (x = "inf" \/ y = "inf")
  BY <1>2 DEF Plus, Sums
<1>3. CASE {x, y} \subseteq {"zero", "num", "huge"} /\ (x = "huge" \/ y = "huge")
  BY <1>3 DEF Plus, Sums
<1>4. CASE x \in Numbers /\ y \in Numbers
  BY <1>4, NumbersClosed DEF Sums, Numbers
<1> QED
  BY <1>1, <1>2, <1>3, <1>4 DEF Sums, Numbers

(* Products stay among the classes too.                                    *)
LEMMA ProductsClosed ==
  ASSUME NEW x \in Sums, NEW y \in Sums
  PROVE  Times(x, y) \subseteq Sums
BY DEF Times, Sums

(* The operational time is T at and after expiry, and positive and finite  *)
(* before it, whatever was drawn.                                          *)
LEMMA OperationalTimes ==
  ASSUME NEW T \in Horizons, NEW s1 \in {"zero", "num", "inf", "nan"}
  PROVE  OperationalTime(T, s1) = ClassOf(T)
<1>1. CASE T = "ahead"
  BY <1>1 DEF OperationalTime, ClassOf
<1>2. CASE T = "now"
  BY <1>2 DEF OperationalTime, ClassOf, Power
<1>3. CASE T = "past"
  BY <1>3 DEF OperationalTime, ClassOf, Power
<1> QED
  BY <1>1, <1>2, <1>3 DEF Horizons

(* A sample is nothing else than these.                                    *)
LEMMA Samples == sampleValue \subseteq {"zero", "num", "inf", "nan"}
<1>1. \A x \in {"zero", "num"}, y \in {"num", "inf"} :
        Times(x, y) \subseteq {"zero", "num", "inf", "nan"}
  BY DEF Times
<1> QED
  BY <1>1 DEF sampleValue, TimesAll

(* A path's payoff is a product of a discount and the payoff at a price.   *)
LEMMA DiscountedMember ==
  ASSUME NEW e_t, NEW x \in Discounted(e_t)
  PROVE  \E g \in Growth(e_t), d \in Discount(question.rate, e_t) :
           \E S_T \in Times(option.spot, g) :
             \E y \in Payoff(option.type, S_T) : x \in Times(d, y)
<1>1. PICK S_T \in TimesAll({option.spot}, Growth(e_t)) :
        x \in TimesAll(Discount(question.rate, e_t), Payoff(option.type, S_T))
  BY DEF Discounted
<1>2. PICK g \in Growth(e_t) : S_T \in Times(option.spot, g)
  BY <1>1 DEF TimesAll
<1>3. PICK d \in Discount(question.rate, e_t), y \in Payoff(option.type, S_T) :
        x \in Times(d, y)
  BY <1>1 DEF TimesAll
<1> QED
  BY <1>2, <1>3

(* Payoffs at any price are classes, those at a number are numbers.        *)
LEMMA Payoffs ==
  ASSUME NEW type \in Types, NEW S_T \in Sums
  PROVE  /\ Payoff(type, S_T) \subseteq Sums
         /\ S_T \in Numbers => Payoff(type, S_T) \subseteq Numbers
         /\ type = "put" /\ S_T # "nan" => Payoff(type, S_T) \subseteq Numbers
<1>1. CASE type = "call"
  BY <1>1 DEF Payoff, Sums, Numbers
<1>2. CASE type = "put"
  BY <1>2 DEF Payoff, Sums, Numbers
<1> QED
  BY <1>1, <1>2 DEF Types

(* The class of what a path adds: always one of the classes ...            *)
LEMMA PathClasses ==
  ASSUME option \in PricedOptions, question \in Q!Questions,
         NEW e_t, NEW x \in Discounted(e_t)
  PROVE  x \in Sums
<1>1. option.type \in Types /\ option.spot \in Sums
  BY DEF PricedOptions, Sums
<1>2. Growth(e_t) \subseteq Sums /\ Discount(question.rate, e_t) \subseteq Sums
  BY DEF Growth, Discount, Sums
<1>3. PICK g \in Sums, d \in Sums :
        \E S_T \in Times(option.spot, g) :
          \E y \in Payoff(option.type, S_T) : x \in Times(d, y)
  BY <1>2, DiscountedMember
<1>4. PICK S_T \in Sums : \E y \in Payoff(option.type, S_T) : x \in Times(d, y)
  BY <1>1, <1>3, ProductsClosed
<1>5. PICK y \in Sums : x \in Times(d, y)
  BY <1>1, <1>4, Payoffs
<1> QED
  BY <1>5, ProductsClosed

(* ... at the moment of expiry a number, ...                               *)
LEMMA PathsAtExpiry ==
  ASSUME option \in PricedOptions, NEW x \in Discounted("zero")
  PROVE  x \in Numbers
<1>1. option.type \in Types /\ option.spot \in Numbers
  BY DEF PricedOptions, Numbers
<1>2. Growth("zero") = {"num"} /\ Discount(question.rate, "zero") = {"num"}
  BY DEF Growth, Discount
<1>3. PICK S_T \in Times(option.spot, "num") :
        \E y \in Payoff(option.type, S_T) : x \in Times("num", y)
  BY <1>2, DiscountedMember
<1>4. "num" \in Numbers /\ Numbers \subseteq Sums
  BY DEF Numbers, Sums
<1>5. S_T \in Numbers
  BY <1>1, <1>3, <1>4, NumbersClosed
<1>6. PICK y \in Numbers : x \in Times("num", y)
  BY <1>1, <1>3, <1>4, <1>5, Payoffs
<1> QED
  BY <1>4, <1>6, NumbersClosed

(* ... after it a nan, ...                                                 *)
LEMMA PathsAfterExpiry ==
  ASSUME NEW x \in Discounted("neg")
  PROVE  x = "nan"
<1>1. Growth("neg") = {"nan"}
  BY DEF Growth
<1>2. \A d : Times(d, "nan") = {"nan"}
  BY NanSpreads
<1>3. Payoff(option.type, "nan") = {"nan"}
  BY DEF Payoff
<1> QED
  BY <1>1, <1>2, <1>3, DiscountedMember

(* ... and of a put before it a number, unless the rate is negative: the   *)
(* payoff is 0 where the price overflows.                                  *)
LEMMA PathsOfPut ==
  ASSUME option \in PricedOptions, option.type = "put", option.spot = "num",
         question.rate = "nonneg", NEW x \in Discounted("num")
  PROVE  x \in Numbers
<1>1. Discount(question.rate, "num") \subseteq Numbers
  BY DEF Discount, Numbers
<1>2. \A g \in Growth("num") : "nan" \notin Times("num", g) /\ Times("num", g) \subseteq Sums
  BY DEF Growth, Times, Sums
<1>3. PICK g \in Growth("num"), d \in Numbers :
        \E S_T \in Times("num", g) : \E y \in Payoff("put", S_T) : x \in Times(d, y)
  BY <1>1, DiscountedMember
<1>4. PICK S_T \in Sums :
        S_T # "nan" /\ \E y \in Payoff("put", S_T) : x \in Times(d, y)
  BY <1>2, <1>3
<1>5. PICK y \in Numbers : x \in Times(d, y)
  BY <1>4, Payoffs DEF Types
<1> QED
  BY <1>5, NumbersClosed

-----------------------------------------------------------------------------
(* A valuation.                                                            *)

\* The options whose paths all give numbers.
Sound ==
  \/ question.T = "now"
  \/ /\ option.type = "put" /\ option.spot = "num"
     /\ question.T = "ahead" /\ question.rate = "nonneg"

\* The answer, as Quote has it.
Price ==
  IF sum \notin {"zero", "num"} THEN "bad"
  ELSE IF question.T = "ahead" THEN "model" ELSE "payoff"

ValuationInv ==
  /\ ValuationTypeOK
  /\ pc = "idle" => question = Q!NoQuestion
  /\ pc = "asked" => sum = "zero" /\ path = 0
  /\ pc = "paths" => question.p = "grid" /\ path > 0
  /\ pc = "paths" /\ Sound => sum \in Numbers
  /\ pc = "paths" /\ question.T = "past" => sum = "nan"
  /\ pc = "done" => Price \in PriceOf(question.T, question.rate, question.p)
  /\ PutIsNumber

(* A question starts a new sum.                                            *)
LEMMA EstimateKeeps ==
  ASSUME ValuationInv, NEW type \in Types, Estimate(type)
  PROVE  ValuationInv' /\ Q!Ask
<1>1. /\ option' \in PricedOptions /\ question' \in Q!Questions
      /\ pc \in {"idle", "done"} /\ pc' = "asked" /\ path' = 0 /\ sum' = "zero"
  BY DEF Estimate
<1>2. ValuationTypeOK'
  <2>1. NoOption \notin PricedOptions
    BY DEF NoOption, PricedOptions, Types
  <2>2. Q!NoQuestion \notin Q!Questions
    BY DEF Q!NoQuestion, Q!Questions, Q!Horizons
  <2> QED
    BY <1>1, <2>1, <2>2, ValuationAssumption DEF ValuationTypeOK, Sums
<1>3. ValuationInv'
  BY <1>1, <1>2 DEF ValuationInv, PutIsNumber, Sound, Price
<1>4. Q!Ask
  BY <1>1 DEF Q!Ask, ValuationInv
<1> QED
  BY <1>3, <1>4

(* The classical formula: a number, unless the rate is negative.           *)
LEMMA BlackScholesNumber ==
  ASSUME ValuationInv, BlackScholes
  PROVE  /\ sum' \in Sums
         /\ question.T # "ahead" \/ question.rate = "nonneg" => sum' \in Numbers
<1>1. option.type \in Types /\ option.spot \in Numbers
  BY DEF ValuationInv, ValuationTypeOK, BlackScholes, PricedOptions, Numbers
<1>2. Numbers \subseteq Sums
  BY DEF Numbers, Sums
<1>3. CASE question.T # "ahead"
  BY <1>1, <1>2, <1>3, Payoffs DEF BlackScholes
<1>4. CASE question.T = "ahead"
  <2>1. PICK x \in Numbers,
             y \in TimesAll(Discount(question.rate, "num"), {"zero", "num"}) :
          sum' \in Plus(x, y)
    BY <1>4 DEF BlackScholes, Numbers
  <2>2. PICK d \in Discount(question.rate, "num"), n \in Numbers : y \in Times(d, n)
    BY DEF TimesAll, Numbers
  <2>3. d \in Sums /\ (question.rate = "nonneg" => d \in Numbers)
    BY DEF Discount, Sums, Numbers
  <2>4. y \in Sums /\ (question.rate = "nonneg" => y \in Numbers)
    BY <1>2, <2>2, <2>3, ProductsClosed, NumbersClosed
  <2> QED
    BY <1>2, <1>4, <2>1, <2>4, SumsClosed, NumbersClosed
<1> QED
  BY <1>3, <1>4

(* A path adds a class that goes with the time it was asked for.           *)
LEMMA PathAdds ==
  ASSUME ValuationInv, Path
  PROVE  /\ sum' \in Sums
         /\ Sound => sum' \in Numbers
         /\ question.T = "past" => sum' = "nan"
<1>1. /\ option \in PricedOptions /\ question \in Q!Questions
      /\ question.T \in Horizons /\ sum \in Sums
  <2>1. option \in PricedOptions /\ question \in Q!Questions /\ sum \in Sums
    BY DEF ValuationInv, ValuationTypeOK, Path
  <2> QED
    BY <2>1 DEF Q!Questions, Q!Horizons, Horizons
<1>2. PICK s1 \in sampleValue :
        \E x \in Discounted(OperationalTime(question.T, s1)) : sum' \in Plus(sum, x)
  BY DEF Path
<1>3. PICK x \in Discounted(ClassOf(question.T)) : sum' \in Plus(sum, x)
  BY <1>1, <1>2, Samples, OperationalTimes
<1>4. x \in Sums /\ sum' \in Sums
  BY <1>1, <1>3, PathClasses, SumsClosed
<1>5. ASSUME Sound PROVE sum' \in Numbers
  <2>1. sum \in Numbers
    BY <1>5 DEF ValuationInv, Path, Numbers
  <2>2. x \in Numbers
    BY <1>1, <1>3, <1>5, PathsAtExpiry, PathsOfPut DEF Sound, ClassOf
  <2> QED
    BY <1>3, <2>1, <2>2, NumbersClosed
<1>6. ASSUME question.T = "past" PROVE sum' = "nan"
  BY <1>3, <1>6, PathsAfterExpiry, NanSpreads DEF ClassOf
<1> QED
  BY <1>4, <1>5, <1>6

(* Every step on the way to a price keeps the invariant, and only the last *)
(* is seen by the caller.                                                  *)
LEMMA StepKeeps ==
  ASSUME ValuationInv, ValuationStep
  PROVE  ValuationInv' /\ (Q!Answer \/ (UNCHANGED question /\ pc # "done" /\ pc' # "done"))
<1>1. /\ UNCHANGED <<option, question>> /\ pc \in {"asked", "paths"}
      /\ option \in PricedOptions /\ question \in Q!Questions /\ question # Q!NoQuestion
      /\ option # NoOption /\ path \in 0..Paths /\ sum \in Sums
  BY DEF ValuationStep, BlackScholes, Path, Mean, ValuationInv, ValuationTypeOK
<1>2. /\ question.T \in {"ahead", "now", "past"} /\ question.rate \in {"nonneg", "neg"}
      /\ question.p \in {"default", "grid"}
  BY <1>1 DEF Q!Questions, Q!Horizons, Q!Rates
<1>3. ASSUME pc' = "done", path' = path, sum' \in Sums,
             Price' \in PriceOf(question.T, question.rate, question.p), PutIsNumber'
      PROVE  ValuationInv' /\ Q!Answer
  <2>1. ValuationInv'
    BY <1>1, <1>3 DEF ValuationInv, ValuationTypeOK
  <2>2. Price' \in Q!PriceOf(question.T, question.rate, question.p)
    BY <1>3 DEF PriceOf, Q!PriceOf, black_scholes_price, Q!black_scholes_price,
                MonteCarlo, Q!MonteCarlo
  <2>3. Q!Answer
    BY <1>1, <1>3, <2>2 DEF Q!Answer, Price
  <2> QED
    BY <2>1, <2>3
<1>4. CASE BlackScholes
  <2>1. pc' = "done" /\ path' = path /\ question.p = "default"
    BY <1>4 DEF BlackScholes
  <2>2. sum' \in Sums /\ (question.T # "ahead" \/ question.rate = "nonneg" => sum' \in Numbers)
    BY <1>4, BlackScholesNumber
  <2>3. Price' \in black_scholes_price(question.T, question.rate)
    BY <1>1, <1>2, <2>2 DEF Price, Numbers, black_scholes_price
  <2>4. PutIsNumber'
    BY <1>1, <1>2, <2>2 DEF PutIsNumber, Numbers
  <2> QED
    BY <1>3, <2>1, <2>2, <2>3, <2>4 DEF PriceOf
<1>5. CASE Path
  <2>1. /\ pc' = "paths" /\ question.p = "grid" /\ path' = path + 1 /\ path < Paths
    BY <1>5 DEF Path, ValuationInv
  <2>2. path' \in 0..Paths /\ path' > 0
    BY <1>1, <2>1, ValuationAssumption
  <2>3. Sound' = Sound
    BY <1>1 DEF Sound
  <2>4. ValuationInv'
    BY <1>1, <1>5, <2>1, <2>2, <2>3, PathAdds DEF ValuationInv, ValuationTypeOK, PutIsNumber
  <2> QED
    BY <1>1, <2>1, <2>4
<1>6. CASE Mean
  <2>1. /\ pc = "paths" /\ pc' = "done" /\ path' = path /\ question.p = "grid"
        /\ sum' \in Sums /\ (sum # "huge" => sum' = sum)
    BY <1>1, <1>6 DEF Mean, ValuationInv, Sums
  <2>2. Sound => sum' \in Numbers
    BY <1>1, <2>1 DEF ValuationInv, Numbers
  <2>3. question.T = "past" => sum' = "nan"
    BY <2>1 DEF ValuationInv
  <2>4. Price' \in MonteCarlo(question.T)
    BY <1>1, <1>2, <2>2, <2>3 DEF Price, Numbers, MonteCarlo, Sound
  <2>5. PutIsNumber'
    BY <1>1, <1>2, <2>2 DEF PutIsNumber, Numbers, Sound
  <2> QED
    BY <1>3, <2>1, <2>4, <2>5 DEF PriceOf
<1> QED
  BY <1>4, <1>5, <1>6 DEF ValuationStep

-----------------------------------------------------------------------------
(* The repository.                                                         *)

\* map indexes the first n entries, which have the keys key[1], key[2], ...
Indexed(map, key, n) ==
  /\ DOMAIN map = {key[o] : o \in 1..n}
  /\ \A y \in DOMAIN map : map[y] \in FirstOf(key) \cap (1..n) /\ key[map[y]] = y

(* Inserting the next entry keeps an index one: it changes nothing under a *)
(* key that is there, and under a new one the entry is the first.          *)
LEMMA InsertIndexes ==
  ASSUME NEW n \in Nat, NEW len \in Nat, n < len, NEW key, DOMAIN key = 1..len,
         NEW map, Indexed(map, key, n)
  PROVE  Indexed(insert(map, key[n + 1], n + 1), key, n + 1)
<1> DEFINE new == insert(map, key[n + 1], n + 1)
<1>1. 1..(n + 1) = (1..n) \cup {n + 1} /\ n + 1 \in DOMAIN key
  OBVIOUS
<1>2. DOMAIN new = {key[o] : o \in 1..(n + 1)}
  BY <1>1 DEF Indexed, insert
<1>3. ASSUME NEW y \in DOMAIN new
      PROVE  new[y] \in FirstOf(key) \cap (1..(n + 1)) /\ key[new[y]] = y
  <2>1. CASE y \in DOMAIN map
    BY <1>1, <2>1 DEF Indexed, insert
  <2>2. CASE y \notin DOMAIN map
    <3>1. y = key[n + 1] /\ new[y] = n + 1
      BY <2>2 DEF insert
    <3>2. \A i \in 1..n : key[i] # y
      BY <2>2 DEF Indexed
    <3>3. 1..((n + 1) - 1) = 1..n
      OBVIOUS
    <3> HIDE DEF new
    <3> QED
      BY <1>1, <3>1, <3>2, <3>3 DEF FirstOf
  <2> QED
    BY <2>1, <2>2
<1> HIDE DEF new
<1> QED
  BY <1>2, <1>3 DEF Indexed, new

(* An index of all entries is the one the document defines.                *)
LEMMA IndexIsUnique ==
  ASSUME NEW len \in Nat, NEW key, DOMAIN key = 1..len, NEW map,
         map = [y \in DOMAIN map |-> map[y]], Indexed(map, key, len)
  PROVE  map = IndexOf(key)
<1>1. \A o \in FirstOf(key) : o \in 1..len
  BY DEF FirstOf
<1>2. DOMAIN map = {key[o] : o \in FirstOf(key)}
  BY <1>1 DEF Indexed
<1>3. \A o \in FirstOf(key), i \in FirstOf(key) : key[o] = key[i] => o = i
  <2> TAKE o \in FirstOf(key), i \in FirstOf(key)
  <2>1. o \in Nat /\ i \in Nat /\ o >= 1 /\ i >= 1
    BY <1>1
  <2>2. o < i => o \in 1..(i - 1)
    BY <2>1
  <2>3. i < o => i \in 1..(o - 1)
    BY <2>1
  <2> QED
    BY <2>1, <2>2, <2>3 DEF FirstOf
<1>4. \A y \in DOMAIN map : map[y] = CHOOSE o \in FirstOf(key) : key[o] = y
  BY <1>3 DEF Indexed
<1> QED
  BY <1>2, <1>4 DEF IndexOf

\* What has been read by each stage, and why the process ended.
Reading ==
  /\ process = "settings" => types = <<>>
  /\ process \in {"options", "codes", "running", "terminated"} =>
       doc.wellFormed /\ (0 < doc.size /\ doc.size < 65536 => buffer_size_ = doc.size)
  /\ process \in {"codes", "running", "terminated"} => Len(types) = Len(doc.options)
  /\ process \in {"running", "terminated"} => doc.codesValid /\ symbol_codes_ = doc.codes
  /\ process = "aborted" =>
       ~doc.wellFormed \/ ~doc.codesValid \/ \E o \in 1..Len(doc.options) : ~doc.options[o].valid
  /\ process = "terminated" =>
       asked # NoSymbol /\ ~({asked, spot_symbol(asked)} \subseteq doc.codes)
  /\ asked # NoSymbol => process \in {"running", "terminated"}

\* The options made so far are those of the entries read.
Made ==
  /\ \A o \in 1..Len(types) : doc.options[o].valid /\ types[o] \in TypesOf(doc.options[o])
  /\ Indexed(options_, SymbolOf, Len(types))
  /\ Indexed(spot_options_, SpotOf, Len(types))

\* What is valued is what was asked for.
Asking ==
  asked # NoSymbol => option.type = types[options_[asked]] /\ question.rate = doc.rate

ConfInv == ConfTypeOK /\ ValuationInv /\ Reading /\ Made /\ Asking

(* The documents' parts have their types.                                  *)
LEMMA DocumentFacts ==
  ASSUME ConfInv
  PROVE  /\ doc.options \in Seq(Entries) /\ Len(doc.options) \in Nat
         /\ doc.codes \subseteq Symbols /\ doc.size \in Int /\ doc.rate \in Rates
         /\ {doc.wellFormed, doc.codesValid} \subseteq BOOLEAN
         /\ types \in Seq(Types) /\ Len(types) \in Nat /\ Len(types) <= Len(doc.options)
<1>1. doc \in Documents /\ types \in Seq(Types) /\ Len(types) <= Len(doc.options)
  BY DEF ConfInv, ConfTypeOK
<1>2. doc.options \in Seq(Entries)
  BY <1>1, ConfigurationAssumption
<1> QED
  BY <1>1, <1>2, ConfigurationAssumption

(* A step that leaves the document and the options leaves them made.       *)
LEMMA MadeKeeps ==
  ASSUME Made, UNCHANGED <<doc, types, options_, spot_options_>>
  PROVE  Made'
<1>1. SymbolOf' = SymbolOf /\ SpotOf' = SpotOf
  BY DEF SymbolOf, SpotOf
<1>2. /\ Indexed(options_, SymbolOf, Len(types))'
      /\ Indexed(spot_options_, SpotOf, Len(types))'
  BY <1>1 DEF Made, Indexed, FirstOf
<1>3. \A o \in 1..Len(types') :
        doc'.options[o].valid /\ types'[o] \in TypesOf(doc'.options[o])
  BY DEF Made, TypesOf
<1> QED
  BY <1>2, <1>3 DEF Made, TypesOf

(* Before anything is read all is empty.                                   *)
LEMMA ConfStarts == ConfInit => ConfInv
<1> SUFFICES ASSUME ConfInit PROVE ConfInv
  OBVIOUS
<1>1. ValuationInv
  BY ValuationAssumption DEF ConfInit, ValuationInit, ValuationInv, ValuationTypeOK, Sums, PutIsNumber
<1>2. ConfTypeOK
  <2>1. doc.options \in Seq(Entries)
    BY ConfigurationAssumption DEF ConfInit
  <2> QED
    BY <1>1, <2>1 DEF ConfInit, ConfTypeOK, ValuationInv
<1>3. Made
  BY DEF ConfInit, Made, Indexed
<1> QED
  BY <1>1, <1>2, <1>3 DEF ConfInit, ConfInv, Reading, Asking

(* Reading the settings.                                                   *)
LEMMA ReadSettingsKeeps == ConfInv /\ ReadSettings => ConfInv'
<1> SUFFICES ASSUME ConfInv, ReadSettings PROVE ConfInv'
  OBVIOUS
<1>1. /\ UNCHANGED <<doc, types, options_, spot_options_, symbol_codes_, asked>>
      /\ UNCHANGED <<pc, option, question, path, sum>>
      /\ process = "settings"
  BY DEF ReadSettings, valuationVars
<1>2. doc.size \in Int /\ doc.wellFormed \in BOOLEAN
  BY DocumentFacts
<1>3. /\ buffer_size_' \in Nat /\ buffer_size_' < 65536
      /\ process' \in {"options", "aborted"}
  BY <1>2 DEF ReadSettings, ConfInv, ConfTypeOK
<1>4. ConfTypeOK' /\ ValuationInv'
  BY <1>1, <1>3 DEF ConfInv, ConfTypeOK, ValuationInv, ValuationTypeOK, PutIsNumber, Sound, Price
<1>5. Reading'
  <2>1. CASE doc.wellFormed
    <3>1. process' = "options" /\ buffer_size_' = doc.size % 65536
      BY <2>1 DEF ReadSettings
    <3>2. 0 < doc.size /\ doc.size < 65536 => buffer_size_' = doc.size
      BY <1>2, <3>1
    <3> QED
      BY <1>1, <2>1, <3>1, <3>2 DEF ConfInv, Reading
  <2>2. CASE ~doc.wellFormed
    BY <1>1, <2>2 DEF ReadSettings, ConfInv, Reading
  <2> QED
    BY <2>1, <2>2
<1>6. Made' /\ Asking'
  <2>1. Asking'
    BY <1>1 DEF ConfInv, Asking, Reading
  <2>2. Made'
    BY <1>1, MadeKeeps DEF ConfInv
  <2> QED
    BY <2>1, <2>2
<1> QED
  BY <1>4, <1>5, <1>6 DEF ConfInv

(* Reading an entry.                                                       *)
LEMMA ReadOptionKeeps == ConfInv /\ ReadOption => ConfInv'
<1> SUFFICES ASSUME ConfInv, ReadOption PROVE ConfInv'
  OBVIOUS
<1> DEFINE o == Len(types) + 1
           entry == doc.options[o]
<1>1. /\ UNCHANGED <<doc, buffer_size_, symbol_codes_, asked>>
      /\ UNCHANGED <<pc, option, question, path, sum>>
      /\ process = "options" /\ o \in 1..Len(doc.options)
      /\ asked = NoSymbol
  BY DocumentFacts DEF ReadOption, valuationVars, ConfInv, Reading
<1>2. entry \in Entries
  BY <1>1, DocumentFacts
<1>3. ValuationInv'
  BY <1>1 DEF ConfInv, ValuationInv, ValuationTypeOK, PutIsNumber, Sound, Price
<1>4. CASE entry.valid
  <2>1. PICK type \in TypesOf(entry) : types' = Append(types, type)
    BY <1>4 DEF ReadOption
  <2>2. type \in Types
    BY <1>2 DEF TypesOf, Entries, Types
  <2>3. /\ options_' = insert(options_, entry.symbol, o)
        /\ spot_options_' = insert(spot_options_, entry.spot_symbol, o)
        /\ process' = process
    BY <1>4 DEF ReadOption
  <2>4. /\ types' \in Seq(Types) /\ Len(types') = o
        /\ types'[o] = type /\ \A i \in 1..Len(types) : types'[i] = types[i]
    BY <2>1, <2>2, DocumentFacts
  <2>5. 1..o = (1..Len(types)) \cup {o}
    BY DocumentFacts
  <2>6. /\ options_' \in [DOMAIN options_' -> 1..o] /\ DOMAIN options_' \subseteq Symbols
        /\ spot_options_' \in [DOMAIN spot_options_' -> 1..o]
        /\ DOMAIN spot_options_' \subseteq Symbols
    <3>1. entry.symbol \in Symbols /\ entry.spot_symbol \in Symbols
      BY <1>2 DEF Entries
    <3>2. /\ options_ \in [DOMAIN options_ -> 1..Len(types)] /\ DOMAIN options_ \subseteq Symbols
          /\ spot_options_ \in [DOMAIN spot_options_ -> 1..Len(types)]
          /\ DOMAIN spot_options_ \subseteq Symbols
      BY DEF ConfInv, ConfTypeOK
    <3> QED
      BY <2>3, <2>5, <3>1, <3>2 DEF insert
  <2>7. ConfTypeOK'
    <3>1. Len(types') <= Len(doc'.options)
      BY <1>1, <2>4
    <3> QED
      BY <1>1, <1>3, <2>3, <2>4, <2>6, <3>1 DEF ConfInv, ConfTypeOK, ValuationInv
  <2>8. Reading'
    <3>1. process' = "options" /\ asked' = NoSymbol
      BY <1>1, <2>3
    <3> QED
      BY <1>1, <3>1 DEF ConfInv, Reading
  <2>9. /\ SymbolOf' = SymbolOf /\ SpotOf' = SpotOf
        /\ DOMAIN SymbolOf = 1..Len(doc.options) /\ DOMAIN SpotOf = 1..Len(doc.options)
        /\ SymbolOf[o] = entry.symbol /\ SpotOf[o] = entry.spot_symbol
    BY <1>1 DEF SymbolOf, SpotOf
  <2>10. /\ Indexed(options_', SymbolOf, o)
         /\ Indexed(spot_options_', SpotOf, o)
    <3>1. Len(types) \in Nat /\ Len(doc.options) \in Nat /\ Len(types) < Len(doc.options)
      BY <1>1, DocumentFacts
    <3>2. Indexed(options_, SymbolOf, Len(types)) /\ Indexed(spot_options_, SpotOf, Len(types))
      BY DEF ConfInv, Made
    <3> QED
      BY <2>3, <2>9, <3>1, <3>2, InsertIndexes
  <2>11. Made'
    <3>1. \A i \in 1..o : doc.options[i].valid /\ types'[i] \in TypesOf(doc.options[i])
      BY <1>4, <2>4, <2>5 DEF ConfInv, Made
    <3> HIDE DEF o, entry
    <3> QED
      BY <1>1, <2>4, <2>9, <2>10, <3>1 DEF Made, Indexed, FirstOf, TypesOf
  <2>12. Asking'
    BY <1>1 DEF Asking
  <2> QED
    BY <1>3, <2>7, <2>8, <2>11, <2>12 DEF ConfInv
<1>5. CASE ~entry.valid
  <2>1. process' = "aborted" /\ UNCHANGED <<types, options_, spot_options_>>
    BY <1>5 DEF ReadOption
  <2> HIDE DEF o, entry
  <2>2. ConfTypeOK' /\ Made' /\ Asking'
    <3>1. ConfTypeOK'
      BY <1>1, <1>3, <2>1 DEF ConfInv, ConfTypeOK, ValuationInv
    <3>2. Made'
      BY <1>1, <2>1, MadeKeeps DEF ConfInv
    <3> QED
      BY <1>1, <3>1, <3>2 DEF Asking
  <2>3. Reading'
    BY <1>1, <1>5, <2>1 DEF Reading, entry
  <2> QED
    BY <1>3, <2>2, <2>3 DEF ConfInv
<1> QED
  BY <1>4, <1>5

(* The end of the options and the codes.                                   *)
LEMMA ReadRestKeeps == ConfInv /\ (OptionsRead \/ ReadCodes) => ConfInv'
<1> SUFFICES ASSUME ConfInv, OptionsRead \/ ReadCodes PROVE ConfInv'
  OBVIOUS
<1>1. /\ UNCHANGED <<doc, buffer_size_, types, options_, spot_options_, asked>>
      /\ UNCHANGED <<pc, option, question, path, sum>>
      /\ process \in {"options", "codes"} /\ process' \in {"codes", "running", "aborted"}
      /\ asked = NoSymbol
  BY DEF OptionsRead, ReadCodes, valuationVars, repository, ConfInv, Reading
<1>2. ValuationInv'
  BY <1>1 DEF ConfInv, ValuationInv, ValuationTypeOK, PutIsNumber, Sound, Price
<1>3. ConfTypeOK'
  <2>1. symbol_codes_' \subseteq Symbols
    BY DocumentFacts DEF OptionsRead, ReadCodes, repository, ConfInv, ConfTypeOK
  <2> QED
    BY <1>1, <1>2, <2>1 DEF ConfInv, ConfTypeOK, ValuationInv
<1>4. Reading'
  <2>1. CASE OptionsRead
    BY <1>1, <2>1 DEF OptionsRead, ConfInv, Reading
  <2>2. CASE ReadCodes
    BY <1>1, <2>2 DEF ReadCodes, ConfInv, Reading
  <2> QED
    BY <2>1, <2>2
<1>5. Made' /\ Asking'
  BY <1>1, MadeKeeps DEF ConfInv, Asking
<1> QED
  BY <1>2, <1>3, <1>4, <1>5 DEF ConfInv

(* A tick of an option asks for its price.                                 *)
LEMMA OptionTickKeeps ==
  ASSUME ConfInv, NEW y \in Symbols, OptionTick(y)
  PROVE  ConfInv' /\ Q!Ask
<1>1. /\ UNCHANGED <<doc, process>>
      /\ UNCHANGED <<buffer_size_, types, options_, spot_options_, symbol_codes_>>
      /\ y \in DOMAIN options_ /\ asked' = y /\ y # NoSymbol /\ process = "running"
      /\ Estimate(types[options_[y]]) /\ question'.rate = doc.rate
  BY ConfigurationAssumption DEF OptionTick, repository
<1>2. types[options_[y]] \in Types
  BY <1>1, DocumentFacts DEF ConfInv, ConfTypeOK
<1>3. ValuationInv' /\ Q!Ask
  BY <1>1, <1>2, EstimateKeeps DEF ConfInv
<1>4. ConfTypeOK'
  BY <1>1, <1>3 DEF ConfInv, ConfTypeOK, ValuationInv
<1>5. Reading'
  BY <1>1 DEF ConfInv, Reading
<1>6. Made'
  BY <1>1, MadeKeeps DEF ConfInv
<1>7. Asking'
  BY <1>1 DEF Asking, Estimate
<1> QED
  BY <1>3, <1>4, <1>5, <1>6, <1>7 DEF ConfInv

(* A step of the valuation.                                                *)
LEMMA EstimateStepKeeps ==
  ASSUME ConfInv, EstimateStep
  PROVE  ConfInv' /\ (Q!Answer \/ (UNCHANGED question /\ pc # "done" /\ pc' # "done"))
<1>1. /\ UNCHANGED <<doc, process, asked>>
      /\ UNCHANGED <<buffer_size_, types, options_, spot_options_, symbol_codes_>>
      /\ asked # NoSymbol /\ ValuationStep
  BY DEF EstimateStep, repository
<1>2. /\ ValuationInv'
      /\ Q!Answer \/ (UNCHANGED question /\ pc # "done" /\ pc' # "done")
  BY <1>1, StepKeeps DEF ConfInv
<1>3. UNCHANGED <<option, question>>
  BY <1>1 DEF ValuationStep, BlackScholes, Path, Mean
<1>4. ConfTypeOK'
  BY <1>1, <1>2 DEF ConfInv, ConfTypeOK, ValuationInv
<1>5. Reading' /\ Made' /\ Asking'
  BY <1>1, <1>3, MadeKeeps DEF ConfInv, Reading, Asking, spot_symbol
<1> QED
  BY <1>2, <1>4, <1>5 DEF ConfInv

(* Sending, or the end of the process for a missing code.                  *)
LEMMA SendKeeps == ConfInv /\ sendEstimation => ConfInv'
<1> SUFFICES ASSUME ConfInv, sendEstimation PROVE ConfInv'
  OBVIOUS
<1>1. /\ UNCHANGED <<doc, buffer_size_, types, options_, spot_options_, symbol_codes_>>
      /\ UNCHANGED <<pc, option, question, path, sum>>
      /\ process = "running" /\ asked # NoSymbol
  BY DEF sendEstimation, repository, valuationVars
<1>2. ValuationInv'
  BY <1>1 DEF ConfInv, ValuationInv, ValuationTypeOK, PutIsNumber, Sound, Price
<1>3. \/ asked' = NoSymbol /\ process' = process
      \/ /\ asked' = asked /\ process' = "terminated"
         /\ ~({asked, spot_symbol(asked)} \subseteq symbol_codes_)
  BY DEF sendEstimation
<1>4. ConfTypeOK'
  BY <1>1, <1>2, <1>3 DEF ConfInv, ConfTypeOK, ValuationInv
<1>5. Reading'
  BY <1>1, <1>3 DEF ConfInv, Reading, spot_symbol
<1>6. Made' /\ Asking'
  BY <1>1, <1>3, MadeKeeps DEF ConfInv, Asking
<1> QED
  BY <1>2, <1>4, <1>5, <1>6 DEF ConfInv

(* A step that changes nothing.                                            *)
LEMMA ConfStutters == ConfInv /\ UNCHANGED confVars => ConfInv'
<1> SUFFICES ASSUME ConfInv, UNCHANGED confVars PROVE ConfInv'
  OBVIOUS
<1>1. /\ UNCHANGED <<doc, process, asked, buffer_size_, types>>
      /\ UNCHANGED <<options_, spot_options_, symbol_codes_>>
      /\ UNCHANGED <<pc, option, question, path, sum>>
  BY DEF confVars, repository, valuationVars
<1>2. ValuationInv'
  BY <1>1 DEF ConfInv, ValuationInv, ValuationTypeOK, PutIsNumber, Sound, Price
<1>3. ConfTypeOK'
  BY <1>1, <1>2 DEF ConfInv, ConfTypeOK, ValuationInv
<1>4. Reading' /\ Made' /\ Asking'
  BY <1>1, MadeKeeps DEF ConfInv, Reading, Asking, spot_symbol
<1> QED
  BY <1>2, <1>3, <1>4 DEF ConfInv

(* Every step keeps the invariant.                                         *)
LEMMA ConfStep == ConfInv /\ [ConfNext]_confVars => ConfInv'
BY ReadSettingsKeeps, ReadOptionKeeps, ReadRestKeeps, OptionTickKeeps,
   EstimateStepKeeps, SendKeeps, ConfStutters
   DEF ConfNext, from_json

-----------------------------------------------------------------------------
(* Theorems.                                                               *)

(* An engine exists only of a document read as it is written.              *)
LEMMA MadeIsWritten == ConfInv => LoadedAsWritten
<1> SUFFICES ASSUME ConfInv, process \in {"running", "terminated"} PROVE LoadedAsWritten
  BY DEF LoadedAsWritten
<1>1. Len(types) = Len(doc.options) /\ Len(doc.options) \in Nat
  BY DocumentFacts DEF ConfInv, Reading
<1>2. /\ DOMAIN SymbolOf = 1..Len(doc.options) /\ DOMAIN SpotOf = 1..Len(doc.options)
  BY DEF SymbolOf, SpotOf
<1>3. /\ options_ = [y \in DOMAIN options_ |-> options_[y]]
      /\ spot_options_ = [y \in DOMAIN spot_options_ |-> spot_options_[y]]
  <2>1. /\ options_ \in [DOMAIN options_ -> 1..Len(types)]
        /\ spot_options_ \in [DOMAIN spot_options_ -> 1..Len(types)]
    BY DEF ConfInv, ConfTypeOK
  <2> QED
    BY <2>1
<1>4. options_ = IndexOf(SymbolOf) /\ spot_options_ = IndexOf(SpotOf)
  <2>1. /\ Indexed(options_, SymbolOf, Len(doc.options))
        /\ Indexed(spot_options_, SpotOf, Len(doc.options))
    BY <1>1 DEF ConfInv, Made
  <2> QED
    BY <1>1, <1>2, <1>3, <2>1, IndexIsUnique
<1> QED
  BY <1>1, <1>4 DEF ConfInv, Made, Reading, LoadedAsWritten

(* What an asked option is: the first entry of its symbol.                 *)
LEMMA AskedIsFirst ==
  ASSUME ConfInv, asked # NoSymbol
  PROVE  /\ options_[asked] \in FirstOf(SymbolOf) /\ options_[asked] \in 1..Len(types)
         /\ SymbolOf[options_[asked]] = asked
         /\ SpotOf[options_[asked]] = spot_symbol(asked)
         /\ \A o \in FirstOf(SymbolOf) : SymbolOf[o] = asked => o = options_[asked]
<1> DEFINE k == options_[asked]
<1>1. /\ k \in FirstOf(SymbolOf) /\ k \in 1..Len(types) /\ SymbolOf[k] = asked
  BY DEF ConfInv, ConfTypeOK, Made, Indexed
<1>2. \A o \in FirstOf(SymbolOf) : o \in 1..Len(doc.options)
  BY DEF FirstOf, SymbolOf
<1>3. Len(doc.options) \in Nat /\ Len(types) \in Nat /\ Len(types) <= Len(doc.options)
  BY DocumentFacts
<1>4. SpotOf[k] = spot_symbol(asked)
  BY <1>1, <1>2 DEF SpotOf, spot_symbol
<1>5. ASSUME NEW o \in FirstOf(SymbolOf), SymbolOf[o] = asked PROVE o = k
  <2>1. o \in Nat /\ k \in Nat /\ o >= 1 /\ k >= 1
    BY <1>1, <1>2, <1>3
  <2>2. o < k => o \in 1..(k - 1)
    BY <2>1
  <2>3. k < o => k \in 1..(o - 1)
    BY <2>1
  <2> HIDE DEF k
  <2> QED
    BY <1>1, <1>5, <2>1, <2>2, <2>3 DEF FirstOf
<1> QED
  BY <1>1, <1>4, <1>5

(* The repository an engine finds is the document's: first entries, known  *)
(* types, the window's size.                                               *)
THEOREM ConfigurationLoaded == ConfSpec => [](ConfTypeOK /\ LoadedAsWritten)
<1>1. ConfInv => ConfTypeOK
  BY DEF ConfInv
<1> QED
  BY <1>1, MadeIsWritten, ConfStarts, ConfStep, PTL DEF ConfSpec

(* The process ends in loading only for a malformed document, in pricing   *)
(* only for a missing code.                                                *)
THEOREM EndsExplained == ConfSpec => []EndsForAReason
<1>1. ConfInv => EndsForAReason
  BY AskedIsFirst DEF ConfInv, Reading, EndsForAReason
<1> QED
  BY <1>1, ConfStarts, ConfStep, PTL DEF ConfSpec

(* Puts are valued to numbers, by their first entries.                     *)
THEOREM PutsAreNumbers == ConfSpec => []DeclaredPutIsNumber
<1>1. ConfInv => DeclaredPutIsNumber
  <2> SUFFICES ASSUME ConfInv, pc = "done", option.spot = "num", question.T # "past",
                      doc.rate = "nonneg",
                      NEW o \in FirstOf(SymbolOf), SymbolOf[o] = asked,
                      doc.options[o].type = "put"
               PROVE  sum \in {"zero", "num"}
    BY DEF DeclaredPutIsNumber
  <2>1. asked # NoSymbol
    <3>1. o \in 1..Len(doc.options) /\ doc.options[o] \in Entries
      BY DocumentFacts DEF FirstOf, SymbolOf
    <3> QED
      BY <3>1, ConfigurationAssumption DEF SymbolOf, Entries
  <2>2. o = options_[asked] /\ o \in 1..Len(types)
    BY <2>1, AskedIsFirst
  <2>3. types[o] = "put"
    BY <2>2 DEF ConfInv, Made, TypesOf
  <2>4. option.type = "put" /\ question.rate = "nonneg"
    BY <2>1, <2>2, <2>3 DEF ConfInv, Asking
  <2> QED
    BY <2>4 DEF ConfInv, ValuationInv, PutIsNumber
<1> QED
  BY <1>1, ConfStarts, ConfStep, PTL DEF ConfSpec

(* A step of the process is a question, its answer or nothing to Quote.    *)
LEMMA ConfStepIsQuote ==
  ConfInv /\ [ConfNext]_confVars =>
    [Q!Ask \/ Q!Answer]_<<question,
       IF pc # "done" THEN "none"
       ELSE IF sum \notin {"zero", "num"} THEN "bad"
       ELSE IF question.T = "ahead" THEN "model" ELSE "payoff">>
<1> SUFFICES ASSUME ConfInv, [ConfNext]_confVars
    PROVE  Q!Ask \/ Q!Answer \/ UNCHANGED <<pc, sum, question>>
                 \/ (UNCHANGED question /\ pc # "done" /\ pc' # "done")
  OBVIOUS
<1>1. CASE from_json \/ sendEstimation \/ UNCHANGED confVars
  BY <1>1 DEF from_json, ReadSettings, ReadOption, OptionsRead, ReadCodes, sendEstimation,
              confVars, valuationVars
<1>2. CASE EstimateStep \/ \E y \in Symbols : OptionTick(y)
  BY <1>2, EstimateStepKeeps, OptionTickKeeps
<1> QED
  BY <1>1, <1>2 DEF ConfNext

(* Path by path the engine does what Pricing, and with it PricingEngine,   *)
(* takes for one step.                                                     *)
THEOREM ValuationImplementsQuote == ConfSpec => ImplementsQuote
<1>1. ConfInit => Q!QuoteInit
  BY DEF ConfInit, ValuationInit, Q!QuoteInit
<1> QED
  BY <1>1, ConfStepIsQuote, ConfStarts, ConfStep, PTL
     DEF ConfSpec, ImplementsQuote, Q!QuoteSpec

-----------------------------------------------------------------------------
(* What PricingEngine and ParameterEstimator assume of their constants,    *)
(* read off the repository: every option has its spot, among the symbols,  *)
(* as have the codes, the rate has a sign and the window a size.           *)
EngineTables ==
  /\ DOMAIN options_ \subseteq Symbols /\ symbol_codes_ \subseteq Symbols
  /\ [y \in DOMAIN options_ |-> spot_symbol(y)] \in [DOMAIN options_ -> Symbols]
  /\ doc.rate \in Rates
  /\ buffer_size_ \in Nat

\* An engine exists, or has existed.
Loaded == process \in {"running", "terminated"}

LEMMA TablesAreTyped == ConfTypeOK => EngineTables
<1> SUFFICES ASSUME ConfTypeOK PROVE EngineTables
  OBVIOUS
<1>1. doc.options \in Seq(Entries) /\ doc.rate \in Rates
  BY ConfigurationAssumption DEF ConfTypeOK
<1>2. ASSUME NEW y \in DOMAIN options_ PROVE spot_symbol(y) \in Symbols
  <2>1. options_[y] \in 1..Len(types) /\ Len(types) <= Len(doc.options)
    BY DEF ConfTypeOK
  <2>2. options_[y] \in 1..Len(doc.options)
    BY <1>1, <2>1 DEF ConfTypeOK
  <2>3. doc.options[options_[y]] \in Entries
    BY <1>1, <2>2
  <2> QED
    BY <2>3 DEF spot_symbol, Entries
<1> QED
  BY <1>1, <1>2 DEF EngineTables, ConfTypeOK

LEMMA TablesStay ==
  [ConfNext]_confVars => (Loaded => Loaded' /\ UNCHANGED <<doc, repository>>)
<1> SUFFICES ASSUME [ConfNext]_confVars, Loaded
             PROVE  Loaded' /\ UNCHANGED <<doc, repository>>
  OBVIOUS
<1>1. ~from_json
  BY DEF Loaded, from_json, ReadSettings, ReadOption, OptionsRead, ReadCodes
<1>2. CASE EstimateStep \/ \E y \in Symbols : OptionTick(y)
  BY <1>2 DEF EstimateStep, OptionTick, Loaded
<1>3. CASE sendEstimation
  BY <1>3 DEF sendEstimation, Loaded
<1>4. CASE UNCHANGED confVars
  BY <1>4 DEF confVars, Loaded
<1> QED
  BY <1>1, <1>2, <1>3, <1>4 DEF ConfNext

(* The tables that PricingEngine looks symbols up in are constants to it   *)
(* and may be: from the moment an engine exists they satisfy what it       *)
(* assumes of them, and they never change again, not when it ends in an    *)
(* exception either (configuration_repository.cpp:24-42).                  *)
THEOREM EngineMayAssume ==
  ConfSpec => /\ []EngineTables
              /\ [][Loaded => Loaded' /\ UNCHANGED <<doc, repository>>]_confVars
BY ConfigurationLoaded, TablesAreTyped, TablesStay, PTL DEF ConfSpec
=============================================================================
