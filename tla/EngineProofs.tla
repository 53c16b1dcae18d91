---------------------------- MODULE EngineProofs ----------------------------
(***************************************************************************)
(* Theorems about ParameterEstimator and PricingEngine, for every buffer   *)
(* size, every length of vectors and every configuration.                  *)
(***************************************************************************)
EXTENDS PricingEngine, TLAPS, WellFoundedInduction

-----------------------------------------------------------------------------
(* The estimator.                                                          *)

(* Sorting keeps the number of samples and their types.                    *)
LEMMA SortKeeps ==
  ASSUME NEW b \in Seq(Sample), NEW w \in SortedByTs(b)
  PROVE  w \in Seq(Sample) /\ Len(w) = Len(b)
<1>1. PICK p \in [DOMAIN b -> DOMAIN b] : w = [i \in DOMAIN b |-> b[p[i]]]
  BY DEF SortedByTs
<1>2. DOMAIN b = 1..Len(b) /\ Len(b) \in Nat
  OBVIOUS
<1>3. \A i \in 1..Len(b) : b[p[i]] \in Sample
  BY <1>2
<1>4. w \in [1..Len(b) -> Sample]
  BY <1>1, <1>2, <1>3
<1> QED
  BY <1>2, <1>4

(* A set of naturals that is not empty has a least member.                 *)
LEMMA LeastNatural ==
  ASSUME NEW S \in SUBSET Nat, S # {}
  PROVE  \E x \in S : \A y \in S : x <= y
<1>1. PICK x \in S : \A y \in S : <<y, x>> \notin OpToRel(<, Nat)
  BY NatLessThanWellFounded, WFMin
<1>2. \A y \in S : ~(y < x)
  BY <1>1 DEF OpToRel
<1>3. \A y \in S : x <= y
  BY <1>2
<1> QED
  BY <1>3

\* p goes once through the indices of f, in the order of its values.
Sorts(p, f, n) ==
  /\ p \in [1..n -> 1..n]
  /\ \A i, j \in 1..n : p[i] = p[j] => i = j
  /\ \A i, j \in 1..n : i < j => f[p[i]] <= f[p[j]]

(* If all but the least of n values can be sorted, so can all of them: the *)
(* least goes first.                                                       *)
LEMMA LeastGoesFirst ==
  ASSUME NEW n \in Nat, n > 0, NEW f \in [1..n -> Nat],
         \A g \in [1..(n - 1) -> Nat] : \E p : Sorts(p, g, n - 1)
  PROVE  \E p : Sorts(p, f, n)
<1>1. PICK m \in 1..n : \A i \in 1..n : f[m] <= f[i]
  <2> DEFINE S == {f[i] : i \in 1..n}
  <2>1. S \in SUBSET Nat /\ f[1] \in S
    OBVIOUS
  <2>2. S # {}
    BY <2>1
  <2> HIDE DEF S
  <2>3. \E v \in S : \A u \in S : v <= u
    BY <2>1, <2>2, LeastNatural
  <2> QED
    BY <2>3 DEF S
<1> DEFINE skip == [i \in 1..(n - 1) |-> IF i < m THEN i ELSE i + 1]
           g == [i \in 1..(n - 1) |-> f[skip[i]]]
<1>2. /\ skip \in [1..(n - 1) -> 1..n]
      /\ \A i, j \in 1..(n - 1) : skip[i] = skip[j] => i = j
      /\ \A i \in 1..(n - 1) : skip[i] # m
  OBVIOUS
<1> HIDE DEF skip
<1>3. g \in [1..(n - 1) -> Nat]
  BY <1>2
<1>4. PICK q : Sorts(q, g, n - 1)
  BY <1>3
<1>5. /\ q \in [1..(n - 1) -> 1..(n - 1)]
      /\ \A i, j \in 1..(n - 1) : q[i] = q[j] => i = j
      /\ \A i, j \in 1..(n - 1) : i < j => f[skip[q[i]]] <= f[skip[q[j]]]
  BY <1>4 DEF Sorts
<1> DEFINE p == [i \in 1..n |-> IF i = 1 THEN m ELSE skip[q[i - 1]]]
<1>6. \A i \in 1..n : i = 1 \/ i - 1 \in 1..(n - 1)
  OBVIOUS
<1>7. p \in [1..n -> 1..n]
  BY <1>2, <1>5, <1>6
<1>8. /\ p[1] = m
      /\ \A i \in 1..n : i # 1 => p[i] = skip[q[i - 1]] /\ i - 1 \in 1..(n - 1)
  BY <1>6
<1> HIDE DEF p, g
<1>first. ASSUME NEW k \in 1..n, k # 1 PROVE p[k] # m
  <2>1. k - 1 \in 1..(n - 1) /\ p[k] = skip[q[k - 1]]
    BY <1>8, <1>first
  <2>2. q[k - 1] \in 1..(n - 1)
    BY <1>5, <2>1
  <2> QED
    BY <1>2, <2>1, <2>2
<1>9. ASSUME NEW i \in 1..n, NEW j \in 1..n, p[i] = p[j] PROVE i = j
  <2>1. CASE i = 1 \/ j = 1
    BY <1>8, <1>9, <1>first, <2>1
  <2>2. CASE i # 1 /\ j # 1
    <3>1. /\ i - 1 \in 1..(n - 1) /\ j - 1 \in 1..(n - 1)
          /\ skip[q[i - 1]] = skip[q[j - 1]]
      BY <1>8, <1>9, <2>2
    <3>2. i - 1 = j - 1
      BY <1>2, <1>5, <3>1
    <3> QED
      BY <3>2
  <2> QED
    BY <2>1, <2>2
<1>10. ASSUME NEW i \in 1..n, NEW j \in 1..n, i < j PROVE f[p[i]] <= f[p[j]]
  <2>1. CASE i = 1
    BY <1>1, <1>7, <1>8, <2>1
  <2>2. CASE i # 1
    <3>1. j # 1 /\ i - 1 < j - 1
      BY <1>10
    <3>2. /\ i - 1 \in 1..(n - 1) /\ j - 1 \in 1..(n - 1)
          /\ p[i] = skip[q[i - 1]] /\ p[j] = skip[q[j - 1]]
      BY <1>8, <2>2, <3>1
    <3> QED
      BY <1>5, <3>1, <3>2
  <2> QED
    BY <2>1, <2>2
<1> QED
  BY <1>7, <1>9, <1>10 DEF Sorts

(* Any values can be sorted: there is no least number that cannot.         *)
LEMMA SortingExists == \A n \in Nat : \A f \in [1..n -> Nat] : \E p : Sorts(p, f, n)
<1> DEFINE S == {n \in Nat : ~(\A f \in [1..n -> Nat] : \E p : Sorts(p, f, n))}
<1> SUFFICES ASSUME S # {} PROVE FALSE
  OBVIOUS
<1>1. S \in SUBSET Nat
  OBVIOUS
<1>2. PICK n \in S : \A k \in S : n <= k
  <2> HIDE DEF S
  <2> QED
    BY <1>1, LeastNatural
<1>3. PICK f \in [1..n -> Nat] : ~(\E p : Sorts(p, f, n))
  OBVIOUS
<1>4. n # 0
  <2> SUFFICES ASSUME n = 0 PROVE FALSE
    OBVIOUS
  <2>1. Sorts(f, f, n)
    BY <1>3 DEF Sorts
  <2> QED
    BY <1>3, <2>1
<1>5. n \in Nat /\ n - 1 \in Nat /\ ~(n <= n - 1)
  BY <1>4
<1>6. \A g \in [1..(n - 1) -> Nat] : \E p : Sorts(p, g, n - 1)
  BY <1>2, <1>5
<1>7. n > 0
  BY <1>4, <1>5
<1> HIDE DEF S
<1> QED
  BY <1>3, <1>5, <1>6, <1>7, LeastGoesFirst

(* std::sort always has a result: an estimation is never without a window, *)
(* and no claim below holds only because a call could not be made.         *)
THEOREM SortHasResult ==
  ASSUME NEW b \in Seq(Sample)
  PROVE  \E w \in SortedByTs(b) : w \in Seq(Sample) /\ Len(w) = Len(b)
<1> DEFINE n == Len(b)
           f == [i \in 1..n |-> b[i].ts]
<1>1. n \in Nat /\ DOMAIN b = 1..n /\ \A i \in 1..n : b[i] \in Sample
  OBVIOUS
<1>2. f \in [1..n -> Nat]
  BY <1>1, EstimatorAssumption DEF Sample
<1> HIDE DEF n
<1>3. PICK p : Sorts(p, f, n)
  BY <1>1, <1>2, SortingExists
<1> DEFINE w == [i \in 1..n |-> b[p[i]]]
<1>4. /\ p \in [1..n -> 1..n]
      /\ \A i, j \in 1..n : p[i] = p[j] => i = j
      /\ \A i, j \in 1..n : i < j => w[i].ts <= w[j].ts
  BY <1>3 DEF Sorts
<1>5. w \in SortedByTs(b)
  BY <1>1, <1>4 DEF SortedByTs
<1> QED
  BY <1>5, SortKeeps DEF n

(* A vector or a single sample is a sequence of samples.                   *)
LEMMA VectorsAreSequences ==
  \A xs \in Vectors : xs \in Seq(Sample) /\ Len(xs) \in 0..MaxBatch
BY EstimatorAssumption DEF Vectors

(* The search has one of its two outcomes.                                 *)
LEMMA SearchOutcome == \A w : GridSearch(w) \in {"default", "grid"}
BY DEF GridSearch

(* However many samples a call brings, they join the buffer, or all that   *)
(* is in the buffer by then becomes the window.                            *)
LEMMA FeedKeepsWindows ==
  ASSUME EstTypeOK, Tumbling, NEW new \in Seq(Sample), Feed(new),
         samples + Len(new) <= MaxSamples
  PROVE  EstTypeOK' /\ Tumbling'
<1> DEFINE b == options_buffer_ \o new
<1>1. b \in Seq(Sample) /\ Len(b) = Len(options_buffer_) + Len(new)
  BY DEF EstTypeOK
<1>2. samples' = samples + Len(new) /\ samples' \in 0..MaxSamples
  BY EstimatorAssumption DEF Feed, EstTypeOK
<1>3. CASE Len(b) >= BufSize
  <2>1. PICK w \in SortedByTs(b) : window' = w /\ params' = GridSearch(w)
    BY <1>3 DEF Feed, estimate
  <2>2. window' \in Seq(Sample) /\ Len(window') = Len(b)
    BY <1>1, <2>1, SortKeeps
  <2>3. params' \in {"default", "grid"}
    BY <2>1, SearchOutcome
  <2>4. options_buffer_' = <<>> /\ windowEnd' = samples'
    BY <1>3 DEF Feed
  <2>5. EstTypeOK'
    BY <1>2, <2>2, <2>3, <2>4 DEF EstTypeOK
  <2>6. Len(window') <= windowEnd'
    BY <1>1, <1>2, <2>2, <2>4 DEF Tumbling, EstTypeOK
  <2> HIDE DEF b
  <2> QED
    BY <1>1, <1>2, <1>3, <2>2, <2>3, <2>4, <2>5, <2>6, EstimatorAssumption
       DEF Tumbling, EstTypeOK
<1>4. CASE ~(Len(b) >= BufSize)
  <2>1. options_buffer_' = b /\ UNCHANGED <<params, window, windowEnd>>
    BY <1>4 DEF Feed
  <2> HIDE DEF b
  <2>2. Len(b) < BufSize /\ samples' = windowEnd + Len(b)
    <3>1. {Len(b), Len(options_buffer_), Len(new), windowEnd} \subseteq Nat
      BY <1>1, EstimatorAssumption DEF EstTypeOK
    <3>2. samples = windowEnd + Len(options_buffer_)
      BY DEF Tumbling
    <3> QED
      BY <1>1, <1>2, <1>4, <3>1, <3>2, EstimatorAssumption
  <2>3. EstTypeOK'
    BY <1>1, <1>2, <2>1 DEF EstTypeOK
  <2> QED
    BY <2>1, <2>2, <2>3 DEF Tumbling
<1> QED
  BY <1>3, <1>4

(* One nan makes a sum a nan.                                              *)
LEMMA SumOfNan == \A S : "nan" \in S => SumClass(S) = "nan"
BY DEF SumClass

(* A sum of numbers is a number.                                           *)
LEMMA SumOfNumbers == \A S : S \subseteq {"zero", "num"} => SumClass(S) = "num"
BY DEF SumClass

(* The square of a number or a nan is one.                                 *)
LEMMA Squares == MulClass("num", "num") = "num" /\ MulClass("nan", "nan") = "nan"
BY DEF MulClass

(* A term between samples of one time stamp is x/0 times 0, or 0/0 times   *)
(* 0; any other is a number.                                               *)
LEMMA TermClass ==
  ASSUME NEW w \in Seq(Sample), NEW n \in 2..Len(w), NEW k \in 1..(n - 1)
  PROVE  /\ w[k].ts = w[k + 1].ts => CaputoTerm(w, n, k) = "nan"
         /\ w[k].ts # w[k + 1].ts => CaputoTerm(w, n, k) \in {"zero", "num"}
<1>1. /\ {w[k].ts, w[k + 1].ts, w[n].ts} \subseteq Nat
      /\ {w[k].price, w[k + 1].price} \subseteq Nat
  <2>1. k \in 1..Len(w) /\ k + 1 \in 1..Len(w) /\ n \in 1..Len(w)
    OBVIOUS
  <2>2. {w[k], w[k + 1], w[n]} \subseteq Sample
    BY <2>1
  <2> QED
    BY <2>2, EstimatorAssumption DEF Sample
<1> DEFINE quotient == DivClass(w[k + 1].price - w[k].price, w[k + 1].ts - w[k].ts)
           power == IF w[n].ts - w[k].ts = w[n].ts - w[k + 1].ts THEN "zero" ELSE "num"
<1>2. CaputoTerm(w, n, k) = MulClass(quotient, power)
  BY DEF CaputoTerm
<1>3. CASE w[k].ts = w[k + 1].ts
  <2>1. power = "zero" /\ quotient \in {"inf", "nan"}
    BY <1>1, <1>3 DEF DivClass
  <2> HIDE DEF quotient, power
  <2>2. MulClass(quotient, power) = "nan"
    BY <2>1 DEF MulClass
  <2> QED
    BY <1>2, <1>3, <2>2
<1>4. CASE w[k].ts # w[k + 1].ts
  <2>1. power = "num" /\ quotient \in {"zero", "num"}
    BY <1>1, <1>4 DEF DivClass
  <2> HIDE DEF quotient, power
  <2>2. MulClass(quotient, power) \in {"zero", "num"}
    BY <2>1 DEF MulClass
  <2> QED
    BY <1>2, <1>4, <2>2
<1> QED
  BY <1>3, <1>4

(* In a sorted window one repeated time stamp, wherever the samples were   *)
(* in the buffer, is next to itself, and makes the loss a nan.             *)
LEMMA TiesGiveNan ==
  ASSUME NEW w \in Seq(Sample),
         \A i, j \in 1..Len(w) : i < j => w[i].ts <= w[j].ts,
         NEW i \in 1..Len(w), NEW j \in 1..Len(w), i < j, w[i].ts = w[j].ts
  PROVE  LossFunction(w) = "nan"
<1>1. i + 1 \in 2..Len(w) /\ i \in 1..((i + 1) - 1)
  OBVIOUS
<1>2. w[i].ts = w[i + 1].ts
  <2>1. w[i].ts \in Nat /\ w[i + 1].ts \in Nat
    <3>1. w[i] \in Sample /\ w[i + 1] \in Sample
      BY <1>1
    <3> QED
      BY <3>1, EstimatorAssumption DEF Sample
  <2>2. w[i].ts <= w[i + 1].ts
    BY <1>1
  <2>3. w[i + 1].ts <= w[i].ts
    <3>1. CASE i + 1 = j
      BY <2>1, <3>1
    <3>2. CASE i + 1 < j
      BY <1>1, <3>2
    <3> QED
      BY <3>1, <3>2
  <2> QED
    BY <2>1, <2>2, <2>3
<1>3. CaputoTerm(w, i + 1, i) = "nan"
  BY <1>1, <1>2, TermClass
<1>4. CaputoL1Approximation(w, i + 1) = "nan"
  BY <1>1, <1>3, SumOfNan DEF CaputoL1Approximation
<1> QED
  BY <1>1, <1>4, SumOfNan, Squares DEF LossFunction

(* Without one the loss is a number at every point of the grid.            *)
LEMMA NoTiesGiveNumber ==
  ASSUME NEW w \in Seq(Sample), w # <<>>,
         \A i, j \in 1..Len(w) : i # j => w[i].ts # w[j].ts
  PROVE  LossFunction(w) = "num"
<1>1. ASSUME NEW n \in 2..Len(w) PROVE CaputoL1Approximation(w, n) = "num"
  <2>1. \A k \in 1..(n - 1) : CaputoTerm(w, n, k) \in {"zero", "num"}
    <3> TAKE k \in 1..(n - 1)
    <3>1. k \in 1..Len(w) /\ k + 1 \in 1..Len(w) /\ k # k + 1
      OBVIOUS
    <3> QED
      BY <3>1, TermClass
  <2> QED
    BY <2>1, SumOfNumbers DEF CaputoL1Approximation
<1> QED
  BY <1>1, SumOfNumbers, Squares DEF LossFunction

(* An estimation falls back to the default exactly on a repeated stamp.    *)
LEMMA FeedKeepsDefault ==
  ASSUME EstTypeOK, DefaultIffTies, NEW new \in Seq(Sample), Feed(new)
  PROVE  DefaultIffTies'
<1> DEFINE b == options_buffer_ \o new
<1>1. b \in Seq(Sample)
  BY DEF EstTypeOK
<1>2. CASE Len(b) >= BufSize
  <2>1. PICK w \in SortedByTs(b) : window' = w /\ params' = GridSearch(w)
    BY <1>2 DEF Feed, estimate
  <2> HIDE DEF b
  <2>2. w \in Seq(Sample) /\ DOMAIN w = 1..Len(w)
    BY <1>1, <2>1, SortKeeps
  <2>3. \A i, j \in 1..Len(w) : i < j => w[i].ts <= w[j].ts
    <3>1. 1..Len(w) = DOMAIN b
      BY <1>1, SortKeeps
    <3> QED
      BY <3>1 DEF SortedByTs
  <2>4. CASE \E i, j \in DOMAIN w : i # j /\ w[i].ts = w[j].ts
    <3>1. PICK i \in 1..Len(w), j \in 1..Len(w) : i < j /\ w[i].ts = w[j].ts
      BY <2>2, <2>4
    <3>2. LossFunction(w) = "nan"
      BY <2>2, <2>3, <3>1, TiesGiveNan
    <3> QED
      BY <2>1, <2>4, <3>2 DEF GridSearch, DefaultIffTies
  <2>5. CASE w = <<>>
    <3>1. LossFunction(w) = "nan"
      BY <2>5 DEF LossFunction
    <3> QED
      BY <2>1, <2>5, <3>1 DEF GridSearch, DefaultIffTies
  <2>6. CASE w # <<>> /\ ~(\E i, j \in DOMAIN w : i # j /\ w[i].ts = w[j].ts)
    <3>1. LossFunction(w) = "num"
      BY <2>2, <2>6, NoTiesGiveNumber
    <3> QED
      BY <2>1, <2>6, <3>1 DEF GridSearch, DefaultIffTies
  <2> QED
    BY <2>4, <2>5, <2>6
<1>3. CASE ~(Len(b) >= BufSize)
  BY <1>3 DEF Feed, DefaultIffTies
<1> QED
  BY <1>2, <1>3

EstInv == EstTypeOK /\ Tumbling /\ DefaultIffTies

(* Every sample is in exactly one window or still in the buffer, and the   *)
(* default is chosen exactly for windows with a repeated time stamp.       *)
THEOREM EstimatorCorrect == EstSpec => [](EstTypeOK /\ Tumbling /\ DefaultIffTies)
<1>1. EstInit => EstInv
  BY EstimatorAssumption DEF EstInit, EstInv, EstTypeOK, Tumbling, DefaultIffTies
<1>2. EstInv /\ [EstNext]_estVars => EstInv'
  <2> SUFFICES ASSUME EstInv, [EstNext]_estVars PROVE EstInv'
    OBVIOUS
  <2>1. ASSUME NEW x \in Sample, samples < MaxSamples, EstOnTick(x)
        PROVE  EstInv'
    <3>1. <<x>> \in Seq(Sample) /\ Len(<<x>>) = 1
      OBVIOUS
    <3>2. samples + 1 <= MaxSamples
      BY <2>1, EstimatorAssumption DEF EstInv, EstTypeOK
    <3> QED
      BY <2>1, <3>1, <3>2, FeedKeepsWindows, FeedKeepsDefault DEF EstOnTick, EstInv
  <2>2. ASSUME NEW xs \in Vectors, samples + Len(xs) <= MaxSamples,
               EstOnTicks(xs) \/ EstOnKlines(xs)
        PROVE  EstInv'
    BY <2>2, VectorsAreSequences, FeedKeepsWindows, FeedKeepsDefault
       DEF EstOnTicks, EstOnKlines, EstInv
  <2>3. CASE UNCHANGED estVars
    BY <2>3 DEF estVars, EstInv, EstTypeOK, Tumbling, DefaultIffTies
  <2> QED
    BY <2>1, <2>2, <2>3 DEF EstNext
<1> QED
  BY <1>1, <1>2, PTL DEF EstSpec, EstInv

-----------------------------------------------------------------------------
(* The engine.                                                             *)

(* While a batch is gone through, its ticks are the last samples fed, and  *)
(* every spot price is from a sample before the tick that comes next.      *)
BatchOrder ==
  /\ Len(batch) <= samples
  /\ \A y \in Symbols : spot_prices_[y] <= samples - Len(batch)

EngineInv ==
  EngineTypeOK /\ Tumbling /\ BatchOrder /\ FreshParameters /\ CausalPricing

(* Vectors of ticks and what is left of them.                              *)
LEMMA TickVectorFacts ==
  ASSUME NEW v \in TickVectors
  PROVE  /\ v \in Seq(Tick) /\ Len(v) \in 0..MaxBatch
         /\ v # <<>> => /\ Head(v) \in Tick
                        /\ Tail(v) \in TickVectors
                        /\ Len(Tail(v)) = Len(v) - 1
<1>1. PICK n \in 0..MaxBatch : v \in [1..n -> Tick]
  BY DEF TickVectors
<1>2. n \in Nat /\ v \in Seq(Tick) /\ Len(v) = n
  BY <1>1, EstimatorAssumption
<1>3. ASSUME v # <<>>
      PROVE  Head(v) \in Tick /\ Tail(v) \in TickVectors /\ Len(Tail(v)) = Len(v) - 1
  <2>1. n # 0 /\ n - 1 \in 0..MaxBatch
    BY <1>2, <1>3, EstimatorAssumption
  <2>2. Tail(v) \in Seq(Tick) /\ Len(Tail(v)) = n - 1 /\ Head(v) \in Tick
    BY <1>2, <1>3
  <2>3. Tail(v) \in [1..(n - 1) -> Tick]
    <3>1. \A s \in Seq(Tick) : s \in [1..Len(s) -> Tick]
      OBVIOUS
    <3> QED
      BY <2>2, <3>1
  <2> QED
    BY <1>2, <2>1, <2>2, <2>3 DEF TickVectors
<1> QED
  BY <1>2, <1>3

(* What the estimator gets of a vector of ticks: a sample for each.        *)
LEMMA TickSamples ==
  ASSUME NEW v \in TickVectors
  PROVE  /\ [i \in DOMAIN v |-> SampleOf(v[i])] \in Seq(Sample)
         /\ Len([i \in DOMAIN v |-> SampleOf(v[i])]) = Len(v)
<1>1. PICK n \in 0..MaxBatch : v \in [1..n -> Tick]
  BY DEF TickVectors
<1>2. n \in Nat /\ Len(v) = n /\ DOMAIN v = 1..n
  BY <1>1, EstimatorAssumption
<1>3. \A x \in Tick : SampleOf(x) \in Sample
  BY DEF Tick, Sample, SampleOf
<1> DEFINE u == [i \in DOMAIN v |-> SampleOf(v[i])]
<1>4. u \in [1..n -> Sample]
  BY <1>1, <1>2, <1>3
<1>5. u \in Seq(Sample) /\ Len(u) = n
  BY <1>2, <1>4
<1> QED
  BY <1>2, <1>5

(* A tick that is sample n, given parameters p of asOf samples out of fed: *)
(* what it does to the spot prices, and the estimation it may make.        *)
LEMMA TickOutcome ==
  ASSUME EngineTypeOK, NEW tick \in Tick, NEW n, NEW p, NEW fed, NEW asOf,
         EngineTick(tick, n, p, fed, asOf)
  PROVE  /\ \/ UNCHANGED spot_prices_
            \/ spot_prices_' = [spot_prices_ EXCEPT ![tick.symbol] = n]
         /\ \/ UNCHANGED est
            \/ /\ p # "none"
               /\ \E o \in Options, price \in PriceClasses :
                    /\ spot_prices_[SpotOf[o]] # 0
                    /\ price = "bad" /\ Rate = "nonneg" => p # "default" /\ expiry[o] # "now"
                    /\ est' = [option |-> o, spot |-> spot_prices_[SpotOf[o]],
                               tick |-> n, asOf |-> asOf, fed |-> fed,
                               expiry |-> expiry[o], price |-> price,
                               wire |-> onPriceEstimation(price)]
         /\ terminated' \in BOOLEAN
<1>1. CASE UNCHANGED est
  BY <1>1 DEF EngineTick, SpotTick, sendEstimation, EngineTypeOK
<1>2. CASE est' # est
  <2> DEFINE o == tick.symbol
  <2>1. /\ Priceable(o, p) /\ UNCHANGED <<spot_prices_, terminated>>
        /\ \E price \in PriceOf(expiry[o], Rate, p) :
             est' = [option |-> o, spot |-> spot_prices_[SpotOf[o]],
                     tick |-> n, asOf |-> asOf, fed |-> fed,
                     expiry |-> expiry[o], price |-> price,
                     wire |-> onPriceEstimation(price)]
    BY <1>2 DEF EngineTick, SpotTick, sendEstimation
  <2>2. p # "none" /\ o \in Options /\ spot_prices_[SpotOf[o]] # 0
    BY <2>1 DEF Priceable
  <2>3. \A price \in PriceOf(expiry[o], Rate, p) :
          /\ price \in PriceClasses
          /\ price = "bad" /\ Rate = "nonneg" => p # "default" /\ expiry[o] # "now"
    BY <2>2, EngineAssumption
       DEF PriceOf, black_scholes_price, MonteCarlo, EngineTypeOK, Horizons, Rates,
           PriceClasses
  <2> QED
    BY <2>1, <2>2, <2>3 DEF EngineTypeOK
<1> QED
  BY <1>1, <1>2

(* What a tick makes keeps the engine's claims, if it is the next of the   *)
(* last left samples fed, and its parameters and buffer are up to date.    *)
LEMMA TickKeeps ==
  ASSUME EngineTypeOK, FreshParameters, CausalPricing,
         NEW tick \in Tick, NEW fed \in 1..MaxSamples, NEW left \in 1..MaxBatch,
         NEW p \in {"none", "default", "grid"}, NEW asOf \in 0..MaxSamples,
         left <= fed,
         \A y \in Symbols : spot_prices_[y] <= fed - left,
         p # "none" => BufSize <= asOf,
         asOf <= fed, fed - asOf < BufSize \/ fed = asOf,
         EngineTick(tick, fed - left + 1, p, fed, asOf)
  PROVE  /\ spot_prices_' \in [Symbols -> 0..MaxSamples]
         /\ \A y \in Symbols : spot_prices_'[y] <= fed - left + 1
         /\ est' \in Estimations \cup {NoEst}
         /\ terminated' \in BOOLEAN
         /\ FreshParameters' /\ CausalPricing'
<1> DEFINE n == fed - left + 1
<1>1. n \in 1..MaxSamples /\ n <= fed /\ fed < n + MaxBatch /\ fed - left = n - 1
  BY EstimatorAssumption
<1>2. \A y \in Symbols : spot_prices_[y] \in 0..MaxSamples /\ spot_prices_[y] < n
  BY <1>1 DEF EngineTypeOK
<1> HIDE DEF n
<1>3. EngineTick(tick, n, p, fed, asOf)
  BY DEF n
<1>4. /\ spot_prices_' \in [Symbols -> 0..MaxSamples]
      /\ \A y \in Symbols : spot_prices_'[y] <= n
  <2>1. CASE UNCHANGED spot_prices_
    BY <1>1, <1>2, <2>1 DEF EngineTypeOK
  <2>2. CASE spot_prices_' = [spot_prices_ EXCEPT ![tick.symbol] = n]
    <3>1. n \in 0..MaxSamples /\ n <= n
      BY <1>1
    <3>2. spot_prices_' \in [Symbols -> 0..MaxSamples]
      BY <2>2, <3>1 DEF EngineTypeOK
    <3>3. \A y \in Symbols : spot_prices_'[y] \in {n, spot_prices_[y]}
      BY <2>2 DEF EngineTypeOK
    <3>4. \A y \in Symbols : spot_prices_[y] <= n
      BY <1>1, <1>2
    <3> QED
      BY <3>1, <3>2, <3>3, <3>4
  <2> QED
    BY <1>3, <2>1, <2>2, TickOutcome
<1>5. est' \in Estimations \cup {NoEst} /\ FreshParameters' /\ CausalPricing'
  <2>1. CASE UNCHANGED est
    BY <2>1 DEF EngineTypeOK, FreshParameters, CausalPricing
  <2>2. CASE est' # est
    <3>1. PICK o \in Options, price \in PriceClasses :
            /\ spot_prices_[SpotOf[o]] # 0
            /\ est' = [option |-> o, spot |-> spot_prices_[SpotOf[o]],
                       tick |-> n, asOf |-> asOf, fed |-> fed,
                       expiry |-> expiry[o], price |-> price,
                       wire |-> onPriceEstimation(price)]
      BY <1>3, <2>2, TickOutcome
    <3>2. p # "none"
      BY <1>3, <2>2, TickOutcome
    <3> DEFINE k == spot_prices_[SpotOf[o]]
    <3>3. k \in 1..MaxSamples /\ k < n
      BY <1>2, <3>1, EngineAssumption
    <3>4. expiry[o] \in Horizons
      BY DEF EngineTypeOK
    <3> HIDE DEF k
    <3>5. est' \in Estimations
      BY <1>1, <3>1, <3>3, <3>4 DEF k, Estimations, onPriceEstimation
    <3>6. /\ est'.spot = k /\ est'.tick = n /\ est'.asOf = asOf /\ est'.fed = fed
      BY <3>1 DEF k
    <3>7. asOf >= BufSize
      BY <3>2, EstimatorAssumption
    <3>8. FreshParameters'
      BY <3>6, <3>7 DEF FreshParameters
    <3>9. CausalPricing'
      BY <1>1, <3>3, <3>6 DEF CausalPricing
    <3> QED
      BY <3>5, <3>8, <3>9
  <2> QED
    BY <2>1, <2>2
<1> QED
  BY <1>3, <1>4, <1>5, TickOutcome DEF n

(* The estimator's part of a call: the buffer is short of the size again,  *)
(* and if there are parameters a whole window is behind them.              *)
LEMMA CallFeeds ==
  ASSUME EngineInv, NEW new \in Seq(Sample), Feed(new),
         samples + Len(new) <= MaxSamples
  PROVE  /\ EstTypeOK' /\ Tumbling'
         /\ samples' = samples + Len(new)
         /\ windowEnd' <= samples'
         /\ samples' - windowEnd' < BufSize \/ samples' = windowEnd'
         /\ params' # "none" => BufSize <= windowEnd'
<1>1. EstTypeOK' /\ Tumbling'
  BY FeedKeepsWindows DEF EngineInv, EngineTypeOK
<1>2. samples' = samples + Len(new)
  BY DEF Feed
<1> QED
  BY <1>1, <1>2, EstimatorAssumption DEF Tumbling, EstTypeOK

(* onTick: the estimator, then the tick, the last of the samples fed.      *)
LEMMA OnTickKeeps ==
  ASSUME EngineInv, NEW tick \in Tick, onTick(tick)
  PROVE  EngineInv'
<1>1. /\ batch = <<>> /\ batch' = <<>> /\ expiry' = expiry
      /\ samples < MaxSamples
      /\ Feed(<<SampleOf(tick)>>)
      /\ EngineTick(tick, samples', params', samples', windowEnd')
  BY DEF onTick, Idle, EstOnTick
<1>2. <<SampleOf(tick)>> \in Seq(Sample) /\ Len(<<SampleOf(tick)>>) = 1
  BY DEF SampleOf, Sample, Tick
<1>3. samples \in Nat /\ samples + 1 \in 1..MaxSamples
  BY <1>1, EstimatorAssumption DEF EngineInv, EngineTypeOK, EstTypeOK
<1>4. /\ EstTypeOK' /\ Tumbling'
      /\ samples' = samples + 1
      /\ windowEnd' <= samples'
      /\ samples' - windowEnd' < BufSize \/ samples' = windowEnd'
      /\ params' # "none" => BufSize <= windowEnd'
  <2> DEFINE new == <<SampleOf(tick)>>
  <2>1. new \in Seq(Sample) /\ Len(new) = 1 /\ Feed(new)
    BY <1>1, <1>2
  <2> HIDE DEF new
  <2>2. samples + Len(new) <= MaxSamples /\ samples + Len(new) = samples + 1
    BY <1>3, <2>1, EstimatorAssumption
  <2> QED
    BY <2>1, <2>2, CallFeeds
<1>5. /\ params' \in {"none", "default", "grid"} /\ windowEnd' \in 0..MaxSamples
      /\ 1 \in 1..MaxBatch /\ samples' - 1 + 1 = samples'
  BY <1>3, <1>4, EstimatorAssumption DEF EstTypeOK
<1>6. \A y \in Symbols : spot_prices_[y] <= samples' - 1
  BY <1>1, <1>3, <1>4 DEF EngineInv, BatchOrder
<1>7. /\ spot_prices_' \in [Symbols -> 0..MaxSamples]
      /\ \A y \in Symbols : spot_prices_'[y] <= samples' - 1 + 1
      /\ est' \in Estimations \cup {NoEst}
      /\ terminated' \in BOOLEAN
      /\ FreshParameters' /\ CausalPricing'
  BY <1>1, <1>3, <1>4, <1>5, <1>6, TickKeeps DEF EngineInv
<1>8. EngineTypeOK'
  BY <1>1, <1>4, <1>7 DEF EngineInv, EngineTypeOK
<1>9. BatchOrder'
  BY <1>1, <1>3, <1>4, <1>5, <1>7 DEF BatchOrder
<1> QED
  BY <1>4, <1>7, <1>8, <1>9 DEF EngineInv

(* The two calls that only feed the estimator.                             *)
LEMMA FeedingKeeps ==
  ASSUME EngineInv, NEW new \in Seq(Sample), Feed(new),
         samples + Len(new) <= MaxSamples,
         batch' \in TickVectors, batch = <<>>, Len(batch') <= Len(new),
         UNCHANGED <<spot_prices_, expiry, est, terminated>>
  PROVE  EngineInv'
<1>1. EstTypeOK' /\ Tumbling' /\ samples' = samples + Len(new)
  BY CallFeeds
<1>2. EngineTypeOK'
  BY <1>1 DEF EngineInv, EngineTypeOK
<1>3. BatchOrder'
  <2>1. samples \in Nat /\ Len(new) \in Nat /\ Len(batch') \in Nat /\ Len(batch) = 0
    BY TickVectorFacts, EstimatorAssumption DEF EngineInv, EngineTypeOK, EstTypeOK
  <2>2. \A y \in Symbols : spot_prices_[y] \in Nat /\ spot_prices_[y] <= samples
    BY <2>1, EstimatorAssumption DEF EngineInv, BatchOrder, EngineTypeOK
  <2> QED
    BY <1>1, <2>1, <2>2 DEF BatchOrder
<1> QED
  BY <1>1, <1>2, <1>3 DEF EngineInv, FreshParameters, CausalPricing

(* One tick of a batch: as many samples were fed after it as are left.     *)
LEMMA BatchTickKeeps ==
  ASSUME EngineInv, BatchTick
  PROVE  EngineInv'
<1> DEFINE left == Len(batch)
<1>1. /\ Head(batch) \in Tick /\ Tail(batch) \in TickVectors
      /\ Len(Tail(batch)) = left - 1 /\ left \in 1..MaxBatch
  <2>1. batch \in TickVectors /\ batch # <<>>
    BY DEF BatchTick, EngineInv, EngineTypeOK
  <2>2. /\ batch \in Seq(Tick) /\ left \in 0..MaxBatch
        /\ Head(batch) \in Tick /\ Tail(batch) \in TickVectors
        /\ Len(Tail(batch)) = left - 1
    BY <2>1, TickVectorFacts
  <2>3. left # 0
    BY <2>1, <2>2
  <2> QED
    BY <2>2, <2>3, EstimatorAssumption
<1>2. /\ UNCHANGED <<estVars, expiry>> /\ batch' = Tail(batch)
      /\ EngineTick(Head(batch), samples - left + 1, params, samples, windowEnd)
  BY DEF BatchTick
<1>3. /\ left <= samples /\ samples \in 1..MaxSamples
      /\ windowEnd \in 0..MaxSamples /\ windowEnd <= samples
      /\ samples - windowEnd < BufSize \/ samples = windowEnd
      /\ params \in {"none", "default", "grid"}
      /\ params # "none" => BufSize <= windowEnd
  BY <1>1, EstimatorAssumption
     DEF EngineInv, BatchOrder, EngineTypeOK, EstTypeOK, Tumbling
<1>4. \A y \in Symbols : spot_prices_[y] <= samples - left
  BY DEF EngineInv, BatchOrder
<1> HIDE DEF left
<1>5. /\ spot_prices_' \in [Symbols -> 0..MaxSamples]
      /\ \A y \in Symbols : spot_prices_'[y] <= samples - left + 1
      /\ est' \in Estimations \cup {NoEst}
      /\ terminated' \in BOOLEAN
      /\ FreshParameters' /\ CausalPricing'
  BY <1>1, <1>2, <1>3, <1>4, TickKeeps DEF EngineInv
<1>6. EngineTypeOK' /\ Tumbling'
  BY <1>1, <1>2, <1>5 DEF EngineInv, EngineTypeOK, EstTypeOK, Tumbling, estVars
<1>7. samples' = samples /\ Len(batch') = left - 1
  BY <1>1, <1>2 DEF estVars
<1>8. samples - (left - 1) = samples - left + 1 /\ left - 1 <= samples
  BY <1>1, <1>3
<1>9. BatchOrder'
  BY <1>5, <1>7, <1>8 DEF BatchOrder
<1> QED
  BY <1>5, <1>6, <1>9 DEF EngineInv

(* The invariant holds before the first call ...                           *)
LEMMA EngineStarts == EngineInit => EngineInv
<1> SUFFICES ASSUME EngineInit PROVE EngineInv
  OBVIOUS
<1>1. <<>> \in TickVectors
  BY EstimatorAssumption DEF TickVectors
<1>2. EstTypeOK /\ Tumbling
  BY EstimatorAssumption DEF EngineInit, EstInit, EstTypeOK, Tumbling
<1>3. 0 \in 0..MaxSamples
  BY EstimatorAssumption
<1>4. EngineTypeOK
  BY <1>1, <1>2, <1>3 DEF EngineInit, EngineTypeOK
<1>5. BatchOrder
  BY DEF EngineInit, EstInit, BatchOrder
<1> QED
  BY <1>2, <1>4, <1>5 DEF EngineInit, EngineInv, FreshParameters, CausalPricing

(* ... and after every step of a call or of the clock.                     *)
LEMMA EngineStep == EngineInv /\ [EngineNext]_allVars => EngineInv'
<1> SUFFICES ASSUME EngineInv, [EngineNext]_allVars PROVE EngineInv'
  OBVIOUS
<1>1. ASSUME NEW ticks \in TickVectors, onTicks(ticks) PROVE EngineInv'
  <2> DEFINE new == [i \in DOMAIN ticks |-> SampleOf(ticks[i])]
  <2>1. new \in Seq(Sample) /\ Len(new) = Len(ticks)
    BY TickSamples
  <2>2. /\ Feed(new) /\ samples + Len(ticks) <= MaxSamples
        /\ batch = <<>> /\ batch' = ticks
        /\ UNCHANGED <<spot_prices_, expiry, est, terminated>>
    BY <1>1 DEF onTicks, EstOnTicks, Idle
  <2>3. Len(batch') <= Len(new)
    BY <2>1, <2>2, TickVectorFacts
  <2> HIDE DEF new
  <2> QED
    BY <2>1, <2>2, <2>3, FeedingKeeps
<1>2. ASSUME NEW klines \in Vectors, onKlines(klines) PROVE EngineInv'
  <2>1. klines \in Seq(Sample) /\ Len(klines) \in Nat
    BY VectorsAreSequences, EstimatorAssumption
  <2>2. /\ Feed(klines) /\ samples + Len(klines) <= MaxSamples
        /\ batch = <<>> /\ batch' = batch
        /\ UNCHANGED <<spot_prices_, expiry, est, terminated>>
    BY <1>2 DEF onKlines, EstOnKlines, Idle, engineVars
  <2>3. batch' \in TickVectors /\ Len(batch') <= Len(klines)
    BY <2>1, <2>2 DEF EngineInv, EngineTypeOK
  <2> QED
    BY <2>1, <2>2, <2>3, FeedingKeeps
<1>3. ASSUME NEW o \in Options, Expire(o) PROVE EngineInv'
  BY <1>3 DEF Expire, Horizons, estVars, EngineInv, EngineTypeOK, EstTypeOK, Tumbling,
              BatchOrder, FreshParameters, CausalPricing
<1>4. CASE UNCHANGED allVars
  BY <1>4 DEF allVars, engineVars, estVars, EngineInv, EngineTypeOK, EstTypeOK,
              Tumbling, BatchOrder, FreshParameters, CausalPricing
<1> QED
  BY <1>1, <1>2, <1>3, <1>4, OnTickKeeps, BatchTickKeeps DEF EngineNext

(* A call of the engine is one of its estimator, or nothing to it.         *)
LEMMA EngineFeeds == [EngineNext]_allVars => [EstNext]_estVars
<1> SUFFICES ASSUME [EngineNext]_allVars PROVE [EstNext]_estVars
  OBVIOUS
<1>1. ASSUME NEW tick \in Tick, onTick(tick) PROVE EstNext
  <2>1. SampleOf(tick) \in Sample
    BY DEF SampleOf, Sample, Tick
  <2> QED
    BY <1>1, <2>1 DEF onTick, EstNext
<1>2. ASSUME NEW ticks \in TickVectors, onTicks(ticks) PROVE EstNext
  <2> DEFINE xs == [i \in DOMAIN ticks |-> SampleOf(ticks[i])]
  <2>1. PICK n \in 0..MaxBatch : ticks \in [1..n -> Tick]
    BY DEF TickVectors
  <2>2. \A x \in Tick : SampleOf(x) \in Sample
    BY DEF Tick, Sample, SampleOf
  <2>3. xs \in [1..n -> Sample] /\ Len(xs) = Len(ticks)
    BY <2>1, <2>2, TickSamples
  <2>4. xs \in Vectors
    BY <2>3 DEF Vectors
  <2>5. EstOnTicks(xs) /\ samples + Len(ticks) <= MaxSamples
    BY <1>2 DEF onTicks
  <2> HIDE DEF xs
  <2> QED
    BY <2>3, <2>4, <2>5 DEF EstNext
<1>3. ASSUME NEW klines \in Vectors, onKlines(klines) PROVE EstNext
  BY <1>3 DEF onKlines, EstNext
<1>4. CASE BatchTick \/ (\E o \in Options : Expire(o)) \/ UNCHANGED allVars
  BY <1>4 DEF BatchTick, Expire, allVars
<1> QED
  BY <1>1, <1>2, <1>3, <1>4 DEF EngineNext

(* The engine is a caller of its estimator such as ParameterEstimator      *)
(* assumes, so that what is shown of the windows holds in it.              *)
THEOREM EngineRunsEstimator == EngineSpec => EstSpec
<1>1. EngineInit => EstInit
  BY DEF EngineInit
<1> QED
  BY <1>1, EngineFeeds, PTL DEF EngineSpec, EstSpec

(* Within the engine too the default parameters mean a repeated time stamp *)
(* in the window they are from.                                            *)
THEOREM EngineDefaults == EngineSpec => []DefaultIffTies
BY EngineRunsEstimator, EstimatorCorrect, PTL

(* Estimations are made from a full window's parameters that miss less     *)
(* than a window, and from a spot price fed before the tick.               *)
THEOREM EngineCorrect ==
  EngineSpec => [](EngineTypeOK /\ Tumbling /\ FreshParameters /\ CausalPricing)
<1>1. EngineInv => EngineTypeOK /\ Tumbling /\ FreshParameters /\ CausalPricing
  BY DEF EngineInv
<1> QED
  BY <1>1, EngineStarts, EngineStep, PTL DEF EngineSpec

(* A tick whose estimation the sink cannot convert was priced with         *)
(* parameters that are not the default, and not at the moment of expiry.   *)
LEMMA UndefinedTick ==
  ASSUME EngineTypeOK, NEW tick \in Tick, NEW n, NEW p, NEW fed, NEW asOf,
         EngineTick(tick, n, p, fed, asOf), est' # est, est'.wire = "undefined",
         Rate = "nonneg"
  PROVE  p \notin {"none", "default"} /\ est'.expiry # "now"
<1>1. PICK o \in Options, price \in PriceClasses :
        /\ p # "none"
        /\ price = "bad" /\ Rate = "nonneg" => p # "default" /\ expiry[o] # "now"
        /\ est' = [option |-> o, spot |-> spot_prices_[SpotOf[o]],
                   tick |-> n, asOf |-> asOf, fed |-> fed,
                   expiry |-> expiry[o], price |-> price,
                   wire |-> onPriceEstimation(price)]
  BY TickOutcome
<1>2. price = "bad"
  BY <1>1 DEF onPriceEstimation
<1> QED
  BY <1>1, <1>2

(* Only the Monte Carlo branch makes what the sink cannot convert.         *)
THEOREM UndefinedIsMonteCarlo == EngineSpec => UndefinedOnlyFromGrid
<1>1. EngineInv /\ EngineInv' /\ [EngineNext]_allVars =>
        (Rate = "nonneg" /\ est' # est /\ est'.wire = "undefined" =>
           params' = "grid" /\ est'.expiry # "now")
  <2> SUFFICES ASSUME EngineInv, EngineInv', [EngineNext]_allVars,
                      est' # est, est'.wire = "undefined", Rate = "nonneg"
               PROVE  params' = "grid" /\ est'.expiry # "now"
    OBVIOUS
  <2>1. params' \in {"none", "default", "grid"}
    BY DEF EngineInv, EngineTypeOK, EstTypeOK
  <2>2. ASSUME NEW tick \in Tick, onTick(tick)
        PROVE  params' \notin {"none", "default"} /\ est'.expiry # "now"
    <3>1. EngineTick(tick, samples', params', samples', windowEnd')
      BY <2>2 DEF onTick
    <3> QED
      BY <3>1, UndefinedTick DEF EngineInv
  <2>3. CASE BatchTick
    <3>1. Head(batch) \in Tick
      BY <2>3, TickVectorFacts DEF BatchTick, EngineInv, EngineTypeOK
    <3>2. EngineTick(Head(batch), samples - Len(batch) + 1, params, samples, windowEnd)
      BY <2>3 DEF BatchTick
    <3>3. params' = params
      BY <2>3 DEF BatchTick, estVars
    <3> QED
      BY <2>1, <3>1, <3>2, <3>3, UndefinedTick DEF EngineInv
  <2>4. \/ \E tick \in Tick : onTick(tick)
        \/ BatchTick
    BY DEF EngineNext, onTicks, onKlines, Expire, allVars, engineVars
  <2> QED
    BY <2>1, <2>2, <2>3, <2>4
<1> QED
  BY <1>1, EngineStarts, EngineStep, PTL DEF EngineSpec, UndefinedOnlyFromGrid
=============================================================================
