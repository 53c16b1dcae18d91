------------------------- MODULE ParameterEstimator -------------------------
(***************************************************************************)
(* The parameter estimator of the pricing engine                           *)
(* (src/libtfbsm/core/parameter_estimator.cpp): samples of every symbol    *)
(* and market gather in one buffer; when it has reached the configured     *)
(* size it is sorted by time, a grid search over (alpha, sigma) picks the  *)
(* parameters, and the buffer starts again empty.                          *)
(*                                                                         *)
(* A floating-point result is abstracted to its class: "zero", "num" (any  *)
(* finite number), "inf" or "nan".  The grid runs over alpha in 0.1..0.99  *)
(* (0.1 plus ninety times 0.01 exceeds 1.0 in doubles), so parameters are  *)
(* "grid", a point of it, or "default", the initial alpha 1, sigma 0.2.    *)
(***************************************************************************)
EXTENDS Naturals, Integers, FiniteSets, Sequences

CONSTANTS BufSize,    \* buffer_size_for_estimation of the configuration; it may be 0
          Times,      \* time stamps of samples
          Prices,     \* mid prices of ticks and close prices of klines
          MaxBatch,   \* bound on the length of a vector of ticks or klines
          MaxSamples  \* bound on the samples fed

ASSUME EstimatorAssumption ==
  /\ BufSize \in Nat /\ MaxBatch \in Nat \ {0} /\ MaxSamples \in Nat
  /\ Times \subseteq Nat /\ Prices \subseteq Nat

VARIABLES
  options_buffer_, \* the samples since the last estimation
  params,          \* get_parameters(): "none", "default" or "grid"
  window,          \* (history) the sorted samples of the last estimation
  samples,         \* (history) number of samples fed
  windowEnd        \* (history) number of samples fed when params was set

estVars == <<options_buffer_, params, window, samples, windowEnd>>

Sample == [ts : Times, price : Prices]
Vectors == UNION {[1..n -> Sample] : n \in 0..MaxBatch}

EstTypeOK ==
  /\ options_buffer_ \in Seq(Sample)
  /\ params \in {"none", "default", "grid"}
  /\ window \in Seq(Sample)
  /\ samples \in 0..MaxSamples
  /\ windowEnd \in 0..MaxSamples

\* Mutant: has_parameters_ has no initializer.
EstInitRaw ==
  /\ options_buffer_ = <<>>
  /\ params \in {"none", "indeterminate"}
  /\ window = <<>>
  /\ samples = 0
  /\ windowEnd = 0

EstInit ==
  /\ options_buffer_ = <<>>
  /\ params = "none"
  /\ window = <<>>
  /\ samples = 0
  /\ windowEnd = 0

-----------------------------------------------------------------------------
(* Classes of floating-point results.                                      *)
DivClass(a, b) ==
  CASE b # 0 /\ a = 0 -> "zero"
    [] b # 0 /\ a # 0 -> "num"
    [] b = 0 /\ a # 0 -> "inf"
    [] OTHER          -> "nan"

MulClass(x, y) ==
  CASE "nan" \in {x, y} \/ {x, y} = {"inf", "zero"} -> "nan"
    [] "inf" \in {x, y} /\ {x, y} # {"inf", "zero"} -> "inf"
    [] {x, y} \subseteq {"zero", "num"} -> IF "zero" \in {x, y} THEN "zero" ELSE "num"

\* The sum of numbers of the classes in S.
SumClass(S) ==
  CASE "nan" \in S -> "nan"
    [] "nan" \notin S /\ "inf" \in S -> "inf"
    [] OTHER -> "num"

\* Term k of the sum: difference quotient times the difference of two powers
\* with exponent 1 - alpha > 0, which is zero only when the bases are equal.
CaputoTerm(w, n, k) ==
  MulClass(DivClass(w[k + 1].price - w[k].price, w[k + 1].ts - w[k].ts),
           IF w[n].ts - w[k].ts = w[n].ts - w[k + 1].ts THEN "zero" ELSE "num")

CaputoL1Approximation(w, n) ==
  SumClass({CaputoTerm(w, n, k) : k \in 1..(n - 1)})

\* The mean over an empty window is 0/0.
LossFunction(w) ==
  IF w = <<>> THEN "nan"
  ELSE SumClass({MulClass(CaputoL1Approximation(w, n), CaputoL1Approximation(w, n)) :
                   n \in 2..Len(w)})

\* A loss replaces the initial best_loss, the largest double, only if it is
\* less, which an infinity or a nan is not.
GridSearch(w) == IF LossFunction(w) = "num" THEN "grid" ELSE "default"

\* The results std::sort may give on b; it orders by ts and is not stable.
SortedByTs(b) ==
  {w \in {[i \in DOMAIN b |-> b[p[i]]] :
            p \in {q \in [DOMAIN b -> DOMAIN b] :
                     \A i, j \in DOMAIN b : q[i] = q[j] => i = j}} :
     \A i, j \in DOMAIN b : i < j => w[i].ts <= w[j].ts}

-----------------------------------------------------------------------------
\* Mutant: the buffer is not sorted.
EstimateUnsorted(b) ==
  /\ window' = b
  /\ params' = GridSearch(b)

\* estimate() on the buffer b
estimate(b) ==
  \E w \in SortedByTs(b) :
    /\ window' = w
    /\ params' = GridSearch(w)

\* Mutant: the buffer is not cleared after an estimation.
FeedKeeps(new) ==
  LET b == options_buffer_ \o new IN
  /\ samples' = samples + Len(new)
  /\ options_buffer_' = b
  /\ IF Len(b) >= BufSize
     THEN estimate(b) /\ windowEnd' = samples'
     ELSE UNCHANGED <<params, window, windowEnd>>

\* onTick, onTicks and onKlines append their samples and end with the call of
\* OptionsBufferIsFull.
Feed(new) ==
  LET b == options_buffer_ \o new IN
  /\ samples' = samples + Len(new)
  /\ IF Len(b) >= BufSize
     THEN /\ estimate(b)
          /\ options_buffer_' = <<>>
          /\ windowEnd' = samples'
     ELSE /\ options_buffer_' = b
          /\ UNCHANGED <<params, window, windowEnd>>

EstOnTick(x) == Feed(<<x>>)
EstOnTicks(xs) == Feed(xs)
EstOnKlines(xs) == Feed(xs)

EstNext ==
  \/ \E x \in Sample : samples < MaxSamples /\ EstOnTick(x)
  \/ \E xs \in Vectors :
       samples + Len(xs) <= MaxSamples /\ (EstOnTicks(xs) \/ EstOnKlines(xs))

EstSpec == EstInit /\ [][EstNext]_estVars

-----------------------------------------------------------------------------
(* Tumbling: every sample is in exactly one window or still in the buffer, *)
(* and the buffer is short of the size for an estimation between calls     *)
(* (parameter_estimator.cpp:7-12), or empty if that size is 0; vectors     *)
(* longer than the buffer and vectors of no sample included.               *)
Tumbling ==
  /\ samples = windowEnd + Len(options_buffer_)
  /\ Len(options_buffer_) < BufSize \/ options_buffer_ = <<>>
  /\ windowEnd > 0 => params # "none"
  /\ params # "none" => Len(window) >= BufSize /\ Len(window) <= windowEnd

(* DefaultIffTies: the search falls back to alpha 1, the classical model,  *)
(* exactly when two samples of the window have one time stamp, adjacent or *)
(* not, of equal or different price: one 0/0 or x/0 times 0 makes every    *)
(* loss of the grid a nan (parameter_estimator.cpp:57-62, 109), and so     *)
(* does the mean over no sample at all.                                    *)
DefaultIffTies ==
  params # "none" =>
    (params = "default" <=>
       \/ window = <<>>
       \/ \E i, j \in DOMAIN window : i # j /\ window[i].ts = window[j].ts)
=============================================================================
