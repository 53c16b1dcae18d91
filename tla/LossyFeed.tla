------------------------------ MODULE LossyFeed ------------------------------
(***************************************************************************)
(* What the feeder's broker promises its consumers.  Observations are      *)
(* numbered in the order they are published.  A consumer may miss any of   *)
(* them, but those it gets arrive in publication order, each at most once, *)
(* and never before they were published.                                   *)
(***************************************************************************)
EXTENDS Naturals, Sequences

CONSTANTS Streams,   \* the consumers
          MaxObs     \* bound on the number of observations

VARIABLES published, \* number of observations published so far
          delivered  \* delivered[s]: the observations consumer s has got, in order

vars == <<published, delivered>>

Init ==
  /\ published = 0
  /\ delivered = [s \in Streams |-> <<>>]

Publish ==
  /\ published < MaxObs
  /\ published' = published + 1
  /\ UNCHANGED delivered

Deliver(s) ==
  /\ \E m \in 1..published :
       /\ \A i \in 1..Len(delivered[s]) : delivered[s][i] < m
       /\ delivered' = [delivered EXCEPT ![s] = Append(@, m)]
  /\ UNCHANGED published

Next == Publish \/ \E s \in Streams : Deliver(s)

Spec == Init /\ [][Next]_vars
=============================================================================
