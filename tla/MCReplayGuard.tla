--------------------------- MODULE MCReplayGuard ---------------------------
(***************************************************************************)
(* Instances of ReplayGuard for TLC: a tick is half an hour, a bucket two  *)
(* ticks, so that buckets turn, expire and are pruned within the bound.    *)
(***************************************************************************)
EXTENDS ReplayGuard, TLC

CONSTANTS p1, p2, e1, e2, k1, k2, k3, k4

\* Three requests carry e1, one carries e2.
CarriesE1    == [c \in Copies |-> IF c = k4 THEN e2 ELSE e1]
\* k2 reaches the other run, when there is one.
TwoRuns      == [c \in Copies |-> IF c = k2 THEN p2 ELSE p1]
OneRun       == [c \in Copies |-> p1]
\* e1 is sent late in an hour, with a clock that may be ahead; e2 while e1 is
\* still fresh but its hour is over, or when e1's first bucket has expired.
SomeStamps   == {[e \in Envelopes |-> IF e = e1 THEN 2 ELSE n] : n \in {4, 5}}

\* Requests that carry one envelope to one run are interchangeable.
CopySymmetry == Permutations({k1, k3})
=============================================================================
