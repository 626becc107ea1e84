--------------------------- MODULE MCA2ARoundTrip ---------------------------
(***************************************************************************)
(* Instance of A2ARoundTrip for TLC: two agents and two calls from one to  *)
(* the other, so that answers can be mistaken for each other.              *)
(***************************************************************************)
EXTENDS A2ARoundTrip, TLC

CONSTANTS a, b, c1, c2

CallFrom == [c \in Calls |-> a]
CallTo   == [c \in Calls |-> b]
=============================================================================
