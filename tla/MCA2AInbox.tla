----------------------------- MODULE MCA2AInbox -----------------------------
(***************************************************************************)
(* The instance of A2AInbox for TLC.                                       *)
(***************************************************************************)
EXTENDS A2AInbox

CONSTANTS a, b, c1, c2, c3, q1, q2, h1, h2

\* The last call comes from the other peer.
FromTwo == [c \in Calls |-> IF c = c3 THEN b ELSE a]
=============================================================================
