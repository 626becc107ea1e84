---------------------------- MODULE MCSpendGate ----------------------------
(***************************************************************************)
(* Instances of SpendGate for TLC.                                         *)
(***************************************************************************)
EXTENDS SpendGate, TLC

CONSTANTS r1, r2, c1, c2, c3

Caps(run, daily, pct) == [perRun |-> run, perDay |-> daily, warnPct |-> pct]

\* One run that declares both caps and a warning, the daily cap alone, or the
\* per-run cap alone (then there is no ledger).
OneOwner   == [c \in Calls |-> r1]
OneBudgets == {[r \in Runs |-> b] : b \in {Caps(2, 3, 50), Caps(0, 3, 100), Caps(2, 0, 0)}}

\* Two runs of one DID; the second has a looser daily cap of its own.
TwoOwner   == [c \in Calls |-> IF c = c3 THEN r2 ELSE r1]
TwoBudgets == {[r \in Runs |-> IF r = r1 THEN Caps(2, 2, 50) ELSE Caps(0, 3, 50)]}

\* The calls of one run are interchangeable.
CallSymmetry == Permutations(Calls)
=============================================================================
