---------------------------- MODULE MCHumanGate ----------------------------
(***************************************************************************)
(* The instance of HumanGate for TLC.                                      *)
(***************************************************************************)
EXTENDS HumanGate

CONSTANTS g1, g2

Conf(t, w, i) == [onTimeout |-> t, webhook |-> w, interactive |-> i]

\* The terminal alone, the race on a terminal, and the race without one.
AllConfigs == {Conf("abort", FALSE, TRUE), Conf("proceed", TRUE, TRUE),
               Conf("abort", TRUE, FALSE)}
=============================================================================
