-------------------------- MODULE MCDockerSandbox --------------------------
(***************************************************************************)
(* Instance of DockerSandbox for TLC: a run that may reach its time limit, *)
(* and another beside or after it.                                         *)
(***************************************************************************)
EXTENDS DockerSandbox, TLC

CONSTANTS r1, r2

OneAlarmed == [r \in Runs |-> IF r = r1 THEN {"limit"} ELSE {}]
=============================================================================
