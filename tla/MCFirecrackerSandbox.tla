------------------------ MODULE MCFirecrackerSandbox ------------------------
(***************************************************************************)
(* Instance of FirecrackerSandbox for TLC: two runs and as many PIDs as    *)
(* their processes need, so that every PID that ends is given out again.   *)
(***************************************************************************)
EXTENDS FirecrackerSandbox, TLC

CONSTANTS r1, r2
=============================================================================
