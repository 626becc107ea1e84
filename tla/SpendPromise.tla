---------------------------- MODULE SpendPromise ----------------------------
(***************************************************************************)
(* What the spending path promises, with no gate, mutex, ledger or handler *)
(* in sight.  Calls are admitted, charged or settled; each run has a total *)
(* and at most one verdict.  SpendGate implements this specification.      *)
(*                                                                         *)
(*   - a call is admitted only while its run has no verdict;               *)
(*   - an admitted call is charged at most once, a settled one never;      *)
(*   - the charge that takes the total over max_per_run_usd gives the      *)
(*     verdict in the same step;                                           *)
(*   - a verdict stands;                                                   *)
(*   - a call whose whole result the agent holds is charged unless the run *)
(*     has a verdict or its process has ended.                             *)
(***************************************************************************)
EXTENDS Integers

CONSTANTS Runs, Calls, Owner, Budgets, Costs

VARIABLES budget,   \* the caps each run declares
          stage,    \* idle, admitted, charged or settled
          held,     \* the agent holds the call's whole result
          total,    \* metered spend of each run
          verdict,  \* what stopped the run
          ended     \* the run's process has ended

vars == <<budget, stage, held, total, verdict, ended>>

Init ==
  /\ budget \in Budgets
  /\ stage = [c \in Calls |-> "idle"]
  /\ held = [c \in Calls |-> FALSE]
  /\ total = [r \in Runs |-> 0]
  /\ verdict = [r \in Runs |-> "none"]
  /\ ended = [r \in Runs |-> FALSE]

Admit(c) ==
  /\ stage[c] = "idle"
  /\ verdict[Owner[c]] = "none"
  /\ stage' = [stage EXCEPT ![c] = "admitted"]
  /\ UNCHANGED <<budget, held, total, verdict, ended>>

\* Ends without a charge: refused, denied, failed, or nothing to charge.
Settle(c) ==
  /\ stage[c] \in {"idle", "admitted"}
  /\ stage[c] = "idle" => verdict[Owner[c]] # "none"
  /\ held[c] => verdict[Owner[c]] # "none"
  /\ stage' = [stage EXCEPT ![c] = "settled"]
  /\ UNCHANGED <<budget, held, total, verdict, ended>>

Hold(c) ==
  /\ stage[c] \in {"admitted", "charged"}
  /\ held' = [held EXCEPT ![c] = TRUE]
  /\ UNCHANGED <<budget, stage, total, verdict, ended>>

\* The daily cap depends on the other runs of the DID, so a verdict for it may
\* come with any charge of a run that declares it.
Charge(c) ==
  LET r == Owner[c] IN
  /\ stage[c] = "admitted"
  /\ stage' = [stage EXCEPT ![c] = "charged"]
  /\ \E a \in Costs \union {0} : total' = [total EXCEPT ![r] = @ + a]
  /\ \E v \in {"none", "max_per_run_usd", "max_per_day_usd"} :
       /\ v = "max_per_run_usd" <=> budget[r].perRun > 0 /\ total'[r] > budget[r].perRun
       /\ v = "max_per_day_usd" => budget[r].perDay > 0
       /\ verdict' = [verdict EXCEPT ![r] = IF @ = "none" THEN v ELSE @]
  /\ UNCHANGED <<budget, held, ended>>

\* A response that cannot be metered or recorded.
Stop(r) ==
  /\ verdict[r] = "none"
  /\ verdict' = [verdict EXCEPT ![r] = "metering_failure"]
  /\ UNCHANGED <<budget, stage, held, total, ended>>

\* The process ends and takes its calls with it.
End(r) ==
  /\ ended' = [ended EXCEPT ![r] = TRUE]
  /\ stage' = [c \in Calls |-> IF Owner[c] = r /\ stage[c] = "admitted"
                               THEN "settled" ELSE stage[c]]
  /\ UNCHANGED <<budget, held, total, verdict>>

Next ==
  \/ \E c \in Calls : Admit(c) \/ Settle(c) \/ Hold(c) \/ Charge(c)
  \/ \E r \in Runs : Stop(r) \/ End(r)

Spec == Init /\ [][Next]_vars
=============================================================================
