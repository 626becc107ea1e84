-------------------------- MODULE SpendGateProofs --------------------------
(***************************************************************************)
(* Proofs about SpendGate, for every set of runs and calls, every cap,     *)
(* every cost and every number of midnights.                               *)
(***************************************************************************)
EXTENDS SpendGate, FiniteSetTheorems, TLAPS

USE OwnerAssumption, BudgetAssumption, AmountAssumption, DayAssumption, NoCallAssumption

\* The initial state is well typed.
LEMMA InitType == Init => TypeOK
  BY DEF Init, TypeOK, Days, Violations, Phases, Locations, Bodies

\* What Apply does to the tracker is well typed.
LEMMA ApplyType ==
  ASSUME TypeOK, NEW c \in Calls, NEW daySum \in Nat, Apply(c, daySum)
  PROVE  /\ mu' \in [Runs -> Calls \union {NoCall}]
         /\ runTotal' \in [Runs -> Nat]
         /\ warned' \in [Runs -> BOOLEAN]
         /\ tripped' \in [Runs -> Violations]
         /\ charges' \in [Calls -> Nat]
         /\ news' \in [Calls -> SUBSET {"warn", "limit", "stop"}]
         /\ pc' \in [Calls -> Locations]
<1> DEFINE r == Owner[c]
<1>1. r \in Runs
  OBVIOUS
<1>2. FirstViolation(tripped[r], Crossed(r, runTotal[r] + cost[c], daySum)) \in Violations
  BY <1>1 DEF TypeOK, FirstViolation, Crossed, Violations
<1>3. runTotal[r] + cost[c] \in Nat
  BY <1>1 DEF TypeOK
<1>4. (warned[r] \/ CrossesWarning(r, daySum)) \in BOOLEAN
  OBVIOUS
<1>5. runTotal' \in [Runs -> Nat]
  BY <1>1, <1>3 DEF Apply, TypeOK
<1>6. charges' \in [Calls -> Nat]
  BY DEF Apply, TypeOK
<1>7. warned' \in [Runs -> BOOLEAN]
  BY <1>1, <1>4 DEF Apply, TypeOK
<1>8. tripped' \in [Runs -> Violations]
  BY <1>1, <1>2 DEF Apply, TypeOK
<1>9. news' \in [Calls -> SUBSET {"warn", "limit", "stop"}]
  BY DEF Apply, TypeOK
<1>10. mu' \in [Runs -> Calls \union {NoCall}]
  BY <1>1 DEF Apply, TypeOK
<1>11. pc' \in [Calls -> Locations]
  BY DEF Apply, Goto, TypeOK, Locations
<1> QED
  BY <1>5, <1>6, <1>7, <1>8, <1>9, <1>10, <1>11

\* An error out of Append is well typed.
LEMMA FailChargeType ==
  ASSUME TypeOK, NEW c \in Calls, FailCharge(c)
  PROVE  /\ mu' \in [Runs -> Calls \union {NoCall}]
         /\ pc' \in [Calls -> Locations]
         /\ UNCHANGED <<runTotal, warned, tripped, charges, news>>
  BY DEF FailCharge, Goto, TypeOK, Locations

\* Every step of a handler keeps the types.
LEMMA HandlerType ==
  ASSUME TypeOK, NEW c \in Calls, Handler(c)
  PROVE  TypeOK'
<1> USE DEF TypeOK, Locations, worldVars, ledgerVars, trackerVars, runVars, bodyVars, eventVars, Goto
<1>1. CASE Arrive(c)
  BY <1>1 DEF Arrive
<1>2. CASE Decide(c)
  BY <1>2 DEF Decide
<1>3. CASE Forward(c)
  BY <1>3 DEF Forward
<1>4. CASE Respond(c)
  <2>1. pc' \in [Calls -> Locations]
    BY <1>4 DEF Respond
  <2>2. ASSUME NEW b \in Bodies, NEW a \in Costs,
               body' = [body EXCEPT ![c] = b],
               cost' = [cost EXCEPT ![c] = IF b = "result" THEN a ELSE 0]
        PROVE  body' \in [Calls -> Bodies] /\ cost' \in [Calls -> Nat]
    <3>1. (IF b = "result" THEN a ELSE 0) \in Nat
      OBVIOUS
    <3> QED
      BY <2>2, <3>1
  <2>3. body' \in [Calls -> Bodies] /\ cost' \in [Calls -> Nat]
    BY <1>4, <2>2 DEF Respond
  <2> QED
    BY <1>4, <2>1, <2>3 DEF Respond
<1>5. CASE Deliver(c)
  BY <1>5 DEF Deliver
<1>6. CASE ReadEOF(c)
  BY <1>6 DEF ReadEOF, Finish
<1>7. CASE StopReading(c)
  BY <1>7 DEF StopReading
<1>8. CASE CloseBody(c)
  BY <1>8 DEF CloseBody, Finish
<1>9. CASE EnterCharge(c)
  <2>1. CASE Apply(c, 0) /\ UNCHANGED day
    BY <1>9, <2>1, ApplyType DEF EnterCharge
  <2>2. CASE Goto(c, "failing") /\ UNCHANGED <<mu, runTotal, warned, tripped, charges, day, news>>
    BY <1>9, <2>2 DEF EnterCharge
  <2>3. CASE /\ mu' = [mu EXCEPT ![Owner[c]] = c]
             /\ day' = [day EXCEPT ![c] = today]
             /\ Goto(c, "writing")
             /\ UNCHANGED <<runTotal, warned, tripped, charges, news>>
    BY <1>9, <2>3 DEF EnterCharge
  <2> QED
    BY <1>9, <2>1, <2>2, <2>3 DEF EnterCharge
<1>10. CASE AppendRecord(c)
  <2>1. Owner[c] \in Runs /\ day[c] \in Days
    OBVIOUS
  <2>2. CASE FailCharge(c)
    <3>1. UNCHANGED <<fileTotal, flock, recorded, lastWriter>>
      BY <1>10, <2>2 DEF AppendRecord, FailCharge, Goto
    <3>2. corrupt' \in [Days -> BOOLEAN]
      BY <1>10, <2>1, <2>2 DEF AppendRecord, FailCharge, Goto
    <3> QED
      BY <1>10, <3>1, <3>2, <2>2, FailChargeType DEF AppendRecord
  <2>3. CASE ~FailCharge(c)
    <3>1. /\ Goto(c, "summing")
          /\ flock' = [flock EXCEPT ![day[c]] = c]
          /\ fileTotal' = [fileTotal EXCEPT ![day[c]] = @ + cost[c]]
          /\ recorded' = [recorded EXCEPT ![Owner[c]] = @ + cost[c]]
          /\ lastWriter' = [lastWriter EXCEPT ![day[c]] = {Owner[c]}]
          /\ UNCHANGED <<corrupt, trackerVars, news>>
          /\ UNCHANGED <<worldVars, runVars, bodyVars, eventVars, day>>
      BY <1>10, <2>3 DEF AppendRecord
    <3>2. fileTotal' \in [Days -> Nat] /\ recorded' \in [Runs -> Nat]
      BY <3>1, <2>1
    <3>3. lastWriter' \in [Days -> SUBSET Runs] /\ flock' \in [Days -> Calls \union {NoCall}]
      BY <3>1, <2>1
    <3> QED
      BY <3>1, <3>2, <3>3
  <2> QED
    BY <2>2, <2>3
<1>11. CASE SumAndApply(c)
  <2>1. day[c] \in Days /\ fileTotal[day[c]] \in Nat
    OBVIOUS
  <2>2. CASE FailCharge(c)
    BY <1>11, <2>1, <2>2, FailChargeType DEF SumAndApply
  <2>3. CASE Apply(c, fileTotal[day[c]])
    BY <1>11, <2>1, <2>3, ApplyType DEF SumAndApply
  <2> QED
    BY <1>11, <2>2, <2>3 DEF SumAndApply
<1>12. CASE Report(c)
  BY <1>12 DEF Report
<1>13. CASE MeterFailure(c)
  BY <1>13 DEF MeterFailure, FirstViolation, Violations
<1>14. CASE FireSpendKill(c)
  BY <1>14 DEF FireSpendKill
<1> QED
  BY <1>1, <1>2, <1>3, <1>4, <1>5, <1>6, <1>7, <1>8, <1>9, <1>10, <1>11, <1>12,
     <1>13, <1>14 DEF Handler

\* Every step of cmdRun, of the agent and of a crash keeps the types.
LEMMA ProcessType ==
  ASSUME TypeOK, NEW r \in Runs, Process(r)
  PROVE  TypeOK'
<1> USE DEF TypeOK, worldVars, ledgerVars, trackerVars, runVars, bodyVars, eventVars
<1>1. CASE StartRun(r)
  <2>1. phase' \in [Runs -> Phases]
    <3>1. \/ phase' = [phase EXCEPT ![r] = "exited"]
          \/ phase' = [phase EXCEPT ![r] = "starting"]
      BY <1>1 DEF StartRun
    <3> QED
      BY <3>1 DEF Phases
  <2>2. outcome' \in [Runs -> {"none", "refused", "terminated", "finished", "crashed"}]
    BY <1>1 DEF StartRun
  <2> QED
    BY <1>1, <2>1, <2>2 DEF StartRun
<1>2. CASE InstallCallbacks(r)
  BY <1>2 DEF InstallCallbacks, Phases
<1>3. CASE AgentExits(r) \/ KillLands(r)
  BY <1>3 DEF AgentExits, KillLands
<1>4. CASE Conclude(r)
  BY <1>4 DEF Conclude, Phases
<1>5. CASE ExitProcess(r) \/ Crash(r)
  <2>1. Vanish(r) /\ (UNCHANGED outcome \/ outcome' = [outcome EXCEPT ![r] = "crashed"])
    BY <1>5 DEF ExitProcess, Crash
  <2>2. phase' \in [Runs -> Phases] /\ pc' \in [Calls -> Locations]
    BY <2>1 DEF Vanish, Phases, Locations
  <2>3. mu' \in [Runs -> Calls \union {NoCall}] /\ flock' \in [Days -> Calls \union {NoCall}]
    BY <2>1 DEF Vanish
  <2>4. outcome' \in [Runs -> {"none", "refused", "terminated", "finished", "crashed"}]
    BY <2>1
  <2> QED
    BY <2>1, <2>2, <2>3, <2>4 DEF Vanish
<1> QED
  BY <1>1, <1>2, <1>3, <1>4, <1>5 DEF Process

\* The types are right in every state.
THEOREM TypeCorrect == Spec => []TypeOK
<1>1. TypeOK /\ [Next]_vars => TypeOK'
  <2> SUFFICES ASSUME TypeOK, [Next]_vars
               PROVE  TypeOK'
    OBVIOUS
  <2> USE DEF vars, worldVars, ledgerVars, trackerVars, runVars, bodyVars, eventVars
  <2>1. CASE Midnight
    BY <2>1 DEF Midnight, TypeOK, Days
  <2>2. CASE UNCHANGED vars
    BY <2>2 DEF TypeOK
  <2> QED
    BY <2>1, <2>2, HandlerType, ProcessType DEF Next, Finished
<1> QED
  BY <1>1, InitType, PTL DEF Spec

-----------------------------------------------------------------------------
(* Metering: once per call, and no result for nothing.                     *)

\* A handler moves only its own call, and a violation stands.
LEMMA HandlerFrame ==
  ASSUME TypeOK, NEW c \in Calls, Handler(c)
  PROVE  /\ \A x \in Calls \ {c} :
              /\ pc'[x] = pc[x] /\ charges'[x] = charges[x] /\ metered'[x] = metered[x]
              /\ delivered'[x] = delivered[x] /\ body'[x] = body[x] /\ news'[x] = news[x]
              /\ cost'[x] = cost[x] /\ day'[x] = day[x]
         /\ \A r \in Runs : tripped[r] # "none" => tripped'[r] = tripped[r]
<1> USE DEF TypeOK, worldVars, ledgerVars, trackerVars, runVars, bodyVars, eventVars, Goto
<1>1. CASE Arrive(c) \/ Decide(c) \/ Forward(c) \/ Respond(c)
  BY <1>1 DEF Arrive, Decide, Forward, Respond
<1>2. CASE Deliver(c) \/ ReadEOF(c) \/ StopReading(c) \/ CloseBody(c)
  BY <1>2 DEF Deliver, ReadEOF, StopReading, CloseBody, Finish
<1>3. CASE EnterCharge(c)
  BY <1>3 DEF EnterCharge, Apply, FirstViolation
<1>4. CASE AppendRecord(c)
  BY <1>4 DEF AppendRecord, FailCharge
<1>5. CASE SumAndApply(c)
  BY <1>5 DEF SumAndApply, FailCharge, Apply, FirstViolation
<1>6. CASE Report(c) \/ MeterFailure(c) \/ FireSpendKill(c)
  BY <1>6 DEF Report, MeterFailure, FireSpendKill, FirstViolation
<1> QED
  BY <1>1, <1>2, <1>3, <1>4, <1>5, <1>6 DEF Handler

\* A charge that is applied counts once and tells the handler to stop the run
\* exactly when the tracker has a violation.
LEMMA ApplyMetering ==
  ASSUME TypeOK, MeteringInv, NEW c \in Calls, NEW daySum \in Nat,
         pc[c] \in {"charging", "summing"}, Apply(c, daySum), UNCHANGED bodyVars
  PROVE  MeteredCorrectly(c)'
<1>0. MeteredCorrectly(c) /\ charges[c] \in Nat
  BY DEF MeteringInv, TypeOK
<1>1. charges[c] = 0 /\ metered[c]
  <2>1. charges[c] # 1 /\ metered[c] /\ charges[c] <= 1
    BY <1>0 DEF MeteredCorrectly
  <2>2. \A n \in Nat : n <= 1 /\ n # 1 => n = 0
    OBVIOUS
  <2> QED
    BY <1>0, <2>1, <2>2
<1>2. charges'[c] = 1 /\ pc'[c] = "reporting" /\ metered'[c]
  BY <1>1 DEF Apply, TypeOK, Goto, bodyVars
<1>3. Owner[c] \in Runs
  OBVIOUS
<1>4. "stop" \in news'[c] => tripped'[Owner[c]] # "none"
  BY <1>3 DEF Apply, TypeOK
<1>5. delivered'[c] => body'[c] = "result"
  BY DEF MeteringInv, MeteredCorrectly, bodyVars
<1> QED
  BY <1>2, <1>4, <1>5 DEF MeteredCorrectly

\* A handler's step keeps its own call metered correctly.
LEMMA HandlerMetering ==
  ASSUME TypeOK, MeteringInv, NEW c \in Calls, Handler(c)
  PROVE  MeteredCorrectly(c)'
<1> USE DEF TypeOK, worldVars, ledgerVars, trackerVars, runVars, bodyVars, eventVars, Goto
<1>0. MeteredCorrectly(c) /\ Owner[c] \in Runs
  BY DEF MeteringInv
<1>1. CASE Arrive(c) \/ Decide(c) \/ Forward(c) \/ Respond(c)
  BY <1>0, <1>1 DEF Arrive, Decide, Forward, Respond, MeteredCorrectly
<1>2. CASE Deliver(c) \/ ReadEOF(c) \/ StopReading(c)
  BY <1>0, <1>2 DEF Deliver, ReadEOF, StopReading, Finish, MeteredCorrectly
<1>3. CASE CloseBody(c)
  BY <1>0, <1>3 DEF CloseBody, NeedsDrain, Finish, MeteredCorrectly
<1>4. CASE EnterCharge(c)
  <2>1. CASE Apply(c, 0)
    BY <1>4, <2>1, ApplyMetering DEF EnterCharge
  <2>2. CASE ~Apply(c, 0)
    BY <1>0, <1>4, <2>2 DEF EnterCharge, MeteredCorrectly
  <2> QED
    BY <2>1, <2>2
<1>5. CASE AppendRecord(c)
  BY <1>0, <1>5 DEF AppendRecord, FailCharge, MeteredCorrectly
<1>6. CASE SumAndApply(c)
  <2>1. CASE Apply(c, fileTotal[day[c]])
    BY <1>6, <2>1, ApplyMetering DEF SumAndApply
  <2>2. CASE FailCharge(c)
    BY <1>0, <1>6, <2>2 DEF SumAndApply, FailCharge, MeteredCorrectly
  <2> QED
    BY <1>6, <2>1, <2>2 DEF SumAndApply
<1>7. CASE Report(c)
  BY <1>0, <1>7 DEF Report, MeteredCorrectly
<1>8. CASE MeterFailure(c)
  BY <1>0, <1>8 DEF MeterFailure, FirstViolation, MeteredCorrectly
<1>9. CASE FireSpendKill(c)
  BY <1>0, <1>9 DEF FireSpendKill, MeteredCorrectly
<1> QED
  BY <1>1, <1>2, <1>3, <1>4, <1>5, <1>6, <1>7, <1>8, <1>9 DEF Handler

\* A step of cmdRun leaves every call as metered as it was; a process that
\* ends takes its calls along.
LEMMA ProcessMetering ==
  ASSUME TypeOK, MeteringInv, NEW r \in Runs, Process(r)
  PROVE  MeteringInv'
<1> USE DEF TypeOK, worldVars, ledgerVars, trackerVars, runVars, bodyVars, eventVars
<1>1. CASE ExitProcess(r) \/ Crash(r)
  <2>1. Vanish(r)
    BY <1>1 DEF ExitProcess, Crash
  <2>2. ASSUME NEW x \in Calls
        PROVE  MeteredCorrectly(x)'
    <3>1. pc'[x] = pc[x] \/ pc'[x] = "lost"
      BY <2>1 DEF Vanish
    <3> QED
      BY <2>1, <3>1 DEF Vanish, MeteringInv, MeteredCorrectly
  <2> QED
    BY <2>2 DEF MeteringInv
<1>2. CASE StartRun(r) \/ InstallCallbacks(r) \/ AgentExits(r) \/ KillLands(r) \/ Conclude(r)
  <2>1. UNCHANGED <<pc, charges, metered, delivered, body, news, tripped>>
    BY <1>2 DEF StartRun, InstallCallbacks, AgentExits, KillLands, Conclude
  <2> QED
    BY <2>1 DEF MeteringInv, MeteredCorrectly
<1> QED
  BY <1>1, <1>2 DEF Process

\* Metering is right in every state.
THEOREM MeteringCorrect == Spec => []MeteringInv
<1>1. Init => MeteringInv
  BY DEF Init, MeteringInv, MeteredCorrectly
<1>2. TypeOK /\ MeteringInv /\ [Next]_vars => MeteringInv'
  <2> SUFFICES ASSUME TypeOK, MeteringInv, [Next]_vars
               PROVE  MeteringInv'
    OBVIOUS
  <2>1. ASSUME NEW c \in Calls, Handler(c), NEW x \in Calls
        PROVE  MeteredCorrectly(x)'
    <3>1. CASE x = c
      BY <2>1, <3>1, HandlerMetering
    <3>2. CASE x # c
      <4>1. /\ pc'[x] = pc[x] /\ charges'[x] = charges[x] /\ metered'[x] = metered[x]
            /\ delivered'[x] = delivered[x] /\ body'[x] = body[x] /\ news'[x] = news[x]
            /\ tripped[Owner[x]] # "none" => tripped'[Owner[x]] = tripped[Owner[x]]
        BY <2>1, <3>2, HandlerFrame
      <4> QED
        BY <4>1 DEF MeteringInv, MeteredCorrectly
    <3> QED
      BY <3>1, <3>2
  <2>2. CASE Midnight \/ UNCHANGED vars
    <3>1. UNCHANGED <<pc, charges, metered, delivered, body, news, tripped>>
      BY <2>2 DEF Midnight, vars, worldVars, ledgerVars, trackerVars, runVars, bodyVars, eventVars
    <3> QED
      BY <3>1 DEF MeteringInv, MeteredCorrectly
  <2> QED
    BY <2>1, <2>2, ProcessMetering DEF Next, Finished, MeteringInv
<1> QED
  BY <1>1, <1>2, TypeCorrect, PTL DEF Spec

\* No result is free and none is billed twice (meterBody, Tracker.Charge),
\* for any number of concurrent calls and however each body ends.
THEOREM NoFreeResultHolds == Spec => []NoFreeResult
<1>1. MeteringInv => NoFreeResult
  BY DEF MeteringInv, MeteredCorrectly, NoFreeResult
<1> QED
  BY <1>1, MeteringCorrect, PTL

-----------------------------------------------------------------------------
(* Reporting: one handler logs the cap, one the warning.                   *)

\* The calls of a run whose handler has an event of this kind to log.
Bearers(r, n) == {c \in CallsOf(r) : n \in news[c]}

\* The inductive invariant behind ReportedOnce: events are counted, and only a
\* handler that reports, or one lost while it did, has any left.
ReportInv ==
  /\ \A c \in Calls : news[c] # {} => pc[c] \in {"reporting", "lost"}
  /\ \A r \in Runs : IsFiniteSet(Bearers(r, "limit")) /\ IsFiniteSet(Bearers(r, "warn"))
  /\ ReportedOnce

\* A cap stopped the run, as ReportedOnce tells it from a metering failure.
Capped(r) == tripped[r] \in {"max_per_run_usd", "max_per_day_usd"}

\* A step that touches no news and no event, and after which the caps and the
\* warning are crossed where they were, reports nothing.
LEMMA NothingReported ==
  ASSUME ReportInv, UNCHANGED <<news, limitEvents, warnEvents, warned>>,
         \A r \in Runs : Capped(r)' = Capped(r),
         \A c \in Calls : pc[c] \in {"reporting", "lost"} => pc'[c] \in {"reporting", "lost"}
  PROVE  ReportInv'
<1>1. \A r \in Runs, n \in {"limit", "warn"} : Bearers(r, n)' = Bearers(r, n)
  BY DEF Bearers, CallsOf
<1>2. ReportedOnce'
  BY <1>1 DEF ReportInv, ReportedOnce, Bearers, Capped
<1> QED
  BY <1>1, <1>2 DEF ReportInv

\* One bearer more.
LEMMA BearerJoins ==
  ASSUME NEW S, NEW c, IsFiniteSet(S), c \notin S
  PROVE  IsFiniteSet(S \union {c}) /\ Cardinality(S \union {c}) = Cardinality(S) + 1
  BY FS_AddElement

\* And one less.
LEMMA BearerLeaves ==
  ASSUME NEW S, NEW c, IsFiniteSet(S), c \in S
  PROVE  IsFiniteSet(S \ {c}) /\ Cardinality(S \ {c}) = Cardinality(S) - 1
         /\ Cardinality(S) \in Nat
  BY FS_RemoveElement, FS_CardinalityType

\* A charge that is applied makes its handler the bearer of what it crosses,
\* and of nothing that was crossed before.
LEMMA ApplyReports ==
  ASSUME TypeOK, ReportInv, NEW c \in Calls, NEW daySum \in Nat, Handler(c),
         pc[c] \in {"charging", "summing"}, Apply(c, daySum), UNCHANGED eventVars
  PROVE  ReportInv'
<1> DEFINE r == Owner[c]
           v == FirstViolation(tripped[r], Crossed(r, runTotal[r] + cost[c], daySum))
<1>1. news[c] = {} /\ r \in Runs
  BY DEF ReportInv, TypeOK
<1>2. /\ tripped' = [tripped EXCEPT ![r] = v]
      /\ warned' = [warned EXCEPT ![r] = @ \/ CrossesWarning(r, daySum)]
      /\ "limit" \in news'[c] <=> v # tripped[r]
      /\ "warn" \in news'[c] <=> CrossesWarning(r, daySum)
      /\ pc' = [pc EXCEPT ![c] = "reporting"]
  BY DEF Apply, TypeOK, Goto
<1>3. \A x \in Calls \ {c} : news'[x] = news[x] /\ pc'[x] = pc[x]
  BY HandlerFrame
<1>4. \A q \in Runs \ {r}, n \in {"limit", "warn"} : Bearers(q, n)' = Bearers(q, n)
  BY <1>3 DEF Bearers, CallsOf
<1>5. \A n \in {"limit", "warn"} :
        /\ c \notin Bearers(r, n)
        /\ Bearers(r, n)' = IF n \in news'[c] THEN Bearers(r, n) \union {c} ELSE Bearers(r, n)
  BY <1>1, <1>3 DEF Bearers, CallsOf
<1>6. \A n \in {"limit", "warn"} :
        /\ IsFiniteSet(Bearers(r, n)')
        /\ Cardinality(Bearers(r, n)')
             = Cardinality(Bearers(r, n)) + (IF n \in news'[c] THEN 1 ELSE 0)
        /\ Cardinality(Bearers(r, n)) \in Nat
  <2> SUFFICES ASSUME NEW n \in {"limit", "warn"}
               PROVE  /\ IsFiniteSet(Bearers(r, n)')
                      /\ Cardinality(Bearers(r, n)')
                           = Cardinality(Bearers(r, n)) + (IF n \in news'[c] THEN 1 ELSE 0)
                      /\ Cardinality(Bearers(r, n)) \in Nat
    OBVIOUS
  <2>1. IsFiniteSet(Bearers(r, n)) /\ Cardinality(Bearers(r, n)) \in Nat
    BY <1>1, FS_CardinalityType DEF ReportInv
  <2>2. CASE n \in news'[c]
    BY <1>5, <2>1, <2>2, BearerJoins
  <2>3. CASE n \notin news'[c]
    BY <1>5, <2>1, <2>3
  <2> QED
    BY <2>2, <2>3
<1>7. tripped[r] \in Violations /\ tripped'[r] = v /\ warned[r] \in BOOLEAN
  BY <1>1, <1>2 DEF TypeOK
<1>8. v # tripped[r] <=> tripped[r] = "none" /\ v \in {"max_per_run_usd", "max_per_day_usd"}
  BY <1>7 DEF FirstViolation, Crossed, Violations
<1>9. v = tripped[r] \/ tripped[r] = "none"
  BY <1>8
<1>10. limitEvents[r] \in Nat /\ warnEvents[r] \in Nat
  BY <1>1 DEF TypeOK
<1>11. limitEvents'[r] + Cardinality(Bearers(r, "limit")')
         = IF tripped'[r] \in {"max_per_run_usd", "max_per_day_usd"} THEN 1 ELSE 0
  <2>1. limitEvents[r] + Cardinality(Bearers(r, "limit"))
          = IF tripped[r] \in {"max_per_run_usd", "max_per_day_usd"} THEN 1 ELSE 0
    BY <1>1 DEF ReportInv, ReportedOnce, Bearers
  <2> HIDE DEF v
  <2>2. CASE v # tripped[r]
    BY <1>2, <1>6, <1>7, <1>8, <1>10, <2>1, <2>2 DEF eventVars
  <2>3. CASE v = tripped[r]
    BY <1>2, <1>6, <1>7, <1>10, <2>1, <2>3 DEF eventVars
  <2> QED
    BY <2>2, <2>3
<1>12. warnEvents'[r] + Cardinality(Bearers(r, "warn")') = IF warned'[r] THEN 1 ELSE 0
  <2>1. warnEvents[r] + Cardinality(Bearers(r, "warn")) = IF warned[r] THEN 1 ELSE 0
    BY <1>1 DEF ReportInv, ReportedOnce, Bearers
  <2>2. CASE CrossesWarning(r, daySum)
    <3>1. ~warned[r] /\ warned'[r] /\ "warn" \in news'[c]
      BY <1>1, <1>2, <2>2 DEF CrossesWarning, TypeOK
    <3> QED
      BY <1>6, <1>10, <2>1, <3>1 DEF eventVars
  <2>3. CASE ~CrossesWarning(r, daySum)
    <3>1. warned'[r] = warned[r] /\ "warn" \notin news'[c]
      BY <1>1, <1>2, <2>3 DEF TypeOK
    <3> QED
      BY <1>6, <1>10, <2>1, <3>1 DEF eventVars
  <2> QED
    BY <2>2, <2>3
<1>13. ReportedOnce'
  <2> SUFFICES ASSUME NEW q \in Runs
               PROVE  /\ limitEvents'[q] + Cardinality(Bearers(q, "limit")')
                           = IF tripped'[q] \in {"max_per_run_usd", "max_per_day_usd"} THEN 1 ELSE 0
                      /\ warnEvents'[q] + Cardinality(Bearers(q, "warn")')
                           = IF warned'[q] THEN 1 ELSE 0
    BY DEF ReportedOnce, Bearers
  <2>1. CASE q = r
    BY <1>11, <1>12, <2>1
  <2>2. CASE q # r
    <3>1. tripped'[q] = tripped[q] /\ warned'[q] = warned[q]
      BY <1>2, <2>2 DEF TypeOK
    <3> QED
      BY <1>4, <2>2, <3>1 DEF ReportInv, ReportedOnce, Bearers, eventVars
  <2> QED
    BY <2>1, <2>2
<1>14. \A x \in Calls : news'[x] # {} => pc'[x] \in {"reporting", "lost"}
  BY <1>2, <1>3 DEF ReportInv, TypeOK
<1>15. \A q \in Runs : IsFiniteSet(Bearers(q, "limit")') /\ IsFiniteSet(Bearers(q, "warn")')
  BY <1>4, <1>6 DEF ReportInv
<1> QED
  BY <1>13, <1>14, <1>15 DEF ReportInv

\* A handler that reports turns what it bears into events.
LEMMA ReportReports ==
  ASSUME TypeOK, ReportInv, NEW c \in Calls, Report(c)
  PROVE  ReportInv'
<1> DEFINE r == Owner[c]
<1>1. /\ r \in Runs /\ news' = [news EXCEPT ![c] = {}]
      /\ limitEvents' = [limitEvents EXCEPT ![r] = @ + (IF "limit" \in news[c] THEN 1 ELSE 0)]
      /\ warnEvents' = [warnEvents EXCEPT ![r] = @ + (IF "warn" \in news[c] THEN 1 ELSE 0)]
      /\ UNCHANGED <<tripped, warned>>
      /\ \A x \in Calls \ {c} : pc'[x] = pc[x]
  BY DEF Report, trackerVars, Goto, TypeOK
<1>2. \A q \in Runs \ {r}, n \in {"limit", "warn"} : Bearers(q, n)' = Bearers(q, n)
  BY <1>1 DEF Bearers, CallsOf, TypeOK
<1>3. \A n \in {"limit", "warn"} :
        /\ c \in Bearers(r, n) <=> n \in news[c]
        /\ Bearers(r, n)' = Bearers(r, n) \ {c}
  BY <1>1 DEF Bearers, CallsOf, TypeOK
<1>4. \A n \in {"limit", "warn"} :
        /\ IsFiniteSet(Bearers(r, n)')
        /\ Cardinality(Bearers(r, n)')
             = Cardinality(Bearers(r, n)) - (IF n \in news[c] THEN 1 ELSE 0)
        /\ Cardinality(Bearers(r, n)) \in Nat
  <2> SUFFICES ASSUME NEW n \in {"limit", "warn"}
               PROVE  /\ IsFiniteSet(Bearers(r, n)')
                      /\ Cardinality(Bearers(r, n)')
                           = Cardinality(Bearers(r, n)) - (IF n \in news[c] THEN 1 ELSE 0)
                      /\ Cardinality(Bearers(r, n)) \in Nat
    OBVIOUS
  <2>1. IsFiniteSet(Bearers(r, n)) /\ Cardinality(Bearers(r, n)) \in Nat
    BY <1>1, FS_CardinalityType DEF ReportInv
  <2>2. CASE n \in news[c]
    BY <1>3, <2>1, <2>2, BearerLeaves
  <2>3. CASE n \notin news[c]
    <3>1. c \notin Bearers(r, n) /\ Bearers(r, n)' = Bearers(r, n) \ {c}
      BY <1>3, <2>3
    <3>2. Bearers(r, n)' = Bearers(r, n)
      BY <3>1
    <3> QED
      BY <2>1, <2>3, <3>2
  <2> QED
    BY <2>2, <2>3
<1>5. limitEvents[r] \in Nat /\ warnEvents[r] \in Nat
  BY <1>1 DEF TypeOK
<1>6. /\ limitEvents'[r] + Cardinality(Bearers(r, "limit")')
           = limitEvents[r] + Cardinality(Bearers(r, "limit"))
      /\ warnEvents'[r] + Cardinality(Bearers(r, "warn")')
           = warnEvents[r] + Cardinality(Bearers(r, "warn"))
  <2>1. /\ limitEvents'[r] = limitEvents[r] + (IF "limit" \in news[c] THEN 1 ELSE 0)
        /\ warnEvents'[r] = warnEvents[r] + (IF "warn" \in news[c] THEN 1 ELSE 0)
    BY <1>1 DEF TypeOK
  <2> QED
    BY <1>4, <1>5, <2>1
<1>7. ReportedOnce'
  <2> SUFFICES ASSUME NEW q \in Runs
               PROVE  /\ limitEvents'[q] + Cardinality(Bearers(q, "limit")')
                           = IF tripped[q] \in {"max_per_run_usd", "max_per_day_usd"} THEN 1 ELSE 0
                      /\ warnEvents'[q] + Cardinality(Bearers(q, "warn")')
                           = IF warned[q] THEN 1 ELSE 0
    BY <1>1 DEF ReportedOnce, Bearers
  <2>1. CASE q = r
    BY <1>1, <1>6, <2>1 DEF ReportInv, ReportedOnce, Bearers
  <2>2. CASE q # r
    <3>1. limitEvents'[q] = limitEvents[q] /\ warnEvents'[q] = warnEvents[q]
      BY <1>1, <2>2 DEF TypeOK
    <3>2. Bearers(q, "limit")' = Bearers(q, "limit") /\ Bearers(q, "warn")' = Bearers(q, "warn")
      BY <1>2, <2>2
    <3>3. /\ limitEvents[q] + Cardinality(Bearers(q, "limit"))
               = IF tripped[q] \in {"max_per_run_usd", "max_per_day_usd"} THEN 1 ELSE 0
          /\ warnEvents[q] + Cardinality(Bearers(q, "warn")) = IF warned[q] THEN 1 ELSE 0
      BY DEF ReportInv, ReportedOnce, Bearers
    <3> QED
      BY <3>1, <3>2, <3>3
  <2> QED
    BY <2>1, <2>2
<1>8. \A x \in Calls : news'[x] # {} => pc'[x] \in {"reporting", "lost"}
  BY <1>1 DEF ReportInv, TypeOK
<1>9. \A q \in Runs : IsFiniteSet(Bearers(q, "limit")') /\ IsFiniteSet(Bearers(q, "warn")')
  BY <1>2, <1>4 DEF ReportInv
<1> QED
  BY <1>7, <1>8, <1>9 DEF ReportInv

\* Every other step reports nothing.
LEMMA HandlerReports ==
  ASSUME TypeOK, ReportInv, NEW c \in Calls, Handler(c)
  PROVE  ReportInv'
<1> USE DEF worldVars, ledgerVars, trackerVars, runVars, bodyVars, eventVars, Goto
<1>1. CASE \E daySum \in Nat : Apply(c, daySum)
  <2>1. PICK daySum \in Nat : Apply(c, daySum)
    BY <1>1
  <2>2. charges'[c] # charges[c]
    BY <2>1 DEF Apply, TypeOK
  <2>3. pc[c] \in {"charging", "summing"} /\ UNCHANGED eventVars
    BY <2>2 DEF Handler, Arrive, Decide, Forward, Respond, Deliver, ReadEOF, StopReading,
                CloseBody, EnterCharge, AppendRecord, SumAndApply, Report, MeterFailure,
                FireSpendKill, FailCharge
  <2> QED
    BY <2>1, <2>3, ApplyReports
<1>2. CASE Report(c)
  BY <1>2, ReportReports
<1>3. ASSUME pc[c] \notin {"reporting", "lost"}, UNCHANGED <<news, eventVars, warned, tripped>>
      PROVE  ReportInv'
  <2>1. \A r \in Runs : Capped(r)' = Capped(r)
    BY <1>3 DEF Capped
  <2>2. \A x \in Calls : pc[x] \in {"reporting", "lost"} => pc'[x] = pc[x]
    BY <1>3, HandlerFrame
  <2> QED
    BY <1>3, <2>1, <2>2, NothingReported
<1>4. CASE Arrive(c) \/ Decide(c) \/ Forward(c) \/ Respond(c)
  BY <1>3, <1>4 DEF Arrive, Decide, Forward, Respond
<1>5. CASE Deliver(c) \/ ReadEOF(c) \/ StopReading(c) \/ CloseBody(c)
  BY <1>3, <1>5 DEF Deliver, ReadEOF, StopReading, CloseBody
<1>6. CASE EnterCharge(c)
  <2>1. 0 \in Nat
    OBVIOUS
  <2> QED
    BY <1>1, <1>3, <1>6, <2>1 DEF EnterCharge
<1>7. CASE AppendRecord(c) \/ FireSpendKill(c)
  BY <1>3, <1>7 DEF AppendRecord, FailCharge, FireSpendKill
<1>8. CASE SumAndApply(c)
  <2>1. fileTotal[day[c]] \in Nat
    BY DEF TypeOK
  <2> QED
    BY <1>1, <1>3, <1>8, <2>1 DEF SumAndApply, FailCharge
<1>9. CASE MeterFailure(c)
  <2>1. UNCHANGED <<news, eventVars, warned>> /\ pc[c] = "failing"
    BY <1>9 DEF MeterFailure
  <2>2. \A r \in Runs : Capped(r)' = Capped(r)
    BY <1>9 DEF MeterFailure, FirstViolation, Capped, TypeOK
  <2>3. \A x \in Calls : pc[x] \in {"reporting", "lost"} => pc'[x] = pc[x]
    BY <2>1, HandlerFrame
  <2> QED
    BY <2>1, <2>2, <2>3, NothingReported
<1> QED
  BY <1>2, <1>4, <1>5, <1>6, <1>7, <1>8, <1>9 DEF Handler

\* Exactly one handler reports the cap that stopped the run and exactly one the
\* warning, for any number of concurrent charges (Result.NewlyTripped,
\* Result.WarnCrossed).
THEOREM ReportedOnceHolds == Spec => []ReportedOnce
<1>1. Init => ReportInv
  <2> SUFFICES ASSUME Init
               PROVE  ReportInv
    OBVIOUS
  <2>1. \A r \in Runs : Bearers(r, "limit") = {} /\ Bearers(r, "warn") = {}
    BY DEF Init, Bearers, CallsOf
  <2>2. \A c \in Calls : news[c] = {}
    BY DEF Init
  <2>3. \A r \in Runs : limitEvents[r] = 0 /\ warnEvents[r] = 0 /\ tripped[r] = "none" /\ ~warned[r]
    BY DEF Init
  <2>4. ReportedOnce
    <3>1. \A r \in Runs : /\ Cardinality(Bearers(r, "limit")) = 0
                          /\ Cardinality(Bearers(r, "warn")) = 0
      BY <2>1, FS_EmptySet
    <3>2. \A r \in Runs :
            /\ limitEvents[r] + Cardinality(Bearers(r, "limit"))
                 = IF tripped[r] \in {"max_per_run_usd", "max_per_day_usd"} THEN 1 ELSE 0
            /\ warnEvents[r] + Cardinality(Bearers(r, "warn")) = IF warned[r] THEN 1 ELSE 0
      BY <2>3, <3>1
    <3> QED
      BY <3>2 DEF ReportedOnce, Bearers
  <2> QED
    BY <2>1, <2>2, <2>4, FS_EmptySet DEF ReportInv
<1>2. TypeOK /\ ReportInv /\ [Next]_vars => ReportInv'
  <2> SUFFICES ASSUME TypeOK, ReportInv, [Next]_vars
               PROVE  ReportInv'
    OBVIOUS
  <2> USE DEF vars, worldVars, ledgerVars, trackerVars, runVars, bodyVars, eventVars
  <2>1. ASSUME NEW r \in Runs, Process(r)
        PROVE  ReportInv'
    <3>1. UNCHANGED <<news, limitEvents, warnEvents, warned, tripped>>
      BY <2>1 DEF Process, StartRun, InstallCallbacks, AgentExits, KillLands, Conclude,
                  ExitProcess, Crash, Vanish
    <3>2. \A x \in Calls : pc'[x] = pc[x] \/ pc'[x] = "lost"
      BY <2>1 DEF Process, StartRun, InstallCallbacks, AgentExits, KillLands, Conclude,
                  ExitProcess, Crash, Vanish
    <3>3. \A q \in Runs : Capped(q)' = Capped(q)
      BY <3>1 DEF Capped
    <3> QED
      BY <3>1, <3>2, <3>3, NothingReported
  <2>2. CASE Midnight \/ UNCHANGED vars
    <3>1. UNCHANGED <<news, limitEvents, warnEvents, warned, tripped, pc>>
      BY <2>2 DEF Midnight
    <3>2. \A q \in Runs : Capped(q)' = Capped(q)
      BY <3>1 DEF Capped
    <3> QED
      BY <3>1, <3>2, NothingReported
  <2> QED
    BY <2>1, <2>2, HandlerReports DEF Next, Finished
<1>3. ReportInv => ReportedOnce
  BY DEF ReportInv
<1> QED
  BY <1>1, <1>2, <1>3, TypeCorrect, PTL DEF Spec

-----------------------------------------------------------------------------
(* SpendGate implements SpendPromise.                                      *)

\* What the refinement needs beside MeteringInv: a call costs what a response
\* may cost, and only the gate of a started run has handlers.
Served ==
  \A c \in Calls : /\ cost[c] \in Costs \union {0}
                   /\ pc[c] # "idle" => phase[Owner[c]] # "new"

\* A handler's step keeps it.
LEMMA HandlerServed ==
  ASSUME TypeOK, Served, NEW c \in Calls, Handler(c)
  PROVE  Served'
<1> USE DEF TypeOK, worldVars, ledgerVars, trackerVars, runVars, bodyVars, eventVars, Goto
<1>1. \A x \in Calls \ {c} : pc'[x] = pc[x] /\ cost'[x] = cost[x]
  BY HandlerFrame
<1>2. UNCHANGED phase
  BY DEF Handler, Arrive, Decide, Forward, Respond, Deliver, ReadEOF, StopReading, CloseBody,
         EnterCharge, AppendRecord, SumAndApply, Report, MeterFailure, FireSpendKill
<1>3. cost'[c] \in Costs \union {0}
  <2>1. CASE Respond(c)
    BY <2>1 DEF Respond, Served
  <2>2. CASE ~Respond(c)
    <3>1. UNCHANGED cost
      BY <2>2 DEF Handler, Arrive, Decide, Forward, Deliver, ReadEOF, StopReading, CloseBody,
                  EnterCharge, AppendRecord, SumAndApply, Report, MeterFailure, FireSpendKill
    <3> QED
      BY <3>1 DEF Served
  <2> QED
    BY <2>1, <2>2
<1>4. phase[Owner[c]] # "new"
  <2>1. CASE Arrive(c)
    BY <2>1 DEF Arrive, AgentAlive
  <2>2. CASE ~Arrive(c)
    <3>1. pc[c] # "idle"
      BY <2>2 DEF Handler, Decide, Forward, Respond, Deliver, ReadEOF, StopReading, CloseBody,
                  EnterCharge, AppendRecord, SumAndApply, Report, MeterFailure, FireSpendKill
    <3> QED
      BY <3>1 DEF Served
  <2> QED
    BY <2>1, <2>2
<1> QED
  BY <1>1, <1>2, <1>3, <1>4 DEF Served

\* So does a step of cmdRun: no run becomes new again.
LEMMA ProcessServed ==
  ASSUME TypeOK, Served, NEW r \in Runs, Process(r)
  PROVE  Served'
<1> USE DEF TypeOK, worldVars, ledgerVars, trackerVars, runVars, bodyVars, eventVars
<1>1. UNCHANGED cost
  BY DEF Process, StartRun, InstallCallbacks, AgentExits, KillLands, Conclude, ExitProcess,
         Crash, Vanish
<1>2. \A x \in Runs : phase'[x] = "new" => phase[x] = "new"
  BY DEF Process, StartRun, InstallCallbacks, AgentExits, KillLands, Conclude, ExitProcess,
         Crash, Vanish
<1>3. \A x \in Calls : pc'[x] = "idle" \/ pc[x] # "idle"
  BY DEF Process, StartRun, InstallCallbacks, AgentExits, KillLands, Conclude, ExitProcess,
         Crash, Vanish
<1> QED
  BY <1>1, <1>2, <1>3 DEF Served

\* It holds in every state.
LEMMA ServedHolds == Spec => []Served
<1>1. Init => Served
  BY DEF Init, Served
<1>2. TypeOK /\ Served /\ [Next]_vars => Served'
  <2> SUFFICES ASSUME TypeOK, Served, [Next]_vars
               PROVE  Served'
    OBVIOUS
  <2>1. CASE Midnight \/ UNCHANGED vars
    BY <2>1 DEF Midnight, Served, vars, worldVars, ledgerVars, trackerVars, runVars, bodyVars,
                eventVars
  <2> QED
    BY <2>1, HandlerServed, ProcessServed DEF Next, Finished
<1> QED
  BY <1>1, <1>2, TypeCorrect, PTL DEF Spec

\* The mapped stage of every call.
Stages == [c \in Calls |-> Stage(c)]

\* A handler's step moves the mapped stage of its own call alone.
LEMMA HandlerStages ==
  ASSUME TypeOK, NEW c \in Calls, Handler(c)
  PROVE  Stages' = [Stages EXCEPT ![c] = Stage(c)']
<1>1. \A x \in Calls \ {c} : pc'[x] = pc[x] /\ charges'[x] = charges[x]
  BY HandlerFrame
<1>2. \A x \in Calls \ {c} : Stage(x)' = Stage(x)
  BY <1>1 DEF Stage
<1> QED
  BY <1>2 DEF Stages

\* The charge that is applied is a Charge of the promise: the run total grows by
\* what the call costs, and the cap it crosses is the verdict of the same step.
LEMMA ApplyPromise ==
  ASSUME TypeOK, MeteringInv, Served, NEW c \in Calls, NEW daySum \in Nat, Handler(c),
         pc[c] \in {"charging", "summing"}, Apply(c, daySum), UNCHANGED <<budget, phase, delivered>>
  PROVE  Promise!Charge(c)
<1> DEFINE r == Owner[c]
           v == Crossed(r, runTotal[r] + cost[c], daySum)
<1>1. r \in Runs /\ budget[r] \in [perRun : Nat, perDay : Nat, warnPct : 0..100]
  BY DEF TypeOK
<1>2. charges[c] = 0 /\ Stage(c) = "admitted"
  <2>1. charges[c] \in Nat /\ charges[c] <= 1 /\ charges[c] # 1
    BY DEF MeteringInv, MeteredCorrectly, TypeOK
  <2>2. \A n \in Nat : n <= 1 /\ n # 1 => n = 0
    OBVIOUS
  <2>3. charges[c] = 0
    BY <2>1, <2>2
  <2> QED
    BY <2>3 DEF Stage
<1>3. Stage(c)' = "charged"
  BY <1>2 DEF Apply, TypeOK, Stage
<1>4. Stages' = [Stages EXCEPT ![c] = "charged"] /\ Stages[c] = "admitted"
  BY <1>2, <1>3, HandlerStages DEF Stages
<1>5. /\ runTotal' = [runTotal EXCEPT ![r] = @ + cost[c]]
      /\ runTotal'[r] = runTotal[r] + cost[c] /\ cost[c] \in Costs \union {0}
  BY <1>1 DEF Apply, TypeOK, Served
<1>6. /\ v \in {"none", "max_per_run_usd", "max_per_day_usd"}
      /\ v = "max_per_run_usd" <=> budget[r].perRun > 0 /\ runTotal'[r] > budget[r].perRun
      /\ v = "max_per_day_usd" => budget[r].perDay > 0
  BY <1>5 DEF Crossed, PerRun, PerDay
<1>7. tripped' = [tripped EXCEPT ![r] = IF @ = "none" THEN v ELSE @]
  BY <1>1 DEF Apply, FirstViolation, TypeOK
<1>8. [x \in Runs |-> phase[x] = "exited"]' = [x \in Runs |-> phase[x] = "exited"]
  OBVIOUS
<1> HIDE DEF v
<1> QED
  BY <1>4, <1>5, <1>6, <1>7, <1>8 DEF Promise!Charge, Stages

\* A handler's step is a step of the promise for its call, or none.
LEMMA HandlerPromise ==
  ASSUME TypeOK, MeteringInv, Served, NEW c \in Calls, Handler(c)
  PROVE  \/ Promise!Admit(c) \/ Promise!Settle(c) \/ Promise!Hold(c) \/ Promise!Charge(c)
         \/ Promise!Stop(Owner[c]) \/ UNCHANGED Promise!vars
<1> USE DEF worldVars, ledgerVars, trackerVars, runVars, bodyVars, eventVars, Goto
<1>0. MeteredCorrectly(c) /\ Owner[c] \in Runs /\ charges[c] \in Nat /\ charges[c] <= 1
  BY DEF MeteringInv, MeteredCorrectly, TypeOK
<1>a. Stages' = [Stages EXCEPT ![c] = Stage(c)'] /\ Stages[c] = Stage(c)
  BY HandlerStages DEF Stages
<1>b. ASSUME UNCHANGED phase
      PROVE  [x \in Runs |-> phase[x] = "exited"]' = [x \in Runs |-> phase[x] = "exited"]
  BY <1>b
<1>c. ASSUME UNCHANGED <<budget, delivered, runTotal, tripped, phase>>, Stage(c)' = Stage(c)
      PROVE  UNCHANGED Promise!vars
  <2>1. Stages' = Stages
    BY <1>a, <1>c DEF Stages
  <2> QED
    BY <1>c, <1>b, <2>1 DEF Promise!vars, Stages
<1>d. ASSUME UNCHANGED <<budget, delivered, runTotal, tripped, phase>>, Stage(c)' = "settled",
             Stage(c) \in {"idle", "admitted"}, Stage(c) = "idle" => tripped[Owner[c]] # "none",
             delivered[c] => tripped[Owner[c]] # "none"
      PROVE  Promise!Settle(c)
  BY <1>a, <1>b, <1>d DEF Promise!Settle, Stages
<1>1. CASE Arrive(c)
  <2>1. /\ charges[c] = 0 /\ ~delivered[c]
        /\ UNCHANGED <<budget, delivered, runTotal, tripped, phase, charges>>
    BY <1>0, <1>1 DEF Arrive, MeteredCorrectly
  <2>2. Stage(c) = "idle"
    BY <1>1, <2>1 DEF Arrive, Stage
  <2>3. CASE tripped[Owner[c]] # "none"
    <3>1. Stage(c)' = "settled"
      BY <1>1, <2>1, <2>3 DEF Arrive, Stage, TypeOK
    <3> QED
      BY <1>d, <2>1, <2>2, <2>3, <3>1
  <2>4. CASE tripped[Owner[c]] = "none"
    <3>1. Stage(c)' = "admitted"
      BY <1>1, <2>1, <2>4 DEF Arrive, Stage, TypeOK
    <3> QED
      BY <1>a, <1>b, <2>1, <2>2, <2>4, <3>1 DEF Promise!Admit, Stages
  <2> QED
    BY <2>3, <2>4
<1>2. CASE Decide(c) \/ Forward(c) \/ Respond(c)
  <2>1. /\ charges[c] = 0 /\ ~delivered[c]
        /\ UNCHANGED <<budget, delivered, runTotal, tripped, phase, charges>>
    BY <1>0, <1>2 DEF Decide, Forward, Respond, MeteredCorrectly
  <2>2. Stage(c) = "admitted"
    BY <1>2, <2>1 DEF Decide, Forward, Respond, Stage
  <2>3. pc'[c] = "done" \/ pc'[c] \in {"admitted", "upstream", "streaming"}
    BY <1>2 DEF Decide, Forward, Respond, TypeOK
  <2>4. Stage(c)' = "settled" \/ Stage(c)' = "admitted"
    BY <2>1, <2>3 DEF Stage
  <2> QED
    BY <1>c, <1>d, <2>1, <2>2, <2>4
<1>3. CASE Deliver(c)
  <2>1. Stage(c) \in {"admitted", "charged"} /\ Stage(c)' = Stage(c)
    BY <1>3 DEF Deliver, Stage
  <2>2. /\ delivered' = [delivered EXCEPT ![c] = TRUE]
        /\ UNCHANGED <<budget, runTotal, tripped, phase>>
    BY <1>3 DEF Deliver
  <2>3. Stages' = Stages
    BY <1>a, <2>1 DEF Stages
  <2> QED
    BY <1>a, <1>b, <2>1, <2>2, <2>3 DEF Promise!Hold, Stages
<1>4. CASE ReadEOF(c) \/ StopReading(c)
  <2>1. /\ charges[c] = 0
        /\ UNCHANGED <<budget, delivered, runTotal, tripped, phase, charges>>
    BY <1>0, <1>4 DEF ReadEOF, StopReading, MeteredCorrectly
  <2>2. Stage(c) = "admitted" /\ Stage(c)' = "admitted"
    BY <1>4, <2>1 DEF ReadEOF, StopReading, Finish, Stage, TypeOK
  <2> QED
    BY <1>c, <2>1, <2>2
<1>5. CASE CloseBody(c)
  <2>1. UNCHANGED <<budget, delivered, runTotal, tripped, phase, charges>>
    BY <1>5 DEF CloseBody
  <2>2. CASE charges[c] > 0
    BY <1>c, <2>1, <2>2 DEF Stage
  <2>3. CASE ~(charges[c] > 0)
    <3>1. Stage(c) = "admitted"
      BY <1>5, <2>3 DEF CloseBody, Stage
    <3>2. CASE pc'[c] = "done"
      <4>1. metered[c]
        BY <1>5, <3>2 DEF CloseBody, NeedsDrain, Finish, TypeOK
      <4>2. charges[c] # 1
        BY <2>3
      <4>3. delivered[c] => tripped[Owner[c]] # "none"
        BY <1>0, <1>5, <4>1, <4>2 DEF CloseBody, MeteredCorrectly
      <4>4. Stage(c)' = "settled"
        BY <2>1, <2>3, <3>2 DEF Stage
      <4> QED
        BY <1>d, <2>1, <3>1, <4>3, <4>4
    <3>3. CASE pc'[c] # "done"
      <4>1. pc'[c] \in {"charging", "closing", "failing"}
        BY <1>5, <3>3 DEF CloseBody, Finish, TypeOK
      <4>2. Stage(c)' = "admitted"
        BY <2>1, <2>3, <4>1 DEF Stage
      <4> QED
        BY <1>c, <2>1, <3>1, <4>2
    <3> QED
      BY <3>2, <3>3
  <2> QED
    BY <2>2, <2>3
<1>6. CASE EnterCharge(c)
  <2>1. CASE Apply(c, 0)
    BY <1>6, <2>1, ApplyPromise DEF EnterCharge
  <2>2. CASE ~Apply(c, 0)
    <3>1. /\ UNCHANGED <<budget, delivered, runTotal, tripped, phase, charges>>
          /\ pc'[c] \in {"failing", "writing"} /\ pc[c] = "charging"
      BY <1>6, <2>2 DEF EnterCharge, TypeOK
    <3>2. Stage(c)' = Stage(c)
      BY <3>1 DEF Stage
    <3> QED
      BY <1>c, <3>1, <3>2
  <2> QED
    BY <2>1, <2>2
<1>7. CASE AppendRecord(c)
  <2>1. /\ UNCHANGED <<budget, delivered, runTotal, tripped, phase, charges>>
        /\ pc'[c] \in {"failing", "summing"} /\ pc[c] = "writing"
    BY <1>7 DEF AppendRecord, FailCharge, TypeOK
  <2>2. Stage(c)' = Stage(c)
    BY <2>1 DEF Stage
  <2> QED
    BY <1>c, <2>1, <2>2
<1>8. CASE SumAndApply(c)
  <2>1. CASE Apply(c, fileTotal[day[c]])
    <3>1. fileTotal[day[c]] \in Nat
      BY DEF TypeOK
    <3> QED
      BY <1>8, <2>1, <3>1, ApplyPromise DEF SumAndApply
  <2>2. CASE FailCharge(c)
    <3>1. /\ UNCHANGED <<budget, delivered, runTotal, tripped, phase, charges>>
          /\ pc'[c] = "failing" /\ pc[c] = "summing"
      BY <1>8, <2>2 DEF SumAndApply, FailCharge, TypeOK
    <3>2. Stage(c)' = Stage(c)
      BY <3>1 DEF Stage
    <3> QED
      BY <1>c, <3>1, <3>2
  <2> QED
    BY <1>8, <2>1, <2>2 DEF SumAndApply
<1>9. CASE Report(c) \/ FireSpendKill(c)
  <2>1. UNCHANGED <<budget, delivered, runTotal, tripped, phase, charges>>
    BY <1>9 DEF Report, FireSpendKill
  <2>2. Stage(c)' = Stage(c)
    BY <1>9, <2>1 DEF Report, FireSpendKill, Stage, TypeOK
  <2> QED
    BY <1>c, <2>1, <2>2
<1>10. CASE MeterFailure(c)
  <2>1. UNCHANGED <<budget, delivered, runTotal, phase, charges>>
    BY <1>10 DEF MeterFailure
  <2>2. Stage(c)' = Stage(c)
    BY <1>10, <2>1 DEF MeterFailure, Stage, TypeOK
  <2>3. CASE tripped[Owner[c]] # "none"
    <3>1. UNCHANGED tripped
      BY <1>0, <1>10, <2>3 DEF MeterFailure, FirstViolation, TypeOK
    <3> QED
      BY <1>c, <2>1, <2>2, <3>1
  <2>4. CASE tripped[Owner[c]] = "none"
    <3>1. tripped' = [tripped EXCEPT ![Owner[c]] = "metering_failure"]
      BY <1>10, <2>4 DEF MeterFailure, FirstViolation
    <3>2. Stages' = Stages
      BY <1>a, <2>2 DEF Stages
    <3> QED
      BY <1>b, <2>1, <2>4, <3>1, <3>2 DEF Promise!Stop, Stages
  <2> QED
    BY <2>3, <2>4
<1> QED
  BY <1>1, <1>2, <1>3, <1>4, <1>5, <1>6, <1>7, <1>8, <1>9, <1>10 DEF Handler

\* A step of cmdRun ends the run or is none of the promise's business.
LEMMA ProcessPromise ==
  ASSUME TypeOK, MeteringInv, Served, NEW r \in Runs, Process(r)
  PROVE  Promise!End(r) \/ UNCHANGED Promise!vars
<1> USE DEF worldVars, ledgerVars, trackerVars, runVars, bodyVars, eventVars
<1> DEFINE Ended == [x \in Runs |-> phase[x] = "exited"]
<1>1. CASE phase' = [phase EXCEPT ![r] = "exited"]
  <2>1. UNCHANGED <<budget, delivered, runTotal, tripped, charges>>
    BY DEF Process, StartRun, InstallCallbacks, AgentExits, KillLands, Conclude, ExitProcess,
           Crash, Vanish
  <2>2. Ended' = [Ended EXCEPT ![r] = TRUE]
    BY <1>1 DEF TypeOK
  <2>3. CASE StartRun(r)
    <3>1. \A x \in Calls : Owner[x] = r => pc[x] = "idle"
      BY <2>3 DEF StartRun, Served
    <3>2. UNCHANGED pc
      BY <2>3 DEF StartRun
    <3>3. Stages' = [x \in Calls |-> IF Owner[x] = r /\ Stages[x] = "admitted"
                                     THEN "settled" ELSE Stages[x]]
      BY <2>1, <3>1, <3>2 DEF Stages, Stage
    <3> QED
      BY <2>1, <2>2, <3>3 DEF Promise!End, Stages
  <2>4. CASE ~StartRun(r)
    <3>1. Vanish(r)
      BY <1>1, <2>4 DEF Process, InstallCallbacks, AgentExits, KillLands, Conclude, ExitProcess,
                        Crash, AgentAlive, TypeOK
    <3>2. \A x \in Calls : Stage(x)' = IF Owner[x] = r /\ Stage(x) = "admitted"
                                       THEN "settled" ELSE Stage(x)
      BY <2>1, <3>1 DEF Vanish, Stage, TypeOK
    <3>3. Stages' = [x \in Calls |-> IF Owner[x] = r /\ Stages[x] = "admitted"
                                     THEN "settled" ELSE Stages[x]]
      BY <3>2 DEF Stages
    <3> QED
      BY <2>1, <2>2, <3>3 DEF Promise!End, Stages
  <2> QED
    BY <2>3, <2>4
<1>2. CASE phase' # [phase EXCEPT ![r] = "exited"]
  <2>1. UNCHANGED <<budget, delivered, runTotal, tripped, charges, pc>>
    BY <1>2 DEF Process, StartRun, InstallCallbacks, AgentExits, KillLands, Conclude, ExitProcess,
                Crash, Vanish
  <2>2. Ended' = Ended
    <3>1. \A x \in Runs : phase'[x] = "exited" <=> phase[x] = "exited"
      BY <1>2 DEF Process, StartRun, InstallCallbacks, AgentExits, KillLands, Conclude,
                  ExitProcess, Crash, Vanish, TypeOK
    <3> QED
      BY <3>1
  <2>3. Stages' = Stages
    BY <2>1 DEF Stages, Stage
  <2> QED
    BY <2>1, <2>2, <2>3 DEF Promise!vars, Stages
<1> QED
  BY <1>1, <1>2

\* The gate, the tracker, the ledger and cmdRun do together what the spending
\* path promises, step by step: no call admitted after a verdict, none charged
\* twice, the per-run cap judged in the step of the charge, the first verdict
\* standing and no result for free (ServeHTTP, meterBody, Tracker.Charge).
THEOREM KeepsPromiseHolds == Spec => KeepsPromise
<1>1. Init => Promise!Init
  <2> SUFFICES ASSUME Init
               PROVE  Promise!Init
    OBVIOUS
  <2>1. \A c \in Calls : Stage(c) = "idle"
    BY DEF Init, Stage
  <2>2. \A r \in Runs : phase[r] # "exited"
    BY DEF Init
  <2> QED
    BY <2>1, <2>2 DEF Init, Promise!Init
<1>2. TypeOK /\ MeteringInv /\ Served /\ [Next]_vars => [Promise!Next]_(Promise!vars)
  <2> SUFFICES ASSUME TypeOK, MeteringInv, Served, [Next]_vars
               PROVE  Promise!Next \/ UNCHANGED Promise!vars
    OBVIOUS
  <2>1. CASE \E c \in Calls : Handler(c)
    <3>1. PICK c \in Calls : Handler(c)
      BY <2>1
    <3>2. Owner[c] \in Runs
      OBVIOUS
    <3> QED
      BY <3>1, <3>2, HandlerPromise DEF Promise!Next
  <2>2. CASE \E r \in Runs : Process(r)
    BY <2>2, ProcessPromise DEF Promise!Next
  <2>3. CASE Midnight \/ UNCHANGED vars
    <3>1. UNCHANGED <<budget, delivered, runTotal, tripped, charges, pc, phase>>
      BY <2>3 DEF Midnight, vars, worldVars, ledgerVars, trackerVars, runVars, bodyVars, eventVars
    <3>2. \A c \in Calls : Stage(c)' = Stage(c)
      BY <3>1 DEF Stage
    <3> QED
      BY <3>1, <3>2 DEF Promise!vars
  <2> QED
    BY <2>1, <2>2, <2>3 DEF Next, Finished
<1> QED
  BY <1>1, <1>2, TypeCorrect, MeteringCorrect, ServedHolds, PTL DEF Spec, KeepsPromise, Promise!Spec

-----------------------------------------------------------------------------
(* The trackers agree with the shared ledger and no run passes its daily   *)
(* cap unnoticed, for every number of runs, calls and midnights, every     *)
(* budget and every cost.                                                  *)

IInv == LockHeld /\ LedgerInv /\ DayInv

\* A step that leaves ledger, totals and lock alone: no handler enters or
\* leaves Append or a metering failure, but one may begin to fail; what is
\* stopped or over stays so.
Quiet ==
  /\ UNCHANGED <<budget, mu, runTotal, recorded, fileTotal, lastWriter, day>>
  /\ \A r \in Runs : tripped[r] # "none" => tripped'[r] # "none"
  /\ \A r \in Runs : phase[r] = "exited" => phase'[r] = "exited"
  /\ \A x \in Calls : pc[x] \in {"writing", "summing", "failing"} =>
       pc'[x] = pc[x] /\ cost'[x] = cost[x]
  /\ \A x \in Calls : pc'[x] \in {"writing", "summing"} => pc'[x] = pc[x]

\* Quiet steps keep the invariant.
LEMMA QuietKeeps ==
  ASSUME TypeOK, IInv, Quiet
  PROVE  IInv'
<1> USE DEF IInv, Quiet
<1>1. \A r \in Runs : HasStore(r)' = HasStore(r) /\ PerDay(r)' = PerDay(r)
  BY DEF HasStore, PerDay
<1>2. LockHeld'
  <2>1. ASSUME NEW x \in Calls, pc'[x] \in {"writing", "summing"}
        PROVE  mu'[Owner[x]] = x /\ HasStore(Owner[x])'
    BY <2>1 DEF LockHeld, HasStore, PerDay
  <2>2. ASSUME NEW r \in Runs, mu'[r] # NoCall
        PROVE  mu'[r] \in CallsOf(r)' /\ pc'[mu'[r]] \in {"writing", "summing"}
    <3>1. mu[r] \in CallsOf(r) /\ pc[mu[r]] \in {"writing", "summing"}
      BY <2>2 DEF LockHeld
    <3> QED
      BY <3>1 DEF CallsOf
  <2> QED
    BY <2>1, <2>2 DEF LockHeld
<1>3. \A r \in Runs : Pending(r)' = Pending(r)
  <2> TAKE r \in Runs
  <2>1. CASE mu[r] = NoCall
    BY <2>1 DEF Pending
  <2>2. CASE mu[r] # NoCall
    <3>1. mu[r] \in Calls
      BY <2>2 DEF TypeOK
    <3> QED
      BY <2>2, <3>1 DEF Pending
  <2> QED
    BY <2>1, <2>2
<1>4. \A r \in Runs : Stopping(r) => Stopping(r)'
  BY DEF Stopping, Failing, CallsOf
<1>5. LedgerInv'
  BY <1>1, <1>3, <1>4 DEF LedgerInv
<1>6. DayInv'
  <2> SUFFICES ASSUME NEW d \in Days, NEW r \in lastWriter[d]
               PROVE  (/\ r \in Runs /\ HasStore(r)
                       /\ fileTotal[d] > PerDay(r) =>
                            Stopping(r) \/ \E c \in CallsOf(r) : pc[c] = "summing" /\ day[c] = d)'
    BY DEF DayInv
  <2>1. r \in Runs /\ HasStore(r)
    BY DEF DayInv
  <2>2. (\E c \in CallsOf(r) : pc[c] = "summing" /\ day[c] = d) =>
          (\E c \in CallsOf(r) : pc[c] = "summing" /\ day[c] = d)'
    BY DEF CallsOf
  <2> QED
    BY <1>1, <1>4, <2>1, <2>2 DEF DayInv
<1> QED
  BY <1>2, <1>5, <1>6

\* The handler's steps outside Tracker and Append.
LEMMA QuietHandler ==
  ASSUME TypeOK, NEW c \in Calls,
         \/ Arrive(c) \/ Decide(c) \/ Forward(c) \/ Respond(c)
         \/ Deliver(c) \/ ReadEOF(c) \/ StopReading(c) \/ CloseBody(c)
         \/ Report(c) \/ FireSpendKill(c)
  PROVE  Quiet
<1> USE DEF TypeOK, Quiet, Goto, worldVars, ledgerVars, trackerVars, runVars, bodyVars, eventVars
<1>1. CASE Arrive(c) \/ Decide(c) \/ Forward(c)
  BY <1>1 DEF Arrive, Decide, Forward
<1>2. CASE Respond(c)
  BY <1>2 DEF Respond
<1>3. CASE Deliver(c) \/ ReadEOF(c) \/ StopReading(c)
  BY <1>3 DEF Deliver, ReadEOF, StopReading, Finish
<1>4. CASE CloseBody(c)
  BY <1>4 DEF CloseBody, Finish
<1>5. CASE Report(c) \/ FireSpendKill(c)
  BY <1>5 DEF Report, FireSpendKill
<1> QED
  BY <1>1, <1>2, <1>3, <1>4, <1>5

\* The steps of cmdRun but its end.
LEMMA QuietProcess ==
  ASSUME TypeOK, NEW r \in Runs,
         StartRun(r) \/ InstallCallbacks(r) \/ AgentExits(r) \/ KillLands(r) \/ Conclude(r)
  PROVE  Quiet
  BY DEF TypeOK, Quiet, StartRun, InstallCallbacks, AgentExits, KillLands, Conclude,
         AgentAlive, worldVars, ledgerVars, trackerVars, runVars, bodyVars, eventVars

-----------------------------------------------------------------------------
(* The steps that move the ledger, a total or the lock.                    *)

\* What handler c has in the ledger and not yet in the total after its step.
InFlight(c) == IF pc'[c] = "summing" THEN cost[c] ELSE 0
StopsAfter(c) ==
  Stopping(Owner[c]) \/ pc'[c] = "failing" \/ tripped'[Owner[c]] # "none"

\* A step of Charge or Trip moves only its handler, the tracker and the ledger
\* total of its run, and the last record of a day, under the tracker's mutex.
ChargeFrame(c) ==
  LET r == Owner[c] IN
  /\ pc[c] = "failing" => tripped'[r] # "none"
  /\ mu[r] \in {NoCall, c} /\ mu'[r] \in {NoCall, c}
  /\ UNCHANGED <<budget, phase, cost>>
  /\ \A x \in Calls \ {c} : pc'[x] = pc[x] /\ day'[x] = day[x]
  /\ \A x \in Runs \ {r} :
       /\ mu'[x] = mu[x] /\ runTotal'[x] = runTotal[x] /\ recorded'[x] = recorded[x]
       /\ tripped'[x] = tripped[x]
  /\ tripped[r] # "none" => tripped'[r] # "none"
  /\ \A d \in Days :
       /\ lastWriter'[d] \subseteq lastWriter[d] \union {r}
       /\ \A x \in lastWriter'[d] : x # r => fileTotal'[d] = fileTotal[d]

\* It keeps the invariant if it does so for its own run.
LEMMA ChargeKeeps ==
  ASSUME TypeOK, IInv, NEW c \in Calls, ChargeFrame(c),
         mu'[Owner[c]] = c <=> pc'[c] \in {"writing", "summing"},
         mu'[Owner[c]] = c => HasStore(Owner[c]),
         HasStore(Owner[c]) =>
           /\ runTotal'[Owner[c]] + InFlight(c) <= recorded'[Owner[c]]
           /\ recorded'[Owner[c]] = runTotal'[Owner[c]] + InFlight(c) \/ StopsAfter(c),
         \A d \in Days : Owner[c] \in lastWriter'[d] =>
           /\ HasStore(Owner[c])
           /\ fileTotal'[d] > PerDay(Owner[c]) =>
                StopsAfter(c) \/ (pc'[c] = "summing" /\ day'[c] = d)
  PROVE  IInv'
<1> DEFINE r == Owner[c]
<1> USE DEF IInv, ChargeFrame
<1>1. r \in Runs /\ c # NoCall
  BY NoCallAssumption
<1>2. \A x \in CallsOf(r) \ {c} : pc[x] \notin {"writing", "summing"}
  BY <1>1, NoCallAssumption DEF LockHeld, CallsOf
<1>3. LockHeld'
  <2>1. ASSUME NEW x \in Calls, pc'[x] \in {"writing", "summing"}
        PROVE  mu'[Owner[x]] = x /\ HasStore(Owner[x])'
    <3>1. CASE x = c
      BY <2>1, <3>1 DEF HasStore, PerDay
    <3>2. CASE x # c
      BY <1>2, <2>1, <3>2 DEF LockHeld, CallsOf, HasStore, PerDay
    <3> QED
      BY <3>1, <3>2
  <2>2. ASSUME NEW x \in Runs, mu'[x] # NoCall
        PROVE  mu'[x] \in CallsOf(x)' /\ pc'[mu'[x]] \in {"writing", "summing"}
    <3>1. CASE x = r
      BY <2>2, <3>1 DEF CallsOf
    <3>2. CASE x # r
      <4>1. mu'[x] = mu[x] /\ mu[x] \in CallsOf(x) /\ pc[mu[x]] \in {"writing", "summing"}
        BY <2>2, <3>2 DEF LockHeld
      <4>2. mu[x] # c
        BY <3>2, <4>1 DEF CallsOf
      <4> QED
        BY <4>1, <4>2 DEF CallsOf
    <3> QED
      BY <3>1, <3>2
  <2> QED
    BY <2>1, <2>2 DEF LockHeld
<1>4. LedgerInv'
  <2> SUFFICES ASSUME NEW x \in Runs, HasStore(x)'
               PROVE  (/\ runTotal[x] + Pending(x) <= recorded[x]
                       /\ recorded[x] = runTotal[x] + Pending(x) \/ Stopping(x))'
    BY DEF LedgerInv
  <2>1. CASE x = r
    <3>1. HasStore(r)
      BY <2>1 DEF HasStore, PerDay
    <3>2. Pending(x)' = InFlight(c)
      BY <1>1, <2>1 DEF Pending, InFlight
    <3>3. StopsAfter(c) => Stopping(x)'
      BY <2>1 DEF StopsAfter, Stopping, Failing, CallsOf
    <3> QED
      BY <2>1, <3>1, <3>2, <3>3
  <2>2. CASE x # r
    <3>1. HasStore(x)
      BY DEF HasStore, PerDay
    <3>2. mu[x] # NoCall => mu[x] \in Calls /\ mu[x] # c
      BY <2>2 DEF LockHeld, CallsOf
    <3>3. Pending(x)' = Pending(x)
      BY <2>2, <3>2 DEF Pending
    <3>4. Stopping(x) => Stopping(x)'
      BY <2>2 DEF Stopping, Failing, CallsOf
    <3> QED
      BY <2>2, <3>1, <3>3, <3>4 DEF LedgerInv
  <2> QED
    BY <2>1, <2>2
<1>5. DayInv'
  <2> SUFFICES ASSUME NEW d \in Days, NEW x \in lastWriter'[d]
               PROVE  (/\ x \in Runs /\ HasStore(x)
                       /\ fileTotal[d] > PerDay(x) =>
                            Stopping(x) \/ \E y \in CallsOf(x) : pc[y] = "summing" /\ day[y] = d)'
    BY DEF DayInv
  <2>1. CASE x = r
    <3>1. StopsAfter(c) => Stopping(x)'
      BY <2>1 DEF StopsAfter, Stopping, Failing, CallsOf
    <3>2. (pc'[c] = "summing" /\ day'[c] = d) =>
            (\E y \in CallsOf(x) : pc[y] = "summing" /\ day[y] = d)'
      BY <2>1 DEF CallsOf
    <3>3. HasStore(x)' /\ (fileTotal'[d] > PerDay(x)' =>
            StopsAfter(c) \/ (pc'[c] = "summing" /\ day'[c] = d))
      BY <2>1 DEF HasStore, PerDay
    <3> QED
      BY <1>1, <2>1, <3>1, <3>2, <3>3
  <2>2. CASE x # r
    <3>1. x \in lastWriter[d] /\ fileTotal'[d] = fileTotal[d]
      BY <2>2
    <3>2. /\ x \in Runs /\ HasStore(x)
          /\ fileTotal[d] > PerDay(x) =>
               Stopping(x) \/ \E y \in CallsOf(x) : pc[y] = "summing" /\ day[y] = d
      BY <3>1 DEF DayInv
    <3>3. HasStore(x)' /\ PerDay(x)' = PerDay(x)
      BY <3>2 DEF HasStore, PerDay
    <3>4. Stopping(x) => Stopping(x)'
      BY <2>2, <3>2 DEF Stopping, Failing, CallsOf
    <3>5. (\E y \in CallsOf(x) : pc[y] = "summing" /\ day[y] = d) =>
            (\E y \in CallsOf(x) : pc[y] = "summing" /\ day[y] = d)'
      BY <2>2 DEF CallsOf
    <3> QED
      BY <3>1, <3>2, <3>3, <3>4, <3>5
  <2> QED
    BY <2>1, <2>2
<1> QED
  BY <1>3, <1>4, <1>5

\* The mutex is free for a handler that enters Charge and held by one inside.
LEMMA MutexOf ==
  ASSUME TypeOK, IInv, NEW c \in Calls
  PROVE  /\ Owner[c] \in Runs
         /\ pc[c] \in {"writing", "summing"} => mu[Owner[c]] = c /\ HasStore(Owner[c])
         /\ mu[Owner[c]] = NoCall => Pending(Owner[c]) = 0
         /\ pc[c] = "writing" => Pending(Owner[c]) = 0
         /\ pc[c] = "summing" => Pending(Owner[c]) = cost[c]
  BY DEF IInv, LockHeld, Pending

\* What the invariant says of the run of a charging handler.
LEMMA OwnLedger ==
  ASSUME TypeOK, IInv, NEW c \in Calls, HasStore(Owner[c])
  PROVE  /\ runTotal[Owner[c]] + Pending(Owner[c]) <= recorded[Owner[c]]
         /\ \/ recorded[Owner[c]] = runTotal[Owner[c]] + Pending(Owner[c])
            \/ Stopping(Owner[c])
  BY DEF IInv, LedgerInv

\* Another handler of the run cannot be inside Append as well.
LEMMA OwnDay ==
  ASSUME TypeOK, IInv, NEW c \in Calls, mu[Owner[c]] \in {NoCall, c},
         NEW d \in Days, Owner[c] \in lastWriter[d]
  PROVE  /\ HasStore(Owner[c])
         /\ fileTotal[d] > PerDay(Owner[c]) =>
              Stopping(Owner[c]) \/ (pc[c] = "summing" /\ day[c] = d)
  BY DEF IInv, DayInv, LockHeld, CallsOf

\* Charge goes on to Append, fails at once, or applies without a ledger.
LEMMA EnterChargeKeeps ==
  ASSUME TypeOK, IInv, NEW c \in Calls, EnterCharge(c)
  PROVE  IInv'
<1> DEFINE r == Owner[c]
<1> USE DEF TypeOK, Goto, worldVars, ledgerVars, trackerVars, runVars, bodyVars
<1>0. /\ r \in Runs /\ pc[c] = "charging" /\ mu[r] = NoCall /\ Pending(r) = 0
      /\ UNCHANGED <<budget, phase, cost, recorded, fileTotal, lastWriter>>
  BY MutexOf DEF EnterCharge
<1>1. CASE Goto(c, "failing") /\ UNCHANGED <<mu, runTotal, warned, tripped, charges, day, news>>
  <2>1. Quiet
    BY <1>0, <1>1 DEF Quiet
  <2> QED
    BY <2>1, QuietKeeps
<1>2. CASE ~HasStore(r) /\ Apply(c, 0) /\ UNCHANGED day
  <2>1. pc'[c] = "reporting" /\ mu'[r] = NoCall
    BY <1>0, <1>2 DEF Apply
  <2>2. ChargeFrame(c)
    BY <1>0, <1>2 DEF ChargeFrame, Apply, FirstViolation
  <2>3. \A d \in Days : r \notin lastWriter'[d]
    BY <1>0, <1>2 DEF IInv, DayInv
  <2> QED
    BY <1>2, <2>1, <2>2, <2>3, ChargeKeeps
<1>3. CASE /\ HasStore(r)
           /\ mu' = [mu EXCEPT ![r] = c]
           /\ day' = [day EXCEPT ![c] = today]
           /\ Goto(c, "writing")
           /\ UNCHANGED <<runTotal, warned, tripped, charges, news>>
  <2>1. pc'[c] = "writing" /\ mu'[r] = c
    BY <1>0, <1>3
  <2>2. ChargeFrame(c)
    BY <1>0, <1>3 DEF ChargeFrame
  <2>3. \A d \in Days : r \in lastWriter'[d] =>
          HasStore(r) /\ (fileTotal'[d] > PerDay(r) => StopsAfter(c))
    BY <1>0, OwnDay DEF StopsAfter
  <2>4. /\ runTotal'[r] + InFlight(c) <= recorded'[r]
        /\ recorded'[r] = runTotal'[r] + InFlight(c) \/ StopsAfter(c)
    BY <1>0, <1>3, <2>1, OwnLedger DEF InFlight, StopsAfter
  <2> QED
    BY <1>3, <2>1, <2>2, <2>3, <2>4, ChargeKeeps
<1> QED
  BY <1>0, <1>1, <1>2, <1>3 DEF EnterCharge

\* An error out of Append: whatever it left in the ledger, the run stops.
LEMMA FailChargeKeeps ==
  ASSUME TypeOK, IInv, NEW c \in Calls, FailCharge(c),
         pc[c] \in {"writing", "summing"},
         UNCHANGED <<budget, phase, cost, recorded, fileTotal, lastWriter, day>>
  PROVE  IInv'
<1> DEFINE r == Owner[c]
<1> USE DEF TypeOK, Goto
<1>0. r \in Runs /\ mu[r] = c /\ HasStore(r) /\ Pending(r) \in Nat
  BY MutexOf
<1>1. pc'[c] = "failing" /\ mu'[r] = NoCall /\ UNCHANGED <<runTotal, tripped>>
  BY <1>0 DEF FailCharge
<1>2. ChargeFrame(c)
  BY <1>0, <1>1 DEF ChargeFrame, FailCharge
<1>3. StopsAfter(c)
  BY <1>1 DEF StopsAfter
<1>4. runTotal'[r] + InFlight(c) <= recorded'[r]
  <2>1. runTotal[r] + Pending(r) <= recorded[r]
    BY <1>0, OwnLedger
  <2>2. InFlight(c) = 0 /\ runTotal[r] \in Nat /\ recorded[r] \in Nat
    BY <1>0, <1>1 DEF InFlight
  <2> QED
    BY <1>0, <1>1, <2>1, <2>2
<1> QED
  BY <1>0, <1>1, <1>2, <1>3, <1>4, ChargeKeeps

\* The record lands, or Append fails before it does.
LEMMA AppendRecordKeeps ==
  ASSUME TypeOK, IInv, NEW c \in Calls, AppendRecord(c)
  PROVE  IInv'
<1> DEFINE r == Owner[c]
<1> USE DEF TypeOK, Goto, worldVars, ledgerVars, trackerVars, runVars, bodyVars
<1>0. /\ r \in Runs /\ pc[c] = "writing" /\ mu[r] = c /\ HasStore(r) /\ Pending(r) = 0
      /\ UNCHANGED <<budget, phase, cost, day>>
  BY MutexOf DEF AppendRecord
<1>1. CASE FailCharge(c)
  <2>1. UNCHANGED <<recorded, fileTotal, lastWriter>>
    BY <1>0, <1>1 DEF AppendRecord, FailCharge
  <2> QED
    BY <1>0, <1>1, <2>1, FailChargeKeeps
<1>2. CASE ~FailCharge(c)
  <2>1. /\ Goto(c, "summing")
        /\ fileTotal' = [fileTotal EXCEPT ![day[c]] = @ + cost[c]]
        /\ recorded' = [recorded EXCEPT ![r] = @ + cost[c]]
        /\ lastWriter' = [lastWriter EXCEPT ![day[c]] = {r}]
        /\ UNCHANGED trackerVars
    BY <1>2 DEF AppendRecord
  <2>2. pc'[c] = "summing" /\ mu'[r] = c /\ recorded'[r] = recorded[r] + cost[c]
    BY <1>0, <2>1
  <2>3. ChargeFrame(c)
    BY <1>0, <2>1 DEF ChargeFrame
  <2>4. /\ runTotal'[r] + InFlight(c) <= recorded'[r]
        /\ recorded'[r] = runTotal'[r] + InFlight(c) \/ StopsAfter(c)
    <3>1. runTotal[r] <= recorded[r] /\ (recorded[r] = runTotal[r] \/ Stopping(r))
      BY <1>0, OwnLedger
    <3> QED
      BY <1>0, <2>1, <2>2, <3>1 DEF InFlight, StopsAfter
  <2>5. \A d \in Days : r \in lastWriter'[d] =>
          /\ HasStore(r)
          /\ fileTotal'[d] > PerDay(r) => StopsAfter(c) \/ (pc'[c] = "summing" /\ day'[c] = d)
    <3> TAKE d \in Days
    <3>1. CASE d = day[c]
      BY <1>0, <2>2, <3>1
    <3>2. CASE d # day[c]
      BY <1>0, <2>1, <3>2, OwnDay DEF StopsAfter
    <3> QED
      BY <3>1, <3>2
  <2> QED
    BY <1>0, <2>2, <2>3, <2>4, <2>5, ChargeKeeps
<1> QED
  BY <1>1, <1>2

\* The charge is applied, or an error after the write stops the run: a day
\* total above the cap trips the tracker in this step.
LEMMA SumAndApplyKeeps ==
  ASSUME TypeOK, IInv, NEW c \in Calls, SumAndApply(c)
  PROVE  IInv'
<1> DEFINE r == Owner[c]
<1> USE DEF TypeOK, Goto, worldVars, ledgerVars, trackerVars, runVars, bodyVars
<1>0. /\ r \in Runs /\ pc[c] = "summing" /\ mu[r] = c /\ HasStore(r) /\ Pending(r) = cost[c]
      /\ UNCHANGED <<budget, phase, cost, day, recorded, fileTotal, lastWriter>>
  BY MutexOf DEF SumAndApply
<1>1. CASE FailCharge(c)
  BY <1>0, <1>1, FailChargeKeeps
<1>2. CASE Apply(c, fileTotal[day[c]])
  <2>1. /\ pc'[c] = "reporting" /\ mu'[r] = NoCall /\ runTotal'[r] = runTotal[r] + cost[c]
        /\ InFlight(c) = 0
    BY <1>0, <1>2 DEF Apply, InFlight
  <2>2. ChargeFrame(c)
    BY <1>0, <1>2 DEF ChargeFrame, Apply, FirstViolation
  <2>3. /\ runTotal'[r] + InFlight(c) <= recorded'[r]
        /\ recorded'[r] = runTotal'[r] + InFlight(c) \/ StopsAfter(c)
    <3>1. /\ runTotal[r] + cost[c] <= recorded[r]
          /\ recorded[r] = runTotal[r] + cost[c] \/ Stopping(r)
      BY <1>0, OwnLedger
    <3> QED
      BY <1>0, <2>1, <3>1 DEF StopsAfter
  <2>4. \A d \in Days : r \in lastWriter'[d] =>
          HasStore(r) /\ (fileTotal'[d] > PerDay(r) => StopsAfter(c))
    <3> SUFFICES ASSUME NEW d \in Days, r \in lastWriter'[d], fileTotal'[d] > PerDay(r)
                 PROVE  StopsAfter(c)
      BY <1>0
    <3>1. CASE d # day[c]
      BY <1>0, <3>1, OwnDay DEF StopsAfter
    <3>2. CASE d = day[c]
      <4>1. Crossed(r, runTotal[r] + cost[c], fileTotal[day[c]]) # "none"
        BY <1>0, <3>2 DEF Crossed, HasStore
      <4>2. tripped'[r] # "none"
        BY <1>0, <1>2, <4>1 DEF Apply, FirstViolation
      <4> QED
        BY <4>2 DEF StopsAfter
    <3> QED
      BY <3>1, <3>2
  <2> QED
    BY <2>1, <2>2, <2>3, <2>4, ChargeKeeps
<1> QED
  BY <1>1, <1>2 DEF SumAndApply

\* meterFailure: the failing handler trips its run.
LEMMA MeterFailureKeeps ==
  ASSUME TypeOK, IInv, NEW c \in Calls, MeterFailure(c)
  PROVE  IInv'
<1> DEFINE r == Owner[c]
<1> USE DEF TypeOK, Goto, worldVars, ledgerVars, runVars, bodyVars
<1>0. /\ r \in Runs /\ mu[r] = NoCall /\ mu' = mu /\ Pending(r) = 0
      /\ pc'[c] = "firing" /\ tripped'[r] # "none"
      /\ UNCHANGED <<budget, phase, cost, day, recorded, fileTotal, lastWriter, runTotal>>
  BY MutexOf DEF MeterFailure, FirstViolation
<1>1. ChargeFrame(c)
  BY <1>0 DEF ChargeFrame, MeterFailure, FirstViolation
<1>2. StopsAfter(c) /\ InFlight(c) = 0
  BY <1>0 DEF StopsAfter, InFlight
<1>3. HasStore(r) => runTotal'[r] + InFlight(c) <= recorded'[r]
  BY <1>0, <1>2, OwnLedger
<1>4. \A d \in Days : r \in lastWriter'[d] => HasStore(r)
  BY <1>0, OwnDay
<1> QED
  BY <1>0, <1>1, <1>2, <1>3, <1>4, ChargeKeeps

\* The end of a process: its lock is gone and it is over.
LEMMA VanishKeeps ==
  ASSUME TypeOK, IInv, NEW r \in Runs, Vanish(r)
  PROVE  IInv'
<1> USE DEF IInv
<1>1. /\ UNCHANGED <<budget, runTotal, recorded, fileTotal, lastWriter, cost, day, tripped>>
      /\ mu'[r] = NoCall /\ phase'[r] = "exited"
      /\ \A x \in Runs \ {r} : mu'[x] = mu[x] /\ phase'[x] = phase[x]
      /\ \A x \in Calls : IF Owner[x] = r /\ pc[x] \notin {"idle", "done"}
                          THEN pc'[x] = "lost" ELSE pc'[x] = pc[x]
  BY DEF Vanish, TypeOK, worldVars, bodyVars
<1>2. \A x \in CallsOf(r) : pc'[x] \notin {"writing", "summing"}
  BY <1>1 DEF CallsOf
<1>3. LockHeld'
  <2>1. ASSUME NEW x \in Calls, pc'[x] \in {"writing", "summing"}
        PROVE  mu'[Owner[x]] = x /\ HasStore(Owner[x])'
    <3>1. Owner[x] # r /\ pc[x] \in {"writing", "summing"}
      BY <1>1, <1>2, <2>1 DEF CallsOf
    <3> QED
      BY <1>1, <3>1 DEF LockHeld, HasStore, PerDay
  <2>2. ASSUME NEW x \in Runs, mu'[x] # NoCall
        PROVE  mu'[x] \in CallsOf(x)' /\ pc'[mu'[x]] \in {"writing", "summing"}
    <3>1. x # r /\ mu'[x] = mu[x] /\ mu[x] \in CallsOf(x) /\ pc[mu[x]] \in {"writing", "summing"}
      BY <1>1, <2>2 DEF LockHeld
    <3> QED
      BY <1>1, <3>1 DEF CallsOf
  <2> QED
    BY <2>1, <2>2 DEF LockHeld
<1>4. LedgerInv'
  <2> SUFFICES ASSUME NEW x \in Runs, HasStore(x)'
               PROVE  (/\ runTotal[x] + Pending(x) <= recorded[x]
                       /\ recorded[x] = runTotal[x] + Pending(x) \/ Stopping(x))'
    BY DEF LedgerInv
  <2>1. /\ runTotal[x] + Pending(x) <= recorded[x]
        /\ recorded[x] = runTotal[x] + Pending(x) \/ Stopping(x)
        /\ runTotal[x] \in Nat /\ recorded[x] \in Nat
    BY <1>1 DEF LedgerInv, HasStore, PerDay, TypeOK
  <2>2. CASE x = r
    <3>1. Pending(x)' = 0 /\ Stopping(x)'
      BY <1>1, <2>2 DEF Pending, Stopping
    <3>2. Pending(x) \in Nat
      BY DEF Pending, TypeOK
    <3> QED
      BY <1>1, <2>1, <3>1, <3>2
  <2>3. CASE x # r
    <3>1. mu[x] # NoCall => mu[x] \in Calls /\ Owner[mu[x]] = x
      BY DEF LockHeld, CallsOf
    <3>2. Pending(x)' = Pending(x)
      BY <1>1, <2>3, <3>1 DEF Pending
    <3>3. Stopping(x) => Stopping(x)'
      BY <1>1, <2>3 DEF Stopping, Failing, CallsOf
    <3> QED
      BY <1>1, <2>1, <3>2, <3>3
  <2> QED
    BY <2>2, <2>3
<1>5. DayInv'
  <2> SUFFICES ASSUME NEW d \in Days, NEW x \in lastWriter'[d]
               PROVE  (/\ x \in Runs /\ HasStore(x)
                       /\ fileTotal[d] > PerDay(x) =>
                            Stopping(x) \/ \E y \in CallsOf(x) : pc[y] = "summing" /\ day[y] = d)'
    BY DEF DayInv
  <2>1. /\ x \in Runs /\ HasStore(x)
        /\ fileTotal[d] > PerDay(x) =>
             Stopping(x) \/ \E y \in CallsOf(x) : pc[y] = "summing" /\ day[y] = d
    BY <1>1 DEF DayInv
  <2>2. HasStore(x)' /\ PerDay(x)' = PerDay(x)
    BY <1>1, <2>1 DEF HasStore, PerDay
  <2>3. CASE x = r
    BY <1>1, <2>1, <2>2, <2>3 DEF Stopping
  <2>4. CASE x # r
    <3>1. Stopping(x) => Stopping(x)'
      BY <1>1, <2>1, <2>4 DEF Stopping, Failing, CallsOf
    <3>2. (\E y \in CallsOf(x) : pc[y] = "summing" /\ day[y] = d) =>
            (\E y \in CallsOf(x) : pc[y] = "summing" /\ day[y] = d)'
      BY <1>1, <2>4 DEF CallsOf
    <3> QED
      BY <1>1, <2>1, <2>2, <3>1, <3>2
  <2> QED
    BY <2>3, <2>4
<1> QED
  BY <1>3, <1>4, <1>5

-----------------------------------------------------------------------------
(* The theorems.                                                           *)

\* Trackers, locks and ledger are right in every state.
THEOREM LedgerCorrect == Spec => []IInv
<1>1. Init => IInv
  BY DEF Init, IInv, LockHeld, LedgerInv, DayInv, Pending, TypeOK
<1>2. TypeOK /\ IInv /\ [Next]_vars => IInv'
  <2> SUFFICES ASSUME TypeOK, IInv, [Next]_vars
               PROVE  IInv'
    OBVIOUS
  <2>1. ASSUME NEW c \in Calls, Handler(c)
        PROVE  IInv'
    BY <2>1, QuietHandler, QuietKeeps, EnterChargeKeeps, AppendRecordKeeps,
       SumAndApplyKeeps, MeterFailureKeeps DEF Handler
  <2>2. ASSUME NEW r \in Runs, Process(r)
        PROVE  IInv'
    BY <2>2, QuietProcess, QuietKeeps, VanishKeeps DEF Process, ExitProcess, Crash
  <2>3. CASE Midnight \/ UNCHANGED vars
    <3>1. Quiet
      BY <2>3 DEF Midnight, Quiet, vars, worldVars, ledgerVars, trackerVars, runVars,
                  bodyVars, eventVars
    <3> QED
      BY <3>1, QuietKeeps
  <2> QED
    BY <2>1, <2>2, <2>3 DEF Next, Finished
<1> QED
  BY <1>1, <1>2, TypeCorrect, PTL DEF Spec

\* The total the per-run cap is judged by never runs ahead of the durable
\* ledger, and falls behind it only in a run that stops (Tracker.Charge,
\* DailyStore.Append), for any number of runs, handlers and failures.
THEOREM LedgerAgreesHolds == Spec => []LedgerAgrees
<1>1. TypeOK /\ IInv => LedgerAgrees
  <2> SUFFICES ASSUME TypeOK, IInv, NEW r \in Runs, HasStore(r)
               PROVE  /\ runTotal[r] <= recorded[r]
                      /\ \/ recorded[r] = runTotal[r]
                         \/ tripped[r] # "none" \/ Unsettled(r) \/ phase[r] = "exited"
    BY DEF LedgerAgrees
  <2>1. /\ runTotal[r] + Pending(r) <= recorded[r]
        /\ recorded[r] = runTotal[r] + Pending(r) \/ Stopping(r)
    BY DEF IInv, LedgerInv
  <2>2. runTotal[r] \in Nat /\ recorded[r] \in Nat /\ Pending(r) \in Nat
    BY DEF TypeOK, Pending
  <2>3. Pending(r) # 0 => Unsettled(r)
    BY DEF IInv, LockHeld, Pending, Unsettled
  <2>4. Stopping(r) => tripped[r] # "none" \/ Unsettled(r) \/ phase[r] = "exited"
    BY DEF Stopping, Failing, Unsettled
  <2> QED
    BY <2>1, <2>2, <2>3, <2>4
<1> QED
  BY <1>1, TypeCorrect, LedgerCorrect, PTL

\* No run takes a day's ledger above its own cap and goes on, whatever the other
\* runs of the DID charge in between (DailyStore.Append sums under the lock
\* it wrote under).
THEOREM DayCapNoticedHolds == Spec => []DayCapNoticed
<1>1. IInv => DayCapNoticed
  BY DEF IInv, DayInv, DayCapNoticed, Stopping, Failing, Unsettled
<1> QED
  BY <1>1, LedgerCorrect, PTL
=============================================================================
