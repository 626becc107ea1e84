----------------------------- MODULE SpendGate -----------------------------
(***************************************************************************)
(* The spending path: the MCP gate's handlers (one per tools/call          *)
(* request), the run's Tracker, the durable per-DID day ledger shared by   *)
(* every run of the DID, and the part of `constle run` that installs the   *)
(* kill callback and attributes the outcome.                               *)
(*                                                                         *)
(* A run is one `constle run` process.  A call is a tools/call request to  *)
(* the gate of one run; its handler is a goroutine and pc[c] is where that *)
(* goroutine stands:                                                       *)
(*                                                                         *)
(*   idle      -> not sent yet                                             *)
(*   waiting   -> in runGate, a human is being asked                       *)
(*   admitted  -> will be forwarded;  upstream -> proxied, no response yet *)
(*   streaming -> the 2xx body of a priced call flows through meterBody    *)
(*   charging, writing, summing -> inside Tracker.Charge                   *)
(*   reporting -> charge(): the events of the Result are being logged      *)
(*   failing   -> meterFailure();  firing -> fireSpendKill()               *)
(*   closing   -> the proxy closes the body;  done -> handler returned     *)
(*   refusing  -> rejected on arrival, re-firing the kill                  *)
(*   lost      -> the process ended under the handler                      *)
(***************************************************************************)
EXTENDS Integers, FiniteSets

CONSTANTS
  Runs,       \* `constle run` processes of one DID
  Calls,      \* tools/call requests
  Owner,      \* the run whose gate a call is sent to
  Budgets,    \* what the runs may declare: a cap that is 0 is not declared
  Costs,      \* what one response may cost
  MaxAmount,  \* stands for math.MaxInt64
  Carried,    \* spend already in today's ledger when the model starts
  LastDay,    \* bound on UTC midnights
  NoCall      \* nobody holds the lock

Days == 0..LastDay
Violations == {"none", "max_per_run_usd", "max_per_day_usd", "metering_failure"}
Phases == {"new", "starting", "running", "concluded", "exited"}
Locations == {"idle", "waiting", "admitted", "upstream", "streaming", "charging",
              "writing", "summing", "reporting", "failing", "firing", "closing",
              "done", "refusing", "lost"}

\* What a response body turns out to hold once it is complete.
Bodies == {"result", "rpcError", "unmeterable"}

ASSUME OwnerAssumption  == Owner \in [Calls -> Runs]
ASSUME BudgetAssumption ==
  /\ Budgets \subseteq [Runs -> [perRun : Nat, perDay : Nat, warnPct : 0..100]]
  \* NewTracker refuses a threshold without a daily cap
  /\ \A b \in Budgets : \A r \in Runs : b[r].warnPct > 0 => b[r].perDay > 0
ASSUME AmountAssumption == Costs \subseteq Nat /\ MaxAmount \in Nat /\ Carried \in Nat
ASSUME DayAssumption    == LastDay \in Nat
ASSUME NoCallAssumption == NoCall \notin Calls

VARIABLES
  budget,      \* max_per_run_usd, max_per_day_usd, warn_at_pct_of_daily
  today,       \* the current UTC day
  fileTotal,   \* sum of the records in each day's ledger file
  corrupt,     \* the day's file holds a line sumLedger cannot read
  flock,       \* the call whose Append holds the day file's exclusive lock
  mu,          \* the call inside Tracker.Charge of each run
  runTotal, warned, tripped,           \* the Tracker of each run
  phase, gone, killFired, outcome,     \* cmdRun: progress, agent exited,
                                       \* spendExceeded closed, result
  pc, body, cost, metered, day, news,  \* the handler of each call
  delivered,   \* the agent holds the complete result of the call
  recorded,    \* history: what each run wrote to the ledger
  lastWriter,  \* history: the run that appended the day's last record
  charges,     \* history: times the call's cost entered the run total
  limitEvents, \* history: "limit" events each run logged
  warnEvents   \* history: "warning" events each run logged

worldVars   == <<budget, today>>
ledgerVars  == <<fileTotal, corrupt, flock, recorded, lastWriter>>
trackerVars == <<mu, runTotal, warned, tripped, charges>>
runVars     == <<phase, gone, killFired, outcome>>
bodyVars    == <<body, cost, metered, delivered>>
eventVars   == <<limitEvents, warnEvents>>
vars == <<worldVars, ledgerVars, trackerVars, runVars, bodyVars, eventVars, pc, day, news>>

PerRun(r)     == budget[r].perRun
PerDay(r)     == budget[r].perDay
WarnPct(r)    == budget[r].warnPct
HasStore(r)   == PerDay(r) > 0
CallsOf(r)    == {c \in Calls : Owner[c] = r}
AgentAlive(r) == phase[r] \in {"starting", "running"} /\ ~gone[r]
Goto(c, l)    == pc' = [pc EXCEPT ![c] = l]

Init ==
  /\ budget \in Budgets
  /\ today = 0
  /\ fileTotal = [d \in Days |-> IF d = 0 THEN Carried ELSE 0]
  /\ corrupt = [d \in Days |-> FALSE]
  /\ flock = [d \in Days |-> NoCall]
  /\ mu = [r \in Runs |-> NoCall]
  /\ runTotal = [r \in Runs |-> 0]
  /\ warned = [r \in Runs |-> FALSE]
  /\ tripped = [r \in Runs |-> "none"]
  /\ phase = [r \in Runs |-> "new"]
  /\ gone = [r \in Runs |-> FALSE]
  /\ killFired = [r \in Runs |-> FALSE]
  /\ outcome = [r \in Runs |-> "none"]
  /\ pc = [c \in Calls |-> "idle"]
  /\ body = [c \in Calls |-> "result"]
  /\ cost = [c \in Calls |-> 0]
  /\ metered = [c \in Calls |-> FALSE]
  /\ day = [c \in Calls |-> 0]
  /\ news = [c \in Calls |-> {}]
  /\ delivered = [c \in Calls |-> FALSE]
  /\ recorded = [r \in Runs |-> 0]
  /\ lastWriter = [d \in Days |-> {}]
  /\ charges = [c \in Calls |-> 0]
  /\ limitEvents = [r \in Runs |-> 0]
  /\ warnEvents = [r \in Runs |-> 0]

-----------------------------------------------------------------------------
(* ServeHTTP and runGate: how a call gets to the upstream.                 *)

\* A request arrives.  Tripped() is read under the tracker's mutex, so it
\* waits for a charge in progress.  A tripped tracker refuses everything.
Arrive(c) ==
  LET r == Owner[c] IN
  /\ pc[c] = "idle"
  /\ AgentAlive(r)
  /\ mu[r] = NoCall
  /\ \/ tripped[r] # "none" /\ Goto(c, "refusing")
     \/ tripped[r] = "none" /\ \E l \in {"waiting", "admitted"} : Goto(c, l)
  /\ UNCHANGED <<worldVars, ledgerVars, trackerVars, runVars, bodyVars, eventVars, day, news>>

\* The human gate decides: approved, or timed out under on_timeout: proceed,
\* forwards the call; anything else ends it.  The tracker is not read again.
Decide(c) ==
  /\ pc[c] = "waiting"
  /\ Goto(c, "admitted") \/ Goto(c, "done")
  /\ UNCHANGED <<worldVars, ledgerVars, trackerVars, runVars, bodyVars, eventVars, day, news>>

Forward(c) ==
  /\ pc[c] = "admitted"
  /\ Goto(c, "upstream")
  /\ UNCHANGED <<worldVars, ledgerVars, trackerVars, runVars, bodyVars, eventVars, day, news>>

\* meterResponse: a transport failure, a status outside 2xx or an unpriced
\* server gets no meterBody; any other response is teed through one.
Respond(c) ==
  /\ pc[c] = "upstream"
  /\ \/ Goto(c, "done") /\ UNCHANGED <<body, cost>>
     \/ /\ Goto(c, "streaming")
        /\ \E b \in Bodies, a \in Costs :
             /\ body' = [body EXCEPT ![c] = b]
             /\ cost' = [cost EXCEPT ![c] = IF b = "result" THEN a ELSE 0]
  /\ UNCHANGED <<worldVars, ledgerVars, trackerVars, runVars, metered, delivered,
                 eventVars, day, news>>

-----------------------------------------------------------------------------
(* meterBody: the body streams to the agent and is metered when it ends.   *)

\* The agent has read the whole result; the body may still be open (a stream
\* the server keeps, or the EOF not read yet), or already metered.
Deliver(c) ==
  /\ pc[c] \in {"streaming", "closing"}
  /\ pc[c] = "closing" => metered[c]
  /\ body[c] = "result"
  /\ AgentAlive(Owner[c])
  /\ ~delivered[c]
  /\ delivered' = [delivered EXCEPT ![c] = TRUE]
  /\ UNCHANGED <<worldVars, ledgerVars, trackerVars, runVars, body, cost, metered,
                 eventVars, pc, day, news>>

\* finish() and meterCompleted(): once, by what the body holds.
Finish(c) ==
  /\ metered' = [metered EXCEPT ![c] = TRUE]
  /\ \/ body[c] = "result"      /\ Goto(c, "charging")
     \/ body[c] = "rpcError"    /\ Goto(c, "closing")
     \/ body[c] = "unmeterable" /\ Goto(c, "failing")

ReadEOF(c) ==
  /\ pc[c] = "streaming"
  /\ Finish(c)
  /\ UNCHANGED <<worldVars, ledgerVars, trackerVars, runVars, body, cost, delivered,
                 eventVars, day, news>>

\* The copy to the agent stops before EOF: the agent went away or the
\* upstream's stream broke.  The proxy then closes the body.
StopReading(c) ==
  /\ pc[c] = "streaming"
  /\ Goto(c, "closing")
  /\ UNCHANGED <<worldVars, ledgerVars, trackerVars, runVars, bodyVars, eventVars, day, news>>

\* Whether Close still has to meter what the agent did not read.
MutNeverDrains(c) == FALSE
NeedsDrain(c) == ~metered[c]

\* Close: a metered body is only closed; otherwise the rest is drained, and a
\* drain that fails is a metering failure.
CloseBody(c) ==
  /\ pc[c] = "closing"
  /\ \/ ~NeedsDrain(c) /\ Goto(c, "done") /\ UNCHANGED metered
     \/ NeedsDrain(c) /\ Finish(c)
     \/ NeedsDrain(c) /\ Goto(c, "failing") /\ metered' = [metered EXCEPT ![c] = TRUE]
  /\ UNCHANGED <<worldVars, ledgerVars, trackerVars, runVars, body, cost, delivered,
                 eventVars, day, news>>

-----------------------------------------------------------------------------
(* Tracker.Charge: one mutex per run, one exclusive file lock per day.     *)

\* The cap a charge crosses; the per-run cap is looked at first.
MutCrossedAlone(r, runSum, daySum) ==
  IF PerRun(r) > 0 /\ runSum > PerRun(r) THEN "max_per_run_usd"
  ELSE IF PerDay(r) > 0 /\ runSum > PerDay(r) THEN "max_per_day_usd"
  ELSE "none"
Crossed(r, runSum, daySum) ==
  IF PerRun(r) > 0 /\ runSum > PerRun(r) THEN "max_per_run_usd"
  ELSE IF PerDay(r) > 0 /\ daySum > PerDay(r) THEN "max_per_day_usd"
  ELSE "none"

MutWarnAgain(r, daySum) ==
  PerDay(r) > 0 /\ WarnPct(r) > 0 /\ daySum * 100 >= PerDay(r) * WarnPct(r)
CrossesWarning(r, daySum) ==
  /\ PerDay(r) > 0 /\ WarnPct(r) > 0
  /\ ~warned[r]
  /\ daySum * 100 >= PerDay(r) * WarnPct(r)

\* The tracker trips once: a later violation does not replace the first.
MutLatestViolation(old, new) == IF new = "none" THEN old ELSE new
FirstViolation(old, new) == IF old = "none" THEN new ELSE old

\* The rest of Charge once the charge is durable: the run total, the warning,
\* the trip, and the Result the handler acts on.
Apply(c, daySum) ==
  LET r == Owner[c]
      sum == runTotal[r] + cost[c]
      v == FirstViolation(tripped[r], Crossed(r, sum, daySum))
  IN /\ runTotal' = [runTotal EXCEPT ![r] = sum]
     /\ charges' = [charges EXCEPT ![c] = @ + 1]
     /\ warned' = [warned EXCEPT ![r] = @ \/ CrossesWarning(r, daySum)]
     /\ tripped' = [tripped EXCEPT ![r] = v]
     /\ news' = [news EXCEPT ![c] =
          {n \in {"warn", "limit", "stop"} :
             \/ n = "warn"  /\ CrossesWarning(r, daySum)
             \/ n = "limit" /\ v # tripped[r]
             \/ n = "stop"  /\ v # "none"}]
     /\ mu' = [mu EXCEPT ![r] = NoCall]
     /\ Goto(c, "reporting")

\* Charge is entered.  A run total that would overflow is refused before
\* anything is written; without a ledger the charge is applied at once.  The
\* day file is the one of the day Append opens it on.
EnterCharge(c) ==
  LET r == Owner[c] IN
  /\ pc[c] = "charging"
  /\ mu[r] = NoCall
  /\ \/ /\ runTotal[r] + cost[c] > MaxAmount
        /\ Goto(c, "failing")
        /\ UNCHANGED <<mu, runTotal, warned, tripped, charges, day, news>>
     \/ /\ runTotal[r] + cost[c] <= MaxAmount
        /\ ~HasStore(r)
        /\ Apply(c, 0)
        /\ UNCHANGED day
     \/ /\ runTotal[r] + cost[c] <= MaxAmount
        /\ HasStore(r)
        /\ mu' = [mu EXCEPT ![r] = c]
        /\ day' = [day EXCEPT ![c] = today]
        /\ Goto(c, "writing")
        /\ UNCHANGED <<runTotal, warned, tripped, charges, news>>
  /\ UNCHANGED <<worldVars, ledgerVars, runVars, bodyVars, eventVars>>

\* The caller takes an error for a charge of nothing.
MutSwallowError(c) ==
  /\ mu' = [mu EXCEPT ![Owner[c]] = NoCall]
  /\ Goto(c, "closing")
  /\ UNCHANGED <<runTotal, warned, tripped, charges, news>>

\* An early return that keeps the tracker locked.
MutKeepLocked(c) ==
  /\ Goto(c, "failing")
  /\ UNCHANGED <<mu, runTotal, warned, tripped, charges, news>>

\* An error out of Append leaves the run total alone and becomes a metering
\* failure of the caller.
FailCharge(c) ==
  /\ mu' = [mu EXCEPT ![Owner[c]] = NoCall]
  /\ Goto(c, "failing")
  /\ UNCHANGED <<runTotal, warned, tripped, charges, news>>

\* Append, up to the write: the file cannot be opened, locked or written, a
\* write is cut short and leaves a line nobody can parse, or the record lands
\* and the lock is kept for the sum.
AppendRecord(c) ==
  LET r == Owner[c]
      d == day[c]
  IN
  /\ pc[c] = "writing"
  /\ flock[d] = NoCall
  /\ \/ FailCharge(c) /\ UNCHANGED <<fileTotal, corrupt, flock, recorded, lastWriter>>
     \/ /\ FailCharge(c)
        /\ corrupt' = [corrupt EXCEPT ![d] = TRUE]
        /\ UNCHANGED <<fileTotal, flock, recorded, lastWriter>>
     \/ /\ Goto(c, "summing")
        /\ flock' = [flock EXCEPT ![d] = c]
        /\ fileTotal' = [fileTotal EXCEPT ![d] = @ + cost[c]]
        /\ recorded' = [recorded EXCEPT ![r] = @ + cost[c]]
        /\ lastWriter' = [lastWriter EXCEPT ![d] = {r}]
        /\ UNCHANGED <<corrupt, trackerVars, news>>
  /\ UNCHANGED <<worldVars, runVars, bodyVars, eventVars, day>>

\* The rest of Append and of Charge: the file is summed under the same lock.
\* A line that does not parse, a sum that overflows, a failed seek, read or
\* close turn a charge that is already in the ledger into an error.
SumAndApply(c) ==
  LET d == day[c] IN
  /\ pc[c] = "summing"
  /\ flock' = [flock EXCEPT ![d] = NoCall]
  /\ \/ ~corrupt[d] /\ fileTotal[d] <= MaxAmount /\ Apply(c, fileTotal[d])
     \/ FailCharge(c)
  /\ UNCHANGED <<worldVars, fileTotal, corrupt, recorded, lastWriter, runVars, bodyVars,
                 eventVars, day>>

-----------------------------------------------------------------------------
(* What the handler does with the Result.                                  *)

\* charge(): the warning and the limit event are logged, then a violation,
\* new or old, fires the kill.
Report(c) ==
  LET r == Owner[c] IN
  /\ pc[c] = "reporting"
  /\ warnEvents' = [warnEvents EXCEPT ![r] = @ + (IF "warn" \in news[c] THEN 1 ELSE 0)]
  /\ limitEvents' = [limitEvents EXCEPT ![r] = @ + (IF "limit" \in news[c] THEN 1 ELSE 0)]
  /\ Goto(c, IF "stop" \in news[c] THEN "firing" ELSE "closing")
  /\ news' = [news EXCEPT ![c] = {}]
  /\ UNCHANGED <<worldVars, ledgerVars, trackerVars, runVars, bodyVars, day>>

\* meterFailure() that trips and forgets to fire the kill.
MutTripQuietly(c) ==
  LET r == Owner[c] IN
  /\ pc[c] = "failing"
  /\ mu[r] = NoCall
  /\ tripped' = [tripped EXCEPT ![r] = FirstViolation(@, "metering_failure")]
  /\ Goto(c, "closing")
  /\ UNCHANGED <<worldVars, ledgerVars, mu, runTotal, warned, charges, runVars, bodyVars,
                 eventVars, day, news>>

\* meterFailure(): Trip keeps the first violation.
MeterFailure(c) ==
  LET r == Owner[c] IN
  /\ pc[c] = "failing"
  /\ mu[r] = NoCall
  /\ tripped' = [tripped EXCEPT ![r] = FirstViolation(@, "metering_failure")]
  /\ Goto(c, "firing")
  /\ UNCHANGED <<worldVars, ledgerVars, mu, runTotal, warned, charges, runVars, bodyVars,
                 eventVars, day, news>>

\* fireSpendKill(): the callback is read now, and is nil until cmdRun has
\* installed it.  sync.Once makes a second call change nothing.
FireSpendKill(c) ==
  LET r == Owner[c] IN
  /\ pc[c] \in {"firing", "refusing"}
  /\ killFired' = [killFired EXCEPT ![r] = @ \/ phase[r] # "starting"]
  /\ Goto(c, IF pc[c] = "firing" THEN "closing" ELSE "done")
  /\ UNCHANGED <<worldVars, ledgerVars, trackerVars, phase, gone, outcome, bodyVars,
                 eventVars, day, news>>

-----------------------------------------------------------------------------
(* cmdRun: the budget check, the callbacks, the outcome; and the world.    *)

\* buildSpendingTracker: TodayTotal takes the shared lock, so it waits for an
\* Append; a ledger that cannot be read, or a budget that is used up, refuses
\* the run before the sandbox exists.  Otherwise the sandbox starts, and the
\* gate serves from then on.
BudgetUsedUp(r) ==
  HasStore(r) /\ fileTotal[today] >= PerDay(r)

StartRun(r) ==
  /\ phase[r] = "new"
  /\ HasStore(r) => flock[today] = NoCall
  /\ \/ /\ HasStore(r)   \* an unreadable ledger, or the budget is gone
        /\ phase' = [phase EXCEPT ![r] = "exited"]
        /\ outcome' = [outcome EXCEPT ![r] = "refused"]
     \/ /\ ~BudgetUsedUp(r)
        /\ HasStore(r) => ~corrupt[today] /\ fileTotal[today] <= MaxAmount
        /\ phase' = [phase EXCEPT ![r] = "starting"]
        /\ UNCHANGED outcome
  /\ UNCHANGED <<worldVars, ledgerVars, trackerVars, gone, killFired, bodyVars, eventVars,
                 pc, day, news>>

\* backend.Start has returned; SetSpendKill installs the callback.
InstallCallbacks(r) ==
  /\ phase[r] = "starting"
  /\ phase' = [phase EXCEPT ![r] = "running"]
  /\ UNCHANGED <<worldVars, ledgerVars, trackerVars, gone, killFired, outcome, bodyVars,
                 eventVars, pc, day, news>>

\* The agent's process ends, by itself or by another of the run's kill paths.
AgentExits(r) ==
  /\ AgentAlive(r)
  /\ gone' = [gone EXCEPT ![r] = TRUE]
  /\ UNCHANGED <<worldVars, ledgerVars, trackerVars, phase, killFired, outcome, bodyVars,
                 eventVars, pc, day, news>>

\* backend.Kill, called by the callback, stops the agent.
KillLands(r) ==
  /\ killFired[r]
  /\ AgentExits(r)

\* Wait has returned and the outcome is attributed by what is closed by now.
Conclude(r) ==
  /\ phase[r] = "running"
  /\ gone[r]
  /\ outcome' = [outcome EXCEPT ![r] = IF killFired[r] THEN "terminated" ELSE "finished"]
  /\ phase' = [phase EXCEPT ![r] = "concluded"]
  /\ UNCHANGED <<worldVars, ledgerVars, trackerVars, gone, killFired, bodyVars, eventVars,
                 pc, day, news>>

\* The process is gone: its handlers stop where they are, its mutex means
\* nothing and the kernel drops its file locks.
Vanish(r) ==
  /\ phase' = [phase EXCEPT ![r] = "exited"]
  /\ pc' = [c \in Calls |-> IF Owner[c] = r /\ pc[c] \notin {"idle", "done"}
                            THEN "lost" ELSE pc[c]]
  /\ mu' = [mu EXCEPT ![r] = NoCall]
  /\ flock' = [d \in Days |-> IF flock[d] \in CallsOf(r) THEN NoCall ELSE flock[d]]
  /\ UNCHANGED <<worldVars, fileTotal, corrupt, recorded, lastWriter, runTotal, warned,
                 tripped, charges, gone, killFired, bodyVars, eventVars, day, news>>

\* Teardown is over and cmdRun returns; nobody waits for handlers in flight.
ExitProcess(r) ==
  phase[r] = "concluded" /\ Vanish(r) /\ UNCHANGED outcome

\* The constle process is killed.
Crash(r) ==
  /\ phase[r] \in {"starting", "running", "concluded"}
  /\ Vanish(r)
  /\ outcome' = [outcome EXCEPT ![r] = "crashed"]

\* UTC midnight: from now on charges open the next day's file.
Midnight ==
  /\ today < LastDay
  /\ today' = today + 1
  /\ UNCHANGED <<budget, ledgerVars, trackerVars, runVars, bodyVars, eventVars,
                 pc, day, news>>

Handler(c) ==
  \/ Arrive(c) \/ Decide(c) \/ Forward(c) \/ Respond(c)
  \/ Deliver(c) \/ ReadEOF(c) \/ StopReading(c) \/ CloseBody(c)
  \/ EnterCharge(c) \/ AppendRecord(c) \/ SumAndApply(c)
  \/ Report(c) \/ MeterFailure(c) \/ FireSpendKill(c)

Process(r) ==
  \/ StartRun(r) \/ InstallCallbacks(r) \/ AgentExits(r) \/ KillLands(r)
  \/ Conclude(r) \/ ExitProcess(r) \/ Crash(r)

\* Every run is over.
Finished == (\A r \in Runs : phase[r] = "exited") /\ UNCHANGED vars

Next ==
  \/ \E c \in Calls : Handler(c)
  \/ \E r \in Runs : Process(r)
  \/ Midnight
  \/ Finished

Spec == Init /\ [][Next]_vars

\* What the Go scheduler and the kernel owe: a handler that has its response
\* keeps running, and so does cmdRun.  Nothing is owed by the agent, by the
\* human, by the upstream or by the clock.  An error is never owed either:
\* fairness is on the handler's step, whichever branch it takes.
HandlerStep(c) ==
  \/ CloseBody(c) \/ EnterCharge(c) \/ AppendRecord(c) \/ SumAndApply(c)
  \/ Report(c) \/ MeterFailure(c) \/ FireSpendKill(c)
MainStep(r) == InstallCallbacks(r) \/ Conclude(r) \/ ExitProcess(r)

FairSpec ==
  /\ Spec
  /\ \A c \in Calls : WF_vars(HandlerStep(c))
  /\ \A r \in Runs : WF_vars(MainStep(r)) /\ WF_vars(KillLands(r))

-----------------------------------------------------------------------------
(* Properties.                                                             *)

TypeOK ==
  /\ budget \in Budgets
  /\ today \in Days
  /\ fileTotal \in [Days -> Nat]
  /\ corrupt \in [Days -> BOOLEAN]
  /\ flock \in [Days -> Calls \union {NoCall}]
  /\ mu \in [Runs -> Calls \union {NoCall}]
  /\ runTotal \in [Runs -> Nat]
  /\ warned \in [Runs -> BOOLEAN]
  /\ tripped \in [Runs -> Violations]
  /\ phase \in [Runs -> Phases]
  /\ gone \in [Runs -> BOOLEAN]
  /\ killFired \in [Runs -> BOOLEAN]
  /\ outcome \in [Runs -> {"none", "refused", "terminated", "finished", "crashed"}]
  /\ pc \in [Calls -> Locations]
  /\ body \in [Calls -> Bodies]
  /\ cost \in [Calls -> Nat]
  /\ metered \in [Calls -> BOOLEAN]
  /\ day \in [Calls -> Days]
  /\ news \in [Calls -> SUBSET {"warn", "limit", "stop"}]
  /\ delivered \in [Calls -> BOOLEAN]
  /\ recorded \in [Runs -> Nat]
  /\ lastWriter \in [Days -> SUBSET Runs]
  /\ charges \in [Calls -> Nat]
  /\ limitEvents \in [Runs -> Nat]
  /\ warnEvents \in [Runs -> Nat]

\* A handler of r is between its record landing in the ledger and the tracker
\* knowing the outcome.
Unsettled(r) == \E c \in CallsOf(r) : pc[c] \in {"summing", "failing"}

\* The total the per-run cap is judged by never runs ahead of the durable
\* ledger, and equals what the run wrote there unless the run is stopped, is
\* about to be, or its process died in between: an Append that fails after its
\* write must not leave spend the tracker does not know of and keep going.
LedgerAgrees ==
  \A r \in Runs : HasStore(r) =>
    /\ runTotal[r] <= recorded[r]
    /\ \/ recorded[r] = runTotal[r]
       \/ tripped[r] # "none" \/ Unsettled(r) \/ phase[r] = "exited"

\* A day total above the cap cannot go unnoticed by the run that made it so,
\* whatever the runs of the DID charge at the same moment, across midnight or
\* through a failed Append: the last run to write to a day's file above its
\* own cap is stopped, is about to learn it, or is over.
DayCapNoticed ==
  \A d \in Days : \A r \in lastWriter[d] :
    fileTotal[d] > PerDay(r) =>
      tripped[r] # "none" \/ Unsettled(r) \/ phase[r] = "exited"

\* The tracker's mutex is held by the handler that is inside Append.
LockHeld ==
  /\ \A c \in Calls : pc[c] \in {"writing", "summing"} =>
       mu[Owner[c]] = c /\ HasStore(Owner[c])
  /\ \A r \in Runs : mu[r] # NoCall =>
       mu[r] \in CallsOf(r) /\ pc[mu[r]] \in {"writing", "summing"}

\* What r has in the ledger and not yet in its total.
Pending(r) == IF mu[r] # NoCall /\ pc[mu[r]] = "summing" THEN cost[mu[r]] ELSE 0

Failing(r) == \E c \in CallsOf(r) : pc[c] = "failing"
Stopping(r) == tripped[r] # "none" \/ Failing(r) \/ phase[r] = "exited"

\* The strengthening of LedgerAgrees: what is written is the total and the
\* charge in flight, until an Append fails.
LedgerInv ==
  \A r \in Runs : HasStore(r) =>
    /\ runTotal[r] + Pending(r) <= recorded[r]
    /\ recorded[r] = runTotal[r] + Pending(r) \/ Stopping(r)

\* The strengthening of DayCapNoticed: the charge in flight is one on that day.
DayInv ==
  \A d \in Days : \A r \in lastWriter[d] :
    /\ r \in Runs /\ HasStore(r)
    /\ fileTotal[d] > PerDay(r) =>
         Stopping(r) \/ \E c \in CallsOf(r) : pc[c] = "summing" /\ day[c] = d

\* No result is free and none is billed twice: when the handler of a call
\* whose whole result reached the agent returns, the call was charged or the
\* run is stopped, however the body ended (EOF, an agent that stops reading, a
\* broken stream); and no call enters the run total twice.
NoFreeResult ==
  \A c \in Calls :
    /\ charges[c] <= 1
    /\ pc[c] = "done" /\ delivered[c] =>
         charges[c] = 1 \/ tripped[Owner[c]] # "none"

\* Exactly one handler reports the cap that stopped the run and exactly one
\* the warning threshold, however many charges cross them concurrently
\* (Result.NewlyTripped, Result.WarnCrossed).
ReportedOnce ==
  \A r \in Runs :
    /\ limitEvents[r] + Cardinality({c \in CallsOf(r) : "limit" \in news[c]})
         = IF tripped[r] \in {"max_per_run_usd", "max_per_day_usd"} THEN 1 ELSE 0
    /\ warnEvents[r] + Cardinality({c \in CallsOf(r) : "warn" \in news[c]})
         = IF warned[r] THEN 1 ELSE 0

\* Where a call is by what metering has done with it: the strengthening that
\* makes NoFreeResult and the refinement of SpendPromise inductive.
MeteredCorrectly(c) ==
  /\ charges[c] <= 1
  /\ charges[c] = 1 => pc[c] \in {"reporting", "firing", "closing", "done", "lost"}
  /\ pc[c] \in {"idle", "waiting", "admitted", "upstream", "streaming", "refusing"} =>
       ~metered[c] /\ charges[c] = 0
  /\ pc[c] \in {"idle", "waiting", "admitted", "upstream", "refusing"} => ~delivered[c]
  /\ pc[c] \in {"charging", "writing", "summing", "reporting", "failing", "firing"} =>
       metered[c]
  /\ pc[c] = "reporting" => charges[c] = 1
  /\ pc[c] = "firing" => tripped[Owner[c]] # "none"
  /\ pc[c] = "reporting" /\ "stop" \in news[c] => tripped[Owner[c]] # "none"
  /\ delivered[c] => body[c] = "result"
  /\ charges[c] = 1 => metered[c]
  /\ pc[c] = "closing" /\ ~metered[c] => charges[c] = 0
  /\ pc[c] = "closing" /\ metered[c] /\ body[c] = "result" =>
       charges[c] = 1 \/ tripped[Owner[c]] # "none"
  /\ pc[c] = "done" /\ delivered[c] => charges[c] = 1 \/ tripped[Owner[c]] # "none"

MeteringInv == \A c \in Calls : MeteredCorrectly(c)

\* SpendGate implements SpendPromise.
Stage(c) ==
  IF charges[c] > 0 THEN "charged"
  ELSE IF pc[c] = "idle" THEN "idle"
  ELSE IF pc[c] \in {"done", "refusing", "lost"} THEN "settled"
  ELSE "admitted"

Promise == INSTANCE SpendPromise WITH
  stage <- [c \in Calls |-> Stage(c)],
  held <- delivered,
  total <- runTotal,
  verdict <- tripped,
  ended <- [r \in Runs |-> phase[r] = "exited"]

\* Every step of the gate, the tracker and cmdRun is a step SpendPromise
\* allows: no admission after the trip, the trip in the step of the charge
\* that crosses max_per_run_usd, a first violation that stands, no free result.
KeepsPromise == Promise!Spec

\* A handler that has started to charge returns unless its process ends: no
\* path out of Charge or Append keeps the tracker or the day file locked.
ChargeReturns ==
  \A c \in Calls : pc[c] = "charging" ~> pc[c] \in {"done", "lost"}

\* A trip of a run whose callback is installed ends the agent, whichever
\* handler tripped it and whatever the others do, unless cmdRun is over first.
KillFollowsTrip ==
  \A r \in Runs :
    [](phase[r] = "running" /\ tripped[r] = "none" =>
         [](tripped[r] # "none" => <>(gone[r] \/ phase[r] = "exited")))
=============================================================================
