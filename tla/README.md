# A verification project for constle

constle runs an AI agent inside a sandbox (Docker or a Firecracker VM) and puts
every effect the agent has on the outside world behind a gate on the host: MCP
tool calls are metered against a budget and may wait for a human, calls between
agents are signed envelopes, and everything that happens is an entry of a
signed, hash-chained log. This directory holds TLA+ models of that host side,
the TLC instances that check them, and TLAPS proofs about them. The modules are
translated from the Go code; `PROJECT.json` maps each definition to its lines.

Paths below are relative to the repository root.

## 1. Inventory

One `constle run` is one process. Runs of one agent share files under the home
directory: the day ledger and the replay buckets by DID, the audit log by agent
name, the key pairs, and the backend's run directories. Inside a process each
HTTP request is a goroutine; `cmdRun` (`cmd/constle/main.go`) is the main one.

| Component | State | Operations | Hard behaviour | What makes it correct |
|---|---|---|---|---|
| Spending tracker and ledger, `internal/spending/{tracker,store}.go` | per run: total, warned, tripped, a mutex; per DID and day: a file of charges with an exclusive file lock | Charge, Trip, Tripped, Append, TodayTotal | several handlers and several processes charge at once; Append may fail after its record landed; UTC midnight; overflow | the total never runs ahead of the ledger; a day cap is not passed unnoticed; one violation stands |
| Metering, `internal/mcpgate/metering.go` | per response body: metered or not; per gate: the kill callback | meterResponse, meterBody.Read/Close, charge, meterFailure, fireSpendKill | a body ends by EOF, by the agent going away or by a broken stream, in Read or in Close; the callback is installed late | no result without a charge or a stop; none charged twice; a trip kills |
| Gate request path, `internal/mcpgate/gate.go` | none of its own | ServeHTTP, serveInspected, runGate, forward | gate and upstream parse the same path and body, each in its way; the tracker is read on arrival only | what is forwarded is, for every reader, the call that was inspected |
| Human gates, `internal/mcpgate/{approver,race_approver,webhook_approver}.go` | the terminal's lock, its stdin reader and one offered line; the race's channel; the abort callback | Decide of each approver, runGate | gates queue for one terminal; decisions and deadlines arrive together; stale input | the first decision wins, the log names it, every gate is resolved by its own deadline |
| Decision verification, `internal/humangate/*` | none | VerifyDecision, evidence, VerifyDecisions | the record is judged long after, by a reader who may be given an edited one | an approval that verifies was signed for this request and this call |
| A2A replay protection, `internal/a2a/{envelope,replay_store}.go` | per run: ids seen; per DID: one bucket file per hour | check, checkAndRecord, append, pruneExpired | two processes, two locks, a clock read before them; torn lines; restarts | an envelope is admitted at most once, and an honest first copy is not refused |
| A2A inbound calls, `internal/a2a/listener.go` | quota per peer, inbox channel, pending map, a response channel per call | servePublic, serveInbox, serveReply, expireCall | timeouts and hang-ups race polls and replies; full queues | quotas exact, one reply per call, every connection ends |
| A2A outbound, `internal/a2a/{gate,envelope}.go` | none shared | Seal, Open, serveSend, verifyResponse | lost, crossed and changed answers; a peer that hangs | an answer is bound to its request; both sides' logs agree; no call stays open |
| Audit log, `internal/audit/{logger,verify,squid}.go` | the file; per run: last hash, first write error | NewSigned, Write, Err, FlushSquidLogs, VerifyFile | failed and torn writes; overlapping runs; entries after the outcome | what was written verifies; tampering is located; success means complete |
| `constle run`, `cmd/constle/{main,spending}.go` | phase, closed channels of the kill paths, outcome | cmdRun, killAgent, teardown | timer, signal, spending limit, gate abort and exit race | one outcome, by fixed priority; teardown always happens |
| Docker backend, `internal/sandbox/docker.go` | containers and networks labelled with the run id | Start, Wait, Kill, Stop, cleanupAbandoned | failed steps of Start; another run's sweep | no run's resources are swept while it needs them; nothing is left behind |
| Firecracker backend, `internal/sandbox/firecracker*.go` | run directory with a state file; VM, TAP, nftables, Squid, chroot | Start, Wait, Kill, Stop, sweep | PIDs are reused; the sweep judges a run by files that its owner is still writing; the exit code is read after the VM is gone | as for Docker; no removal strikes another run's VM; a reported exit code is the guest's |
| Backend selection, `internal/sandbox/{detect,backend}.go` | none | DetectBestBackend, overrides, accepted downgrades | many conditions, one order | never a weaker isolation than asked for, but by name |
| Manifest, `pkg/manifest/*` | none | Parse, defaults, Validate | overflow of durations; several spellings of one host; keys that are misspelt | what the author wrote is what is enforced |
| Identity, webhook key, home directory, `internal/{identity,webhookkey,homedir}` | three directories, `key.pem`, the metadata | Create, Generate, Load, the hand-over under sudo | two commands at once, some as root; a death between two files | one pair per name; the user keeps their files |
| Agent environment, `internal/agentenv` | none | Resolve | - | every variable has one source |
| Notifications, cost arithmetic, terminal text, other commands | none that others read | - | - | see section 6 |

How they interact: `cmdRun` parses and validates the Agentfile, chooses a
backend, builds the tracker (and refuses a run whose budget is used up), opens
the log, starts the backend, which binds the MCP and A2A gates, then installs
the kill and abort callbacks, waits for the agent, logs and reports the outcome,
and tears everything down, flushing the proxy's log into the audit log. Gate
handlers call the approvers and the tracker, and log; nobody waits for handlers
still in flight when the process returns.

`PROJECT.json` lists the hazards (what a test would hardly reach) at their
lines, each with the properties that cover it or a note why none does.

## 2. Modules

| Module | Models | Extends / uses |
|---|---|---|
| `SpendGate` | admission, metering, Tracker, ledger, kill and outcome, for several runs and calls | - |
| `SpendPromise` | the abstract promise of the above: stages, totals and verdicts, without handlers, locks or files | refined by `SpendGate` (`Promise`, `KeepsPromise`) |
| `SpendGateProofs` | TLAPS proofs about `SpendGate`: types, metering, events, the refinement of `SpendPromise`, trackers and ledger | `SpendGate` |
| `ReplayGuard` | replay check, durable buckets, processes that crash and restart, the clock | - |
| `A2AInbox` | an inbound call from its quota slot to its reply or timeout | - |
| `A2ARoundTrip` | a call from one agent's gate through the other's listener and back, over a network that misbehaves, with both logs | - |
| `HumanGate` | runGate, the race, the terminal with its lock and reader, the webhook | - |
| `AuditLog` | several runs writing one day's file; VerifyFile as `Fault`, `Reported`, `Intact` | - |
| `DockerSandbox` | Docker-backed runs: Start with its rollback, kill paths, Wait, outcome, flush, Stop, the sweep and `constle stop`, docker command by command | - |
| `FirecrackerSandbox` | the same for microVMs: state files, PIDs the host gives out again, the chroot the exit code is read from | - |
| `KeyFiles` | identities and webhook keys on disk, with and without sudo | - |
| `A2AInboundProofs` | TLAPS proofs about what a run does with the envelopes it receives | `ReplayGuard`, `A2AInbox` |
| `AuditTrailProofs` | TLAPS proofs about the signed log and about a call and its answer, which both sides log | `AuditLog`, `A2ARoundTrip` |
| `HumanGateProofs`, `DockerSandboxProofs`, `FirecrackerSandboxProofs`, `KeyFilesProofs`, `GuardedRunProofs` | TLAPS proofs about the module each is named for | that module |
| `Agentfile` | the manifest: parsing, defaults, every rule of Validate; what Squid admits and the agent's environment holds | - |
| `BackendChoice` | DetectBestBackend | `Agentfile` |
| `RequestInspection` | what the MCP gate makes of a path and a body, and what an upstream may make of them | - |
| `DecisionRecords` | signed decisions: accepted, recorded, verified offline | - |
| `GuardedRun` | the chain of the four: from the Agentfile to a gated call's entry in the log | the four above |
| `MC*` | values of the constants for TLC | their module |

Definitions named `Mut...` are faulty variants of the definition below them,
used to confirm that a property can fail; no specification uses them. `TypeOK`
types a module's variables (`GuardTypeOK` in `ReplayGuard`, `TripTypeOK` in
`A2ARoundTrip`) and is proved wherever it is stated (section 4). `KeyFiles` and
`GuardedRun` have their types, which only proofs need, in their proof modules.

### SpendGate

`pc[c]` is where the handler goroutine of request `c` stands. A step ends where
another goroutine or process may observe or interleave: a mutex or file lock
taken or released, a read of a shared field, I/O. `EnterCharge` is
`Tracker.Charge` up to the ledger, `AppendRecord` and `SumAndApply` the two
halves of `DailyStore.Append` under the file lock (the write, then the sum),
the latter with the rest of Charge. Every error return is a branch:
`FailCharge` before the write, after a short write (the file is then `corrupt`
for sumLedger) and after a complete one. `Crash` loses the process anywhere;
the kernel drops its file locks and the ledger keeps what was written.
Amounts are naturals with `MaxAmount` for `math.MaxInt64`; a sum that would
pass it is refused, as in the code. `budget` is chosen in `Init` and covers runs
without a daily cap (no ledger at all) and without a warning.

Taken as given: signatures, HTTP and JSON parsing (a body is a result, an RPC
error or unmeterable), and that a "result" whose bytes reached the agent is
`Deliver`, possible from the moment it streams.

### ReplayGuard

`Present` reads the clock and bounds the timestamp; `Duplicate`, `Admit` and
`StoreFails` are the check under the guard's mutex and the store's file lock,
one step because both are held; `Stall` bounds how far the clock runs while a
handler waits for them. A bucket is the set of ids a scan finds plus whether its
last line was cut short: the next record then joins that line and neither is
readable. The history variables `swallowed` and `overtaken` name the envelopes
whose record was lost in this way, or checked by an hour that was over.
Configured constants keep the code's ratio: two windows fit in an hour.

### A2AInbox

`conn[c]` is servePublic for call `c` after its last verification. The quota is
taken under the mutex (`Enter`), the channel send follows (`Park`), and the
select of a held connection is `Answer` or `GiveUp`/`Expire`. serveInbox is
`Receive` (from the channel) then `Deliver` (under the mutex); serveReply is
`Claim` (under the mutex; a body that cannot be sealed ends there) then
`HandOver`.

### A2ARoundTrip

`stage[c]` is call `c` in its sender's serveSend, `part[c]` the call in the
receiver's pending map and serveReply, `handler[c]` servePublic holding the
peer's connection; the two run side by side and race. The order of effects is
the code's: an envelope is logged as sent before it is posted (`Sign`, `Post`),
recorded by the replay guard before the inbox is tried, findable by the agent
before it is logged as received (`Accept`, `LogCall`), and an answer is handed
over before it is logged as sent (`HandOver`, `LogAnswer`). `Flaw` is
verifyResponse in the order of its checks. What is sent stays on `wire`, so it
may arrive late and more than once; `Lose` takes it away, and `Arrives` lets a
message of another call, a request reflected as an answer, or a changed message
come in its place. A signature verifies exactly when nothing was changed. An answer
that is presented to a listener as a request is left out: servePublic, which does
not look at in_reply_to, would treat it as a call of its own, and none of
`Calls` is touched by it. The inbox's quota and the replay
store have modules of their own and are one step here.

### HumanGate

`pc[g]` is runGate, `term[g]` and `hook[g]` the goroutines of the two approvers,
`results[g]` the race's buffered channel. `Lock`, `Drain`, `TakeLine` and
`GiveUp` are TerminalApprover.Decide; `ReadLine` is its one reader goroutine,
whose unbuffered channel offers at most one line (`parked`) while the rest waits
(`typed`). An end of stdin is a prompt that takes no line. `config` is chosen in
`Init`: on_timeout, webhook or not, interactive stdin or not. A run without a
webhook uses the terminal directly; a race with a single source decides the
same. Delivery attempts and polls of the webhook are inside `polling`.

### AuditLog

A line is the n-th entry of a run with the hash it chains to and a form: good,
cut short, joined to a cut line, or edited. A hash is the line's content.
`Write` is one step (it holds the Logger's mutex and appends with one write(2));
`Open` is NewSigned, which reads the last hash once. `Conclude`, `Report`,
`FlushLine` and `EndFlush` are the end of cmdRun: terminal entry, `logger.Err`,
then the deferred flush of the proxy's log. `Fault`/`Reported` are VerifyFile on
a given file. Unsigned logs are left out.

### DockerSandbox

Runs are processes that meet only in the Docker daemon. `pc[r]` is where cmdRun
stands, and each docker command is a step: those of Start are actions of their
own (`docker run -d` is two, since a container is `created` before it is
started), the removals of a sweep, a rollback, Stop or `constle stop` are taken
from the queue `todo[p]` by `RunRemoval`; a sweep queues those of one run it has
`listed` after the other (`Sweep`). The daemon is modelled by what the
code relies on: a network with a running container on it cannot be removed
(`InUse`), a container that is gone or without its network cannot be started,
`docker stop` lets the agent choose its exit code, `rm -f` does not. Any command
may fail (`Fault`). `List` is the listing of cleanupAbandoned; what it saw may
be out of date when the removals run. `Alarm` closes a kill path's channel and
`Kill` is its `docker stop`; `Judge` is the chain of selects after Wait.
`Crash` covers SIGKILL and a signal before signal.Notify or after signal.Stop;
`Reboot` ends every process and leaves containers exited. Refusals before the
first resource, and the two gates' Bind with the writing of the Squid file, are
folded into the step they end like.

### FirecrackerSandbox

There is no daemon: a run is known to others by the state file in its run
directory (`dir`, `rec`), a process by its PID. `proc` is the host's process
table. A PID whose process has ended and been waited for may be given to the
next process (`Fork`), of any run; `IsVM` and `IsSquid` are what the code looks
up in `/proc` before it trusts one. A child that has ended is a zombie until its
parent waits, and an orphan is not. A look at `/proc` and the signal it leads to
are one step: the host would have to hand out the PID in between.

The steps of Start are actions of their own, each with its failure and its
rollback (`Rollback`); a step whose directory or image a sweep has removed fails
for that reason. `List`, `Judge` and `Swept` are cleanupAbandonedFirecracker;
removals go through `todo[p]` as in `DockerSandbox`, `aim[p]` being the PIDs they
go by, from the state file in a sweep and a `constle stop` and from the run's own
memory in Stop. `young` is the minute of grace by the directory's mtime; `Age`
ends it at any time. writeFCState creates the file and then fills it
(`CreateState`, `RecordState`). `GuestEnds` is the guest's reboot, with or
without an exit code in its image, which `ReadExitCode` reads after Wait. `ForceGuest` is the
end of Kill: it either finds the VM gone, or signals its PID without looking again,
and may be so late (a trouble, in `WaitReturns`) that Wait has returned and the PID
has become another process's.
createTAP, Bind and installNFTRules are one step, which may fail after the
device is made, since nobody looks at them before the state is recorded.
`TeardownSparesOthers` is about the looks of teardownFirecrackerRun alone; the
signals that Kill and the rollback of Start send without one are modelled, may strike
another run's VM, and are not counted in it.

### GuardedRun and its operators

`Agentfile`, `BackendChoice`, `RequestInspection` and `DecisionRecords` hold pure
operators: the code they translate is a chain of checks without state.
`GuardedRun` gives the chain its order: `Check` (ParseFile, Validate), `StartRun`
(DetectBestBackend, mcpgate.New, credential resolution), `Announce`, `Receive`
(ServeHTTP, serveInspected), `Hold`, the two ways to decide, and `Edit`, a later
change of the log. Its properties compare two ends of the chain, so that a
reading lost in one link shows in the next.

The data are abstracted to what the checks tell apart. A file is what its author
wrote and whether a key went astray; a host is its labels with the ways it can
be spelled; a name is a word with its case and padding; a path is a sequence of
segments, some of which only look inert. For each such datum there are
*readers*: what a decoder that decodes twice, folds case, takes the last of two
members, or strips path parameters would see. The gate is one reader, and the
properties quantify over the others. A signature is its key and the statement it
was made over.

`SquidAdmits` is the dstdomain allowlist of the proxy's configuration, by name. Its
rules about ports and resolved addresses (`to_internal`) are left out, so that a
name which resolves to an internal address is "admitted" here although that second
rule refuses it. `NoWayRoundTheGate` says what the checks of the Agentfile achieve
for the allowlist: no endpoint's host is admitted, and no name of the sandbox host by
an entry that is a plain name. The comments in the code claim more than that, and for
domain entries it does not hold (section 5).

### KeyFiles

A command is known by its number, which the key it generates and the files it
creates carry; so a descriptor is told from the name it was opened under, and a
key from the metadata of another. Each directory and file is made, handed over
to the invoking user (under sudo) and written in steps of their own; a command
may die between any two (`Crash`), a write or a chown may fail, and after a failed
hand-over the removal of the file too. The user may
remove the directory or either file, put a key from elsewhere in its place or
change its mode (`UserChanges`).

## 3. Runs

Run with `tlc -config X.cfg M`.

| Run | Instance | Shows | Distinct states |
|---|---|---|---|
| `spend_live` | one run under three budgets (both caps and warning; daily cap only; per-run cap only), 2 calls, costs 1-2, 1 already in the ledger, `MaxAmount` 5 | `NoFreeResult`, `ReportedOnce`, refinement of SpendPromise (`KeepsPromise`), `ChargeReturns`, `KillFollowsTrip` | 0.2 M |
| `spend_two` | two runs of one DID with different caps, a call each, one midnight | `LedgerAgrees`, `DayCapNoticed` across processes, crashes and failed appends | 3.6 M |
| `decisions` | Agentfiles that differ from a sound one in one section, hosts that lack one thing, every override; allowlists of plain names and of domain entries, among them some that cover an endpoint's or the host's own names; for the runs that start, the requests of `MCRequests`; one signed statement, two edits | `DeclaredIsEnforced`, `NoWayRoundTheGate`, `PathStaysInside`, `InspectedIsExecuted`, `LogTellsTheTruth` | 0.35 M |
| `gate_all` | two gates, three configurations, one typed line; one gate's arguments cannot be shown | `FirstDecisionWins`, `LogMatchesOutcome`, `UnseenNotApprovedHere`, `GatesResolve` | 0.4 M |
| `replay_shared` | two runs, four requests (three carry one envelope), seven ticks, buckets of two, two timestamps of the other envelope | `AdmittedOnce`, `FirstCopyIsNoReplay` | 4.1 M |
| `inbox_two` | three calls of two peers, quota 1, two polls, two replies | `QuotaExact`, `OnePlace`, `EveryoneEnds` | 17 k |
| `round_trip` | two agents, two calls from one to the other, two troubles | `AnswersMatch`, `StoriesAgree`, `RoundTripsEnd` | 0.5 M |
| `audit_day` | two runs, two entries and one flushed entry each | `ChainVerifies`, `SuccessIsComplete`, `TamperingIsLocated` | 6 M |
| `docker_two` | two runs, the first with a time limit; one fault, crash, reboot or `constle stop`, the last with a fault of its own | `NothingLeft`, `SweepIsThorough`, `SweepSparesRunning`, `KilledIsReported`, `LogsBeforeRemoval` | 3 M |
| `fc_two` | two microVM runs, four PIDs, the first with a time limit; one fault, crash, reboot, dying Squid, late signal of a Kill or `constle stop` | `NothingLeft`, `TeardownSparesOthers`, `RunningUndisturbed`, `ReportIsTrue`, `KillEndsRun` | 0.9 M |
| `keys` | one process of the user and one under sudo, three commands, two changes by the user, six trees and six metadata files to begin with | `OnePair`, `HandedBack`, `KeepsWhatItFinds` | 2.7 M |
| `replay_torn` | expected violation | `TornLineLosesNoDelivered` | - |

Bounds, and why they are enough to be interesting:

- two calls of one run meet at every lock; costs 1 and 2 against caps 2 and 3
  with 1 carried over reach "below", "exactly at", "above" each cap and the
  warning, and two maximal charges reach the overflow of a ledger of `MaxAmount`
  5. Two runs reach a cap only their sum passes; one midnight gives a run two
  files;
- seven clock ticks with an hour of two let a bucket be the current, the
  previous, an expired and a pruned one while an envelope with a clock ahead is
  still fresh;
- a quota of one is full after one call; the third call belongs to another peer,
  so shedding by the wrong quota shows; two polls and two replies race for one
  call;
- two calls between the same two agents are what a crossed answer needs; two
  troubles are a lost, changed or crossed message together with a death, a
  second copy or a failing replay store;
- two gates are a prompt and a queue behind it, with one line typed before,
  between or after;
- two entries and a flushed one suffice for a lost, a cut and a joined line in
  the middle of a file and for every single deletion, exchange and edit;
- two runs are a dead one and the sweep that finds it, or a live one and a sweep
  beside it; `MaxTroubles` 1 puts a fault, a crash or an operator at every step
  of either. Two troubles in one behaviour (a crash and a failing sweep, say) are
  not covered, except a `constle stop` that meets a failing command. One alarm is
  enough for a kill that races with the agent's exit;
- four PIDs are the two VMs and two Squids of both runs, so that every PID that
  ends is the next to be given out;
- in `decisions` a second has 4 nanoseconds and a duration 12 bits
  (`DurationRange` 2048), which keeps the shape of the overflow: a number of
  seconds wraps to a negative, and a larger one to a small positive duration.
  Bodies have up to three members, enough for a method and two `params` of which
  a reader takes either. Files differ from a sound one in one section at a time;
  rules that relate two sections (allowlist and servers, peers and DID, cap and
  DID) are varied together. Two edits change a claim and what it rests on;
- three commands are two that race and one that comes after; two changes by the
  user remove a key and put another in its place.

`decisions`, `keys` and `round_trip` are of systems that may stop (a refused
file, a home nobody touches, agents that do not answer) and do not check for
deadlock. All others do: each `Next` has a final step (`Finished`, `AllOver`)
that stutters only in the states where the system is meant to stop.

### Fairness

- `SpendGate!FairSpec`: weak fairness on a handler that has its response, on
  cmdRun's own steps and on the effect of a kill already requested (the Go
  scheduler and the kernel). Nothing is owed by the agent, the human, the
  upstream, the clock or a failure; fairness is on the disjunction of a step's
  branches, never on a favourable one.
- `A2AInbox!FairSpec`: handlers keep running and the reply timer fires; the agent
  owes neither a poll nor a reply. One part of `EveryoneEnds`, that every slot is
  freed, assumes an agent that keeps polling (`AgentPolls`), as its premise.
- `HumanGate!FairSpec`: goroutines run and deadlines pass; strong fairness on the
  terminal's lock, because sync.Mutex hands over to a starving waiter. No human
  and no webhook owes an answer.
- `A2ARoundTrip!TripSpec`: a sender's handler runs and its HTTP client's timeout
  passes. Nothing is owed by the network or by the receiver, whose handlers may
  hang.
- `FirecrackerSandbox!Spec`: a run's process and its kill goroutine run on. Nothing
  is owed by a guest, by time or by an operator.

## 4. Proofs

Each proof is for every value of the constants that the module's named
assumptions allow. The argument is the same everywhere: an inductive invariant
(`IInv`, or a named part of it) holds initially, every step keeps it, one lemma
per action or kind of action, and it implies the property. The inductive
invariants are not in a configuration, being proved; added to one, each of them
holds on the instances of section 3 (where a type is an infinite set, with the
finite part of it that TLC can evaluate). Theorems are stated for `Spec`, without
fairness where the module has a `FairSpec`, and so hold of the latter too.

| Module | Theorem | Property |
|---|---|---|
| `SpendGateProofs` | `TypeCorrect`, `MeteringCorrect` | inductive invariants |
| | `NoFreeResultHolds`, `ReportedOnceHolds` | `NoFreeResult`, `ReportedOnce` |
| | `KeepsPromiseHolds` | `KeepsPromise`, the refinement of `SpendPromise` |
| | `LedgerCorrect` | inductive invariant |
| | `LedgerAgreesHolds`, `DayCapNoticedHolds` | `LedgerAgrees`, `DayCapNoticed` |
| `A2AInboundProofs` | `GuardCorrect` | inductive invariant of `ReplayGuard` |
| | `AdmittedOnceHolds`, `FirstCopyIsNoReplayHolds` | `AdmittedOnce`, `FirstCopyIsNoReplay` |
| | `InboxCorrect` | inductive invariant of `A2AInbox` |
| | `QuotaExactHolds`, `OnePlaceHolds` | `QuotaExact`, `OnePlace` |
| `HumanGateProofs` | `GatesCorrect` | inductive invariant |
| | `FirstDecisionWinsHolds`, `LogMatchesOutcomeHolds`, `UnseenNotApprovedHereHolds` | `FirstDecisionWins`, `LogMatchesOutcome`, `UnseenNotApprovedHere` |
| | `OnePromptHolds` | `OnePrompt`: one gate at a time has the terminal |
| `AuditTrailProofs` | `LogCorrect` | inductive invariant of `AuditLog` |
| | `ChainVerifiesHolds`, `SuccessIsCompleteHolds`, `TamperingIsLocatedHolds` | `ChainVerifies`, `SuccessIsComplete`, `TamperingIsLocated` |
| | `RoundTripCorrect` | inductive invariant of `A2ARoundTrip` |
| | `AnswersMatchHolds`, `StoriesAgreeHolds` | `AnswersMatch`, `StoriesAgree` |
| `DockerSandboxProofs` | `TypeCorrect` | types |
| | `KilledIsReportedHolds`, `SweepSparesRunningHolds`, `LogsBeforeRemovalHolds` | `KilledIsReported`, `SweepSparesRunning`, `LogsBeforeRemoval` |
| | `NothingLeftHolds`, `SweepIsThoroughHolds` | `NothingLeft`, `SweepIsThorough` |
| `FirecrackerSandboxProofs` | `TypeCorrect` | types |
| | `TeardownSparesOthersHolds`, `RunningUndisturbedHolds` | `TeardownSparesOthers`, `RunningUndisturbed` |
| | `ReportIsTrueHolds`, `NothingLeftHolds` | `ReportIsTrue`, `NothingLeft` |
| `KeyFilesProofs` | `KeysCorrect` | inductive invariant |
| | `OnePairHolds`, `HandedBackHolds` | `OnePair`, `HandedBack` |
| | `KeepsWhatItFindsHolds` | `KeepsWhatItFinds`, an action property |
| `GuardedRunProofs` | `SecondsAreKept` | a lemma: a wait that `Validate` admits does not wrap |
| | `DeclaredIsEnforcedHolds`, `NoWayRoundTheGateHolds` | `DeclaredIsEnforced`, `NoWayRoundTheGate` |
| | `LogTellsTheTruthHolds` | `LogTellsTheTruth` |

### Spending

`SpendGateProofs` assumes that owners are runs, budgets are naturals and a
warning needs a daily cap, amounts and days are naturals, and `NoCall` is no
call. The substance of `TypeCorrect` is that no total goes negative and that
nothing but the listed calls holds a lock.

`NoFreeResult` speaks of a handler that has returned and says nothing of the
state before it, so it is not inductive. `MeteringInv` relates every place a
handler can be to whether the body is metered, the call charged and the run
tripped; in particular a closing, metered result has been charged or has stopped
the run. Its proof splits each step into the handler's own call
(`HandlerMetering`, with `ApplyMetering` for the charge), the other calls
(`HandlerFrame`: nothing of theirs moves and a violation stands) and steps of
cmdRun (`ProcessMetering`: only `lost` calls move).

`ReportedOnce` counts the handlers that still have an event to log, so its proof
is about cardinalities. `ReportInv` adds that these sets are finite and that
only a handler in `reporting`, or one lost there, is in one; a charge that
crosses a cap puts one call in (`BearerJoins`), a report takes it out
(`BearerLeaves`), and a second crossing finds the run tripped.

The refinement maps a call's `pc` to one of the promise's stages and drops
locks, files and bodies. Every step is shown to be a step of `SpendPromise` or a
stutter: those of a handler in `HandlerPromise` (`ApplyPromise` is the charge,
where the recorded total and the verdict change together), those of a process in
`ProcessPromise`. Beside `MeteringInv` it needs that only a started run serves
calls and that a call costs what a response may (`Served`).

Trackers and ledger have an invariant of their own,
`IInv == LockHeld /\ LedgerInv /\ DayInv`.
`LedgerAgrees` allows an unsettled handler to explain a difference and does not
say which, so a step of that handler could break it. `LockHeld` says that
whoever holds a tracker's lock is inside Append, so that a run has at most one
charge in flight; `LedgerInv` says that a live run's record in the ledger is its
total plus that charge until an Append has failed; `DayInv` says that a day above
the cap of a run that wrote last has a charge of that run in flight *on that
day*, or the run is stopping. Most steps touch none of this (`Quiet`,
`QuietKeeps`); those inside Append change one handler, one run and one day
(`ChargeKeeps`, with a lemma for each step); a process that dies is a case of
its own (`VanishKeeps`).

### Calls between agents

`A2AInboundProofs` is about the two modules an envelope passes through in the run
that receives it. For `ReplayGuard` it assumes that a copy carries an envelope at a run, timestamps
are naturals, and `2 * Window <= Hour`, as the code's constants have it: an
envelope that is still fresh was then recorded in the bucket of this hour or the
last (`FreshNear`). `GuardInv == GuardTypeOK /\ Timely /\ Kept /\ Known`.
`AdmittedOnce` promises a record only while the timestamp passes by the present
clock; a handler admits by the clock it read before. `Kept` therefore follows
the record: an admission by a clock no hour has turned on, into a whole line, is
in the file of its bucket until that bucket is too old for any lookup, and is
the only one of its envelope. `Timely` says that no handler's clock is ahead and
that what it is about to admit was fresh by it. `Known` follows ids from disk
and memory to a request that was presented with them, for `FirstCopyIsNoReplay`.

For `A2AInbox` it assumes a positive capacity and finitely many peers.
`InboxInv == TypeOK /\ OnePlace /\ Journey /\ Countable /\ QuotaExact`: `Journey` says
in which order a call passes its places, without which a call could enter one
twice; `Countable` that the calls a quota counts are finitely many, though
`Calls` need not be. A step moves one call between places, and the count of its
peer with it (`SameCount`, `OneMore`, `OneLess`).

The part of `AuditTrailProofs` about `A2ARoundTrip` assumes only that calls have a
sender and a receiver, which may be the same, that `"none"` (the msg_id a request
answers) is no call, and a natural bound. `TripIInv` is
`TripTypeOK`, `WireInv` (what is on the wire is genuine:
an answer is there only once the receiver's agent gave it; this is where
signatures enter) and, for every call, `OutcomeInv` (one outcome in the sender's
log when settled, none before) and `ReceiverInv` (what the receiver's handlers
have done is in its log by the time the answer has left). `AnswersMatch` rests
on `FlawlessIsAnswer`: a message `verifyResponse` finds no flaw in is the answer
to that call. Steps about one call disturb no other's entries (`OthersKeep`,
which needs that entries of two calls differ: `Distinct`).

### Human gates

`HumanGateProofs` assumes what a configuration is made of and that `NoGate` is no
gate. `FirstDecisionWins` is about a gate that is over; `IInv` says of every gate
what leads there: a source has at most one result in the channel and has returned
it (`ChannelInv`); while the race is open the first decision in the channel is
the first that was returned, whatever silence comes before it (`FirstInv`);
a source that was heard to say nothing has returned, and while the race is open
only after the deadline (`SilenceInv`); what runGate chose is that first decision, or none when the
deadline passed and all sources had returned (`ChosenInv`); what it then did is
the one event and the one forward that belong to it (`DoneInv`). `LockInv` says
whose the terminal's lock is. A step of one gate leaves the others' parts alone
(`SameKeeps`).

### Audit log

The part of `AuditTrailProofs` about `AuditLog` assumes natural bounds.
`IInv == TypeOK /\ NumberInv /\ FormInv /\ ChainInv /\ CompleteInv`.
`ChainVerifies` says nothing of the next entry, which chains to what its Logger
remembers: `ChainInv` adds that as long as runs did not overlap there is one
writer and it remembers the last line. `CompleteInv` says the same of a run
before it reports as `SuccessIsComplete` does after it: a Logger without an error
has written all it was given. A run's line is never lost again because only a cut
line is ever joined to (`LineAdded`, `LineKeeps`). `TamperingIsLocated` is a
statement about a file; it needs that no two lines have one hash
(`HashesDiffer`, from `NumberInv`) and that what is above a change verifies as
before (`SameAbove`), so that the change is the first fault (`FirstFault`).

### Docker runs

`DockerSandboxProofs` assumes only that the operator is no run, that alarms are of
the four causes and that the number of troubles is a natural one. Its five
properties speak of a run at one stage, or after its end, and each of them could be
broken by a step of another process that they say nothing of.
`IInv == Course /\ Killed /\ Intact /\ Cleanup`.

`Course` says who removes what, and when: types; a process removes things while it
sweeps, rolls back or tears down, in a sweep those of runs it listed and otherwise
its own (`Orders`); every list of removals ends with its networks (`NetsLast`); a
run that was dead when it was listed stays dead (`Buried`); `constle stop` takes a
run that has a network (`StopLate`); and what a run can have made at each stage
of Start (`Made`). `Killed` is `KilledIsReported` told from the announcement on: a
kill path announces its cause before it fells the agent, and a run is reported to
have ended by itself only when no cause was announced.

`Intact` is about runs that nobody else touched: at each stage such a run has
what the rest of the stages rely on. It implies `SweepSparesRunning` and
`LogsBeforeRemoval`; whose removal a step is comes from `Course`
(`RemovalTarget`).

`Cleanup` is behind `NothingLeft` and `SweepIsThorough`, which speak of the end of a
cleanup and are about failed commands or the lack of them. It says that as long as
nothing has failed, what a run still has is on the list of the process that is to
remove it (`Takes`): its own rollback or Stop (`Clearing`, without faults;
`StopGoes`, of a Stop or `constle stop` that has not counted an error), or a sweep's
list or the runs it has still to come to (`Sweeping`). The difficulty is
that a list is drawn up once and the run it is about may change. It does not:
nothing is made for a run that is not in Start (`Shares`), so what is left only
shrinks (`TakesStill`); and a removal is refused only of a network with a running
container on it, which cannot be by the time the networks' turn has come,
since the containers come first (`TakesRemoval`).

### Firecracker runs

`FirecrackerSandboxProofs` assumes that the operator and `NoRun` are no runs, that
PIDs are positive and the bound is natural; there may be any number of runs and
of PIDs, and a PID may be given out again the moment it is free.
`IInv` is `TypeOK`, `strays \subseteq {stopRun}` and seven parts.

Three of them say who may do what. `Files`: a state file is there only once Start
has come to writing it, parses only from the end of Start on, and no run has itself
on the list of its sweep. `Orders`: the removals a process has in hand are of its
own run in a rollback and in Stop, where they go by its own PIDs, and of one other
run in a sweep; and a child that a rollback is to kill has not been waited for, so
that its PID is still its own. `Foreign`: what a process removes of another run is
either the whole of one that has ended its Start and, if it is a sweep that removes
it, has no VM any more; or the directory alone of one that was judged by its age.
`TeardownSparesOthers` follows at the step that signals (`StraysStep`).

`Traced` is about PIDs that are given out again. A run's processes are where its
own constle remembers them as long as that lives, and where the state file says if
it parses; other PIDs in memory, in a record or in a list of removals may
be of anything by now. A signal by such a PID therefore ends the process that
was meant or, by what `Struck` looks at, no VM. What the signal ends for whom is
`SignalOn`.

`Life` relates the guest, its image and the report: a code is in the image of a
live run only if its guest wrote it, an image is there until another process has
removed it (`robbed`), and a guest that ended has ended in one of two ways
(`GuestStep`); `ReportIsTrue` is the part of it that speaks of reports. `Up` is
`RunningUndisturbed` from the first step of Start on, which hands to each step
what the last has provided.

`Clear` is behind `NothingLeft`. As long as no removal has failed, what is left of
a run is on the list of whoever is removing it, be it its own process or another
(`Holds`, `HoldsJail`), and the PIDs the list goes by are those of the run's
processes (`Aims`). Only Start adds to a run (`ProcStep`, `DiskStep`), so such a list stays
complete although several processes may work on the same run at once, and when it
is empty nothing is left (`HoldsAfter`). A sweep that goes by the age of a
directory counts as failed in this: it removes that directory alone.

### Key files

`KeyFilesProofs` assumes that what was there at first was made by no command
(`LeftoverAssumption`), natural bounds, and that those under sudo are processes.
`StepShape` reduces the seventeen actions of a command to what they may do to
the key, the metadata, a directory and the process itself; the rest of the proof
is about these. `IInv` has `NumberInv` (a number names one command and what it
created), `FreshKeyInv` and `LoadInv` (a key is empty until its maker has written
it; a returned pair belongs together), `PairInv` (as long as the user changes
nothing, whoever passed O_EXCL has the file to itself, and all that is loaded or
returned later is that key), `OwnerInv` (what is root's is about to be handed over
by the command that made it) and `MetaInv` (metadata being written under sudo is
nobody else's). `HandedBack` is `OwnerInv` with less said of where that command
is; both except what is in `cut`: what a command that died had not handed over yet,
or one that failed to hand it over could not remove. `KeepsWhatItFinds` is a property of steps and follows from the invariant
before the step.

### From the Agentfile to the run

`GuardedRunProofs` assumes here that the files are what a manifest can hold
(`FileAssumption`: the field types of `AgentManifest`, and that a URL has one host
or none), and that a second and a Duration are positive. The invariant (`RunInv`)
keeps what each stage has checked for the next: a run that has started has a file
that was parsed strictly and is valid, and the selection that was made for it. The
rest is about operators. `SecondsAreKept`: `n * PerSecond`, taken modulo the width
of a Duration, is not wrapped for an `n` that `ValidSeconds` admits.
`SatisfiesChain`: the level reached satisfies the manifest's, which satisfies the
floor of the capabilities (`LevelIsHeld`). `OneSource`: two credentials never take
one variable, nor a credential one of the run's. `AdmittedIsCovered`: among plain
hosts, what Squid admits by string is what `HostsOverlap` finds by normalised name,
although the URL was written in any case and with trailing dots;
`AdmitsByDomain`: an entry that is one name and is no alias of the sandbox host
admits a name of it only as a domain, and not as `.host.docker.internal`.

### From the decision to the log

Here it assumes that the approver's key is neither absent nor one of
the two names the model has for other keys, and nothing of the files, hosts,
requests and bounds, nor of the call that is held: it is decided on as one value.
`LogTellsTheTruth` speaks of what the verification makes of an entry; `IInv` of
what is in it: its fields have their types, a signature of the approver's in it
was made over a statement the approver signed (`Genuine`), and until someone edits
it, it is one of the entries the gate writes (`Fresh`). An edit changes one field,
at whatever depth (`EditForms`), and makes no signature of the approver's
(`EditKeeps`), so the invariant holds however often the log is edited, where the
run of section 3 stops at two. That an approval which is let stand was signed is
then about `Verified` alone (`StandingIsSupported`, `SupportIsSigned`); that what
the gate wrote verifies needs that each event is logged for one finding and read
back as that finding (`EventFacts`), and that a record keeps an answer whole unless
it says otherwise (`RecordedFacts`).

### Only model-checked

- Liveness, which is out of the prover's reach: `ChargeReturns`,
  `KillFollowsTrip`, `EveryoneEnds`, `GatesResolve`, `RoundTripsEnd`, `KillEndsRun`.
- `GuardedRun`: `PathStaysInside` and `InspectedIsExecuted` are about folds over
  sequences that the inputs choose (paths, member lists), which is induction over
  data.

## 5. Where code and documentation disagree

With a run (see `findings` in `PROJECT.json`):

- a replay record appended behind a torn line is lost with it, and it is the
  record of an envelope that was delivered (`replay_torn`;
  `internal/a2a/replay_store.go:134-139`).

Observed while modelling; where a property would otherwise be false, it names
the exception:

- a call that waits for its human when another trips the tracker is forwarded
  once approved (`internal/mcpgate/metering.go:35-37`); `SpendPromise` allows it;
- the replay check uses a clock read before its locks; when the hour turns in
  between, one envelope can be admitted by two runs
  (`internal/a2a/envelope.go:237-238`); `AdmittedOnce` excepts `overtaken` ones;
- two overlapping runs of one agent chain to the same line, and VerifyFile calls
  the honest log reordered (`internal/audit/logger.go:212-215`); `ChainVerifies`
  is about runs that do not overlap;
- a sweep removes the running proxy of a live run that it listed while one of
  that run's containers was created and not started, or had exited
  (`internal/sandbox/docker.go:880-882`). `SweepSparesRunning` says how far the
  promise does hold;
- `SetSpendKill` does not look at the tracker, so a violation before it kills
  only when a further request arrives (`metering.go:388-393` says it cannot be
  lost);
- `expireCall` drops only pending calls: one still queued becomes pending when
  polled, and a late reply to it is accepted (`listener.go:226-227,308-309`);
- `beginPrompt` drains without waiting for the reader, so an old line the reader
  has not offered yet answers the prompt (`approver.go:233-235`);
- the flush of the proxy's log comes after `logger.Err` was asked, so a run can
  report success over a log that then loses entries (`logger.go:302-304`);
- an answer is handed to the peer's connection before it is logged as sent; a
  process that dies in between leaves a peer with an answer its log does not
  have (`listener.go:294`); `StoriesAgree` excepts it;
- the Docker sweep finds runs by their containers, so networks that are left
  without one (a failing `docker network rm`, a crash in Start or late in Stop)
  and a proxy that still runs are never swept, and a Squid file never is
  (`docker.go:121-123` says a failed step's leftovers are);
- `constle stop` of a Docker run that is still in Start can report it removed
  while Start goes on to create a container, which the next sweep takes;
- what a microVM run has made before its state is recorded (the TAP device, the
  rules, a Squid, the chroot) no sweep can find once its process is dead, and the
  chroot of a failed prepareChroot not even Start removes
  (`firecracker.go:136-138`); `NothingLeft` is about recorded runs, and excepts
  that chroot;
- a sweep that runs between a VM's end and the reading of its exit code takes the
  run for an abandoned one and removes the image the code is in, so a run that
  ended well is reported killed or as an error (`firecracker.go:287`);
  `ReportIsTrue` names that sweep as the only cause;
- a Start that takes longer than a minute loses its run directory to the sweep of
  another run; the VM runs on, unknown to later sweeps and to `constle stop`
  (`firecracker_state.go:276`); `RunningUndisturbed` excepts it;
- teardownFirecrackerRun removes the run directory, and with it the record,
  although an earlier removal has failed, so nobody can try again;
- a Squid is recognised by its name alone, so a teardown can end another run's
  Squid that was given the PID (`firecracker_state.go:219`); and Start's own
  rollback and the last signal of Kill go to a PID without any look
  (`firecracker.go:190`, `319`), the latter even after Wait has reaped the VM, so that
  a VM of another run that was given the PID would be struck;
- a key whose metadata was never written, after a crash or a full disk, blocks
  both Create and Load until someone removes it by hand
  (`internal/identity/identity.go:135`);
- a hand-over that fails removes the file by name, which may be another one by
  then (`internal/homedir/homedir_unix.go`); `KeepsWhatItFinds` excepts it;
- the check of the allowlist for names of the sandbox host compares exact spellings,
  so that domain entries which cover such a name (`.localhost`, `.internal`,
  `.docker.internal`) pass beside declared servers or peers (`parser.go:880`),
  although the comments say that these hosts must not be allowed
  (`parser.go:461-463`, `557-558`). Squid's `to_internal` rule (`docker.go:439-445`)
  still refuses such a name while it resolves to an internal address.
  `NoWayRoundTheGate` promises nothing for these entries.

## 6. Not modelled, and why

- *Cost arithmetic* (`money.go`, `meter.go`): total functions from decimal text
  and JSON paths to micro-cents. Their results, including overflow and an
  unreadable price, are choices in `SpendGate`.
- *Notifications* (`notify.go`): posts that nothing waits for or reads back.
- *Presentation*: terminal output and its escaping, `ps`, `init`, `intro.go`,
  `style.go`. `identity` and `audit` are thin callers of what `KeyFiles`,
  `AuditLog` and `DecisionRecords` model.
- *Conversions that decide nothing here*: YAML, URL, decimal and DID syntax (a
  scalar is well formed or not), canonical JSON (injective), SHA-256 (injective)
  and Ed25519 (sound).
- *Contents* of VM images, nftables rules, TAP addresses and container options.
  The addresses of two Firecracker runs that pick one at the same time (hostHasIP,
  `firecracker_net.go:61`) are among them.
- Windows' homedir, which hands nothing over.

`constle run` is modelled as far as the other modules need it: what it parses and
chooses in `GuardedRun`, the budget check, callbacks and outcome in `SpendGate`,
the log's end in `AuditLog`, the kill paths, Wait, the report and teardown in the
two sandbox modules. The order of its remaining setup is not.

## 7. Plan

Every invariant that a run checks is proved for every value of the constants, but
for `PathStaysInside` and `InspectedIsExecuted` of `GuardedRun`, which are beyond the
provers at hand (section 4). What could be added is model: the arithmetic of
`money.go` and `meter.go`, whose results `SpendGate` chooses freely, and the choice
of addresses by two Firecracker runs that start at once.
