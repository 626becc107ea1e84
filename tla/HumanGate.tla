----------------------------- MODULE HumanGate -----------------------------
(***************************************************************************)
(* Human gates (internal/mcpgate): one handler per gated tools/call, in    *)
(* runGate; the TerminalApprover they share, with its lock and its single  *)
(* stdin reader; a WebhookApprover and a RaceApprover per gate when an     *)
(* approver key is declared.                                               *)
(*                                                                         *)
(* pc[g] is the handler: idle -> open (sources run) -> decided -> over.    *)
(* term[g] is the goroutine of TerminalApprover.Decide for g:              *)
(*   off -> queued (for the lock) -> draining -> prompting -> back         *)
(*                                -> mute (stdin is no terminal) -> back   *)
(* A line remembers the gate whose prompt was showing when it was typed.   *)
(***************************************************************************)
EXTENDS Integers, Sequences, FiniteSets

CONSTANTS
  Gates,        \* gated calls of one run
  Configs,      \* [onTimeout, webhook, interactive]: human_gates.on_timeout,
                \* whether a signed decision channel races the terminal, and
                \* whether stdin is one
  Unshowable,   \* gates whose arguments the terminal cannot show in full
  MaxLines,     \* bound on the lines a human types
  NoGate

ASSUME GateAssumption == /\ Configs \subseteq [onTimeout : {"abort", "proceed"},
                                               webhook : BOOLEAN, interactive : BOOLEAN]
                         /\ Unshowable \subseteq Gates
                         /\ MaxLines \in Nat
                         /\ NoGate \notin Gates

Words     == {"approve", "deny", "other"}
Lines     == [word : Words, aim : Gates \union {NoGate}]
Decisions == {"approved", "denied", "none"}
\* What a decision that arrives on the webhook turns out to be; "invalid"
\* stands for signature_invalid, request_id_mismatch and digest_mismatch.
Answers   == {"approved", "denied", "invalid"}
Results   == [source : {"terminal", "webhook"}, decision : Decisions,
              event : {"plain", "invalid"}, aim : Gates \union {NoGate}]
Events    == {"gate_approved", "gate_denied", "gate_timeout", "gate_invalid"}

VARIABLES
  config,        \* the run's configuration
  pc, expired,   \* the handler, and whether its deadline has passed
  results,       \* the race's channel: what its sources returned, in order
  silent,        \* sources the race has heard say nothing
  chosen,        \* the Result runGate acts on
  term, hook,    \* the two sources' goroutines
  mu,            \* the gate whose goroutine holds the terminal's lock
  reader,        \* the stdin reader has been started
  typed,         \* lines the reader has not read yet
  parked,        \* the line the reader offers on lineCh: at most one
  keys,          \* lines typed so far
  installed, aborted,   \* SetAbortRun has run; the abort callback has
  events,        \* terminal events logged, per gate, in order
  forwarded,     \* calls handed to the upstream, per gate
  first          \* history: the first Result with a decision any source returned

handlerVars  == <<pc, silent, chosen, aborted, events, forwarded>>
terminalVars == <<mu, reader, typed, parked, keys>>
vars == <<config, handlerVars, terminalVars, expired, results, term, hook, installed, first>>

Sources   == IF config.webhook THEN {"terminal", "webhook"} ELSE {"terminal"}
Nothing == [source |-> "terminal", decision |-> "none", event |-> "plain", aim |-> NoGate]

Init ==
  /\ config \in Configs
  /\ pc = [g \in Gates |-> "idle"]
  /\ expired = [g \in Gates |-> FALSE]
  /\ results = [g \in Gates |-> <<>>]
  /\ silent = [g \in Gates |-> {}]
  /\ chosen = [g \in Gates |-> Nothing]
  /\ term = [g \in Gates |-> "off"]
  /\ hook = [g \in Gates |-> "off"]
  /\ mu = NoGate
  /\ reader = FALSE
  /\ typed = <<>>
  /\ parked = <<>>
  /\ keys = 0
  /\ installed = FALSE
  /\ aborted = FALSE
  /\ events = [g \in Gates |-> <<>>]
  /\ forwarded = [g \in Gates |-> 0]
  /\ first = [g \in Gates |-> Nothing]

-----------------------------------------------------------------------------
(* runGate and RaceApprover.                                               *)

\* gate_triggered is logged and every source starts.
Open(g) ==
  /\ pc[g] = "idle"
  /\ pc' = [pc EXCEPT ![g] = "open"]
  /\ term' = [term EXCEPT ![g] = "queued"]
  /\ hook' = [hook EXCEPT ![g] = IF config.webhook THEN "polling" ELSE "off"]
  /\ UNCHANGED <<config, expired, results, silent, chosen, terminalVars, installed, aborted,
                 events, forwarded, first>>

Deadline(g) ==
  /\ pc[g] = "open"
  /\ ~expired[g]
  /\ expired' = [expired EXCEPT ![g] = TRUE]
  /\ UNCHANGED <<config, handlerVars, terminalVars, results, term, hook, installed, first>>

\* A source's context ends with the gate's deadline or with the race.
ContextDone(g) == expired[g] \/ pc[g] # "open"

\* A source returns r: it is in the race's buffered channel.
Return(g, r) ==
  /\ results' = [results EXCEPT ![g] = Append(@, r)]
  /\ first' = IF r.decision # "none" /\ first[g] = Nothing
              THEN [first EXCEPT ![g] = r] ELSE first

\* A denial does not end the race.
MutDenialWaits(g, r) ==
  r.decision = "approved" \/ Sources \ {r.source} \subseteq silent[g]
\* Whether the race ends with r: with the first decision, or when every source
\* has said nothing.
EndsRace(g, r) ==
  r.decision # "none" \/ Sources \ {r.source} \subseteq silent[g]

Hear(g) ==
  LET r == Head(results[g]) IN
  /\ pc[g] = "open"
  /\ results[g] # <<>>
  /\ results' = [results EXCEPT ![g] = Tail(@)]
  /\ \/ /\ EndsRace(g, r)
        /\ pc' = [pc EXCEPT ![g] = "decided"]
        /\ chosen' = [chosen EXCEPT ![g] = r]
        /\ UNCHANGED silent
     \/ /\ ~EndsRace(g, r)
        /\ silent' = [silent EXCEPT ![g] = @ \union {r.source}]
        /\ UNCHANGED <<pc, chosen>>
  /\ UNCHANGED <<config, expired, terminalVars, term, hook, installed, aborted, events,
                 forwarded, first>>

\* The call goes to the upstream: approved, or timed out under proceed.
MutProceedAnyway(r) == r.decision = "approved" \/ config.onTimeout = "proceed"
MayForward(r) ==
  r.decision = "approved" \/ (r.decision = "none" /\ config.onTimeout = "proceed")

\* The terminal event of a decision.
EventOf(r) ==
  IF r.decision = "none" THEN "gate_timeout"
  ELSE IF r.event = "invalid" THEN "gate_invalid"
  ELSE IF r.decision = "approved" THEN "gate_approved" ELSE "gate_denied"

\* The event is logged; the call is forwarded or fails; a timeout under abort
\* stops the run if cmdRun has installed the callback.
Act(g) ==
  LET r == chosen[g] IN
  /\ pc[g] = "decided"
  /\ events' = [events EXCEPT ![g] = Append(@, EventOf(r))]
  /\ forwarded' = [forwarded EXCEPT ![g] = @ + (IF MayForward(r) THEN 1 ELSE 0)]
  /\ aborted' = (aborted \/ (r.decision = "none" /\ config.onTimeout = "abort" /\ installed))
  /\ pc' = [pc EXCEPT ![g] = "over"]
  /\ UNCHANGED <<config, expired, results, silent, chosen, terminalVars, term, hook, installed,
                 first>>

-----------------------------------------------------------------------------
(* TerminalApprover.                                                       *)

\* The lock is taken; the context may have ended in the queue.  The first
\* prompt of the run starts the stdin reader.
Lock(g) ==
  /\ term[g] = "queued"
  /\ mu = NoGate
  /\ \/ /\ ContextDone(g)
        /\ term' = [term EXCEPT ![g] = "back"]
        /\ Return(g, Nothing)
        /\ UNCHANGED <<mu, reader>>
     \/ /\ ~ContextDone(g)
        /\ mu' = g
        /\ term' = [term EXCEPT ![g] = IF config.interactive THEN "draining" ELSE "mute"]
        /\ reader' = (reader \/ config.interactive)
        /\ UNCHANGED <<results, first>>
  /\ UNCHANGED <<config, handlerVars, typed, parked, keys, expired, hook, installed>>

\* beginPrompt: offered lines are dropped until none is on offer; what the
\* reader has not read, or not offered yet, stays.
Drain(g) ==
  /\ term[g] = "draining"
  /\ \/ parked # <<>> /\ parked' = <<>> /\ UNCHANGED term
     \/ parked = <<>> /\ term' = [term EXCEPT ![g] = "prompting"] /\ UNCHANGED parked
  /\ UNCHANGED <<config, handlerVars, mu, reader, typed, keys, expired, results, hook,
                 installed, first>>

\* The answer of a line.  No approval is collected for arguments that were
\* not shown.
MutApproveUnseen(g, l) ==
  IF l.word = "approve" THEN "approved" ELSE IF l.word = "deny" THEN "denied" ELSE "none"
Reading(g, l) ==
  IF l.word = "approve" /\ g \notin Unshowable THEN "approved"
  ELSE IF l.word = "deny" THEN "denied" ELSE "none"

\* The prompt takes the line on offer, also one that comes with the deadline;
\* a line that is no answer leaves the prompt up.
TakeLine(g) ==
  /\ term[g] = "prompting"
  /\ parked # <<>>
  /\ parked' = <<>>
  /\ LET d == Reading(g, Head(parked)) IN
     \/ /\ d = "none"
        /\ UNCHANGED <<term, mu, results, first>>
     \/ /\ d # "none"
        /\ term' = [term EXCEPT ![g] = "back"]
        /\ mu' = NoGate
        /\ Return(g, [Nothing EXCEPT !.decision = d, !.aim = Head(parked).aim])
  /\ UNCHANGED <<config, handlerVars, reader, typed, keys, expired, hook, installed>>

\* The lock on the way out of a prompt that timed out.
MutKeepLock == mu
ReleaseLock == NoGate

GiveUp(g) ==
  /\ term[g] \in {"prompting", "mute"}
  /\ ContextDone(g)
  /\ term' = [term EXCEPT ![g] = "back"]
  /\ mu' = ReleaseLock
  /\ Return(g, Nothing)
  /\ UNCHANGED <<config, handlerVars, reader, typed, parked, keys, expired, hook, installed>>

\* startReader: the next line is offered on the unbuffered lineCh.
ReadLine ==
  /\ reader
  /\ typed # <<>> /\ parked = <<>>
  /\ parked' = <<Head(typed)>>
  /\ typed' = Tail(typed)
  /\ UNCHANGED <<config, handlerVars, mu, reader, keys, expired, results, term, hook, installed,
                 first>>

-----------------------------------------------------------------------------
(* WebhookApprover, the human and cmdRun.                                  *)

\* A poll brings a decision: verified, it is what it says; anything that does
\* not verify is a denial with an event of its own.
HookAnswers(g) ==
  /\ hook[g] = "polling"
  /\ hook' = [hook EXCEPT ![g] = "back"]
  /\ \E a \in Answers :
       Return(g, [source |-> "webhook", aim |-> NoGate,
                  decision |-> IF a = "approved" THEN "approved" ELSE "denied",
                  event |-> IF a \in {"approved", "denied"} THEN "plain" ELSE a])
  /\ UNCHANGED <<config, handlerVars, terminalVars, expired, term, installed>>

HookGivesUp(g) ==
  /\ hook[g] = "polling"
  /\ ContextDone(g)
  /\ hook' = [hook EXCEPT ![g] = "back"]
  /\ Return(g, [Nothing EXCEPT !.source = "webhook"])
  /\ UNCHANGED <<config, handlerVars, terminalVars, expired, term, installed>>

\* A human types a line, at the prompt that is showing or at none.
Showing == IF \E g \in Gates : term[g] = "prompting"
           THEN CHOOSE g \in Gates : term[g] = "prompting" ELSE NoGate

TypeLine ==
  /\ keys < MaxLines
  /\ keys' = keys + 1
  /\ \E w \in Words : typed' = Append(typed, [word |-> w, aim |-> Showing])
  /\ UNCHANGED <<config, handlerVars, mu, reader, parked, expired, results, term, hook,
                 installed, first>>

InstallAbort ==
  /\ ~installed
  /\ installed' = TRUE
  /\ UNCHANGED <<config, handlerVars, terminalVars, expired, results, term, hook, first>>

Terminal(g) == Lock(g) \/ Drain(g) \/ TakeLine(g) \/ GiveUp(g)

Finished == (\A g \in Gates : pc[g] = "over") /\ UNCHANGED vars

Next ==
  \/ \E g \in Gates :
       \/ Open(g) \/ Deadline(g) \/ Hear(g) \/ Act(g)
       \/ Terminal(g) \/ HookAnswers(g) \/ HookGivesUp(g)
  \/ ReadLine \/ TypeLine \/ InstallAbort
  \/ Finished

Spec == Init /\ [][Next]_vars

\* Handlers and goroutines keep running and deadlines pass.  The lock is fair
\* to each goroutine in its queue (sync.Mutex hands over to a starving one).
\* No human and no webhook owes an answer.
FairSpec ==
  /\ Spec
  /\ \A g \in Gates :
       /\ WF_vars(Deadline(g)) /\ WF_vars(Hear(g)) /\ WF_vars(Act(g))
       /\ SF_vars(Lock(g)) /\ WF_vars(Drain(g)) /\ WF_vars(GiveUp(g))
       /\ WF_vars(HookGivesUp(g))

-----------------------------------------------------------------------------
(* Properties.                                                             *)

TypeOK ==
  /\ config \in Configs
  /\ pc \in [Gates -> {"idle", "open", "decided", "over"}]
  /\ expired \in [Gates -> BOOLEAN]
  /\ results \in [Gates -> Seq(Results)]
  /\ silent \in [Gates -> SUBSET {"terminal", "webhook"}]
  /\ chosen \in [Gates -> Results]
  /\ term \in [Gates -> {"off", "queued", "draining", "prompting", "mute", "back"}]
  /\ hook \in [Gates -> {"off", "polling", "back"}]
  /\ mu \in Gates \union {NoGate}
  /\ reader \in BOOLEAN
  /\ typed \in Seq(Lines)
  /\ parked \in Seq(Lines) /\ Len(parked) <= 1
  /\ keys \in 0..MaxLines
  /\ installed \in BOOLEAN /\ aborted \in BOOLEAN
  /\ events \in [Gates -> Seq(Events)]
  /\ forwarded \in [Gates -> Nat]
  /\ first \in [Gates -> Results]

\* "First decision winning": the call is handled by the first decision any
\* source returned, whatever the other source says later and whenever the
\* deadline passes; only when no source decided, and then not before the gate's
\* own deadline has passed, does on_timeout, even when gates queue for one
\* terminal.
FirstDecisionWins ==
  \A g \in Gates : pc[g] \in {"decided", "over"} =>
    IF first[g] = Nothing THEN chosen[g].decision = "none" /\ expired[g]
    ELSE chosen[g] = first[g]

\* The log tells what became of the call: one terminal event per gate, an
\* approval or a timeout under proceed for a forwarded call, anything else for
\* one that was not.
LogMatchesOutcome ==
  \A g \in Gates : pc[g] = "over" =>
    /\ Len(events[g]) = 1
    /\ forwarded[g] = 1 <=>
         events[g][1] = "gate_approved" \/ (events[g][1] = "gate_timeout" /\ config.onTimeout = "proceed")

\* A call whose arguments the operator could not see is approved by the
\* webhook or not at all.
UnseenNotApprovedHere ==
  \A g \in Unshowable :
    pc[g] = "over" /\ chosen[g].decision = "approved" => chosen[g].source = "webhook"

\* Every gate is resolved, also one that waits behind other prompts.
GatesResolve == \A g \in Gates : pc[g] = "open" ~> pc[g] = "over"
=============================================================================
