---------------------------- MODULE GuardedRun -----------------------------
(***************************************************************************)
(* The chain of decisions between an Agentfile and a tool call that runs:  *)
(* the file is parsed and validated, a backend is chosen for it and the    *)
(* gate is built (cmdRun), a request of the agent reaches the gate         *)
(* (mcpgate), a gated call is answered at the terminal, by the decision    *)
(* endpoint or not at all, its entry stands in the audit log, and the log  *)
(* is verified later, perhaps after someone has edited it.                 *)
(*                                                                         *)
(* Each link is a module of operators; this one gives them their order and *)
(* the properties that hold across links.  A stage keeps what the next one *)
(* decides on and no more.                                                 *)
(***************************************************************************)
EXTENDS BackendChoice, RequestInspection, DecisionRecords

CONSTANTS Files,       \* the Agentfiles an author may write
          Hosts,       \* the hosts a run may start on
          Requests,    \* the requests an agent may send
          Approver,    \* the key the Agentfile names
          MaxSigned,   \* the statements the approver's key has signed
          MaxEdits     \* the fields someone may change in the log

ASSUME FileAssumption == Files \subseteq Agentfiles

\* The approver's key is one, and neither an absent key nor anybody else's.
ASSUME ApproverAssumption == Approver \notin {"", "nobody", "other"}

VARIABLES stage,     \* "written", "refused", "valid", "running", "serving",
                     \* "inspected", "asked", "held", "recorded"
          file,      \* the Agentfile, until its run serves requests
          run,       \* what the run has started with, then what it has announced
          gate,      \* the gate of its MCP server
          request,   \* the request that reached the gate
          verdict,   \* what the gate decided on it
          signed,    \* the statements the approver has signed
          entry,     \* the entry of the audit log
          edits      \* how often it was changed since

vars == <<stage, file, run, gate, request, verdict, signed, entry, edits>>

Nothing == [is |-> "nothing"]

Init ==
  /\ stage = "written" /\ file \in Files
  /\ run = Nothing /\ gate = Nothing /\ request = Nothing /\ verdict = Nothing
  /\ signed = {} /\ entry = Nothing /\ edits = 0

\* ParseFile, then Validate.
Check ==
  /\ stage = "written"
  /\ stage' = IF ParsesStrictly(file) /\ Validate(Parsed(file)) THEN "valid" ELSE "refused"
  /\ UNCHANGED <<file, run, gate, request, verdict, signed, entry, edits>>

\* DetectBestBackend, mcpgate.New, and the backend's Start as far as it decides.
StartRun ==
  /\ stage = "valid"
  /\ \E host \in Hosts, override \in {"", "docker", "firecracker", "wasm"},
        accepted \in {""} \cup ToSet(Levels) :
       LET m  == Parsed(file)
           ok == /\ Selectable(host, m.isolation, override, accepted)
                 /\ \A i \in DOMAIN m.servers : EndpointAccepted(m.servers[i].path)
                 /\ Resolvable(m, host.env)
       IN /\ stage' = IF ok THEN "running" ELSE "refused"
          /\ run' = IF ok THEN [is |-> "run", selection |-> Selection(host, m.isolation, override),
                                accepted |-> accepted]
                    ELSE Nothing
          /\ gate' = IF ok /\ m.servers # <<>> THEN GateFor(m.servers[1], m.gates) ELSE Nothing
  /\ UNCHANGED <<file, request, verdict, signed, entry, edits>>

\* The run is up and has announced the tools it gates.  What the file and the
\* backend decided is settled by now and is let go of.
Announce ==
  /\ stage = "running" /\ gate # Nothing
  /\ run' = [is |-> "announced", entries |-> EnforcedGateEntries(Parsed(file))]
  /\ stage' = "serving" /\ file' = Nothing
  /\ UNCHANGED <<gate, request, verdict, signed, entry, edits>>

\* A request reaches the gate: ServeHTTP and serveInspected.
Receive ==
  /\ stage = "serving"
  /\ \E r \in Requests :
       /\ request' = r
       /\ verdict' = Inspect(gate, r)
       /\ stage' = IF verdict'.does = "asked" THEN "asked" ELSE "inspected"
  /\ UNCHANGED <<file, run, gate, signed, entry, edits>>

\* runGate holds the call until it is decided: what it asks about is the call as it
\* was read, and nothing else of the request.
Hold ==
  /\ stage = "asked"
  /\ stage' = "held"
  /\ request' = Nothing /\ gate' = Nothing /\ run' = Nothing
  /\ UNCHANGED <<file, verdict, signed, entry, edits>>

\* The call is answered at the terminal, or by nobody in time.
DecideHere ==
  /\ stage = "held"
  /\ \/ \E approved \in BOOLEAN : entry' = TerminalEntry(verdict.call, approved)
     \/ entry' = TimeoutEntry(verdict.call, "this", Approver)
  /\ stage' = "recorded"
  /\ UNCHANGED <<file, run, gate, request, verdict, signed, edits>>

OtherCall == [tool |-> Word("other"), arguments |-> <<>>]

\* What the approver may have signed: about this request or an earlier one, this
\* call or another.
Statements(call) ==
  [id : {"this", "earlier"}, decision : {"approved", "denied"},
   digest : {SubjectDigest(call), SubjectDigest(OtherCall)}]

\* What the endpoint may send back, on any authority: a signature the approver did
\* make, another key's, or none.
Answers(call, statements) ==
  [id : {"this", "earlier"}, decision : {"approved", "denied"},
   digest : {SubjectDigest(call), SubjectDigest(OtherCall)},
   sig : {NoSignature} \cup [by : {Approver}, over : statements] \cup
         {[by |-> "other", over |-> [id |-> "this", decision |-> "approved",
                                     digest |-> SubjectDigest(call)]]},
   long : BOOLEAN]

\* The call is answered by the decision endpoint.
DecideByWebhook ==
  /\ stage = "held"
  /\ \E statements \in {S \in SUBSET Statements(verdict.call) : Cardinality(S) <= MaxSigned} :
       /\ signed' = statements
       /\ \E r \in Answers(verdict.call, statements) :
            entry' = WebhookEntry(verdict.call, "this", Approver, r)
  /\ stage' = "recorded"
  /\ UNCHANGED <<file, run, gate, request, verdict, edits>>

\* The entry with one field changed by someone who holds the log and not the
\* approver's key.
Changed(e) ==
  LET other == SubjectDigest(OtherCall)
  IN    {[e EXCEPT !.event = v]     : v \in {"gate_approved", "gate_denied", "gate_signature_invalid"}}
   \cup {[e EXCEPT !.decidedBy = v] : v \in {"", "webhook", "elsewhere"}}
   \cup {[e EXCEPT !.digest = v]    : v \in {<<>>, other}}
   \cup {[e EXCEPT !.tool = v]      : v \in {<<>>, ToolName(OtherCall)}}
   \cup {[e EXCEPT !.evidence = NoEvidence]}
   \cup IF ~e.evidence.asked THEN {} ELSE
             {[e EXCEPT !.evidence.response = NoResponse]}
        \cup {[e EXCEPT !.evidence.id = v]     : v \in {"this", "earlier"}}
        \cup {[e EXCEPT !.evidence.digest = v] : v \in {<<>>, other}}
        \cup {[e EXCEPT !.evidence.tool = v]   : v \in {<<>>, ToolName(OtherCall)}}
        \cup {[e EXCEPT !.evidence.pub = v]    : v \in {"", "other"}}
        \cup {[e EXCEPT !.evidence.response.decision = v] : v \in {"approved", "denied"}}
        \cup {[e EXCEPT !.evidence.response.id = v]       : v \in {"this", "earlier"}}
        \cup {[e EXCEPT !.evidence.response.digest = v]   : v \in {e.digest, other}}
        \cup {[e EXCEPT !.evidence.response.long = FALSE]}
        \cup {[e EXCEPT !.evidence.response.sig =
                 [by |-> "other", over |-> Statement(e.evidence.response)]]}

Edit ==
  /\ stage = "recorded" /\ edits < MaxEdits
  /\ entry' \in Changed(entry)
  /\ edits' = edits + 1
  /\ UNCHANGED <<stage, file, run, gate, request, verdict, signed>>

Next == Check \/ StartRun \/ Announce \/ Receive \/ Hold \/ DecideHere \/ DecideByWebhook \/ Edit

Spec == Init /\ [][Next]_vars

-----------------------------------------------------------------------------
(* Properties                                                              *)

\* A run that has started is held to what its author wrote: it stands behind a
\* boundary that covers the capabilities in the file and the level written there,
\* or one no weaker than the operator accepted by name and recorded as a
\* downgrade; every wait lasts the seconds written; every variable of the agent
\* has one source; and a daily cap has a ledger to be kept in.
DeclaredIsEnforced ==
  stage = "running" =>
    LET m == Parsed(file)
        needed == {CapabilityFloor(file.wrote.capabilities)} \cup
                  IF file.wrote.isolation = "" THEN {} ELSE {file.wrote.isolation}
    IN /\ \/ \A level \in needed : Satisfies(run.selection.achieved, level)
          \/ run.selection.downgraded /\ Satisfies(run.selection.achieved, run.accepted)
       /\ \A n \in {file.wrote.duration, m.gates.timeout} : AsDuration(n) = n * PerSecond
       /\ file.wrote.gates.timeout # 0 => m.gates.timeout = file.wrote.gates.timeout
       /\ file.wrote.gates.entries = m.gates.entries
       /\ \A w \in DOMAIN Environment(m) : Cardinality(Environment(m)[w]) = 1
       /\ m.perDay # "" => m.did # ""

\* The hosts the gates of a run police.
GatedHosts(m) == {m.servers[i].host : i \in DOMAIN m.servers} \cup {m.peers[i].host : i \in DOMAIN m.peers}

\* No name the allowlist of a started run admits is the host of a declared MCP
\* server or peer as it is dialled, in whatever spelling either was written
\* (hostsOverlap).  Of the sandbox host's own names less is true where there are
\* endpoints: an entry that admits one of them is a domain entry, and not
\* ".host.docker.internal" (isHostLoopbackAlias).  Wider domains, ".localhost",
\* ".internal" and ".docker.internal", do admit them, although "allowing these hosts
\* wholesale through Squid" is what the code means to rule out
\* (pkg/manifest/parser.go:461-463, 557-558); no promise is made here for those.
NoWayRoundTheGate ==
  stage = "running" =>
    LET m == Parsed(file)
    IN /\ \A h \in GatedHosts(m) : ~SquidAdmits(m.allowed, DialledName(h))
       /\ GatedHosts(m) # {} =>
            \A name \in LoopbackNames, h \in m.allowed :
              SquidAdmits({h}, name) => h.sub /\ h.lines[1] # <<"host", "docker", "internal">>

\* The path of a request that is forwarded leads every reader to the declared
\* endpoint or below it.
PathStaysInside ==
  stage \in {"inspected", "asked"} /\ verdict.does # "refused" =>
    \A reader \in PathReaders :
      LET path == Rewritten(gate.endpoint, request.rest)
      IN IsPrefix(Resolved(reader, TrimSlash(gate.endpoint)), Resolved(reader, path))

\* Whatever an upstream makes of a forwarded request, it executes no call the gate
\* has not read: none at all where the gate found none; otherwise the tool and the
\* arguments it read, a declared tool, and without a human no tool that was
\* announced as gated, in any spelling.
InspectedIsExecuted ==
  stage \in {"inspected", "asked"} /\ verdict.does # "refused" =>
    \A reader \in BodyReaders :
      LET read == CallRead(reader, request.body)
          told(w) == LastValue(Holding(verdict.call.arguments, w, TRUE), NoName)
      IN request.body.shape # "absent" /\ read.called =>
           /\ verdict.does \in {"called", "asked"}
           /\ read.tool \in {AsRouted(reader, verdict.call.tool), AsRouted(reader, NoName)}
           /\ \A w \in DOMAIN read.arguments : read.arguments[w] \in {told(w), NoName}
           /\ gate.tools # {} => verdict.call.tool \in gate.tools
           /\ verdict.does = "called" =>
                \A e \in run.entries : AsRouted(reader, e) # read.tool

\* An approval the log claims and the verification lets stand with the approver's
\* key pinned, unless it says it was given at the terminal, is one the approver
\* signed, for that request and that call; and what the gate itself records
\* verifies as long as nobody touches it and no field was cut.
LogTellsTheTruth ==
  stage = "recorded" =>
    /\ entry.event = "gate_approved" /\ entry.decidedBy # "terminal"
         /\ Verified(entry, Approver) # "failed" =>
           /\ [id |-> entry.evidence.id, decision |-> "approved", digest |-> entry.digest] \in signed
           /\ entry.evidence.digest = entry.digest
    /\ edits = 0 /\ ~entry.evidence.response.long =>
         \A pinned \in {Approver, ""} : Verified(entry, pinned) # "failed"
    /\ edits = 0 /\ entry.event = "gate_approved" /\ entry.decidedBy = "webhook" =>
         [id |-> "this", decision |-> "approved", digest |-> SubjectDigest(verdict.call)] \in signed
=============================================================================
