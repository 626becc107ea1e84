----------------------------- MODULE Agentfile -----------------------------
(***************************************************************************)
(* The Agentfile, from the bytes its author wrote to a manifest a run may  *)
(* start from (pkg/manifest): strict parsing, the defaults, and the rules  *)
(* of Validate.  A rule is an operator of the manifest; Validate is their  *)
(* conjunction, since all that the code's order decides is which complaint *)
(* is printed.                                                             *)
(*                                                                         *)
(* A file is [wrote, astray]: the manifest its author meant, and the       *)
(* section whose key is misspelt or which stands in a second document      *)
(* ("none": neither).  A host is [lines, upper, dot, ascii, sub]: the      *)
(* names it amounts to once rendered (more than one where a line break is  *)
(* hidden in it), as sequences of labels, other letters that fold alike, a *)
(* trailing dot, letters IDNA would map, and the leading dot of a domain   *)
(* with its subdomains; a URL without a usable host has no lines; names of *)
(* tools and credentials are spelled as in RequestInspection, where padded *)
(* stands for any character the grammar of a variable name refuses.  An    *)
(* amount is "", "zero", "five" or "malformed".                            *)
(***************************************************************************)
EXTENDS Naturals, Integers, FiniteSets, SequencesExt

CONSTANTS PerSecond,     \* nanoseconds in a second
          DurationRange  \* a time.Duration holds -DurationRange .. DurationRange - 1

ASSUME DurationAssumption == PerSecond \in Nat \ {0} /\ DurationRange \in Nat \ {0}

-----------------------------------------------------------------------------
(* What a file can hold                                                    *)

Spelling == [word : STRING, upper : BOOLEAN, padded : BOOLEAN]

HostNames == [lines : Seq(Seq(STRING)), upper : BOOLEAN, dot : BOOLEAN, ascii : BOOLEAN, sub : BOOLEAN]

\* A URL that parses has one host or none: it holds no line break, and a leading dot
\* in it is an empty label, no domain with its subdomains.
URLHosts == {h \in HostNames : Len(h.lines) <= 1 /\ ~h.sub}

Credential == [name : Spelling, source : Spelling]

MCPServer == [id : STRING, host : URLHosts, path : Seq(STRING), tools : SUBSET Spelling, pricing : STRING]

A2APeer == [id : STRING, host : URLHosts, did : STRING]

HumanGates == [enabled : BOOLEAN, entries : SUBSET Spelling, timeout : Int, onTimeout : STRING,
               channels : SUBSET STRING, approver : STRING]

AgentManifest ==
  [name : STRING, did : STRING, imageIsFlag : BOOLEAN, isolation : STRING,
   capabilities : SUBSET STRING, credentials : Seq(Credential), allowed : SUBSET HostNames,
   servers : Seq(MCPServer), listen : STRING, peers : Seq(A2APeer), duration : Int,
   gates : HumanGates, perRun : STRING, perDay : STRING, warnAt : Int]

Agentfiles == [wrote : AgentManifest, astray : {"none", "capabilities", "human_gates", "limits"}]

-----------------------------------------------------------------------------
(* Isolation levels and capabilities                                       *)

Levels == <<"none", "process", "network", "kernel">>

IsValid(level) == level \in ToSet(Levels)

Rank(level) == IF IsValid(level) THEN CHOOSE i \in DOMAIN Levels : Levels[i] = level ELSE 1

Satisfies(level, required) == IsValid(level) /\ IsValid(required) /\ Rank(level) >= Rank(required)

KnownCapabilities == {"read_file", "write_file", "web_search", "external_api",
                      "send_email", "spawn_subagent", "external_transfer", "delete_records"}

MinIsolationFor(capability) ==
  CASE capability \in {"web_search", "external_api", "send_email"} -> "network"
    [] capability \in {"external_transfer", "delete_records", "spawn_subagent"} -> "kernel"
    [] OTHER -> "process"

\* The weakest level that covers every capability: what an omitted level becomes
\* and what a written one is held to.
CapabilityFloor(capabilities) ==
  LET ranks == {1} \cup {Rank(MinIsolationFor(c)) : c \in capabilities}
  IN Levels[CHOOSE r \in ranks : \A q \in ranks : q <= r]

-----------------------------------------------------------------------------
(* Parsing                                                                 *)

\* What a decoder that ignores what it does not know reads of a file.
Decoded(file) ==
  CASE file.astray = "none" -> file.wrote
    [] file.astray = "capabilities" -> [file.wrote EXCEPT !.capabilities = {}]
    [] file.astray = "human_gates"  -> [file.wrote EXCEPT !.gates.entries = {}, !.gates.enabled = FALSE]
    [] file.astray = "limits"       -> [file.wrote EXCEPT !.duration = 0]

\* Every key is in the schema and the stream ends with the first document.
ParsesStrictly(file) == file.astray = "none"

\* The defaults Parse fills in for what a manifest leaves out.
WithDefaults(m) ==
  [m EXCEPT !.isolation     = IF @ = "" THEN CapabilityFloor(m.capabilities) ELSE @,
            !.gates.timeout = IF @ = 0 THEN 300 ELSE @,
            !.gates.onTimeout = IF @ = "" THEN "abort" ELSE @]

Parsed(file) == WithDefaults(Decoded(file))

-----------------------------------------------------------------------------
(* Hosts                                                                   *)

IsPlainHost(h) == Len(h.lines) = 1 /\ ~h.upper /\ ~h.dot /\ h.ascii

Normalized(h) == [h EXCEPT !.upper = FALSE, !.dot = FALSE]

MutOverlapAsWritten(allowed, host) ==
  IF allowed.sub THEN ~host.upper /\ ~host.dot /\ IsSuffix(allowed.lines[1], host.lines[1])
  ELSE allowed = host

\* An entry of the allowlist covers a host, both taken in their one spelling.
HostsOverlap(allowed, host) ==
  LET a == Normalized(allowed)  h == Normalized(host)
  IN IF a.sub THEN IsSuffix(a.lines[1], h.lines[1]) ELSE a = h

LoopbackNames == {<<"localhost">>, <<"127.0.0.1">>, <<"host", "docker", "internal">>}

IsHostLoopbackAlias(h) ==
  /\ Normalized(h).lines[1] \in LoopbackNames
  /\ h.sub => h.lines[1] = <<"host", "docker", "internal">>

\* The names Squid admits once the entries stand in its configuration, one per line,
\* and where a client that maps a host by IDNA arrives.  What it refuses beyond that,
\* by the address a name has (to_internal) or by its port, is left out.
SquidAdmits(allowed, name) ==
  \E h \in allowed : \E i \in DOMAIN h.lines :
    IF h.sub /\ i = 1 THEN IsSuffix(h.lines[i], name) ELSE h.lines[i] = name

DialledName(h) == h.lines[1]

-----------------------------------------------------------------------------
(* The rules of Validate                                                   *)

ValidIsolation(m) == m.isolation # "" => IsValid(m.isolation)

ValidCapabilities(m) == m.capabilities \subseteq KnownCapabilities

\* A written level may only strengthen the boundary the capabilities require.
ValidFloor(m) == m.isolation # "" => Satisfies(m.isolation, CapabilityFloor(m.capabilities))

Reserved(name) == name.word \in {"http_proxy", "no_proxy", "constle_mcp_url"}

\* Names a shell can assign, none of the run's own, and no two that fold alike.
ValidCredentials(m) ==
  /\ \A i \in DOMAIN m.credentials :
       LET c == m.credentials[i]
       IN c.name.word # "" /\ ~c.name.padded /\ ~Reserved(c.name) /\ ~c.source.padded
  /\ \A i, j \in DOMAIN m.credentials :
       i # j => m.credentials[i].name.word # m.credentials[j].name.word

ValidNetwork(m) == \A h \in m.allowed : IsPlainHost(h)

\* The rules mcp.servers and a2a.peers share: an id of its own, a host that can be
\* compared, and no entry of the allowlist that leads past the gate.
ValidEndpoints(m, endpoints) ==
  /\ \A i, j \in DOMAIN endpoints : i # j => endpoints[i].id # endpoints[j].id
  /\ \A i \in DOMAIN endpoints :
       /\ endpoints[i].id \notin {"", "malformed"}
       /\ endpoints[i].host.lines # <<>> /\ endpoints[i].host.ascii
       /\ \A allowed \in m.allowed : ~HostsOverlap(allowed, endpoints[i].host)
  /\ endpoints # <<>> => \A allowed \in m.allowed : ~IsHostLoopbackAlias(allowed)

ValidMCP(m) == ValidEndpoints(m, m.servers)

ValidA2A(m) ==
  m.listen # "" \/ m.peers # <<>> =>
    /\ m.did # ""
    /\ m.peers # <<>> /\ m.listen # "malformed"
    /\ ValidEndpoints(m, m.peers)
    /\ \A i \in DOMAIN m.peers : m.peers[i].did \notin {"", "malformed", m.did}
    /\ \A i, j \in DOMAIN m.peers : i # j => m.peers[i].did # m.peers[j].did

MutMaxSeconds == DurationRange \div PerSecond

\* The largest number of seconds a time.Duration holds.
MaxSecondsField == (DurationRange - 1) \div PerSecond

ValidSeconds(n) == n >= 0 /\ n <= MaxSecondsField

ValidLimits(m) == ValidSeconds(m.duration)

ValidHumanGates(m) ==
  /\ ValidSeconds(m.gates.timeout)
  /\ m.gates.onTimeout \in {"", "abort", "proceed"}
  /\ m.gates.channels \subseteq {"webhook"}
  /\ m.gates.entries # {} => /\ m.gates.approver \notin {"", "malformed"}
                            /\ \A e \in m.gates.entries : e.word # ""

\* A cap is an exact positive amount; a daily one needs the DID its ledger is kept
\* under, and a warning needs a daily cap to warn about.
ValidSpending(m) ==
  /\ \A amount \in {m.perRun, m.perDay} : amount \notin {"zero", "malformed"}
  /\ m.perDay # "" => m.did # ""
  /\ m.warnAt # 0 => m.warnAt \in 1 .. 100 /\ m.perDay # ""
  /\ \A i \in DOMAIN m.servers : m.servers[i].pricing \in {"none", "zero", "five"}

Validate(m) ==
  /\ m.name # "" /\ m.did # "malformed" /\ ~m.imageIsFlag
  /\ ValidIsolation(m) /\ ValidCapabilities(m) /\ ValidFloor(m)
  /\ ValidCredentials(m) /\ ValidNetwork(m) /\ ValidMCP(m) /\ ValidA2A(m)
  /\ ValidLimits(m) /\ ValidHumanGates(m) /\ ValidSpending(m)

-----------------------------------------------------------------------------
(* What a run makes of the manifest                                        *)

\* time.Duration(n) * time.Second, in the width of a Duration.
AsDuration(n) == ((n * PerSecond + DurationRange) % (2 * DurationRange)) - DurationRange

\* The gate entries the CLI announces as enforced.
EnforcedGateEntries(m) ==
  IF ~m.gates.enabled THEN {}
  ELSE {e \in m.gates.entries :
          \E i \in DOMAIN m.servers : m.servers[i].tools = {} \/ e \in m.servers[i].tools}

\* The host variable a credential is read from.
Source(c) == IF c.source.word = "" THEN c.name ELSE c.source

\* Every declared credential is set and not empty on the host.
Resolvable(m, hostEnv) == \A i \in DOMAIN m.credentials : Source(m.credentials[i]) \in hostEnv

RunVariables == {"http_proxy", "no_proxy", "constle_mcp_url"}

\* Where the variables of the sandbox get their values, on a host whose variable
\* names fold: the run's own, then the declared credentials in order.
Environment(m) ==
  LET names == {m.credentials[i].name.word : i \in DOMAIN m.credentials}
  IN [w \in RunVariables \cup names |->
        {Source(m.credentials[i]) : i \in {k \in DOMAIN m.credentials : m.credentials[k].name.word = w}}
          \cup IF w \in RunVariables THEN {"the run"} ELSE {}]
=============================================================================
