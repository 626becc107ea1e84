-------------------------- MODULE GuardedRunProofs --------------------------
(***************************************************************************)
(* Proofs about GuardedRun: for every file a manifest can be written as,   *)
(* every host and every width of a duration, what a started run is held    *)
(* to; and for every approver's key, whatever call is held, whatever the   *)
(* endpoint answers and however often the log is edited afterwards, what   *)
(* the log says of it.                                                     *)
(***************************************************************************)
EXTENDS GuardedRun, FiniteSetTheorems, SequenceTheorems, TLAPS

-----------------------------------------------------------------------------
(* The manifest                                                            *)

\* A product grows with its factor.
LEMMA ProductGrows ==
  ASSUME NEW n \in Nat, NEW q \in Nat, NEW p \in Nat \ {0}, n <= q
  PROVE  n * p \in Nat /\ n * p <= q * p
<1>1. q - n \in Nat
  OBVIOUS
<1>2. (q - n) * p \in Nat /\ (q - n) * p = q * p - n * p
  BY <1>1
<1> QED
  BY <1>1, <1>2

\* The largest number of seconds Validate admits is one a Duration holds.
LEMMA MaxSecondsFits ==
  MaxSecondsField \in Nat /\ MaxSecondsField * PerSecond <= DurationRange - 1
<1> DEFINE q == (DurationRange - 1) \div PerSecond
<1>1. q \in Nat /\ (DurationRange - 1) % PerSecond \in Nat
  BY DurationAssumption
<1>2. DurationRange - 1 = PerSecond * q + ((DurationRange - 1) % PerSecond)
  BY DurationAssumption
<1>3. q = MaxSecondsField
  BY DEF MaxSecondsField
<1> HIDE DEF q
<1>4. q * PerSecond <= DurationRange - 1
  BY <1>1, <1>2, DurationAssumption
<1> QED
  BY <1>1, <1>3, <1>4

\* A wait that Validate admits lasts the seconds written: the width of a Duration
\* wraps none of them.
THEOREM SecondsAreKept ==
  ASSUME NEW n \in Int, ValidSeconds(n)
  PROVE  AsDuration(n) = n * PerSecond
<1>1. n \in Nat /\ n <= MaxSecondsField
  BY MaxSecondsFits DEF ValidSeconds
<1>2. n * PerSecond \in Nat /\ n * PerSecond <= MaxSecondsField * PerSecond
  BY <1>1, MaxSecondsFits, DurationAssumption, ProductGrows
<1> DEFINE x == n * PerSecond
<1>3. x \in Nat /\ x <= DurationRange - 1
  BY <1>2, MaxSecondsFits, DurationAssumption
<1> HIDE DEF x
<1>4. ((x + DurationRange) % (2 * DurationRange)) - DurationRange = x
  BY <1>3, DurationAssumption
<1> QED
  BY <1>4 DEF AsDuration, x

\* What strict parsing and the defaults leave of a file.
LEMMA ParsedFacts ==
  ASSUME NEW f \in Agentfiles, ParsesStrictly(f), NEW m, m = Parsed(f)
  PROVE  /\ m.did = f.wrote.did /\ m.capabilities = f.wrote.capabilities
         /\ m.credentials = f.wrote.credentials /\ m.allowed = f.wrote.allowed
         /\ m.servers = f.wrote.servers /\ m.peers = f.wrote.peers
         /\ m.duration = f.wrote.duration /\ m.perDay = f.wrote.perDay
         /\ m.gates.entries = f.wrote.gates.entries /\ m.gates.timeout \in Int
         /\ f.wrote.gates.timeout # 0 => m.gates.timeout = f.wrote.gates.timeout
         /\ f.wrote.isolation # "" => m.isolation = f.wrote.isolation
         /\ f.wrote.isolation = "" => m.isolation = CapabilityFloor(f.wrote.capabilities)
<1>1. f.wrote \in AgentManifest /\ f.astray = "none"
  BY DEF Agentfiles, ParsesStrictly
<1>2. m = WithDefaults(f.wrote)
  BY <1>1 DEF Parsed, Decoded
<1> DEFINE w == f.wrote
           g == w.gates
<1>3. g \in HumanGates
  BY <1>1 DEF AgentManifest
<1> HIDE DEF w
<1>4. w \in AgentManifest /\ m = WithDefaults(w)
  BY <1>1, <1>2 DEF w
<1>5. /\ m.did = w.did /\ m.capabilities = w.capabilities
      /\ m.credentials = w.credentials /\ m.allowed = w.allowed
      /\ m.servers = w.servers /\ m.peers = w.peers
      /\ m.duration = w.duration /\ m.perDay = w.perDay
      /\ w.isolation # "" => m.isolation = w.isolation
      /\ w.isolation = "" => m.isolation = CapabilityFloor(w.capabilities)
  BY <1>4 DEF WithDefaults, AgentManifest
<1>6. m.gates = [w.gates EXCEPT !.timeout = IF @ = 0 THEN 300 ELSE @,
                                !.onTimeout = IF @ = "" THEN "abort" ELSE @]
  BY <1>4 DEF WithDefaults, AgentManifest
<1> HIDE DEF g
<1>7. m.gates = [g EXCEPT !.timeout = IF @ = 0 THEN 300 ELSE @,
                          !.onTimeout = IF @ = "" THEN "abort" ELSE @]
  BY <1>6 DEF g
<1>8. /\ m.gates.entries = g.entries /\ g.timeout \in Int
      /\ g.timeout = 0 => m.gates.timeout = 300
      /\ g.timeout # 0 => m.gates.timeout = g.timeout
  BY <1>3, <1>7 DEF HumanGates
<1>9. /\ m.gates.entries = w.gates.entries /\ m.gates.timeout \in Int
      /\ w.gates.timeout # 0 => m.gates.timeout = w.gates.timeout
  BY <1>8 DEF g
<1> QED
  BY <1>5, <1>9 DEF w

\* A level that satisfies one which satisfies a third satisfies the third.
LEMMA SatisfiesChain ==
  ASSUME NEW a, NEW b, NEW c, Satisfies(a, b), Satisfies(b, c)
  PROVE  Satisfies(a, c)
<1>1. \A level : IsValid(level) => Rank(level) \in Int
  <2> TAKE level
  <2> HAVE IsValid(level)
  <2>1. DOMAIN Levels = 1 .. 4
    BY DEF Levels
  <2>2. \E i \in DOMAIN Levels : Levels[i] = level
    BY <2>1 DEF IsValid, ToSet
  <2>3. Rank(level) \in DOMAIN Levels
    BY <2>2 DEF Rank
  <2> QED
    BY <2>1, <2>3
<1>2. IsValid(a) /\ IsValid(b) /\ IsValid(c) /\ Rank(a) >= Rank(b) /\ Rank(b) >= Rank(c)
  BY DEF Satisfies
<1>3. Rank(a) >= Rank(c)
  BY <1>1, <1>2
<1> QED
  BY <1>2, <1>3 DEF Satisfies

\* Each variable of the sandbox has one source: no credential takes a variable of
\* the run's, and no two credentials take one.
LEMMA OneSource ==
  ASSUME NEW m, m.credentials \in Seq(Credential), ValidCredentials(m),
         NEW v \in DOMAIN Environment(m)
  PROVE  Cardinality(Environment(m)[v]) = 1
<1> DEFINE c == m.credentials
           held == {k \in DOMAIN c : c[k].name.word = v}
           sources == {Source(c[i]) : i \in held}
           value == sources \cup IF v \in RunVariables THEN {"the run"} ELSE {}
           names == {c[i].name.word : i \in DOMAIN c}
<1>1. v \in RunVariables \cup names /\ Environment(m)[v] = value
  BY DEF Environment
<1>2. \A i \in DOMAIN c : c[i].name.word \notin RunVariables
  BY DEF ValidCredentials, Reserved, RunVariables
<1>3. \A i, j \in DOMAIN c : i # j => c[i].name.word # c[j].name.word
  BY DEF ValidCredentials
<1>4. \E x : value = {x}
  <2>1. CASE v \in RunVariables
    BY <1>2, <2>1
  <2>2. CASE v \notin RunVariables
    <3>1. PICK i \in DOMAIN c : c[i].name.word = v
      BY <1>1, <2>2
    <3>2. held = {i}
      BY <1>3, <3>1
    <3>3. sources = {Source(c[i])}
      BY <3>2
    <3> QED
      BY <2>2, <3>3
  <2> QED
    BY <2>1, <2>2
<1> QED
  BY <1>1, <1>4, FS_Singleton

-----------------------------------------------------------------------------
(* A run that has started                                                  *)

\* What has been checked of the file when its run has started, and what was chosen
\* for it.
RunInv ==
  /\ stage \in {"written", "valid", "running"} => file \in Files
  /\ stage \in {"valid", "running"} => ParsesStrictly(file) /\ Validate(Parsed(file))
  /\ stage = "running" =>
       \E host \in Hosts, override \in {"", "docker", "firecracker", "wasm"} :
         /\ Selectable(host, Parsed(file).isolation, override, run.accepted)
         /\ run.selection = Selection(host, Parsed(file).isolation, override)

\* The invariant holds before the Agentfile is read.
LEMMA InitRun == Init => RunInv
  BY DEF Init, RunInv

\* A run has what it was started with.
LEMMA RunParts ==
  ASSUME NEW selection, NEW accepted, NEW r,
         r = [is |-> "run", selection |-> selection, accepted |-> accepted]
  PROVE  r.accepted = accepted /\ r.selection = selection
  OBVIOUS

\* A run starts with the selection it was given.
LEMMA StartKeeps == RunInv /\ StartRun => RunInv'
<1> SUFFICES ASSUME RunInv, StartRun
             PROVE  RunInv'
  OBVIOUS
<1>1. /\ stage = "valid" /\ file' = file /\ file \in Files
      /\ ParsesStrictly(file) /\ Validate(Parsed(file))
  BY DEF RunInv, StartRun
<1>2. PICK host \in Hosts, override \in {"", "docker", "firecracker", "wasm"},
           accepted \in {""} \cup ToSet(Levels) :
        \/ stage' = "refused"
        \/ /\ stage' = "running" /\ Selectable(host, Parsed(file).isolation, override, accepted)
           /\ run' = [is |-> "run", selection |-> Selection(host, Parsed(file).isolation, override),
                      accepted |-> accepted]
  BY Zenon DEF StartRun
<1>3. stage' = "running" =>
        /\ Selectable(host, Parsed(file).isolation, override, run'.accepted)
        /\ run'.selection = Selection(host, Parsed(file).isolation, override)
  <2> DEFINE chosen == Selection(host, Parsed(file).isolation, override)
  <2>1. stage' = "running" =>
          run' = [is |-> "run", selection |-> chosen, accepted |-> accepted]
    BY <1>2
  <2> HIDE DEF chosen
  <2>2. stage' = "running" => run'.accepted = accepted /\ run'.selection = chosen
    BY <2>1, RunParts, Zenon
  <2> QED
    BY <1>2, <2>2 DEF chosen
<1> QED
  BY <1>1, <1>2, <1>3, Zenon DEF RunInv

\* Every step keeps what is known of the run.
LEMMA NextRun == RunInv /\ [Next]_vars => RunInv'
<1> SUFFICES ASSUME RunInv, [Next]_vars
             PROVE  RunInv'
  OBVIOUS
<1>1. CASE Check
  <2>1. /\ stage = "written" /\ file' = file /\ file \in Files
        /\ stage' \in {"valid", "refused"}
        /\ stage' = "valid" => ParsesStrictly(file) /\ Validate(Parsed(file))
    BY <1>1 DEF Check, RunInv
  <2> QED
    BY <2>1 DEF RunInv
<1>2. CASE StartRun
  BY <1>2, StartKeeps
<1>3. CASE Announce
  BY <1>3 DEF Announce, RunInv
<1>4. CASE Receive
  <2>1. stage' \in {"asked", "inspected"}
    BY <1>4 DEF Receive
  <2> QED
    BY <2>1 DEF RunInv
<1>5. CASE Hold
  BY <1>5 DEF Hold, RunInv
<1>6. CASE DecideHere
  BY <1>6 DEF DecideHere, RunInv
<1>7. CASE DecideByWebhook
  BY <1>7 DEF DecideByWebhook, RunInv
<1>8. CASE Edit
  BY <1>8 DEF Edit, RunInv
<1>9. CASE UNCHANGED vars
  BY <1>9 DEF vars, RunInv
<1> QED
  BY <1>1, <1>2, <1>3, <1>4, <1>5, <1>6, <1>7, <1>8, <1>9 DEF Next

\* The level a run has reached covers the file's, unless the operator accepted less.
LEMMA LevelIsHeld ==
  ASSUME NEW f \in Agentfiles, ParsesStrictly(f), NEW m, m = Parsed(f), Validate(m),
         NEW host, NEW override, NEW accepted, Selectable(host, m.isolation, override, accepted),
         NEW chosen, chosen = Selection(host, m.isolation, override),
         NEW needed, needed = {CapabilityFloor(f.wrote.capabilities)} \cup
                              IF f.wrote.isolation = "" THEN {} ELSE {f.wrote.isolation}
  PROVE  \/ \A level \in needed : Satisfies(chosen.achieved, level)
         \/ chosen.downgraded /\ Satisfies(chosen.achieved, accepted)
<1> DEFINE reached == Provides(Candidate(host, m.isolation, override))
           floor == CapabilityFloor(f.wrote.capabilities)
<1>1. chosen.achieved = reached /\ (chosen.downgraded <=> ~Satisfies(reached, m.isolation))
  BY DEF Selection
<1>2. Satisfies(reached, m.isolation) \/ Satisfies(reached, accepted)
  BY DEF Selectable, ContractHolds
<1>3. /\ m.capabilities = f.wrote.capabilities
      /\ f.wrote.isolation # "" => m.isolation = f.wrote.isolation
      /\ f.wrote.isolation = "" => m.isolation = floor
  BY ParsedFacts
<1>4. m.isolation # "" => Satisfies(m.isolation, floor)
  BY <1>3 DEF Validate, ValidFloor
<1> HIDE DEF reached, floor
<1>5. ASSUME Satisfies(reached, m.isolation), NEW level \in needed
      PROVE  Satisfies(reached, level)
  <2>1. CASE f.wrote.isolation = ""
    BY <1>3, <1>5, <2>1 DEF floor
  <2>2. CASE f.wrote.isolation # ""
    <3>1. Satisfies(reached, m.isolation) /\ Satisfies(m.isolation, floor)
      BY <1>3, <1>4, <1>5, <2>2
    <3>2. level = floor \/ level = m.isolation
      BY <1>3, <2>2 DEF floor
    <3> QED
      BY <3>1, <3>2, SatisfiesChain
  <2> QED
    BY <2>1, <2>2
<1> QED
  BY <1>1, <1>2, <1>5

\* What is known of the run means that it is held to its file.
LEMMA RunIsHeld == RunInv => DeclaredIsEnforced
<1> SUFFICES ASSUME RunInv, stage = "running"
             PROVE  DeclaredIsEnforced
  BY DEF DeclaredIsEnforced
<1> DEFINE m == Parsed(file)
           needed == {CapabilityFloor(file.wrote.capabilities)} \cup
                     IF file.wrote.isolation = "" THEN {} ELSE {file.wrote.isolation}
<1>1. file \in Agentfiles /\ ParsesStrictly(file) /\ Validate(m)
  BY FileAssumption DEF RunInv
<1>2. PICK host \in Hosts, override \in {"", "docker", "firecracker", "wasm"} :
        /\ Selectable(host, m.isolation, override, run.accepted)
        /\ run.selection = Selection(host, m.isolation, override)
  BY DEF RunInv
<1>3. \/ \A level \in needed : Satisfies(run.selection.achieved, level)
      \/ run.selection.downgraded /\ Satisfies(run.selection.achieved, run.accepted)
  BY <1>1, <1>2, LevelIsHeld, Zenon
<1>4. /\ m.duration = file.wrote.duration /\ m.gates.entries = file.wrote.gates.entries
      /\ m.credentials = file.wrote.credentials /\ m.gates.timeout \in Int
      /\ file.wrote.gates.timeout # 0 => m.gates.timeout = file.wrote.gates.timeout
  BY <1>1, ParsedFacts
<1>5. file.wrote.duration \in Int /\ m.credentials \in Seq(Credential)
  BY <1>1, <1>4 DEF Agentfiles, AgentManifest
<1>6. /\ ValidSeconds(m.duration) /\ ValidSeconds(m.gates.timeout)
      /\ ValidCredentials(m)
      /\ m.perDay # "" => m.did # ""
  BY <1>1 DEF Validate, ValidLimits, ValidHumanGates, ValidSpending
<1> HIDE DEF m
<1>7. \A n \in {file.wrote.duration, m.gates.timeout} : AsDuration(n) = n * PerSecond
  BY <1>4, <1>5, <1>6, SecondsAreKept
<1>8. \A v \in DOMAIN Environment(m) : Cardinality(Environment(m)[v]) = 1
  BY <1>5, <1>6, OneSource, Zenon
<1> QED
  BY <1>3, <1>4, <1>6, <1>7, <1>8, Zenon DEF DeclaredIsEnforced, m

\* A run that has started stands behind the boundary its file calls for, or one the
\* operator accepted by name; waits as long, reads each variable from one source
\* and keeps a daily cap under an identity, as the file says.
THEOREM DeclaredIsEnforcedHolds == Spec => []DeclaredIsEnforced
<1>1. Init => RunInv
  BY InitRun
<1>2. RunInv /\ [Next]_vars => RunInv'
  BY NextRun
<1>3. RunInv => DeclaredIsEnforced
  BY RunIsHeld
<1> QED
  BY <1>1, <1>2, <1>3, PTL DEF Spec

\* A URL that has a host has one.
LEMMA OneName ==
  ASSUME NEW h \in URLHosts, h.lines # <<>>
  PROVE  /\ h.lines \in Seq(Seq(STRING)) /\ Len(h.lines) = 1
         /\ ~h.sub /\ h \in HostNames
<1>1. h \in HostNames /\ Len(h.lines) <= 1 /\ ~h.sub
  BY DEF URLHosts
<1>2. h.lines \in Seq(Seq(STRING))
  BY <1>1 DEF HostNames
<1>3. Len(h.lines) \in Nat \ {0}
  BY <1>2, EmptySeq
<1> DEFINE n == Len(h.lines)
<1>4. n <= 1 /\ n \in Nat \ {0}
  BY <1>1, <1>3
<1> HIDE DEF n
<1>5. n = 1
  BY <1>4
<1> QED
  BY <1>1, <1>2, <1>5 DEF n

\* A host Squid admits under an entry that is a plain name is one the entry covers.
LEMMA AdmittedIsCovered ==
  ASSUME NEW a \in HostNames, IsPlainHost(a), NEW h \in URLHosts, h.lines # <<>>, h.ascii,
         NEW i \in DOMAIN a.lines,
         IF a.sub /\ i = 1 THEN IsSuffix(a.lines[i], h.lines[1]) ELSE a.lines[i] = h.lines[1]
  PROVE  HostsOverlap(a, h)
<1>1. /\ a.lines \in Seq(Seq(STRING)) /\ Len(a.lines) = 1 /\ i = 1
      /\ ~a.upper /\ ~a.dot /\ a.ascii
  BY DEF IsPlainHost, HostNames
<1>2. h.lines \in Seq(Seq(STRING)) /\ Len(h.lines) = 1 /\ ~h.sub /\ h \in HostNames
  BY OneName
<1> DEFINE n == Normalized(a)
           k == Normalized(h)
<1>3. /\ n \in HostNames /\ n.lines = a.lines /\ n.upper = FALSE /\ n.dot = FALSE
      /\ n.ascii = a.ascii /\ n.sub = a.sub
  BY DEF Normalized, HostNames
<1>4. /\ k \in HostNames /\ k.lines = h.lines /\ k.upper = FALSE /\ k.dot = FALSE
      /\ k.ascii = h.ascii /\ k.sub = h.sub
  BY <1>2 DEF Normalized, HostNames
<1> HIDE DEF n, k
<1>5. CASE a.sub
  BY <1>1, <1>3, <1>4, <1>5 DEF HostsOverlap, n, k
<1>6. CASE ~a.sub
  <2>1. a.lines = h.lines
    BY <1>1, <1>2, <1>6
  <2>2. n = k
    <3>1. /\ n.lines = k.lines /\ n.upper = k.upper /\ n.dot = k.dot
          /\ n.ascii = k.ascii /\ n.sub = k.sub
      BY <1>1, <1>2, <1>3, <1>4, <1>6, <2>1 DEF HostNames
    <3>2. n = [lines |-> n.lines, upper |-> n.upper, dot |-> n.dot, ascii |-> n.ascii, sub |-> n.sub]
      BY <1>3 DEF HostNames
    <3>3. k = [lines |-> k.lines, upper |-> k.upper, dot |-> k.dot, ascii |-> k.ascii, sub |-> k.sub]
      BY <1>4 DEF HostNames
    <3> QED
      BY <3>1, <3>2, <3>3, Zenon
  <2> QED
    BY <1>3, <1>6, <2>2 DEF HostsOverlap, n, k
<1> QED
  BY <1>5, <1>6

\* The host of a valid endpoint is admitted by no entry of the allowlist, and where
\* there are endpoints no entry is one of the host's own names.
LEMMA EndpointsAreKept ==
  ASSUME NEW m, m.allowed \subseteq HostNames, ValidNetwork(m),
         NEW endpoints, \A i \in DOMAIN endpoints : endpoints[i].host \in URLHosts,
         ValidEndpoints(m, endpoints), NEW e \in DOMAIN endpoints
  PROVE  /\ ~SquidAdmits(m.allowed, DialledName(endpoints[e].host))
         /\ \A h \in m.allowed : ~IsHostLoopbackAlias(h)
<1> DEFINE host == endpoints[e].host
<1>1. /\ host \in URLHosts /\ host.lines # <<>> /\ host.ascii
      /\ \A a \in m.allowed : ~HostsOverlap(a, host)
  BY DEF ValidEndpoints
<1>2. \A a \in m.allowed : a \in HostNames /\ IsPlainHost(a)
  BY DEF ValidNetwork
<1> HIDE DEF host
<1>3. ASSUME NEW a \in m.allowed, NEW i \in DOMAIN a.lines,
             IF a.sub /\ i = 1 THEN IsSuffix(a.lines[i], host.lines[1]) ELSE a.lines[i] = host.lines[1]
      PROVE  FALSE
  BY <1>1, <1>2, <1>3, AdmittedIsCovered
<1>4. ~SquidAdmits(m.allowed, DialledName(host))
  BY <1>3, Zenon DEF SquidAdmits, DialledName
<1>5. endpoints # <<>>
  OBVIOUS
<1>6. \A h \in m.allowed : ~IsHostLoopbackAlias(h)
  BY <1>5 DEF ValidEndpoints
<1> QED
  BY <1>4, <1>6 DEF host

\* An entry of one name that admits a name of the sandbox host and is no alias of it
\* is a domain entry, and not .host.docker.internal.
LEMMA AdmitsByDomain ==
  ASSUME NEW h \in HostNames, IsPlainHost(h), ~IsHostLoopbackAlias(h),
         NEW name \in LoopbackNames, SquidAdmits({h}, name)
  PROVE  h.sub /\ h.lines[1] # <<"host", "docker", "internal">>
<1>1. h.lines \in Seq(Seq(STRING)) /\ Len(h.lines) = 1
  BY DEF IsPlainHost, HostNames
<1>2. Normalized(h).lines = h.lines
  BY DEF Normalized, HostNames
<1>3. PICK i \in DOMAIN h.lines :
        IF h.sub /\ i = 1 THEN IsSuffix(h.lines[i], name) ELSE h.lines[i] = name
  BY Zenon DEF SquidAdmits
<1>4. i = 1
  BY <1>1
<1>5. ~(h.lines[1] \in LoopbackNames /\ (h.sub => h.lines[1] = <<"host", "docker", "internal">>))
  BY <1>2 DEF IsHostLoopbackAlias
<1>6. h.sub
  BY <1>3, <1>4, <1>5
<1>7. <<"host", "docker", "internal">> \in LoopbackNames
  BY DEF LoopbackNames
<1> QED
  BY <1>5, <1>6, <1>7

\* What is known of the run means that no host the gate polices is reached without it.
LEMMA RunIsPoliced == RunInv => NoWayRoundTheGate
<1> SUFFICES ASSUME RunInv, stage = "running"
             PROVE  NoWayRoundTheGate
  BY DEF NoWayRoundTheGate
<1> DEFINE m == Parsed(file)
<1>1. file \in Agentfiles /\ ParsesStrictly(file) /\ Validate(m)
  BY FileAssumption DEF RunInv
<1>2. m.allowed = file.wrote.allowed /\ m.servers = file.wrote.servers /\ m.peers = file.wrote.peers
  BY <1>1, ParsedFacts
<1>3. /\ m.allowed \subseteq HostNames
      /\ m.servers \in Seq(MCPServer) /\ m.peers \in Seq(A2APeer)
  BY <1>1, <1>2 DEF Agentfiles, AgentManifest
<1>4. ValidNetwork(m) /\ ValidMCP(m) /\ ValidA2A(m)
  BY <1>1 DEF Validate
<1> HIDE DEF m
<1>5. /\ \A i \in DOMAIN m.servers : m.servers[i].host \in URLHosts
      /\ \A i \in DOMAIN m.peers : m.peers[i].host \in URLHosts
  <2>1. \A i \in DOMAIN m.servers : m.servers[i] \in MCPServer
    BY <1>3
  <2>2. \A i \in DOMAIN m.peers : m.peers[i] \in A2APeer
    BY <1>3
  <2>3. (\A s \in MCPServer : s.host \in URLHosts) /\ (\A p \in A2APeer : p.host \in URLHosts)
    BY DEF MCPServer, A2APeer
  <2> QED
    BY <2>1, <2>2, <2>3
<1>6. /\ ValidEndpoints(m, m.servers)
      /\ m.peers # <<>> => ValidEndpoints(m, m.peers)
  BY <1>4 DEF ValidMCP, ValidA2A
<1> DEFINE served == {m.servers[i].host : i \in DOMAIN m.servers}
           peered == {m.peers[i].host : i \in DOMAIN m.peers}
<1>7. ASSUME NEW h \in served \cup peered
      PROVE  /\ ~SquidAdmits(m.allowed, DialledName(h))
             /\ \A a \in m.allowed : ~IsHostLoopbackAlias(a)
  <2>1. CASE h \in served
    <3>1. PICK i \in DOMAIN m.servers : h = m.servers[i].host
      BY <2>1
    <3> QED
      BY <1>3, <1>4, <1>5, <1>6, <3>1, EndpointsAreKept, Zenon
  <2>2. CASE h \in peered
    <3>1. PICK i \in DOMAIN m.peers : h = m.peers[i].host
      BY <2>2
    <3>2. m.peers # <<>>
      BY <3>1
    <3> QED
      BY <1>3, <1>4, <1>5, <1>6, <3>1, <3>2, EndpointsAreKept, Zenon
  <2> QED
    BY <1>7, <2>1, <2>2
<1>8. \A h \in m.allowed : h \in HostNames /\ IsPlainHost(h)
  BY <1>3, <1>4 DEF ValidNetwork
<1>9. served \cup peered # {} =>
        \A name \in LoopbackNames, h \in m.allowed :
          SquidAdmits({h}, name) => h.sub /\ h.lines[1] # <<"host", "docker", "internal">>
  BY <1>7, <1>8, AdmitsByDomain, Zenon
<1>10. GatedHosts(m) = served \cup peered
  BY DEF GatedHosts
<1> HIDE DEF served, peered
<1> QED
  BY <1>7, <1>9, <1>10, Zenon DEF NoWayRoundTheGate, m

\* The allowlist of a run that has started admits no declared server or peer, as it is
\* dialled; and where there are some, whatever entry admits a name of the sandbox host
\* is a domain entry other than ".host.docker.internal" (hostsOverlap,
\* isHostLoopbackAlias).
THEOREM NoWayRoundTheGateHolds == Spec => []NoWayRoundTheGate
<1>1. Init => RunInv
  BY InitRun
<1>2. RunInv /\ [Next]_vars => RunInv'
  BY NextRun
<1>3. RunInv => NoWayRoundTheGate
  BY RunIsPoliced
<1> QED
  BY <1>1, <1>2, <1>3, PTL DEF Spec

-----------------------------------------------------------------------------
(* The log                                                                 *)

\* A count that was raised is not zero.
LEMMA Counted ==
  ASSUME NEW n \in Nat
  PROVE  n + 1 \in Nat /\ n + 1 # 0
  OBVIOUS

\* A signature has the key and the statement it was made with.
LEMMA SignatureParts ==
  ASSUME NEW by, NEW over, NEW sig, sig = [by |-> by, over |-> over]
  PROVE  sig.by = by /\ sig.over = over
  OBVIOUS

USE ApproverAssumption

-----------------------------------------------------------------------------
(* The types of the log: digests are of D, names of tools of T.            *)

Ids       == {"", "this", "earlier"}
Decisions == {"", "approved", "denied"}
Keys      == {"", "nobody", "other", Approver}
Events    == {"gate_approved", "gate_denied", "gate_timeout", "gate_signature_invalid",
              "gate_request_id_mismatch", "gate_digest_mismatch"}

Signable(D)     == [id : Ids, decision : Decisions, digest : D]
Signatures(D)   == [by : Keys, over : Signable(D)]
Responses(D)    == [id : Ids, decision : Decisions, digest : D, sig : Signatures(D), long : BOOLEAN]
Evidences(D, T) == [asked : BOOLEAN, id : Ids, tool : T, digest : D, pub : Keys, response : Responses(D)]
Entries(D, T)   == [event : Events, decidedBy : {"", "terminal", "webhook", "elsewhere"},
                    tool : T, digest : D, evidence : Evidences(D, T)]

Digests(call) == {<<>>, SubjectDigest(call), SubjectDigest(OtherCall)}
Tools(call)   == {<<>>, ToolName(call), ToolName(OtherCall)}

-----------------------------------------------------------------------------
(* The inductive invariant.                                                *)

\* An entry as the gate leaves it, for a call and what was signed of it.
Fresh(e, call, statements) ==
  \/ \E approved \in BOOLEAN : e = TerminalEntry(call, approved)
  \/ e = TimeoutEntry(call, "this", Approver)
  \/ \E r \in Answers(call, statements) : e = WebhookEntry(call, "this", Approver, r)

\* A signature of the approver's that a record holds is one the approver made.
Genuine(sig, statements) == sig.by = Approver => sig.over \in statements

\* Nothing is signed before the call is decided.  The entry that is recorded is one
\* the gate may write, edited or not; what it holds of the approver's is genuine,
\* and until it is edited it is as written.
IInv ==
  /\ edits \in Nat
  /\ stage # "recorded" => signed = {}
  /\ stage = "recorded" =>
       /\ signed \subseteq Statements(verdict.call)
       /\ entry \in Entries(Digests(verdict.call), Tools(verdict.call))
       /\ Genuine(entry.evidence.response.sig, signed)
       /\ edits = 0 => Fresh(entry, verdict.call, signed)

-----------------------------------------------------------------------------
(* What is recorded.                                                       *)

\* The absent signature is nobody's, and the absent response has its type.
LEMMA Absent ==
  ASSUME NEW S, NEW D, <<>> \in D
  PROVE  /\ NoSignature \in Signatures(D) /\ NoSignature.by = "nobody"
         /\ NoResponse \in Responses(D) /\ NoResponse.sig = NoSignature
         /\ Genuine(NoSignature, S)
<1>1. NoSignature.by = "nobody"
  BY DEF NoSignature
<1>2. NoSignature \in Signatures(D)
  BY DEF NoSignature, Signatures, Signable, Ids, Decisions, Keys
<1>3. NoResponse.sig = NoSignature
  BY DEF NoResponse
<1>4. NoResponse \in Responses(D)
  BY <1>2 DEF NoResponse, Responses, Ids, Decisions
<1>5. Genuine(NoSignature, S)
  BY <1>1 DEF Genuine
<1> QED
  BY <1>1, <1>2, <1>3, <1>4, <1>5

\* An answer of the endpoint holds no signature the approver has not made.
LEMMA AnswerFacts ==
  ASSUME NEW S, NEW call, S \subseteq Statements(call), NEW r \in Answers(call, S)
  PROVE  /\ r \in Responses(Digests(call)) /\ Genuine(r.sig, S)
         /\ r.id \in {"this", "earlier"}
<1> DEFINE D == Digests(call)
           other == [by |-> "other", over |-> [id |-> "this", decision |-> "approved",
                                               digest |-> SubjectDigest(call)]]
<1>1. <<>> \in D /\ SubjectDigest(call) \in D /\ SubjectDigest(OtherCall) \in D
  BY DEF Digests
<1> HIDE DEF D
<1>2. S \subseteq Signable(D)
  BY <1>1 DEF Statements, Signable, Ids, Decisions
<1>3. other \in Signatures(D) /\ other.by = "other"
  BY <1>1 DEF Signatures, Signable, Ids, Decisions, Keys
<1>4. r.sig \in {NoSignature} \cup [by : {Approver}, over : S] \cup {other}
  BY DEF Answers
<1> HIDE DEF other
<1>5. r.sig \in Signatures(D) /\ Genuine(r.sig, S)
  <2>1. CASE r.sig = NoSignature
    BY <1>1, <2>1, Absent
  <2>2. CASE r.sig \in [by : {Approver}, over : S]
    BY <1>2, <2>2 DEF Signatures, Keys, Genuine
  <2>3. CASE r.sig = other
    BY <1>3, <2>3 DEF Genuine
  <2> QED
    BY <1>4, <2>1, <2>2, <2>3
<1>6. r.id \in {"this", "earlier"} /\ r \in Responses(D)
  <2>1. r \in [id : {"this", "earlier"}, decision : {"approved", "denied"},
               digest : {SubjectDigest(call), SubjectDigest(OtherCall)},
               sig : {NoSignature} \cup [by : {Approver}, over : S] \cup {other},
               long : BOOLEAN]
    BY DEF Answers, other
  <2> DEFINE sigs == {NoSignature} \cup [by : {Approver}, over : S] \cup {other}
  <2> HIDE DEF sigs
  <2>2. r \in [id : {"this", "earlier"}, decision : {"approved", "denied"},
               digest : {SubjectDigest(call), SubjectDigest(OtherCall)}, sig : sigs, long : BOOLEAN]
    BY <2>1 DEF sigs
  <2> QED
    BY <1>1, <1>5, <2>2 DEF Responses, Ids, Decisions
<1> QED
  BY <1>5, <1>6 DEF D

\* The events the gate logs are the ones the verification knows, each for its
\* own finding.
LEMMA EventFacts ==
  ASSUME NEW pub, NEW id, NEW digest, NEW r
  PROVE  LET reason == VerifyDecision(pub, id, digest, r)
         IN /\ EventFor(reason) \in Events
            /\ TerminalReason(EventFor(reason)) = reason /\ reason # "none"
            /\ EventFor(reason) = "gate_approved" => reason = "approved"
<1> DEFINE reason == VerifyDecision(pub, id, digest, r)
<1>1. reason \in {"signature_invalid", "request_id_mismatch", "digest_mismatch", "not_approved",
                 "approved"}
  BY DEF VerifyDecision
<1> HIDE DEF reason
<1>2. EventFor(reason) \in Events
  BY <1>1 DEF EventFor, Events
<1>3. TerminalReason(EventFor(reason)) = reason /\ reason # "none"
  BY <1>1 DEF EventFor, TerminalReason
<1>4. EventFor(reason) = "gate_approved" => reason = "approved"
  BY <1>1 DEF EventFor
<1> QED
  BY <1>2, <1>3, <1>4 DEF reason

\* What a record keeps of an answer.
LEMMA RecordedFacts ==
  ASSUME NEW S, NEW D, <<>> \in D, NEW r \in Responses(D), Genuine(r.sig, S)
  PROVE  /\ Recorded(r) \in Responses(D) /\ Genuine(Recorded(r).sig, S)
         /\ Recorded(r).long = r.long /\ (~r.long => Recorded(r) = r)
<1>1. CASE r.long
  <2>1. NoSignature \in Signatures(D) /\ Genuine(NoSignature, S)
    BY Absent
  <2>2. Recorded(r) = [r EXCEPT !.sig = NoSignature]
    BY <1>1 DEF Recorded
  <2>3. /\ Recorded(r) \in Responses(D) /\ Recorded(r).sig = NoSignature
        /\ Recorded(r).long = r.long
    BY <2>1, <2>2 DEF Responses
  <2> QED
    BY <1>1, <2>1, <2>3
<1>2. CASE ~r.long
  BY <1>2 DEF Recorded
<1> QED
  BY <1>1, <1>2 DEF Responses

\* The record of a request that is not answered yet has its type.
LEMMA RequestTyped ==
  ASSUME NEW D, NEW T, <<>> \in D, NEW call, SubjectDigest(call) \in D, ToolName(call) \in T,
         NEW q, q = Request("this", call, Approver)
  PROVE  q \in Evidences(D, T)
<1>1. NoResponse \in Responses(D)
  BY Absent
<1> QED
  BY <1>1 DEF Request, Evidences, Ids, Keys

\* What the gate writes has its type and holds nothing that is not genuine.
LEMMA FreshFacts ==
  ASSUME NEW S, NEW call, S \subseteq Statements(call), NEW e, Fresh(e, call, S)
  PROVE  e \in Entries(Digests(call), Tools(call)) /\ Genuine(e.evidence.response.sig, S)
<1> DEFINE D == Digests(call)
           T == Tools(call)
<1>1. <<>> \in D /\ <<>> \in T /\ SubjectDigest(call) \in D /\ ToolName(call) \in T
  BY DEF Digests, Tools
<1> HIDE DEF D, T
<1>2. NoResponse \in Responses(D) /\ Genuine(NoResponse.sig, S)
  BY <1>1, Absent
<1> SUFFICES e \in Entries(D, T) /\ Genuine(e.evidence.response.sig, S)
  BY DEF D, T
<1>3. CASE \E approved \in BOOLEAN : e = TerminalEntry(call, approved)
  <2>1. NoEvidence \in Evidences(D, T) /\ NoEvidence.response = NoResponse
    BY <1>1, <1>2 DEF NoEvidence, Evidences, Ids, Keys
  <2>2. PICK event \in Events : e = Entry(event, "terminal", call, NoEvidence)
    BY <1>3 DEF TerminalEntry, Events
  <2>3. e \in Entries(D, T) /\ e.evidence = NoEvidence
    BY <1>1, <2>1, <2>2 DEF Entry, Entries
  <2> QED
    BY <1>2, <2>1, <2>3
<1>4. CASE e = TimeoutEntry(call, "this", Approver)
  <2> DEFINE q == Request("this", call, Approver)
  <2>1. q \in Evidences(D, T) /\ q.response = NoResponse
    BY <1>1, <1>2 DEF Request, Evidences, Ids, Keys
  <2>2. e = Entry("gate_timeout", "", call, q) /\ "gate_timeout" \in Events
    BY <1>4 DEF TimeoutEntry, Events
  <2> HIDE DEF q
  <2>3. e \in Entries(D, T) /\ e.evidence = q
    BY <1>1, <2>1, <2>2 DEF Entry, Entries
  <2> QED
    BY <1>2, <2>1, <2>3
<1>5. CASE \E r \in Answers(call, S) : e = WebhookEntry(call, "this", Approver, r)
  <2>1. PICK r \in Answers(call, S) : e = WebhookEntry(call, "this", Approver, r)
    BY <1>5
  <2> DEFINE w == Recorded(r)
             q == Request("this", call, Approver)
             v == [q EXCEPT !.response = w]
             event == EventFor(VerifyDecision(Approver, "this", SubjectDigest(call), r))
  <2>2. w \in Responses(D) /\ Genuine(w.sig, S)
    BY <1>1, AnswerFacts, RecordedFacts DEF D
  <2>3. event \in Events
    BY EventFacts
  <2>4. e = Entry(event, "webhook", call, v)
    BY <2>1 DEF WebhookEntry
  <2>5. q \in Evidences(D, T)
    BY <1>1, RequestTyped, Zenon
  <2> HIDE DEF q, w, event
  <2>6. v \in Evidences(D, T) /\ v.response = w
    BY <2>2, <2>5 DEF Evidences
  <2> HIDE DEF v
  <2>7. e \in Entries(D, T) /\ e.evidence = v
    BY <1>1, <2>3, <2>4, <2>6 DEF Entry, Entries
  <2> QED
    BY <2>2, <2>6, <2>7
<1> QED
  BY <1>3, <1>4, <1>5 DEF Fresh

-----------------------------------------------------------------------------
(* What an edit does to the record.                                        *)

\* An answer with one field changed, or its signature replaced by one of somebody
\* else's, keeps its type and forges nothing.
LEMMA ResponseEdits ==
  ASSUME NEW S, NEW D, NEW r \in Responses(D), Genuine(r.sig, S), NEW n,
         \/ \E x \in {"approved", "denied"} : n = [r EXCEPT !.decision = x]
         \/ \E x \in {"this", "earlier"} : n = [r EXCEPT !.id = x]
         \/ \E x \in D : n = [r EXCEPT !.digest = x]
         \/ n = [r EXCEPT !.long = FALSE]
         \/ n = [r EXCEPT !.sig = [by |-> "other", over |-> Statement(r)]]
  PROVE  n \in Responses(D) /\ Genuine(n.sig, S)
<1>1. CASE \E x \in {"approved", "denied"} : n = [r EXCEPT !.decision = x]
  <2>1. n \in Responses(D) /\ n.sig = r.sig
    BY <1>1 DEF Responses, Decisions
  <2> QED
    BY <2>1
<1>2. CASE \E x \in {"this", "earlier"} : n = [r EXCEPT !.id = x]
  <2>1. n \in Responses(D) /\ n.sig = r.sig
    BY <1>2 DEF Responses, Ids
  <2> QED
    BY <2>1
<1>3. CASE \E x \in D : n = [r EXCEPT !.digest = x]
  <2>1. n \in Responses(D) /\ n.sig = r.sig
    BY <1>3 DEF Responses
  <2> QED
    BY <2>1
<1>4. CASE n = [r EXCEPT !.long = FALSE]
  <2>1. n \in Responses(D) /\ n.sig = r.sig
    BY <1>4 DEF Responses
  <2> QED
    BY <2>1
<1>5. CASE n = [r EXCEPT !.sig = [by |-> "other", over |-> Statement(r)]]
  <2> DEFINE forged == [by |-> "other", over |-> Statement(r)]
  <2>1. Statement(r) \in Signable(D)
    BY DEF Statement, Signable, Responses
  <2>2. forged \in Signatures(D) /\ forged.by = "other"
    BY <2>1 DEF Signatures, Keys
  <2> HIDE DEF forged
  <2>3. n = [r EXCEPT !.sig = forged]
    BY <1>5 DEF forged
  <2>4. n \in Responses(D) /\ n.sig = forged
    BY <2>2, <2>3 DEF Responses
  <2> QED
    BY <2>2, <2>4 DEF Genuine
<1> QED
  BY <1>1, <1>2, <1>3, <1>4, <1>5

\* A changed entry is one of these: a field of its own, a field of its evidence or
\* a field of the answer in it is another.
Edited(n, e, D, T) ==
  \/ \E x \in Events : n = [e EXCEPT !.event = x]
  \/ \E x \in {"", "webhook", "elsewhere"} : n = [e EXCEPT !.decidedBy = x]
  \/ \E x \in D : n = [e EXCEPT !.digest = x]
  \/ \E x \in T : n = [e EXCEPT !.tool = x]
  \/ n = [e EXCEPT !.evidence = NoEvidence]
  \/ n = [e EXCEPT !.evidence.response = NoResponse]
  \/ \E x \in {"this", "earlier"} : n = [e EXCEPT !.evidence.id = x]
  \/ \E x \in D : n = [e EXCEPT !.evidence.digest = x]
  \/ \E x \in T : n = [e EXCEPT !.evidence.tool = x]
  \/ \E x \in {"", "other"} : n = [e EXCEPT !.evidence.pub = x]
  \/ \E x \in {"approved", "denied"} : n = [e EXCEPT !.evidence.response.decision = x]
  \/ \E x \in {"this", "earlier"} : n = [e EXCEPT !.evidence.response.id = x]
  \/ \E x \in D : n = [e EXCEPT !.evidence.response.digest = x]
  \/ n = [e EXCEPT !.evidence.response.long = FALSE]
  \/ n = [e EXCEPT !.evidence.response.sig =
            [by |-> "other", over |-> Statement(e.evidence.response)]]

\* Every edit is one of these.
LEMMA EditForms ==
  ASSUME NEW D, NEW T, <<>> \in D, <<>> \in T, NEW e \in Entries(D, T),
         SubjectDigest(OtherCall) \in D, ToolName(OtherCall) \in T, NEW n \in Changed(e)
  PROVE  Edited(n, e, D, T)
<1>1. e.digest \in D
  BY DEF Entries
<1>2. {"gate_approved", "gate_denied", "gate_signature_invalid"} \subseteq Events
  BY DEF Events
<1> QED
  BY <1>1, <1>2, ZenonT(60) DEF Changed, Edited

\* Evidence with one field changed keeps its type and forges nothing.
LEMMA EvidenceEdits ==
  ASSUME NEW S, NEW D, NEW T, <<>> \in D, NEW v \in Evidences(D, T), Genuine(v.response.sig, S), NEW n,
         \/ \E x \in {"this", "earlier"} : n = [v EXCEPT !.id = x]
         \/ \E x \in D : n = [v EXCEPT !.digest = x]
         \/ \E x \in T : n = [v EXCEPT !.tool = x]
         \/ \E x \in {"", "other"} : n = [v EXCEPT !.pub = x]
         \/ \E x \in Responses(D) : Genuine(x.sig, S) /\ n = [v EXCEPT !.response = x]
  PROVE  n \in Evidences(D, T) /\ Genuine(n.response.sig, S)
<1>1. CASE \E x \in {"this", "earlier"} : n = [v EXCEPT !.id = x]
  <2>1. n \in Evidences(D, T) /\ n.response = v.response
    BY <1>1 DEF Evidences, Ids
  <2> QED
    BY <2>1
<1>2. CASE \E x \in D : n = [v EXCEPT !.digest = x]
  <2>1. n \in Evidences(D, T) /\ n.response = v.response
    BY <1>2 DEF Evidences
  <2> QED
    BY <2>1
<1>3. CASE \E x \in T : n = [v EXCEPT !.tool = x]
  <2>1. n \in Evidences(D, T) /\ n.response = v.response
    BY <1>3 DEF Evidences
  <2> QED
    BY <2>1
<1>4. CASE \E x \in {"", "other"} : n = [v EXCEPT !.pub = x]
  <2>1. n \in Evidences(D, T) /\ n.response = v.response
    BY <1>4 DEF Evidences, Keys
  <2> QED
    BY <2>1
<1>5. CASE \E x \in Responses(D) : Genuine(x.sig, S) /\ n = [v EXCEPT !.response = x]
  <2>1. PICK x \in Responses(D) : Genuine(x.sig, S) /\ n = [v EXCEPT !.response = x]
    BY <1>5
  <2>2. n \in Evidences(D, T) /\ n.response = x
    BY <2>1 DEF Evidences
  <2> QED
    BY <2>1, <2>2
<1> QED
  BY <1>1, <1>2, <1>3, <1>4, <1>5

\* No edit makes a signature of the approver's.
LEMMA EditKeeps ==
  ASSUME NEW S, NEW D, NEW T, <<>> \in D, <<>> \in T, NEW e \in Entries(D, T),
         SubjectDigest(OtherCall) \in D, ToolName(OtherCall) \in T, NEW n \in Changed(e),
         Genuine(e.evidence.response.sig, S)
  PROVE  n \in Entries(D, T) /\ Genuine(n.evidence.response.sig, S)
<1> DEFINE v == e.evidence
           r == v.response
<1>1. v \in Evidences(D, T) /\ r \in Responses(D)
  BY DEF Entries, Evidences
<1>2. NoResponse \in Responses(D) /\ Genuine(NoResponse.sig, S)
  BY Absent
<1>3. NoEvidence \in Evidences(D, T) /\ NoEvidence.response = NoResponse
  BY <1>2 DEF NoEvidence, Evidences, Ids, Keys
<1>4. ASSUME NEW w \in Evidences(D, T), Genuine(w.response.sig, S), n = [e EXCEPT !.evidence = w]
      PROVE  n \in Entries(D, T) /\ Genuine(n.evidence.response.sig, S)
  <2>1. n \in Entries(D, T) /\ n.evidence = w
    BY <1>4 DEF Entries
  <2> QED
    BY <1>4, <2>1
<1>5. ASSUME NEW x \in Responses(D), Genuine(x.sig, S),
             n = [e EXCEPT !.evidence = [v EXCEPT !.response = x]]
      PROVE  n \in Entries(D, T) /\ Genuine(n.evidence.response.sig, S)
  <2> DEFINE w == [v EXCEPT !.response = x]
  <2>1. w \in Evidences(D, T) /\ w.response = x
    BY <1>1, <1>5 DEF Evidences
  <2> HIDE DEF w
  <2>2. n = [e EXCEPT !.evidence = w]
    BY <1>5 DEF w
  <2> QED
    BY <1>4, <1>5, <2>1, <2>2
<1>6. CASE \E x \in Events : n = [e EXCEPT !.event = x]
  <2>1. n \in Entries(D, T) /\ n.evidence = v
    BY <1>6 DEF Entries
  <2> QED
    BY <2>1
<1>7. CASE \E x \in {"", "webhook", "elsewhere"} : n = [e EXCEPT !.decidedBy = x]
  <2>1. n \in Entries(D, T) /\ n.evidence = v
    BY <1>7 DEF Entries
  <2> QED
    BY <2>1
<1>8. CASE \E x \in D : n = [e EXCEPT !.digest = x]
  <2>1. n \in Entries(D, T) /\ n.evidence = v
    BY <1>8 DEF Entries
  <2> QED
    BY <2>1
<1>9. CASE \E x \in T : n = [e EXCEPT !.tool = x]
  <2>1. n \in Entries(D, T) /\ n.evidence = v
    BY <1>9 DEF Entries
  <2> QED
    BY <2>1
<1>10. CASE n = [e EXCEPT !.evidence = NoEvidence]
  BY <1>2, <1>3, <1>4, <1>10
<1>11. CASE n = [e EXCEPT !.evidence.response = NoResponse]
  BY <1>2, <1>5, <1>11
<1>12. CASE \E x \in {"this", "earlier"} : n = [e EXCEPT !.evidence.id = x]
  <2>1. PICK x \in {"this", "earlier"} : n = [e EXCEPT !.evidence.id = x]
    BY <1>12
  <2> DEFINE w == [v EXCEPT !.id = x]
  <2>2. w \in Evidences(D, T) /\ Genuine(w.response.sig, S)
    BY <1>1, EvidenceEdits
  <2>3. n = [e EXCEPT !.evidence = w]
    BY <2>1
  <2> QED
    BY <1>4, <2>2, <2>3
<1>13. CASE \E x \in D : n = [e EXCEPT !.evidence.digest = x]
  <2>1. PICK x \in D : n = [e EXCEPT !.evidence.digest = x]
    BY <1>13
  <2> DEFINE w == [v EXCEPT !.digest = x]
  <2>2. w \in Evidences(D, T) /\ Genuine(w.response.sig, S)
    BY <1>1, EvidenceEdits
  <2>3. n = [e EXCEPT !.evidence = w]
    BY <2>1
  <2> QED
    BY <1>4, <2>2, <2>3
<1>14. CASE \E x \in T : n = [e EXCEPT !.evidence.tool = x]
  <2>1. PICK x \in T : n = [e EXCEPT !.evidence.tool = x]
    BY <1>14
  <2> DEFINE w == [v EXCEPT !.tool = x]
  <2>2. w \in Evidences(D, T) /\ Genuine(w.response.sig, S)
    BY <1>1, EvidenceEdits
  <2>3. n = [e EXCEPT !.evidence = w]
    BY <2>1
  <2> QED
    BY <1>4, <2>2, <2>3
<1>15. CASE \E x \in {"", "other"} : n = [e EXCEPT !.evidence.pub = x]
  <2>1. PICK x \in {"", "other"} : n = [e EXCEPT !.evidence.pub = x]
    BY <1>15
  <2> DEFINE w == [v EXCEPT !.pub = x]
  <2>2. w \in Evidences(D, T) /\ Genuine(w.response.sig, S)
    BY <1>1, EvidenceEdits
  <2>3. n = [e EXCEPT !.evidence = w]
    BY <2>1
  <2> QED
    BY <1>4, <2>2, <2>3
<1>16. CASE \E x \in {"approved", "denied"} : n = [e EXCEPT !.evidence.response.decision = x]
  <2>1. PICK x \in {"approved", "denied"} : n = [e EXCEPT !.evidence.response.decision = x]
    BY <1>16
  <2> DEFINE a == [r EXCEPT !.decision = x]
  <2>2. a \in Responses(D) /\ Genuine(a.sig, S)
    BY <1>1, ResponseEdits
  <2>3. n = [e EXCEPT !.evidence = [v EXCEPT !.response = a]]
    BY <2>1
  <2> QED
    BY <1>5, <2>2, <2>3
<1>17. CASE \E x \in {"this", "earlier"} : n = [e EXCEPT !.evidence.response.id = x]
  <2>1. PICK x \in {"this", "earlier"} : n = [e EXCEPT !.evidence.response.id = x]
    BY <1>17
  <2> DEFINE a == [r EXCEPT !.id = x]
  <2>2. a \in Responses(D) /\ Genuine(a.sig, S)
    BY <1>1, ResponseEdits
  <2>3. n = [e EXCEPT !.evidence = [v EXCEPT !.response = a]]
    BY <2>1
  <2> QED
    BY <1>5, <2>2, <2>3
<1>18. CASE \E x \in D : n = [e EXCEPT !.evidence.response.digest = x]
  <2>1. PICK x \in D : n = [e EXCEPT !.evidence.response.digest = x]
    BY <1>18
  <2> DEFINE a == [r EXCEPT !.digest = x]
  <2>2. a \in Responses(D) /\ Genuine(a.sig, S)
    BY <1>1, ResponseEdits
  <2>3. n = [e EXCEPT !.evidence = [v EXCEPT !.response = a]]
    BY <2>1
  <2> QED
    BY <1>5, <2>2, <2>3
<1>19. CASE n = [e EXCEPT !.evidence.response.long = FALSE]
  <2> DEFINE a == [r EXCEPT !.long = FALSE]
  <2>2. a \in Responses(D) /\ Genuine(a.sig, S)
    BY <1>1, ResponseEdits
  <2>3. n = [e EXCEPT !.evidence = [v EXCEPT !.response = a]]
    BY <1>19
  <2> QED
    BY <1>5, <2>2, <2>3
<1>20. CASE n = [e EXCEPT !.evidence.response.sig = [by |-> "other", over |-> Statement(r)]]
  <2> DEFINE a == [r EXCEPT !.sig = [by |-> "other", over |-> Statement(r)]]
  <2>2. a \in Responses(D) /\ Genuine(a.sig, S)
    BY <1>1, ResponseEdits
  <2>3. n = [e EXCEPT !.evidence = [v EXCEPT !.response = a]]
    BY <1>20
  <2> QED
    BY <1>5, <2>2, <2>3
<1>21. Edited(n, e, D, T)
  BY EditForms
<1> QED
  BY <1>21, <1>6, <1>7, <1>8, <1>9, <1>10, <1>11, <1>12, <1>13, <1>14, <1>15, <1>16, <1>17,
     <1>18, <1>19, <1>20, ZenonT(60) DEF Edited

-----------------------------------------------------------------------------
(* The invariant.                                                          *)

\* The invariant holds before the Agentfile is read.
LEMMA InitIInv == Init => IInv
<1> SUFFICES ASSUME Init
             PROVE  IInv
  OBVIOUS
<1>1. edits \in Nat /\ stage # "recorded" /\ signed = {}
  BY DEF Init
<1> QED
  BY <1>1 DEF IInv

\* A decision, as the gate records it, is fresh and sound.
LEMMA DecisionKeeps ==
  ASSUME IInv, stage' = "recorded", UNCHANGED <<verdict, edits>>,
         signed' \subseteq Statements(verdict.call), Fresh(entry, verdict.call, signed)'
  PROVE  IInv'
<1>1. /\ entry' \in Entries(Digests(verdict'.call), Tools(verdict'.call))
      /\ Genuine(entry.evidence.response.sig, signed)'
  BY FreshFacts
<1> QED
  BY <1>1 DEF IInv

\* Every step keeps the invariant.
LEMMA NextIInv == IInv /\ [Next]_vars => IInv'
<1> SUFFICES ASSUME IInv, [Next]_vars
             PROVE  IInv'
  OBVIOUS
<1>1. CASE Check
  BY <1>1 DEF Check, IInv
<1>2. CASE StartRun
  BY <1>2 DEF StartRun, IInv
<1>3. CASE Announce
  BY <1>3 DEF Announce, IInv
<1>4. CASE Receive
  BY <1>4 DEF Receive, IInv
<1>5. CASE Hold
  BY <1>5 DEF Hold, IInv
<1>6. CASE DecideHere
  <2>1. /\ stage' = "recorded" /\ UNCHANGED <<verdict, signed, edits>> /\ signed = {}
        /\ \/ \E approved \in BOOLEAN : entry' = TerminalEntry(verdict.call, approved)
           \/ entry' = TimeoutEntry(verdict.call, "this", Approver)
    BY <1>6 DEF DecideHere, IInv
  <2>2. Fresh(entry, verdict.call, signed)'
    BY <2>1 DEF Fresh
  <2> QED
    BY <2>1, <2>2, DecisionKeeps
<1>7. CASE DecideByWebhook
  <2>1. /\ stage' = "recorded" /\ UNCHANGED <<verdict, edits>>
        /\ signed' \subseteq Statements(verdict.call)
        /\ \E r \in Answers(verdict.call, signed') :
             entry' = WebhookEntry(verdict.call, "this", Approver, r)
    BY <1>7 DEF DecideByWebhook
  <2>2. Fresh(entry, verdict.call, signed)'
    BY <2>1 DEF Fresh
  <2> QED
    BY <2>1, <2>2, DecisionKeeps
<1>8. CASE Edit
  <2> DEFINE D == Digests(verdict.call)
             T == Tools(verdict.call)
  <2>1. /\ stage = "recorded" /\ UNCHANGED <<stage, verdict, signed>>
        /\ edits' = edits + 1 /\ entry' \in Changed(entry)
    BY <1>8 DEF Edit
  <2>2. /\ <<>> \in D /\ SubjectDigest(OtherCall) \in D
        /\ <<>> \in T /\ ToolName(OtherCall) \in T
    BY DEF Digests, Tools
  <2>3. entry \in Entries(D, T) /\ Genuine(entry.evidence.response.sig, signed)
    BY <2>1 DEF IInv
  <2> HIDE DEF D, T
  <2>4. entry' \in Entries(D, T) /\ Genuine(entry'.evidence.response.sig, signed)
    BY <2>1, <2>2, <2>3, EditKeeps
  <2>5. edits' \in Nat /\ edits' # 0
    <3>1. edits \in Nat
      BY DEF IInv
    <3>2. edits' = edits + 1
      BY <2>1
    <3> QED
      BY <3>1, <3>2, Counted
  <2>6. D' = D /\ T' = T /\ Genuine(entry.evidence.response.sig, signed)'
    BY <2>1, <2>4 DEF D, T, Genuine
  <2> QED
    BY <2>1, <2>4, <2>5, <2>6 DEF IInv, D, T
<1>9. CASE UNCHANGED vars
  BY <1>9 DEF vars, IInv, Genuine, Fresh
<1> QED
  BY <1>1, <1>2, <1>3, <1>4, <1>5, <1>6, <1>7, <1>8, <1>9 DEF Next

-----------------------------------------------------------------------------
(* What the verification makes of the record.                              *)

\* A record that supports an approval holds the approver's signature over it.
LEMMA SupportIsSigned ==
  ASSUME NEW e, e.event = "gate_approved", Supports(e, Approver)
  PROVE  /\ e.digest = e.evidence.digest
         /\ e.evidence.response.sig =
              [by |-> Approver, over |-> [id |-> e.evidence.id, decision |-> "approved",
                                          digest |-> e.digest]]
<1> DEFINE r == e.evidence.response
<1>1. /\ e.digest = e.evidence.digest
      /\ VerifyDecision(Approver, e.evidence.id, e.evidence.digest, r) = "approved"
  BY DEF Supports, Agree, TerminalReason
<1>2. /\ r.sig = [by |-> Approver, over |-> Statement(r)]
      /\ r.id = e.evidence.id /\ r.digest = e.evidence.digest /\ r.decision = "approved"
  BY <1>1 DEF VerifyDecision
<1> QED
  BY <1>1, <1>2 DEF Statement

\* An approval that does not claim the terminal and is let stand has the support of
\* its record.
LEMMA StandingIsSupported ==
  ASSUME NEW e, e.event = "gate_approved", e.decidedBy # "terminal",
         Verified(e, Approver) # "failed"
  PROVE  Supports(e, Approver)
<1>1. ClaimsUnprovenApproval(e)
  BY DEF ClaimsUnprovenApproval
<1> QED
  BY <1>1 DEF Verified

\* What the gate records verifies, whether the approver's key is pinned or taken
\* from the record, unless a field was cut.
LEMMA FreshVerifies ==
  ASSUME NEW S, NEW call, S \subseteq Statements(call), NEW e, Fresh(e, call, S),
         ~e.evidence.response.long, NEW pinned \in {Approver, ""}
  PROVE  Verified(e, pinned) # "failed"
<1>1. CASE \E approved \in BOOLEAN : e = TerminalEntry(call, approved)
  <2>1. PICK approved \in BOOLEAN : e = TerminalEntry(call, approved)
    BY <1>1
  <2>2. e.decidedBy = "terminal" /\ e.evidence = NoEvidence
    BY <2>1 DEF TerminalEntry, Entry
  <2>3. NoEvidence.asked = FALSE
    BY DEF NoEvidence
  <2> QED
    BY <2>2, <2>3 DEF Verified, ClaimsUnprovenApproval
<1>2. CASE e = TimeoutEntry(call, "this", Approver)
  <2>1. e.event = "gate_timeout" /\ e.evidence.asked /\ e.evidence.response = NoResponse
    BY <1>2 DEF TimeoutEntry, Entry, Request
  <2> QED
    BY <2>1 DEF Verified
<1>3. CASE \E r \in Answers(call, S) : e = WebhookEntry(call, "this", Approver, r)
  <2>1. PICK r \in Answers(call, S) : e = WebhookEntry(call, "this", Approver, r)
    BY <1>3
  <2> DEFINE D == Digests(call)
             T == Tools(call)
             q == Request("this", call, Approver)
             w == Recorded(r)
             v == [q EXCEPT !.response = w]
             reason == VerifyDecision(Approver, "this", SubjectDigest(call), r)
  <2>2. <<>> \in D /\ <<>> \in T /\ SubjectDigest(call) \in D /\ ToolName(call) \in T
    BY DEF Digests, Tools
  <2>3. r \in Responses(D) /\ Genuine(r.sig, S) /\ r.id # ""
    BY AnswerFacts, Zenon
  <2>4. e = Entry(EventFor(reason), "webhook", call, v)
    BY <2>1 DEF WebhookEntry
  <2>5. /\ EventFor(reason) \in Events
        /\ TerminalReason(EventFor(reason)) = reason /\ reason # "none"
    BY EventFacts
  <2> HIDE DEF D, T
  <2>6. w \in Responses(D) /\ w.long = r.long /\ (~r.long => w = r)
    BY <2>2, <2>3, RecordedFacts
  <2>7. /\ q \in Evidences(D, T) /\ q.asked = TRUE /\ q.id = "this"
        /\ q.tool = ToolName(call) /\ q.digest = SubjectDigest(call) /\ q.pub = Approver
    <3>1. q \in Evidences(D, T)
      BY <2>2, RequestTyped, Zenon
    <3> QED
      BY <3>1 DEF Request
  <2> HIDE DEF q, w
  <2>8. /\ v.asked = TRUE /\ v.id = "this" /\ v.tool = ToolName(call)
        /\ v.digest = SubjectDigest(call) /\ v.pub = Approver /\ v.response = w
    BY <2>6, <2>7 DEF Evidences
  <2> HIDE DEF v, reason
  <2>9. /\ e.event = EventFor(reason) /\ e.tool = ToolName(call)
        /\ e.digest = SubjectDigest(call) /\ e.evidence = v
    BY <2>4 DEF Entry
  <2>10. w = r
    BY <2>6, <2>8, <2>9
  <2>11. VerifyDecision(Approver, v.id, v.digest, v.response) = reason
    BY <2>8, <2>10 DEF reason
  <2>12. ToolName(call) # <<>> /\ SubjectDigest(call) # <<>>
    BY DEF ToolName, SubjectDigest
  <2>13. Agree(e.digest, e.evidence.digest) /\ Agree(e.tool, e.evidence.tool)
    BY <2>8, <2>9, <2>12 DEF Agree
  <2>14. Supports(e, pinned)
    BY <2>3, <2>5, <2>8, <2>9, <2>10, <2>11, <2>13 DEF Supports
  <2>15. e.evidence.asked /\ e.evidence.response # NoResponse
    <3>1. NoResponse.id = ""
      BY DEF NoResponse
    <3> QED
      BY <2>3, <2>8, <2>9, <2>10, <3>1
  <2> QED
    BY <2>14, <2>15 DEF Verified
<1> QED
  BY <1>1, <1>2, <1>3 DEF Fresh

\* A genuine signature of the approver's was made over what it says.
LEMMA GenuineIsSigned ==
  ASSUME NEW S, NEW over, NEW sig, sig = [by |-> Approver, over |-> over], Genuine(sig, S)
  PROVE  over \in S
<1>1. sig.by = Approver /\ sig.over = over
  BY SignatureParts
<1> QED
  BY <1>1 DEF Genuine

\* An approval the webhook gave in a fresh record is one the approver signed, for
\* this request and this call.
LEMMA FreshApprovalIsSigned ==
  ASSUME NEW S, NEW call, S \subseteq Statements(call), NEW e, Fresh(e, call, S),
         e.event = "gate_approved", e.decidedBy = "webhook"
  PROVE  [id |-> "this", decision |-> "approved", digest |-> SubjectDigest(call)] \in S
<1>1. ASSUME NEW approved \in BOOLEAN, e = TerminalEntry(call, approved)
      PROVE  FALSE
  <2>1. e.decidedBy = "terminal"
    BY <1>1 DEF TerminalEntry, Entry
  <2> QED
    BY <2>1
<1>2. ASSUME e = TimeoutEntry(call, "this", Approver)
      PROVE  FALSE
  <2>1. e.event = "gate_timeout"
    BY <1>2 DEF TimeoutEntry, Entry
  <2> QED
    BY <2>1
<1>3. PICK r \in Answers(call, S) : e = WebhookEntry(call, "this", Approver, r)
  BY <1>1, <1>2 DEF Fresh
<1> DEFINE reason == VerifyDecision(Approver, "this", SubjectDigest(call), r)
<1>4. e.event = EventFor(reason)
  BY <1>3 DEF WebhookEntry, Entry
<1>5. EventFor(reason) = "gate_approved" => reason = "approved"
  BY EventFacts
<1>6. /\ r.sig = [by |-> Approver, over |-> Statement(r)]
      /\ r.id = "this" /\ r.digest = SubjectDigest(call) /\ r.decision = "approved"
  BY <1>4, <1>5 DEF VerifyDecision
<1>7. Genuine(r.sig, S)
  BY AnswerFacts
<1>8. r.sig = [by |-> Approver, over |-> [id |-> "this", decision |-> "approved",
                                            digest |-> SubjectDigest(call)]]
  BY <1>6 DEF Statement
<1> QED
  BY <1>7, <1>8, GenuineIsSigned, Zenon

\* The invariant says all of it.
LEMMA IInvTellsTheTruth == IInv => LogTellsTheTruth
<1> SUFFICES ASSUME IInv, stage = "recorded"
             PROVE  LogTellsTheTruth
  BY DEF LogTellsTheTruth
<1> DEFINE call == verdict.call
<1>1. /\ Genuine(entry.evidence.response.sig, signed)
      /\ edits = 0 => Fresh(entry, call, signed)
      /\ signed \subseteq Statements(call)
  BY DEF IInv
<1>2. ASSUME entry.event = "gate_approved", entry.decidedBy # "terminal",
             Verified(entry, Approver) # "failed"
      PROVE  /\ [id |-> entry.evidence.id, decision |-> "approved", digest |-> entry.digest] \in signed
             /\ entry.evidence.digest = entry.digest
  <2>1. Supports(entry, Approver)
    BY <1>2, StandingIsSupported
  <2>2. /\ entry.digest = entry.evidence.digest
        /\ entry.evidence.response.sig =
             [by |-> Approver, over |-> [id |-> entry.evidence.id, decision |-> "approved",
                                         digest |-> entry.digest]]
    BY <1>2, <2>1, SupportIsSigned
  <2> QED
    BY <1>1, <2>2, GenuineIsSigned, Zenon
<1>3. ASSUME edits = 0, ~entry.evidence.response.long
      PROVE  \A pinned \in {Approver, ""} : Verified(entry, pinned) # "failed"
  BY <1>1, <1>3, FreshVerifies
<1>4. ASSUME edits = 0, entry.event = "gate_approved", entry.decidedBy = "webhook"
      PROVE  [id |-> "this", decision |-> "approved", digest |-> SubjectDigest(call)] \in signed
  BY <1>1, <1>4, FreshApprovalIsSigned
<1> QED
  BY <1>2, <1>3, <1>4 DEF LogTellsTheTruth

\* No approval stands in the log that the approver has not signed, however the
\* entry was edited; and what the gate wrote is true and verifies.
THEOREM LogTellsTheTruthHolds == Spec => []LogTellsTheTruth
<1>1. Init => IInv
  BY InitIInv
<1>2. IInv /\ [Next]_vars => IInv'
  BY NextIInv
<1>3. IInv => LogTellsTheTruth
  BY IInvTellsTheTruth
<1> QED
  BY <1>1, <1>2, <1>3, PTL DEF Spec
=============================================================================
