--------------------------- MODULE MCGuardedRun ---------------------------
(* GuardedRun on Agentfiles that differ from a sound one in one section,   *)
(* hosts lacking one thing, and requests with up to three members.         *)
EXTENDS GuardedRun

Variant(w) == [Word(w) EXCEPT !.upper = TRUE]
Padded(w)  == [Word(w) EXCEPT !.padded = TRUE]
Spellings(w) == {Word(w), Variant(w), Padded(w)}

-----------------------------------------------------------------------------
Host(labels)  == [lines |-> <<labels>>, upper |-> FALSE, dot |-> FALSE, ascii |-> TRUE, sub |-> FALSE]
Tools   == <<"tools", "example", "com">>
Other   == <<"api", "example", "org">>
ServerHosts ==
  {[Host(Tools) EXCEPT !.upper = u, !.dot = d, !.ascii = a] : u, d, a \in BOOLEAN}
    \cup {[Host(Tools) EXCEPT !.lines = <<>>], Host(<<"localhost">>)}
AllowedHosts ==
  {Host(Other), Host(Tools), [Host(Tools) EXCEPT !.upper = TRUE], Host(<<"localhost">>),
   [Host(<<"example", "com">>) EXCEPT !.sub = TRUE], [Host(Tools) EXCEPT !.sub = TRUE],
   [Host(Other) EXCEPT !.lines = <<Other, Tools>>],
   [Host(<<"host", "docker", "internal">>) EXCEPT !.sub = TRUE],
   [Host(<<"docker", "internal">>) EXCEPT !.sub = TRUE], [Host(<<"internal">>) EXCEPT !.sub = TRUE],
   [Host(<<"localhost">>) EXCEPT !.sub = TRUE]}

Server(id, host) ==
  [id |-> id, host |-> host, path |-> <<"mcp">>, tools |-> {}, pricing |-> "none"]
Peer(id, did) == [id |-> id, host |-> Host(<<"peer", "example", "net">>), did |-> did]

Sound ==
  [name |-> "agent", did |-> "", imageIsFlag |-> FALSE, isolation |-> "", capabilities |-> {"read_file"},
   credentials |-> <<>>, allowed |-> {Host(Other)},
   servers |-> <<Server("a", Host(Tools))>>, listen |-> "", peers |-> <<>>, duration |-> 0,
   gates |-> [enabled |-> TRUE, entries |-> {Word("send")}, timeout |-> 0, onTimeout |-> "",
              channels |-> {"webhook"}, approver |-> "approver"],
   perRun |-> "five", perDay |-> "", warnAt |-> 0]

Levelled == {[Sound EXCEPT !.isolation = l, !.capabilities = c] :
               l \in {"", "none", "process", "network", "kernel", "kernal"},
               c \in {{}, {"read_file"}, {"read_file", "send_email"}, {"external_transfer"},
                      {"send_email", "spawn_subagent"}, {"reed_file"}}}
Networked == {[Sound EXCEPT !.allowed = a, !.servers = <<Server("a", h)>>] :
                a \in {S \in SUBSET AllowedHosts : Cardinality(S) <= 2}, h \in ServerHosts}
Peered == {[Sound EXCEPT !.did = d, !.listen = l, !.servers = <<>>, !.allowed = {h},
                         !.peers = p] :
             d \in {"", "me", "malformed"}, l \in {"", ":8443", "malformed"},
             h \in {Host(Other), Host(<<"localhost">>), Host(<<"peer", "example", "net">>),
                   [Host(<<"localhost">>) EXCEPT !.sub = TRUE]},
             p \in {<<>>, <<Peer("p", "you")>>, <<Peer("p", "me")>>,
                    <<Peer("p", "you"), Peer("q", "you")>>, <<Peer("p", "you"), Peer("p", "him")>>}}
Served == {[Sound EXCEPT !.servers = <<Server(i, Host(Tools)), [Server("b", Host(Tools)) EXCEPT !.pricing = p]>>] :
             i \in {"", "a", "b", "malformed"}, p \in {"none", "zero", "five", "malformed", "no meters"}}
Routed == {[Sound EXCEPT !.servers[1].path = p, !.servers[1].tools = t,
                         !.gates.enabled = g] :
             p \in {<<>>, <<"">>, <<"mcp">>, <<"mcp", "">>, <<"safe", "..">>, <<"@org", "mcp">>, <<"", "mcp">>},
             t \in {{}, {Word("send")}, {Word("echo")}, {Variant("send"), Word("echo")}},
             g \in BOOLEAN}
Credentialed == {[Sound EXCEPT !.credentials = <<[name |-> n, source |-> s], [name |-> k, source |-> Word("")]>>] :
                   n \in Spellings("key") \cup {Variant("http_proxy"), Word("constle_mcp_url"), NoName},
                   s \in {Word(""), Word("mine"), Padded("mine")},
                   k \in {Word("key"), Variant("key"), Word("token")}}
Timed == {[Sound EXCEPT !.duration = d, !.gates.timeout = t, !.gates.onTimeout = o] :
            d \in {-1, 0, 511, 512, 1024, 1025}, t \in {-1, 0, 5, 511, 512, 1025},
            o \in {"", "abort", "proceed", "prooceed"}}
Capped == {[Sound EXCEPT !.did = d, !.perRun = r, !.perDay = y, !.warnAt = w] :
             d \in {"", "me"}, r \in {"", "zero", "five", "malformed"}, y \in {"", "zero", "five"},
             w \in {0, 50, 101}}
Gated == {[Sound EXCEPT !.gates.entries = e, !.gates.approver = a, !.gates.channels = c] :
            e \in {{}, {Word("send")}, {NoName}}, a \in {"", "approver", "malformed"},
            c \in {{}, {"webhook"}, {"email"}}}

MCFiles == [wrote : Levelled \cup Networked \cup Peered \cup Served \cup Routed \cup Credentialed
                      \cup Timed \cup Capped \cup Gated \cup {[Sound EXCEPT !.name = ""], [Sound EXCEPT !.imageIsFlag = TRUE]},
            astray : {"none"}]
           \cup [wrote : Levelled \cup Gated, astray : {"capabilities", "human_gates"}]

MCHosts == [docker : BOOLEAN, env : {{Word("key"), Word("token"), Word("mine")}},
            missing : {{}} \cup {{x} : x \in {"linux", "kvm", "tools", "guest kernel", "rootfs", "root"}}]
           \cup [docker : {TRUE}, env : {{}}, missing : {{}}]

-----------------------------------------------------------------------------
Member(name, value) == [name |-> name, value |-> value]

ToolNames   == Spellings("send") \cup {Word("echo"), NoName}
Argumenteds == {<<>>, <<Member(Word("to"), Word("x"))>>,
                <<Member(Word("to"), Word("x")), Member(Word("to"), Word("y"))>>,
                <<Member(Word("to"), Word("x")), Member(Variant("to"), Word("y"))>>}
NameMembers == {Member(n, t) : n \in {Word("name"), Variant("name")}, t \in ToolNames}
ArgMembers  == {Member(n, a) : n \in {Word("arguments"), Variant("arguments")}, a \in Argumenteds}
OneName     == {<<n>> : n \in NameMembers}
Params      == {<<>>} \cup OneName \cup {<<n, m>> : n, m \in NameMembers}
                 \cup {<<n, a>> : n \in NameMembers, a \in ArgMembers}
FewParams   == {<<Member(Word("name"), t)>> : t \in ToolNames}

MethodMembers == {Member(n, v) : n \in {Word("method"), Variant("method")},
                                 v \in Spellings("tools/call") \cup {Word("tools/list")}}
Enveloped(ps) == {Member(n, p) : n \in {Word("params"), Variant("params")}, p \in ps}

Bodies ==
  [shape : {"object"}, members : {<<m, p>> : m \in MethodMembers, p \in Enveloped(Params)}
                      \cup {<<m, n, p>> : m, n \in MethodMembers, p \in Enveloped(FewParams)}
                      \cup {<<p, m, q>> : m \in MethodMembers, p, q \in Enveloped(FewParams)}
                      \cup {<<m>> : m \in MethodMembers}]
  \cup [shape : {"array", "trailing", "null", "deep"},
        members : {<<m, p>> : m \in MethodMembers, p \in Enveloped(FewParams)}]

Call == [shape |-> "object", members |-> <<Member(Word("method"), Word("tools/call")),
                                           Member(Word("params"), <<Member(Word("name"), Word("send"))>>)>>]
Absent == [shape |-> "absent", members |-> <<>>]

Request0 == [token |-> TRUE, declared |-> TRUE, method |-> "POST", rest |-> <<"">>, upgrade |-> FALSE,
             encoded |-> FALSE, body |-> Call]

Segments == {"x", "", ".", "..", "@org"} \cup DOMAIN HiddenReading

MCRequests ==
  {[Request0 EXCEPT !.body = b] : b \in Bodies}
  \cup {[Request0 EXCEPT !.rest = p, !.method = m, !.body = Absent] :
          m \in {"GET", "DELETE"}, p \in UNION {[1 .. n -> Segments] : n \in 1 .. 3}}
  \cup [token : BOOLEAN, declared : BOOLEAN, method : {"POST", "GET", "DELETE", "post", "PUT"}, rest : {<<"">>},
        upgrade : BOOLEAN, encoded : BOOLEAN, body : {Call, Absent}]
=============================================================================
