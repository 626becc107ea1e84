------------------------- MODULE RequestInspection -------------------------
(***************************************************************************)
(* What the MCP gate decides about one request of the sandboxed agent      *)
(* before anything of it leaves the host (internal/mcpgate/gate.go): the   *)
(* path that is forwarded, the method, protocol upgrades, and the JSON-RPC *)
(* body, of which the gate reads one copy and the upstream another.        *)
(*                                                                         *)
(* A spelling is a record [word, upper, padded]: the word it folds to,     *)
(* whether it is spelled with other letters that fold alike (case, or the  *)
(* long s of U+017F), and whether white space or a control character       *)
(* surrounds it.  A path is the sequence of segments its slashes separate. *)
(* A body is its shape and its members in order, an object in a member the *)
(* same.  What upstreams make of a request is given by the readers below:  *)
(* the readings the source's own comments name.                            *)
(***************************************************************************)
EXTENDS Naturals, SequencesExt

Word(w)   == [word |-> w, upper |-> FALSE, padded |-> FALSE]
Fold(s)   == [s EXCEPT !.upper = FALSE]
Trim(s)   == [s EXCEPT !.padded = FALSE]
NoName    == Word("")
ToolsCall == Word("tools/call")

-----------------------------------------------------------------------------
(* The path                                                                *)

\* What a segment that is not inert turns into, and the reader it does so for.
HiddenReading ==
  [seg \in {"%2e%2e", "..;p", "..\\..", "U+2025"} |->
     CASE seg = "%2e%2e" -> [reader |-> "decodesTwice",    as |-> <<"..">>]
       [] seg = "..;p"   -> [reader |-> "stripsParameters", as |-> <<"..">>]
       [] seg = "..\\.." -> [reader |-> "windows",          as |-> <<"..", "..">>]
       [] seg = "U+2025" -> [reader |-> "normalises",       as |-> <<"..">>]]

PathReaders == {"plain"} \cup {HiddenReading[s].reader : s \in DOMAIN HiddenReading}

SeenBy(reader, seg) ==
  IF seg \in DOMAIN HiddenReading /\ HiddenReading[seg].reader = reader
  THEN HiddenReading[seg].as
  ELSE <<seg>>

\* Where a reader ends: dot segments walked, an authority in front left alone.
Resolved(reader, path) ==
  LET seen == FlattenSeq([i \in DOMAIN path |-> SeenBy(reader, path[i])])
      Step(at, seg) == CASE seg \in {"", "."} -> at
                         [] seg = ".."        -> IF at = <<>> THEN at ELSE Front(at)
                         [] OTHER             -> Append(at, seg)
  IN IF Len(path) > 1 /\ path[1] = "" THEN <<"another host">> ELSE FoldLeft(Step, <<>>, seen)

MutBackslash(seg) == seg \notin {"%2e%2e", "..;p", "U+2025", "@org"}

\* The bytes of a segment are on a sub-path's allowlist; an endpoint, which the
\* Agentfile's author wrote, may also have those of EndpointOnly.
Unreserved(seg) == seg \notin DOMAIN HiddenReading \cup {"@org"}
EndpointOnly    == {"@org"}

\* pathReason has no reason to refuse: no dot segment, no empty segment before
\* the last, and only listed bytes (the percent, semicolon and backslash rules
\* name readings the byte allowlist refuses as well).
PathAccepted(p, also) ==
  /\ \A i \in DOMAIN p : p[i] \notin {".", ".."} /\ (Unreserved(p[i]) \/ p[i] \in also)
  /\ \A i \in DOMAIN p \ {Len(p)} : p[i] # ""

EndpointAccepted(endpoint) == PathAccepted(IF endpoint = <<>> THEN <<"">> ELSE endpoint, EndpointOnly)

TrimSlash(path) == IF path # <<>> /\ Last(path) = "" THEN Front(path) ELSE path

\* The rewritten path: the endpoint, and below it the sub-path if there is one.
Rewritten(endpoint, remainder) ==
  IF remainder = <<"">> THEN endpoint ELSE TrimSlash(endpoint) \o remainder

WithinEndpoint(endpoint, path) == path = TrimSlash(endpoint) \/ IsPrefix(TrimSlash(endpoint), path)

-----------------------------------------------------------------------------
(* The body                                                                *)

\* The members an object holds under a name, for a reader that folds names or not.
Holding(members, name, folds) ==
  SelectSeq(members, LAMBDA m : IF folds THEN Fold(m.name) = Word(name) ELSE m.name = Word(name))

MutSeenExactly(members) ==
  \A i, j \in DOMAIN members : i # j => members[i].name # members[j].name

\* scanUnambiguous at one level: no two names fold alike.
UniqueNames(members) ==
  \A i, j \in DOMAIN members : i # j => Fold(members[i].name) # Fold(members[j].name)

IsObject(m) == Fold(m.name) \in {Word("params"), Word("arguments")}

\* scanUnambiguous: one object, nothing after it, and at every depth unique names.
Unambiguous(body) ==
  /\ body.shape = "object"
  /\ UniqueNames(body.members)
  /\ \A i \in DOMAIN body.members : IsObject(body.members[i]) =>
       LET inner == body.members[i].value
       IN /\ UniqueNames(inner)
          /\ \A j \in DOMAIN inner : IsObject(inner[j]) => UniqueNames(inner[j].value)

LastValue(members, default) == IF members = <<>> THEN default ELSE Last(members).value

\* json.Unmarshal into the gate's struct: names fold, the last one wins, and a
\* second params is merged into the first field by field.
Message(body) ==
  LET params == FlattenSeq([i \in DOMAIN Holding(body.members, "params", TRUE) |->
                              Holding(body.members, "params", TRUE)[i].value])
  IN [method    |-> LastValue(Holding(body.members, "method", TRUE), NoName),
      tool      |-> LastValue(Holding(params, "name", TRUE), NoName),
      arguments |-> LastValue(Holding(params, "arguments", TRUE), <<>>)]

\* checkUnambiguousNames: no routed name is a near miss of what it is compared with.
RoutingNamesExact(msg) ==
  /\ ~msg.method.padded
  /\ Fold(msg.method) = ToolsCall => msg.method = ToolsCall
  /\ msg.method = ToolsCall => msg.tool # NoName /\ ~msg.tool.padded

\* How an upstream reads the same bytes: which of two members counts, whether
\* names fold, and whether the routed values do.
BodyReaders == [firstWins : BOOLEAN, foldsNames : BOOLEAN, value : {"exact", "folds", "trims"}]

ReadValue(reader, members, name, default) ==
  LET held == Holding(members, name, reader.foldsNames)
  IN IF held = <<>> THEN default
     ELSE IF reader.firstWins THEN Head(held).value ELSE Last(held).value

AsRouted(reader, s) ==
  CASE reader.value = "exact" -> s
    [] reader.value = "folds" -> Fold(s)
    [] reader.value = "trims" -> Trim(s)

\* The call an upstream executes, as the tool it dispatches to and the arguments
\* it passes; a body that is no object it is free to execute as well.
CallRead(reader, body) ==
  LET params == ReadValue(reader, body.members, "params", <<>>)
  IN [called    |-> /\ body.shape # "null"
                    /\ AsRouted(reader, ReadValue(reader, body.members, "method", NoName)) = ToolsCall,
      tool      |-> AsRouted(reader, ReadValue(reader, params, "name", NoName)),
      arguments |-> LET args == ReadValue(reader, params, "arguments", <<>>)
                    IN [w \in {args[i].name.word : i \in DOMAIN args} |->
                          ReadValue(reader, args, w, NoName)]]

-----------------------------------------------------------------------------
(* The request                                                             *)
(* A gate is [endpoint, tools, gated]; a request is                        *)
(* [token, declared, method, rest, upgrade, encoded, body], where body is  *)
(* what is sent, whatever length its headers declare.                      *)

\* The gate New builds for one server of a validated manifest.
GateFor(server, humanGates) ==
  [endpoint |-> server.path,
   tools    |-> server.tools,
   gated    |-> IF humanGates.enabled THEN humanGates.entries ELSE {}]

Methods == {"POST", "GET", "DELETE"}

HasBody(request) == request.body.shape # "absent"

\* ServeHTTP's refusals, up to the rewrite and its post-condition.
RequestAccepted(gate, request) ==
  /\ request.token /\ request.declared
  /\ request.method \in Methods
  /\ PathAccepted(request.rest, {})
  /\ ~request.upgrade
  /\ WithinEndpoint(gate.endpoint, Rewritten(gate.endpoint, request.rest))

\* What serveInspected asks of a body before it looks for a call in it.  On a
\* GET or a DELETE one byte read settles it, whatever length was declared.
BodyAccepted(request) ==
  /\ ~request.encoded
  /\ request.method # "POST" => ~HasBody(request)
  /\ request.method = "POST" =>
       Unambiguous(request.body) /\ RoutingNamesExact(Message(request.body))

\* The tool is declared, and no near miss of a gated one.
ToolAllowed(gate, tool) ==
  /\ gate.tools # {} => tool \in gate.tools
  /\ tool \notin gate.gated => \A g \in gate.gated : Fold(g) # Fold(tool)

\* serveInspected's verdict: refused, passed uninspected (no call in it), called
\* (audited, metered, no human asked) or asked, for the call the gate has read.
Inspect(gate, request) ==
  LET msg  == Message(request.body)
      call == [tool |-> msg.tool, arguments |-> msg.arguments]
      none == [tool |-> NoName, arguments |-> <<>>]
  IN IF ~RequestAccepted(gate, request) \/ ~BodyAccepted(request)
     THEN [does |-> "refused", call |-> none]
     ELSE IF request.method # "POST" \/ msg.method # ToolsCall
     THEN [does |-> "passed", call |-> none]
     ELSE IF ~ToolAllowed(gate, msg.tool) THEN [does |-> "refused", call |-> none]
     ELSE IF msg.tool \notin gate.gated  THEN [does |-> "called", call |-> call]
     ELSE [does |-> "asked", call |-> call]
=============================================================================
