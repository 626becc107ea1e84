---------------------------- MODULE A2ARoundTrip ----------------------------
(***************************************************************************)
(* One agent calls another (internal/a2a/gate.go, envelope.go, with the    *)
(* outline of listener.go): the sender's gate signs and posts an envelope, *)
(* the receiver's listener verifies it, its agent answers, and the sender  *)
(* verifies the signed answer.  The network loses, repeats, garbles and    *)
(* misdirects what is on it; either side's process may die.  The quota of  *)
(* the inbox is A2AInbox's subject and the replay guard's store is         *)
(* ReplayGuard's; here both are one step.                                  *)
(*                                                                         *)
(* A call's stages at its sender: idle -> logged -> posted -> settled.     *)
(* At its receiver: none -> parked -> pending -> signed -> handed -> told, *)
(* or expired; handler[c] is the handler that holds the peer's connection, *)
(* and runs beside the agent's own: none -> entered -> waiting -> over.    *)
(*                                                                         *)
(* TripInit, TripNext and the like are named apart from those of AuditLog, *)
(* the log both sides keep: one module of proofs is about both.            *)
(***************************************************************************)
EXTENDS Integers, FiniteSets

CONSTANTS
  Agents,
  Calls,
  From, To,      \* [Calls -> Agents]
  MaxTroubles    \* bound on what the network and the processes do amiss

ASSUME RoundTripAssumption ==
  /\ From \in [Calls -> Agents] /\ To \in [Calls -> Agents]
  /\ MaxTroubles \in Nat

ASSUME NoneAssumption == "none" \notin Calls

VARIABLES
  gate,      \* [Agents -> state of its gate]: off, up, dead
  stage,     \* of each call, at its sender
  part,      \* of each call, at its receiver
  handler,   \* of each call: where servePublic stands
  seen,      \* message IDs each agent's replay guard has recorded
  wire,      \* every message sent and not lost
  taken,     \* the answer a sender accepted
  log,       \* [Agents -> audit entries]
  troubles

tripVars == <<gate, stage, part, handler, seen, wire, taken, log, troubles>>

\* An envelope.  Its msg_id is its call's for a request and nothing else is
\* ever told apart by it for an answer; `intact` says that it parses and that
\* its signature verifies over the bytes that arrived.
Request(c) == [kind |-> "request", from |-> From[c], to |-> To[c], id |-> c, re |-> "none", intact |-> TRUE]
Answer(c)  == [kind |-> "answer", from |-> To[c], to |-> From[c], id |-> c, re |-> c, intact |-> TRUE]
\* An HTTP error on the connection of a call.
Refusal(c) == [kind |-> "refusal", from |-> To[c], to |-> From[c], id |-> c, re |-> c, intact |-> TRUE]
NoAnswer == [kind |-> "none"]

TripInit ==
  /\ gate = [a \in Agents |-> "off"]
  /\ stage = [c \in Calls |-> "idle"]
  /\ part = [c \in Calls |-> "none"]
  /\ handler = [c \in Calls |-> "none"]
  /\ seen = [a \in Agents |-> {}]
  /\ wire = {}
  /\ taken = [c \in Calls |-> NoAnswer]
  /\ log = [a \in Agents |-> {}]
  /\ troubles = 0

Trouble == troubles < MaxTroubles /\ troubles' = troubles + 1
NoTrouble == troubles' = troubles

\* An audit entry: the event, which leg it is about, and why.
Entry(event, leg, c, why) == [event |-> event, leg |-> leg, call |-> c, why |-> why]
Logs(a, e) == log' = [log EXCEPT ![a] = @ \union {e}]
Sent(leg, c) == Entry("sent", leg, c, "none")
Received(leg, c) == Entry("received", leg, c, "none")
Rejected(leg, c, why) == Entry("rejected", leg, c, why)

---------------------------------------------------------------------------
\* New, Bind and StartListener.  Without its replay store or an address to
\* bind the gate does not start, and neither does the run.
StartGate(a) ==
  /\ gate[a] = "off"
  /\ \/ NoTrouble /\ gate' = [gate EXCEPT ![a] = "up"]
     \/ Trouble /\ gate' = [gate EXCEPT ![a] = "dead"]
  /\ UNCHANGED <<stage, part, handler, seen, wire, taken, log>>

---------------------------------------------------------------------------
\* The sender: serveSend

\* The request is signed and logged as sent before it leaves.
Sign(c) ==
  /\ gate[From[c]] = "up" /\ stage[c] = "idle"
  /\ stage' = [stage EXCEPT ![c] = "logged"]
  /\ Logs(From[c], Sent("request", c))
  /\ UNCHANGED <<gate, part, handler, seen, wire, taken, troubles>>

Settle(c, why) ==
  /\ stage' = [stage EXCEPT ![c] = "settled"]
  /\ Logs(From[c], Rejected(IF why = "peer_unreachable" THEN "request" ELSE "response", c, why))

Post(c) ==
  /\ gate[From[c]] = "up" /\ stage[c] = "logged"
  /\ \/ /\ gate[To[c]] = "up" /\ NoTrouble
        /\ stage' = [stage EXCEPT ![c] = "posted"]
        /\ wire' = wire \union {Request(c)}
        /\ UNCHANGED log
     \/ /\ IF gate[To[c]] = "up" THEN Trouble ELSE NoTrouble
        /\ Settle(c, "peer_unreachable")
        /\ UNCHANGED wire
  /\ UNCHANGED <<gate, part, handler, seen, taken>>

\* Nothing came within callTimeout, or the connection broke.
MutStuck(c) == FALSE
GivesUp(c) == gate[From[c]] = "up" /\ stage[c] = "posted"
CallTimesOut(c) ==
  /\ GivesUp(c)
  /\ \E why \in {"peer_unreachable", "peer_http_error"} : Settle(c, why)
  /\ UNCHANGED <<gate, part, handler, seen, wire, taken, troubles>>

\* What verifyResponse finds wrong with a message, in its order.
MutAnyAnswer(c, m) ==
  IF m.kind = "refusal" THEN "peer_http_error" ELSE IF ~m.intact THEN "bad_signature"
  ELSE IF m.from # To[c] THEN "unknown_peer" ELSE IF m.to # From[c] THEN "wrong_recipient"
  ELSE "none"
Flaw(c, m) ==
  IF m.kind = "refusal"   THEN "peer_http_error"
  ELSE IF ~m.intact       THEN "bad_signature"
  ELSE IF m.from # To[c]  THEN "unknown_peer"
  ELSE IF m.to # From[c]  THEN "wrong_recipient"
  ELSE IF m.re # c        THEN "replay"
  ELSE "none"

\* What was sent back on the connection of call c.
SentOn(c, m) == m.kind # "request" /\ m.id = c

\* A message arrives on the open connection of call c: what was sent back on it,
\* or, with some trouble, another one (a request reflected as an answer among
\* them) or one that was changed on the way.
Arrives(c, m) ==
  \/ m \in wire /\ SentOn(c, m) /\ NoTrouble
  \/ /\ \E n \in wire : \/ m = n /\ ~SentOn(c, n)
                        \/ m = [n EXCEPT !.intact = FALSE] /\ SentOn(c, n)
     /\ Trouble

Collect(c, m) ==
  /\ gate[From[c]] = "up" /\ stage[c] = "posted"
  /\ Arrives(c, m)
  /\ IF Flaw(c, m) = "none"
     THEN /\ stage' = [stage EXCEPT ![c] = "settled"]
          /\ taken' = [taken EXCEPT ![c] = m]
          /\ Logs(From[c], Received("response", c))
     ELSE Settle(c, Flaw(c, m)) /\ UNCHANGED taken
  /\ UNCHANGED <<gate, part, handler, seen, wire>>

---------------------------------------------------------------------------
\* The receiver: servePublic, serveInbox, serveReply

Refuse(c, why) ==
  /\ Logs(To[c], Rejected("request", c, why))
  /\ wire' = wire \union {Refusal(c)}
  /\ UNCHANGED <<part, handler, seen>>

\* A copy of the request arrives; it stays on the wire and may come again.  An
\* answer that is presented here in place of a request is left out: servePublic
\* would take it for a call of its own, apart from Calls.
\* The guard records an envelope before the inbox is tried, and the call is in
\* the inbox, where the agent may find it, before it is logged as received.
Accept(c) ==
  LET me == To[c] IN
  /\ gate[me] = "up" /\ Request(c) \in wire
  /\ \/ /\ c \notin seen[me] /\ NoTrouble
        /\ seen' = [seen EXCEPT ![me] = @ \union {c}]
        /\ part' = [part EXCEPT ![c] = "parked"]
        /\ handler' = [handler EXCEPT ![c] = "entered"]
        /\ UNCHANGED <<wire, log>>
     \/ c \in seen[me] /\ Trouble /\ Refuse(c, "replay")
     \/ c \notin seen[me] /\ Trouble /\ Refuse(c, "replay_guard_unavailable")
     \/ /\ c \notin seen[me] /\ Trouble
        /\ seen' = [seen EXCEPT ![me] = @ \union {c}]
        /\ Logs(me, Rejected("request", c, "inbox_full"))
        /\ wire' = wire \union {Refusal(c)}
        /\ UNCHANGED <<part, handler>>
     \/ Trouble /\ Refuse(c, "bad_signature")     \* changed on the way
  /\ UNCHANGED <<gate, stage, taken>>

LogCall(c) ==
  /\ gate[To[c]] = "up" /\ handler[c] = "entered"
  /\ handler' = [handler EXCEPT ![c] = "waiting"]
  /\ Logs(To[c], Received("request", c))
  /\ UNCHANGED <<gate, stage, part, seen, wire, taken, troubles>>

Poll(c) ==
  /\ gate[To[c]] = "up" /\ part[c] = "parked"
  /\ part' = [part EXCEPT ![c] = "pending"]
  /\ UNCHANGED <<gate, stage, handler, seen, wire, taken, log, troubles>>

\* The agent answers, and the call leaves `pending`.  A body that cannot be
\* sealed consumes the call.
Reply(c) ==
  /\ gate[To[c]] = "up" /\ part[c] = "pending"
  /\ \E next \in {"signed", "expired"} : part' = [part EXCEPT ![c] = next]
  /\ UNCHANGED <<gate, stage, handler, seen, wire, taken, log, troubles>>

\* serveReply hands the signed answer to the handler, and then logs it.
HandOver(c) ==
  /\ gate[To[c]] = "up" /\ part[c] = "signed"
  /\ part' = [part EXCEPT ![c] = "handed"]
  /\ UNCHANGED <<gate, stage, handler, seen, wire, taken, log, troubles>>

LogAnswer(c) ==
  /\ gate[To[c]] = "up" /\ part[c] = "handed"
  /\ part' = [part EXCEPT ![c] = "told"]
  /\ Logs(To[c], Sent("response", c))
  /\ UNCHANGED <<gate, stage, handler, seen, wire, taken, troubles>>

Respond(c) ==
  /\ gate[To[c]] = "up" /\ handler[c] = "waiting" /\ part[c] \in {"handed", "told"}
  /\ handler' = [handler EXCEPT ![c] = "over"]
  /\ wire' = wire \union {Answer(c)}
  /\ UNCHANGED <<gate, stage, part, seen, taken, log, troubles>>

\* replyTimeout has passed, or the peer has hung up.  A call that the agent
\* has not begun to answer can no longer be answered.
MutAnswersOn(c) == "waiting"
Released(c) == "over"
Expire(c) ==
  /\ gate[To[c]] = "up" /\ handler[c] = "waiting"
  /\ handler' = [handler EXCEPT ![c] = Released(c)]
  /\ part' = [part EXCEPT ![c] = IF @ = "pending" THEN "expired" ELSE @]
  /\ \/ Logs(To[c], Rejected("response", c, "reply_timeout")) /\ wire' = wire \union {Refusal(c)}
     \/ /\ stage[c] # "posted" \/ gate[From[c]] # "up"
        /\ Logs(To[c], Rejected("response", c, "peer_disconnected")) /\ UNCHANGED wire
  /\ UNCHANGED <<gate, stage, seen, taken, troubles>>

---------------------------------------------------------------------------
\* The process ends (Close, a crash); the replay store stays.
Die(a) ==
  /\ gate[a] = "up" /\ Trouble
  /\ gate' = [gate EXCEPT ![a] = "dead"]
  /\ handler' = [c \in Calls |-> IF To[c] = a /\ handler[c] # "none" THEN "over" ELSE handler[c]]
  /\ UNCHANGED <<stage, part, seen, wire, taken, log>>

Lose(m) ==
  /\ m \in wire /\ Trouble
  /\ wire' = wire \ {m}
  /\ UNCHANGED <<gate, stage, part, handler, seen, taken, log>>

Sender(c) == Sign(c) \/ Post(c) \/ CallTimesOut(c) \/ \E m \in wire : Collect(c, m)
Handler(c) == LogCall(c) \/ HandOver(c) \/ LogAnswer(c) \/ Respond(c) \/ Expire(c)
Garbled == {[m EXCEPT !.intact = FALSE] : m \in wire}

TripNext ==
  \/ \E a \in Agents : StartGate(a) \/ Die(a)
  \/ \E c \in Calls : Sender(c) \/ Accept(c) \/ Poll(c) \/ Reply(c) \/ Handler(c)
                        \/ \E m \in Garbled : Collect(c, m)
  \/ \E m \in wire : Lose(m)

\* A handler that sends runs on, and its client's timeout passes; agents owe
\* nothing, the network delivers what it likes and receivers may hang.
Fairness == \A c \in Calls : WF_tripVars(Sender(c))
TripSpec == TripInit /\ [][TripNext]_tripVars /\ Fairness

---------------------------------------------------------------------------
\* Properties

Reasons == {"none", "peer_unreachable", "peer_http_error", "bad_signature", "unknown_peer",
            "wrong_recipient", "replay", "replay_guard_unavailable", "inbox_full",
            "reply_timeout", "peer_disconnected"}
Messages == [kind : {"request", "answer", "refusal"}, from : Agents, to : Agents,
             id : Calls, re : Calls \union {"none"}, intact : BOOLEAN]
Entries == [event : {"sent", "received", "rejected"}, leg : {"request", "response"},
            call : Calls, why : Reasons]
TripTypeOK ==
  /\ gate \in [Agents -> {"off", "up", "dead"}]
  /\ stage \in [Calls -> {"idle", "logged", "posted", "settled"}]
  /\ part \in [Calls -> {"none", "parked", "pending", "signed", "handed", "told", "expired"}]
  /\ handler \in [Calls -> {"none", "entered", "waiting", "over"}]
  /\ seen \in [Agents -> SUBSET Calls]
  /\ wire \subseteq Messages
  /\ taken \in [Calls -> Messages \union {NoAnswer}]
  /\ log \in [Agents -> SUBSET Entries]
  /\ troubles \in 0 .. MaxTroubles

\* What a sender's log says became of a call.
Outcomes(c) == {e \in log[From[c]] : /\ e.call = c
                                     /\ \/ e.leg = "response" /\ e.event = "received"
                                        \/ e.event = "rejected" /\ e.leg = "response"
                                             /\ e.why \notin {"reply_timeout", "peer_disconnected"}
                                        \/ e.event = "rejected" /\ e.why = "peer_unreachable"}
\* What a sender's agent is given as the answer to its call is the answer the
\* receiver's agent gave to that call, though answers to other calls of the
\* same two agents arrive on its connection (verifyResponse).
AnswersMatch ==
  \A c \in Calls : taken[c] # NoAnswer => taken[c] = Answer(c) /\ part[c] \in {"handed", "told"}

\* The two logs tell one story: the sender's has one outcome of every call that
\* is settled, and none before; and of a call the sender logs as answered, the
\* receiver has logged the request as received, has logged no failure of the
\* response leg, and has logged the answer as sent unless it died before it
\* could, or its handler is about to.
StoriesAgree ==
  \A c \in Calls :
    /\ Cardinality(Outcomes(c)) = (IF stage[c] = "settled" THEN 1 ELSE 0)
    /\ Received("response", c) \in log[From[c]] =>
         /\ Received("request", c) \in log[To[c]]
         /\ {Rejected("response", c, w) : w \in {"reply_timeout", "peer_disconnected"}} \cap log[To[c]] = {}
         /\ Sent("response", c) \in log[To[c]] \/ part[c] = "handed"

\* No round trip stays open: the sender's log does not end at a2a_call_sent
\* while its process lives, whatever the network and the receiver do.
RoundTripsEnd ==
  \A c \in Calls :
    Sent("request", c) \in log[From[c]] ~> stage[c] = "settled" \/ gate[From[c]] = "dead"
=============================================================================
