------------------------------ MODULE A2AInbox ------------------------------
(***************************************************************************)
(* What becomes of an inbound A2A call that passed every verification      *)
(* (internal/a2a/listener.go): the per-peer quota, the inbox channel the   *)
(* agent drains, the pending map of calls that await its reply, and the    *)
(* peer's connection, held until the reply, the timeout or a hang-up.      *)
(*                                                                         *)
(* conn[c] is where servePublic stands for call c:                         *)
(*   new -> admitting (quota taken) -> holding -> answered                 *)
(*   new -> shed (503)          holding -> expiring -> expired             *)
(* serveInbox and serveReply each take the mutex once; what they do before *)
(* and after it are steps of their own.                                    *)
(***************************************************************************)
EXTENDS Integers, Sequences, FiniteSets

CONSTANTS
  Calls,     \* verified inbound calls, one msg_id each
  Peers,     \* declared peers
  From,      \* the peer a call came from
  Capacity,  \* perPeerInboxCapacity
  Polls,     \* GET /inbox requests the agent may have open at once
  Replies,   \* POST /reply requests the agent may have open at once
  NoCall

ASSUME InboxAssumption == /\ From \in [Calls -> Peers]
                          /\ Capacity \in Nat \ {0}
                          /\ NoCall \notin Calls
                          /\ IsFiniteSet(Peers)

VARIABLES
  conn,     \* servePublic, per call
  inbox,    \* the channel
  used,     \* inboxUsed: undelivered calls per peer
  pending,  \* delivered calls awaiting the agent's reply
  poll,     \* per GET /inbox: the call received and not yet pending
  known,    \* history: calls the agent has been given
  reply,    \* per POST /reply: the call claimed and not yet handed over
  resp,     \* the call's respCh holds the signed reply
  sent      \* history: replies accepted, signed and handed over, per call

vars == <<conn, inbox, used, pending, poll, known, reply, resp, sent>>

Released == {"answered", "expired", "shed"}

Init ==
  /\ conn = [c \in Calls |-> "new"]
  /\ inbox = <<>>
  /\ used = [p \in Peers |-> 0]
  /\ pending = {}
  /\ poll = [q \in Polls |-> NoCall]
  /\ known = {}
  /\ reply = [h \in Replies |-> NoCall]
  /\ resp = [c \in Calls |-> FALSE]
  /\ sent = [c \in Calls |-> 0]

-----------------------------------------------------------------------------
(* servePublic, after the last verification.                               *)

\* Room in the quota of the call's peer.
MutOneOver(p) == used[p] <= Capacity
HasRoom(p) == used[p] < Capacity

\* Under the mutex: a slot is taken, or the call is shed with a 503.
Enter(c) ==
  LET p == From[c] IN
  /\ conn[c] = "new"
  /\ \/ /\ HasRoom(p)
        /\ used' = [used EXCEPT ![p] = @ + 1]
        /\ conn' = [conn EXCEPT ![c] = "admitting"]
     \/ /\ ~HasRoom(p)
        /\ conn' = [conn EXCEPT ![c] = "shed"]
        /\ UNCHANGED used
  /\ UNCHANGED <<inbox, pending, poll, known, reply, resp, sent>>

\* The channel's capacity is the sum of all quotas.
MutOneQuota == Len(inbox) < Capacity
ChannelRoom == Len(inbox) < Capacity * Cardinality(Peers)

\* The send into the channel, which would wait for room.
Park(c) ==
  /\ conn[c] = "admitting"
  /\ ChannelRoom
  /\ inbox' = Append(inbox, c)
  /\ conn' = [conn EXCEPT ![c] = "holding"]
  /\ UNCHANGED <<used, pending, poll, known, reply, resp, sent>>

\* The select of a held connection takes the reply,
Answer(c) ==
  /\ conn[c] = "holding"
  /\ resp[c]
  /\ conn' = [conn EXCEPT ![c] = "answered"]
  /\ resp' = [resp EXCEPT ![c] = FALSE]
  /\ UNCHANGED <<inbox, used, pending, poll, known, reply, sent>>

\* or the reply timeout or the peer's hang-up, whether or not a reply is ready.
GiveUp(c) ==
  /\ conn[c] = "holding"
  /\ conn' = [conn EXCEPT ![c] = "expiring"]
  /\ UNCHANGED <<inbox, used, pending, poll, known, reply, resp, sent>>

\* expireCall: the call is no longer tracked, and the connection ends.
Expire(c) ==
  /\ conn[c] = "expiring"
  /\ pending' = pending \ {c}
  /\ conn' = [conn EXCEPT ![c] = "expired"]
  /\ UNCHANGED <<inbox, used, poll, known, reply, resp, sent>>

-----------------------------------------------------------------------------
(* serveInbox: one step to receive from the channel, one under the mutex.  *)

Receive(q) ==
  /\ poll[q] = NoCall
  /\ inbox # <<>>
  /\ poll' = [poll EXCEPT ![q] = Head(inbox)]
  /\ inbox' = Tail(inbox)
  /\ UNCHANGED <<conn, used, pending, known, reply, resp, sent>>

\* The quota after a delivery to the agent.
FreeSlot(p) == [used EXCEPT ![p] = @ - 1]

\* The call becomes pending and the agent is given its body and its msg_id.
Deliver(q) ==
  LET c == poll[q] IN
  /\ c # NoCall
  /\ pending' = pending \union {c}
  /\ used' = FreeSlot(From[c])
  /\ known' = known \union {c}
  /\ poll' = [poll EXCEPT ![q] = NoCall]
  /\ UNCHANGED <<conn, inbox, reply, resp, sent>>

-----------------------------------------------------------------------------
(* serveReply.                                                             *)

\* What a claimed call leaves in the pending map.
MutStayPending(c) == pending
Claimed(c) == pending \ {c}

\* Under the mutex.  A msg_id that is not pending gets a 404 and changes
\* nothing, so only the claim is a step.  A body that is not JSON cannot be
\* sealed: the handler ends with a 400 and the call stays consumed.
Claim(h, c) ==
  /\ reply[h] = NoCall
  /\ c \in pending
  /\ pending' = Claimed(c)
  /\ \/ reply' = [reply EXCEPT ![h] = c]
     \/ UNCHANGED reply
  /\ UNCHANGED <<conn, inbox, used, poll, known, resp, sent>>

\* respCh holds one reply: a handler need not wait for the peer's connection.
RespChFree(c) == ~resp[c]

\* The reply is signed and handed over, and recorded as sent.
HandOver(h) ==
  LET c == reply[h] IN
  /\ c # NoCall
  /\ RespChFree(c)
  /\ resp' = [resp EXCEPT ![c] = TRUE]
  /\ sent' = [sent EXCEPT ![c] = @ + 1]
  /\ reply' = [reply EXCEPT ![h] = NoCall]
  /\ UNCHANGED <<conn, inbox, used, pending, poll, known>>

Public(c) == Enter(c) \/ Park(c) \/ Answer(c) \/ GiveUp(c) \/ Expire(c)

\* Every connection is over and the agent has nothing left to fetch.
Finished ==
  /\ \A c \in Calls : conn[c] \in Released
  /\ inbox = <<>>
  /\ UNCHANGED vars

Next ==
  \/ \E c \in Calls : Public(c)
  \/ \E q \in Polls : Receive(q) \/ Deliver(q)
  \/ \E h \in Replies : HandOver(h) \/ \E c \in Calls : Claim(h, c)
  \/ Finished

Spec == Init /\ [][Next]_vars

\* Handlers keep running and the reply timer fires; the agent owes neither a
\* poll nor a reply.
FairSpec ==
  /\ Spec
  /\ \A c \in Calls : /\ WF_vars(Park(c))
                      /\ WF_vars(Answer(c) \/ GiveUp(c))
                      /\ WF_vars(Expire(c))
  /\ \A q \in Polls : WF_vars(Deliver(q))
  /\ \A h \in Replies : WF_vars(HandOver(h))

-----------------------------------------------------------------------------
(* Properties.                                                             *)

TypeOK ==
  /\ conn \in [Calls -> {"new", "admitting", "holding", "expiring"} \union Released]
  /\ inbox \in Seq(Calls)
  /\ used \in [Peers -> Nat]
  /\ pending \subseteq Calls
  /\ poll \in [Polls -> Calls \union {NoCall}]
  /\ known \subseteq Calls
  /\ reply \in [Replies -> Calls \union {NoCall}]
  /\ resp \in [Calls -> BOOLEAN]
  /\ sent \in [Calls -> Nat]

Queued     == {inbox[i] : i \in 1..Len(inbox)}
InHand     == {poll[q] : q \in Polls} \ {NoCall}
Admitting  == {c \in Calls : conn[c] = "admitting"}
Replying   == {reply[h] : h \in Replies} \ {NoCall}
Undelivered(p) == {c \in Admitting \union Queued \union InHand : From[c] = p}

\* A peer's quota counts exactly its undelivered calls, wherever the handlers
\* stand, and never exceeds the capacity: no slot leaks, none is freed twice.
QuotaExact ==
  \A p \in Peers :
    /\ used[p] = Cardinality(Undelivered(p))
    /\ used[p] <= Capacity

\* A call is in one place: queued once, in one poll's hands, pending, or in
\* the hands of one reply; so the agent is given it once, one signed reply at
\* most leaves the host for it, and a peer that is answered is answered by it.
OnePlace ==
  /\ \A i, j \in 1..Len(inbox) : inbox[i] = inbox[j] => i = j
  /\ \A q, x \in Polls : poll[q] = poll[x] /\ poll[q] # NoCall => q = x
  /\ \A h, x \in Replies : reply[h] = reply[x] /\ reply[h] # NoCall => h = x
  /\ Queued \intersect (InHand \union known) = {}
  /\ InHand \intersect known = {}
  /\ pending \intersect Replying = {}
  /\ \A c \in Calls :
       /\ sent[c] <= 1
       /\ conn[c] = "answered" \/ resp[c] => sent[c] = 1

\* No connection outlives its timer, even if the agent never polls and every
\* queue is full (servePublic),
ConnectionsEnd ==
  \A c \in Calls : conn[c] \in {"admitting", "holding", "expiring"} ~> conn[c] \in Released

\* and no reply handler is stuck on a channel nobody reads, also when the peer
\* is gone (serveReply);
RepliesEnd == \A h \in Replies : reply[h] # NoCall ~> reply[h] = NoCall

\* and an agent that keeps polling frees every slot, also of calls whose peers
\* have given up (serveInbox).
AgentPolls == \A q \in Polls : WF_vars(Receive(q))
SlotsAreFreed == AgentPolls => \A p \in Peers : used[p] = Capacity ~> used[p] < Capacity

\* Nobody is kept: no peer by an agent that owes it nothing, no reply handler by
\* a peer that has gone, no slot by a call nobody waits for.
EveryoneEnds == ConnectionsEnd /\ RepliesEnd /\ SlotsAreFreed
=============================================================================
