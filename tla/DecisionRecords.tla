-------------------------- MODULE DecisionRecords --------------------------
(***************************************************************************)
(* Signed gate decisions: what the gate accepts from the decision endpoint *)
(* (internal/humangate/humangate.go and mcpgate/webhook_approver.go),      *)
(* what it records of it (evidence.go, gate.go), and what an offline       *)
(* verification makes of the record (verifylog.go).                        *)
(*                                                                         *)
(* A statement is [id, decision, digest]: what the approver's key signs.   *)
(* A signature is [by, over], the key and the statement it was made with,  *)
(* so that it verifies for exactly these.  A response is                   *)
(* [id, decision, digest, sig, long]: long, if a field of it is longer     *)
(* than a record keeps.  The name and the digest of a call are sequences   *)
(* of one element, the absent ones the empty sequence.                     *)
(***************************************************************************)
EXTENDS Naturals, Sequences

\* SubjectDigest tells any two calls apart: tool and arguments are hashed whole.
SubjectDigest(call) == <<call>>
ToolName(call)      == <<call.tool>>

NoSignature == [by |-> "nobody", over |-> [id |-> "", decision |-> "", digest |-> <<>>]]
NoResponse  == [id |-> "", decision |-> "", digest |-> <<>>, sig |-> NoSignature, long |-> FALSE]
NoEvidence  == [asked |-> FALSE, id |-> "", tool |-> <<>>, digest |-> <<>>, pub |-> "",
                response |-> NoResponse]

Statement(r) == [id |-> r.id, decision |-> r.decision, digest |-> r.digest]

\* VerifyDecision: the signature over the response's own fields first, then that it
\* answers this request, then that it is about this call, then what it says.
VerifyDecision(pub, id, digest, r) ==
  IF r.sig # [by |-> pub, over |-> Statement(r)] THEN "signature_invalid"
  ELSE IF r.id # id               THEN "request_id_mismatch"
  ELSE IF r.digest # digest       THEN "digest_mismatch"
  ELSE IF r.decision # "approved" THEN "not_approved"
  ELSE "approved"

-----------------------------------------------------------------------------
(* The entry a gate leaves in the audit log                                *)

Request(id, call, pub) ==
  [asked |-> TRUE, id |-> id, tool |-> ToolName(call), digest |-> SubjectDigest(call), pub |-> pub,
   response |-> NoResponse]

\* The terminal event of a gate the webhook decided, for what the verification found.
EventFor(reason) ==
  CASE reason = "approved"     -> "gate_approved"
    [] reason = "not_approved" -> "gate_denied"
    [] reason = "signature_invalid"   -> "gate_signature_invalid"
    [] reason = "request_id_mismatch" -> "gate_request_id_mismatch"
    [] reason = "digest_mismatch"     -> "gate_digest_mismatch"

\* NewResponseRecord: a record keeps a bounded prefix of each field, and says so.
Recorded(r) == IF r.long THEN [r EXCEPT !.sig = NoSignature] ELSE r

Entry(event, by, call, evidence) ==
  [event |-> event, decidedBy |-> by, tool |-> ToolName(call), digest |-> SubjectDigest(call),
   evidence |-> evidence]

TerminalEntry(call, approved) ==
  Entry(IF approved THEN "gate_approved" ELSE "gate_denied", "terminal", call, NoEvidence)

TimeoutEntry(call, id, pub) == Entry("gate_timeout", "", call, Request(id, call, pub))

WebhookEntry(call, id, pub, r) ==
  Entry(EventFor(VerifyDecision(pub, id, SubjectDigest(call), r)), "webhook", call,
        [Request(id, call, pub) EXCEPT !.response = Recorded(r)])

-----------------------------------------------------------------------------
(* Offline verification of one entry                                       *)

\* The entry's own field and the recorded request's: both there, and equal.
Agree(fromEntry, fromRecord) == fromEntry # <<>> /\ fromEntry = fromRecord

TerminalReason(event) ==
  CASE event = "gate_approved"            -> "approved"
    [] event = "gate_denied"              -> "not_approved"
    [] event = "gate_signature_invalid"   -> "signature_invalid"
    [] event = "gate_request_id_mismatch" -> "request_id_mismatch"
    [] event = "gate_digest_mismatch"     -> "digest_mismatch"
    [] OTHER                              -> "none"

\* An approval exempt from evidence says it was decided at the terminal.
ClaimsUnprovenApproval(e) == e.event = "gate_approved" /\ e.decidedBy # "terminal"

MutTrustRecorded(e, pinned) ==
  LET pub == IF e.evidence.pub # "" THEN e.evidence.pub ELSE pinned
  IN /\ Agree(e.digest, e.evidence.digest) /\ Agree(e.tool, e.evidence.tool)
     /\ pub # "" /\ ~e.evidence.response.long /\ TerminalReason(e.event) # "none"
     /\ VerifyDecision(pub, e.evidence.id, e.evidence.digest, e.evidence.response)
          = TerminalReason(e.event)

\* A recorded decision supports what the entry claims: about the same call, by the
\* pinned approver if there is one, whole, and verifying as the event says.
Supports(e, pinned) ==
  LET pub == IF pinned # "" THEN pinned ELSE e.evidence.pub
  IN /\ Agree(e.digest, e.evidence.digest) /\ Agree(e.tool, e.evidence.tool)
     /\ e.evidence.pub \in {"", pub}
     /\ pub # "" /\ ~e.evidence.response.long /\ TerminalReason(e.event) # "none"
     /\ VerifyDecision(pub, e.evidence.id, e.evidence.digest, e.evidence.response)
          = TerminalReason(e.event)

\* VerifyDecisions on one entry: "failed", "verified", "unanswered", or "silent"
\* where the entry holds no decision and claims none.
Verified(e, pinned) ==
  IF ~e.evidence.asked
  THEN IF ClaimsUnprovenApproval(e) THEN "failed" ELSE "silent"
  ELSE IF e.evidence.response = NoResponse
  THEN IF e.event = "gate_approved" THEN "failed"
       ELSE IF e.event = "gate_timeout" THEN "unanswered" ELSE "silent"
  ELSE IF Supports(e, pinned) THEN "verified" ELSE "failed"
=============================================================================
