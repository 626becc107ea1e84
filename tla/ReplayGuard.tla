---------------------------- MODULE ReplayGuard ----------------------------
(***************************************************************************)
(* Replay protection of inbound A2A envelopes (internal/a2a): replayGuard, *)
(* one per `constle run`, over replayStore, the bucket files every run of  *)
(* one identity shares.                                                    *)
(*                                                                         *)
(* A copy is one HTTP request that carries an envelope to the public       *)
(* listener of one run; copies of one envelope are replays.  A handler     *)
(* reads the clock, bounds the timestamp, and only then takes the guard's  *)
(* mutex and the store's file lock, so the clock may have moved on.  The   *)
(* check itself runs under both locks and is one step; what can end inside *)
(* it is the write of its record: it can fail, be cut short or be the last *)
(* thing the process does.                                                 *)
(*                                                                         *)
(* GuardInit, GuardNext and the like are named apart from those of         *)
(* A2AInbox, which takes the calls this module admits: one module of       *)
(* proofs is about both.                                                   *)
(***************************************************************************)
EXTENDS Integers, FiniteSets

CONSTANTS
  Procs,      \* runs of the receiving identity
  Copies,     \* requests
  Envelopes,
  Carries,    \* the envelope of a request
  At,         \* the run a request is sent to
  Stamps,     \* what the senders' clocks may stamp the envelopes with
  Window,     \* replayWindow
  Hour,       \* the length of a bucket
  MaxTime,    \* bound on the clock
  Stall       \* bound on how long a handler waits for the locks

Times == 0..MaxTime

ASSUME CopyAssumption == /\ Carries \in [Copies -> Envelopes]
                         /\ At \in [Copies -> Procs]
                         /\ Stamps \subseteq [Envelopes -> Nat]
\* A record that can still reject a replay is in this hour's bucket or the last.
ASSUME TimeAssumption == /\ Window \in Nat /\ Hour \in Nat \ {0}
                         /\ MaxTime \in Nat /\ Stall \in Nat
                         /\ 2 * Window <= Hour

VARIABLES
  stamp,      \* the timestamp of an envelope
  clock,
  up,         \* the run's process is serving
  seen,       \* the run's in-memory set: pairs of envelope and time
  pc,         \* where the handler of a request stands, or its verdict
  now,        \* the clock as the handler read it
  ids,        \* the msg_ids each bucket file can be read for
  torn,       \* the bucket's last line was cut short
  swallowed,  \* history: accepted envelopes whose record joined a torn line
  overtaken   \* history: envelopes checked by a clock an hour has turned on

guardVars == <<stamp, clock, up, seen, pc, now, ids, torn, swallowed, overtaken>>

Bucket(t) == t \div Hour
Buckets   == 0..Bucket(MaxTime)
Verdicts  == {"stale", "replay", "unavailable", "admitted", "lost"}

GuardInit ==
  /\ stamp \in Stamps
  /\ clock = 0
  /\ up = [p \in Procs |-> TRUE]
  /\ seen = [p \in Procs |-> {}]
  /\ pc = [c \in Copies |-> "idle"]
  /\ now = [c \in Copies |-> 0]
  /\ ids = [b \in Buckets |-> {}]
  /\ torn = [b \in Buckets |-> FALSE]
  /\ swallowed = {}
  /\ overtaken = {}

-----------------------------------------------------------------------------
(* replayGuard.check                                                       *)

\* Inclusive on both sides.
Fresh(e, t) == stamp[e] >= t - Window /\ stamp[e] <= t + Window

\* The clock is read and the timestamp bounded before any lock is taken.
Present(c) ==
  /\ pc[c] = "idle"
  /\ up[At[c]]
  /\ now' = [now EXCEPT ![c] = clock]
  /\ pc' = [pc EXCEPT ![c] = IF Fresh(Carries[c], clock) THEN "checking" ELSE "stale"]
  /\ UNCHANGED <<stamp, clock, up, seen, ids, torn, swallowed, overtaken>>

\* The in-memory set once the ids that have left the window are dropped.
Remembered(p, t) == {m \in seen[p] : t - m[2] <= Window}

\* Whether the durable store knows the envelope: two buckets are scanned, and
\* a line that does not parse is skipped.
MutThisHourOnly(e, t) == e \in ids[Bucket(t)]
MutAnyRecord(e, t) ==
  \E b \in {Bucket(t), Bucket(t) - 1} : b \in Buckets /\ ids[b] # {}
Recorded(e, t) ==
  \E b \in {Bucket(t), Bucket(t) - 1} : b \in Buckets /\ e \in ids[b]

\* Bucket files that no lookup needs any more.
Expired(b, t) == b < Bucket(t) - 2

\* What a complete write of e's record leaves: the record joins a line that
\* was cut short, which then reads as neither.
AppendRecord(e, b) ==
  /\ ids' = [ids EXCEPT ![b] = IF torn[b] THEN @ ELSE @ \union {e}]
  /\ torn' = [torn EXCEPT ![b] = FALSE]

\* A write that is cut short.
Tear(b) == ids' = ids /\ torn' = [torn EXCEPT ![b] = TRUE]

\* The id is in memory or in the store.
Duplicate(c) ==
  LET e == Carries[c]
      p == At[c]
  IN
  /\ pc[c] = "checking"
  /\ \/ \E t \in Times : <<e, t>> \in Remembered(p, now[c])
     \/ Recorded(e, now[c])
  /\ seen' = [seen EXCEPT ![p] = Remembered(p, now[c])]
  /\ pc' = [pc EXCEPT ![c] = "replay"]
  /\ UNCHANGED <<stamp, clock, up, now, ids, torn, swallowed, overtaken>>

IsNew(c) ==
  /\ pc[c] = "checking"
  /\ \A t \in Times : <<Carries[c], t>> \notin Remembered(At[c], now[c])

\* The record is written, old buckets are pruned, the envelope is admitted.
Admit(c) ==
  LET e == Carries[c]
      b == Bucket(now[c])
  IN
  /\ IsNew(c) /\ ~Recorded(e, now[c])
  /\ ids' = [x \in Buckets |->
       IF Expired(x, now[c]) THEN {}
       ELSE IF x = b /\ ~torn[b] THEN ids[b] \union {e} ELSE ids[x]]
  /\ torn' = [x \in Buckets |-> torn[x] /\ x # b /\ ~Expired(x, now[c])]
  /\ swallowed' = IF torn[b] THEN swallowed \union {e} ELSE swallowed
  /\ overtaken' = IF b # Bucket(clock) THEN overtaken \union {e} ELSE overtaken
  /\ seen' = [seen EXCEPT ![At[c]] = Remembered(At[c], now[c]) \union {<<e, now[c]>>}]
  /\ pc' = [pc EXCEPT ![c] = "admitted"]
  /\ UNCHANGED <<stamp, clock, up, now>>

\* The store cannot be locked, read or written: the peer gets a 503.  A write
\* may have been cut short, and a failed close may follow a complete one.
StoreFails(c) ==
  LET b == Bucket(now[c]) IN
  /\ IsNew(c)
  /\ \/ UNCHANGED <<ids, torn>>
     \/ ~Recorded(Carries[c], now[c]) /\ (Tear(b) \/ AppendRecord(Carries[c], b))
  /\ seen' = [seen EXCEPT ![At[c]] = Remembered(At[c], now[c])]
  /\ pc' = [pc EXCEPT ![c] = "unavailable"]
  /\ UNCHANGED <<stamp, clock, up, now, swallowed, overtaken>>

-----------------------------------------------------------------------------
(* Processes and time.                                                     *)

\* The process dies; one of its handlers may have been writing its record.
Crash(p) ==
  /\ up[p]
  /\ \/ UNCHANGED <<ids, torn>>
     \/ \E c \in Copies :
          /\ At[c] = p /\ IsNew(c) /\ ~Recorded(Carries[c], now[c])
          /\ Tear(Bucket(now[c])) \/ AppendRecord(Carries[c], Bucket(now[c]))
  /\ up' = [up EXCEPT ![p] = FALSE]
  /\ seen' = [seen EXCEPT ![p] = {}]
  /\ pc' = [c \in Copies |->
       IF At[c] = p /\ pc[c] = "checking" THEN "lost" ELSE pc[c]]
  /\ UNCHANGED <<stamp, clock, now, swallowed, overtaken>>

\* A later run of the same identity.
Restart(p) ==
  /\ ~up[p]
  /\ up' = [up EXCEPT ![p] = TRUE]
  /\ UNCHANGED <<stamp, clock, seen, pc, now, ids, torn, swallowed, overtaken>>

Tick ==
  /\ clock < MaxTime
  /\ \A c \in Copies : pc[c] = "checking" => clock < now[c] + Stall
  /\ clock' = clock + 1
  /\ UNCHANGED <<stamp, up, seen, pc, now, ids, torn, swallowed, overtaken>>

\* Every request is answered and the clock is at its bound.
AllAnswered ==
  /\ clock = MaxTime
  /\ \A c \in Copies : pc[c] \in Verdicts
  /\ UNCHANGED guardVars

GuardNext ==
  \/ \E c \in Copies : Present(c) \/ Duplicate(c) \/ Admit(c) \/ StoreFails(c)
  \/ \E p \in Procs : Crash(p) \/ Restart(p)
  \/ Tick
  \/ AllAnswered

GuardSpec == GuardInit /\ [][GuardNext]_guardVars

-----------------------------------------------------------------------------
(* Properties.                                                             *)

GuardTypeOK ==
  /\ stamp \in Stamps
  /\ clock \in Times
  /\ up \in [Procs -> BOOLEAN]
  /\ seen \in [Procs -> SUBSET (Envelopes \X Times)]
  /\ pc \in [Copies -> {"idle", "checking"} \union Verdicts]
  /\ now \in [Copies -> Times]
  /\ ids \in [Buckets -> SUBSET Envelopes]
  /\ torn \in [Buckets -> BOOLEAN]
  /\ swallowed \subseteq Envelopes
  /\ overtaken \subseteq Envelopes

Admitted(c) == pc[c] = "admitted"

\* No envelope is admitted twice, by one run or by two, across crashes and
\* restarts, unless its record was lost in a torn line or the hour turned
\* while a handler waited for the locks; and as long as the timestamp of an
\* admitted envelope would still pass, the store finds its record: neither the
\* choice of the two buckets nor pruning forgets one early.
AdmittedOnce ==
  \A c1, c2 \in Copies :
    Admitted(c1) /\ Carries[c1] \notin swallowed \union overtaken =>
      /\ Admitted(c2) /\ Carries[c1] = Carries[c2] => c1 = c2
      /\ Fresh(Carries[c1], clock) => Recorded(Carries[c1], clock)

\* An envelope is refused as a replay only if a run had its record written,
\* so the first request that carries an envelope is never the replay.
FirstCopyIsNoReplay ==
  \A c \in Copies :
    pc[c] = "replay" =>
      \E x \in Copies \ {c} :
        Carries[x] = Carries[c] /\ pc[x] \in {"admitted", "unavailable", "lost"}

\* What replay_store.go says of a torn line: losing it re-admits at most the
\* one envelope that was never delivered.  Hence no delivered envelope is
\* admitted again but through the turn of an hour.
TornLineLosesNoDelivered ==
  \A c1, c2 \in Copies :
    Admitted(c1) /\ Admitted(c2) /\ Carries[c1] = Carries[c2] =>
      c1 = c2 \/ Carries[c1] \in overtaken
=============================================================================
