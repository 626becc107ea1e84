-------------------------- MODULE A2AInboundProofs --------------------------
(***************************************************************************)
(* Proofs about what a run does with the envelopes it receives.            *)
(*                                                                         *)
(* ReplayGuard: for every number of runs, requests and envelopes, every    *)
(* window and bucket length the assumption allows, every wait for the      *)
(* locks and every pattern of failed writes and crashes.                   *)
(*                                                                         *)
(* A2AInbox, which takes in the calls that were admitted: for every set of *)
(* calls, polls and replies, every finite set of peers and every capacity. *)
(* Quotas are exact, and a call is in one place.                           *)
(***************************************************************************)
EXTENDS ReplayGuard, A2AInbox, FiniteSetTheorems, TLAPS

USE CopyAssumption, TimeAssumption

-----------------------------------------------------------------------------
(* Time and buckets.                                                       *)

\* A bucket holds the times from its first to just before the next one's.
LEMMA BucketBounds ==
  ASSUME NEW t \in Nat
  PROVE  /\ Bucket(t) \in Nat
         /\ Bucket(t) * Hour <= t
         /\ t < Bucket(t) * Hour + Hour
  BY DEF Bucket

\* Buckets follow the clock, and times an hour apart at most are in the same
\* bucket or in neighbouring ones.
LEMMA BucketNear ==
  ASSUME NEW t \in Nat, NEW u \in Nat, t <= u
  PROVE  /\ Bucket(t) <= Bucket(u)
         /\ u - t <= Hour => Bucket(u) <= Bucket(t) + 1
  BY BucketBounds

\* Every time of the clock has a bucket file.
LEMMA BucketOfTime ==
  ASSUME NEW t \in Times
  PROVE  Bucket(t) \in Buckets
<1>1. t \in Nat /\ MaxTime \in Nat /\ t <= MaxTime
  BY DEF Times
<1>2. Bucket(t) <= Bucket(MaxTime)
  BY <1>1, BucketNear
<1> QED
  BY <1>1, <1>2, BucketBounds DEF Buckets

\* An envelope fresh at two times was fresh within an hour: if a bucket is no
\* more than two short of the later one, it is that one or the one before.
LEMMA FreshNear ==
  ASSUME stamp \in [Envelopes -> Nat], NEW e \in Envelopes, NEW t \in Times, NEW u \in Times,
         t <= u, Fresh(e, t), Fresh(e, u)
  PROVE  Bucket(t) = Bucket(u) \/ Bucket(t) = Bucket(u) - 1
<1>1. t \in Nat /\ u \in Nat /\ stamp[e] \in Nat
  BY DEF Times
<1>2. u - t <= 2 * Window
  BY <1>1 DEF Fresh
<1>3. u - t <= Hour
  BY <1>1, <1>2
<1>4. Bucket(t) <= Bucket(u) /\ Bucket(u) <= Bucket(t) + 1
  BY <1>1, <1>3, BucketNear
<1>5. Bucket(t) \in Nat /\ Bucket(u) \in Nat
  BY <1>1, BucketBounds
<1> QED
  BY <1>4, <1>5

-----------------------------------------------------------------------------
(* The inductive invariant.                                                *)

\* A handler's clock is not ahead, and what it checks or admitted was fresh.
Timely ==
  \A c \in Copies :
    /\ now[c] <= clock
    /\ pc[c] \in {"checking", "admitted"} => Fresh(Carries[c], now[c])

\* An admission by a clock no hour has turned on, into a whole line.
Sound(c) == Admitted(c) /\ Carries[c] \notin swallowed \union overtaken

\* Such an admission left a record in its bucket, until no lookup needs it; and
\* it is the only one of its envelope.
Kept ==
  \A c \in Copies : Sound(c) =>
    /\ Carries[c] \in ids[Bucket(now[c])] \/ Bucket(now[c]) + 2 < Bucket(clock)
    /\ \A x \in Copies : Admitted(x) /\ Carries[x] = Carries[c] => x = c

\* A request whose handler has written its record, or may have.
Presented(e) ==
  \E x \in Copies : Carries[x] = e /\ pc[x] \in {"admitted", "unavailable", "lost"}

\* Every id in a file or in memory is of an envelope that was presented, and so
\* is every one a replay was refused for.
Known ==
  /\ \A b \in Buckets : \A e \in ids[b] : Presented(e)
  /\ \A p \in Procs : \A m \in seen[p] : Presented(m[1])
  /\ FirstCopyIsNoReplay

GuardInv == GuardTypeOK /\ Timely /\ Kept /\ Known

\* An envelope that was admitted soundly and is still fresh is found.
LEMMA StillRecorded ==
  ASSUME GuardTypeOK, Timely, Kept, NEW c \in Copies, Sound(c), NEW t \in Times,
         now[c] <= t, Bucket(t) = Bucket(clock), Fresh(Carries[c], t)
  PROVE  Recorded(Carries[c], t)
<1> DEFINE e == Carries[c]
           b == Bucket(now[c])
<1>1. e \in Envelopes /\ now[c] \in Times /\ stamp \in [Envelopes -> Nat]
  BY DEF GuardTypeOK
<1>2. Fresh(e, now[c])
  BY DEF Timely, Sound, Admitted
<1>3. b = Bucket(t) \/ b = Bucket(t) - 1
  BY <1>1, <1>2, FreshNear
<1>4. b \in Buckets /\ Bucket(t) \in Nat /\ b \in Nat
  BY <1>1, BucketOfTime, BucketBounds DEF Times
<1>5. ~(b + 2 < Bucket(clock))
  BY <1>3, <1>4
<1>6. e \in ids[b]
  BY <1>5 DEF Kept
<1> QED
  BY <1>3, <1>4, <1>6 DEF Recorded

\* The invariant implies what the runs check.
LEMMA KeptAdmitsOnce ==
  ASSUME GuardInv
  PROVE  AdmittedOnce
<1> SUFFICES ASSUME NEW c \in Copies, Sound(c)
             PROVE  /\ \A x \in Copies : Admitted(x) /\ Carries[c] = Carries[x] => c = x
                    /\ Fresh(Carries[c], clock) => Recorded(Carries[c], clock)
  BY DEF AdmittedOnce, Sound
<1>1. \A x \in Copies : Admitted(x) /\ Carries[c] = Carries[x] => c = x
  BY DEF GuardInv, Kept
<1>2. clock \in Times /\ now[c] <= clock
  BY DEF GuardInv, GuardTypeOK, Timely
<1>3. Fresh(Carries[c], clock) => Recorded(Carries[c], clock)
  BY <1>2, StillRecorded DEF GuardInv
<1> QED
  BY <1>1, <1>3

-----------------------------------------------------------------------------
(* The types.                                                              *)

\* What is remembered is well typed.
LEMMA RememberedType ==
  ASSUME GuardTypeOK, NEW p \in Procs, NEW t \in Times
  PROVE  Remembered(p, t) \subseteq Envelopes \X Times
  BY DEF GuardTypeOK, Remembered

\* What a write of c's record can do to the files, also when it fails.
Writes(c) ==
  UNCHANGED <<ids, torn>> \/ Tear(Bucket(now[c])) \/ AppendRecord(Carries[c], Bucket(now[c]))

\* It adds that record at most.
LEMMA WriteEffect ==
  ASSUME GuardTypeOK, NEW c \in Copies, Writes(c)
  PROVE  /\ ids' \in [Buckets -> SUBSET Envelopes] /\ torn' \in [Buckets -> BOOLEAN]
         /\ \A b \in Buckets : ids[b] \subseteq ids'[b] /\ ids'[b] \subseteq ids[b] \union {Carries[c]}
<1> DEFINE d == Bucket(now[c])
<1>1. d \in Buckets /\ Carries[c] \in Envelopes
  BY BucketOfTime DEF GuardTypeOK
<1>2. ids \in [Buckets -> SUBSET Envelopes] /\ torn \in [Buckets -> BOOLEAN]
  BY DEF GuardTypeOK
<1> HIDE DEF d
<1>3. CASE UNCHANGED <<ids, torn>>
  BY <1>2, <1>3
<1>4. CASE Tear(d)
  BY <1>1, <1>2, <1>4 DEF Tear
<1>5. CASE AppendRecord(Carries[c], d)
  <2>1. torn' \in [Buckets -> BOOLEAN]
    BY <1>1, <1>2, <1>5 DEF AppendRecord
  <2>2. CASE torn[d]
    BY <1>1, <1>2, <1>5, <2>1, <2>2 DEF AppendRecord
  <2>3. CASE ~torn[d]
    <3>1. ids' = [ids EXCEPT ![d] = @ \union {Carries[c]}]
      BY <1>5, <2>3 DEF AppendRecord
    <3> QED
      BY <1>1, <1>2, <2>1, <3>1
  <2> QED
    BY <2>2, <2>3
<1> QED
  BY <1>3, <1>4, <1>5 DEF Writes, d

\* Every step keeps the types.
LEMMA GuardNextType ==
  ASSUME GuardTypeOK, [GuardNext]_guardVars
  PROVE  GuardTypeOK'
<1> USE DEF GuardTypeOK
<1>1. ASSUME NEW c \in Copies, Present(c)
      PROVE  GuardTypeOK'
  <2>1. pc' \in [Copies -> {"idle", "checking"} \union Verdicts]
    BY <1>1 DEF Present, Verdicts
  <2> QED
    BY <1>1, <2>1 DEF Present
<1>2. ASSUME NEW c \in Copies, Duplicate(c)
      PROVE  GuardTypeOK'
  <2>1. Remembered(At[c], now[c]) \subseteq Envelopes \X Times
    BY RememberedType
  <2> QED
    BY <1>2, <2>1 DEF Duplicate, Verdicts
<1>3. ASSUME NEW c \in Copies, Admit(c)
      PROVE  GuardTypeOK'
  <2>1. Remembered(At[c], now[c]) \union {<<Carries[c], now[c]>>} \subseteq Envelopes \X Times
    BY RememberedType
  <2>2. seen' \in [Procs -> SUBSET (Envelopes \X Times)]
    BY <1>3, <2>1 DEF Admit
  <2>3. Bucket(now[c]) \in Buckets
    BY BucketOfTime
  <2>4. ids' \in [Buckets -> SUBSET Envelopes]
    BY <1>3, <2>3 DEF Admit
  <2>5. torn' \in [Buckets -> BOOLEAN]
    BY <1>3 DEF Admit
  <2> QED
    BY <1>3, <2>2, <2>4, <2>5 DEF Admit, Verdicts
<1>4. ASSUME NEW c \in Copies, StoreFails(c)
      PROVE  GuardTypeOK'
  <2>1. Remembered(At[c], now[c]) \subseteq Envelopes \X Times
    BY RememberedType
  <2>2. ids' \in [Buckets -> SUBSET Envelopes] /\ torn' \in [Buckets -> BOOLEAN]
    BY <1>4, WriteEffect DEF StoreFails, Writes
  <2> QED
    BY <1>4, <2>1, <2>2 DEF StoreFails, Verdicts
<1>5. ASSUME NEW p \in Procs, Crash(p)
      PROVE  GuardTypeOK'
  <2>1. ids' \in [Buckets -> SUBSET Envelopes] /\ torn' \in [Buckets -> BOOLEAN]
    <3>1. UNCHANGED <<ids, torn>> \/ \E c \in Copies : Writes(c)
      BY <1>5 DEF Crash, Writes
    <3> QED
      BY <3>1, WriteEffect
  <2>2. pc' \in [Copies -> {"idle", "checking"} \union Verdicts]
    BY <1>5 DEF Crash, Verdicts
  <2> QED
    BY <1>5, <2>1, <2>2 DEF Crash
<1>6. ASSUME NEW p \in Procs, Restart(p)
      PROVE  GuardTypeOK'
  BY <1>6 DEF Restart
<1>7. CASE Tick
  BY <1>7 DEF Tick, Times
<1>8. CASE UNCHANGED guardVars
  BY <1>8 DEF guardVars
<1> QED
  BY <1>1, <1>2, <1>3, <1>4, <1>5, <1>6, <1>7, <1>8 DEF GuardNext, AllAnswered

-----------------------------------------------------------------------------
(* Steps that admit nothing.                                               *)

\* Files only gain ids but for pruning, requests that were presented stay so,
\* no request is admitted, and neither clock goes back.
Gentle ==
  /\ UNCHANGED <<stamp, swallowed, overtaken>>
  /\ clock <= clock'
  /\ \A b \in Buckets : ids[b] \subseteq ids'[b]
  /\ \A c \in Copies : /\ Admitted(c)' = Admitted(c)
                       /\ Admitted(c) => now'[c] = now[c]

\* Such a step keeps every sound admission.
LEMMA GentleKeeps ==
  ASSUME GuardTypeOK, GuardTypeOK', Kept, Gentle
  PROVE  Kept'
<1> SUFFICES ASSUME NEW c \in Copies, Sound(c)'
             PROVE  /\ \/ Carries[c] \in ids'[Bucket(now[c])]
                       \/ Bucket(now[c]) + 2 < Bucket(clock')
                    /\ \A x \in Copies : Admitted(x) /\ Carries[x] = Carries[c] => x = c
  BY DEF Kept, Gentle, Sound, Bucket
<1>1. Sound(c)
  BY DEF Sound, Gentle
<1>2. now[c] \in Times /\ clock \in Times /\ clock' \in Times
  BY DEF GuardTypeOK
<1>3. Bucket(now[c]) \in Buckets /\ Bucket(clock) <= Bucket(clock')
  BY <1>2, BucketOfTime, BucketNear DEF Gentle, Times
<1>4. Bucket(now[c]) \in Nat /\ Bucket(clock) \in Nat /\ Bucket(clock') \in Nat
  BY <1>2, BucketBounds DEF Times
<1> QED
  BY <1>1, <1>3, <1>4 DEF Kept, Gentle

\* Handlers' clocks stay behind, and what they admit they have bounded.
LEMMA TimelyKept ==
  ASSUME GuardTypeOK, Timely, [GuardNext]_guardVars
  PROVE  Timely'
<1> USE DEF GuardTypeOK, Timely, Admitted
<1>0. UNCHANGED stamp
  BY DEF GuardNext, Present, Duplicate, Admit, StoreFails, Crash, Restart, Tick, AllAnswered, guardVars
<1>1. ASSUME NEW c \in Copies, Present(c)
      PROVE  Timely'
  <2>1. now'[c] = clock /\ clock' = clock
    BY <1>1 DEF Present
  <2>2. pc'[c] = "checking" => Fresh(Carries[c], clock)
    BY <1>1 DEF Present
  <2>3. pc'[c] # "admitted"
    BY <1>1 DEF Present
  <2>4. \A x \in Copies \ {c} : now'[x] = now[x] /\ pc'[x] = pc[x]
    BY <1>1 DEF Present
  <2>5. \A x \in Copies : now'[x] <= clock'
    BY <2>1, <2>4 DEF Times
  <2>6. \A x \in Copies, t \in Times : Fresh(Carries[x], t)' <=> Fresh(Carries[x], t)
    BY <1>0 DEF Fresh
  <2>7. \A x \in Copies : pc'[x] \in {"checking", "admitted"} => Fresh(Carries[x], now'[x])
    BY <2>1, <2>2, <2>3, <2>4
  <2> QED
    BY <1>0, <2>5, <2>7 DEF Fresh
<1>2. ASSUME UNCHANGED now, clock <= clock',
             \A x \in Copies : pc'[x] \in {"checking", "admitted"} => pc[x] \in {"checking", "admitted"}
      PROVE  Timely'
  <2>1. \A x \in Copies : now'[x] <= clock'
    <3>1. clock \in Nat /\ clock' \in Nat
      <4>1. GuardTypeOK'
        BY GuardNextType
      <4> QED
        BY <4>1 DEF Times
    <3> QED
      BY <1>2, <3>1 DEF Times
  <2> QED
    BY <1>0, <1>2, <2>1 DEF Fresh
<1>3. ASSUME NEW c \in Copies, Duplicate(c) \/ Admit(c) \/ StoreFails(c)
      PROVE  Timely'
  <2>1. UNCHANGED <<now, clock>> /\ pc[c] = "checking"
    BY <1>3 DEF Duplicate, Admit, StoreFails, IsNew
  <2>2. \A x \in Copies \ {c} : pc'[x] = pc[x]
    BY <1>3 DEF Duplicate, Admit, StoreFails
  <2> QED
    BY <1>2, <2>1, <2>2 DEF Times
<1>4. ASSUME NEW p \in Procs, Crash(p) \/ Restart(p)
      PROVE  Timely'
  <2>1. UNCHANGED <<now, clock>> /\ \A x \in Copies : pc'[x] = pc[x] \/ pc'[x] = "lost"
    BY <1>4 DEF Crash, Restart
  <2> QED
    BY <1>2, <2>1 DEF Times
<1>5. CASE Tick \/ UNCHANGED guardVars
  BY <1>2, <1>5 DEF Tick, guardVars, Times
<1> QED
  BY <1>1, <1>3, <1>4, <1>5 DEF GuardNext, AllAnswered

\* An admission finds no sound one of its envelope, and leaves its record
\* where every later lookup will find it.
LEMMA AdmitKeeps ==
  ASSUME GuardTypeOK, GuardTypeOK', Timely, Timely', Kept, NEW a \in Copies, Admit(a)
  PROVE  Kept'
<1> DEFINE e == Carries[a]
           b == Bucket(now[a])
<1>1. /\ ~Recorded(e, now[a]) /\ pc[a] = "checking"
      /\ ids' = [x \in Buckets |->
           IF Expired(x, now[a]) THEN {}
           ELSE IF x = b /\ ~torn[b] THEN ids[b] \union {e} ELSE ids[x]]
      /\ swallowed' = IF torn[b] THEN swallowed \union {e} ELSE swallowed
      /\ overtaken' = IF b # Bucket(clock) THEN overtaken \union {e} ELSE overtaken
      /\ UNCHANGED <<stamp, clock, now>>
      /\ pc' = [pc EXCEPT ![a] = "admitted"]
  BY DEF Admit, IsNew
<1>2. /\ now[a] \in Times /\ clock \in Times /\ b \in Buckets /\ b \in Nat
      /\ now[a] <= clock /\ Fresh(e, now[a])
  BY <1>1, BucketOfTime DEF GuardTypeOK, Timely, Buckets
<1>3. /\ \A x \in Copies \ {a} : Admitted(x)' = Admitted(x)
      /\ Admitted(a)' /\ ~Admitted(a)
  BY <1>1 DEF Admitted, GuardTypeOK
<1>4. b <= Bucket(clock) /\ Bucket(clock) \in Nat
  BY <1>2, BucketNear, BucketBounds DEF Times
<1>5. ASSUME NEW c \in Copies, Sound(c), Bucket(now[a]) = Bucket(clock)
      PROVE  Carries[c] # e
  <2> SUFFICES ASSUME Carries[c] = e
               PROVE  FALSE
    OBVIOUS
  <2>1. now[c] \in Times /\ now[c] <= clock
    BY DEF GuardTypeOK, Timely
  <2>2. CASE now[c] <= now[a]
    BY <1>1, <1>2, <1>5, <2>2, StillRecorded
  <2>3. CASE ~(now[c] <= now[a])
    <3>1. Bucket(now[a]) <= Bucket(now[c]) /\ Bucket(now[c]) <= Bucket(clock)
      BY <1>2, <2>1, <2>3, BucketNear DEF Times
    <3>2. Bucket(now[c]) = b
      BY <1>2, <1>4, <1>5, <2>1, <3>1, BucketBounds DEF Times
    <3>3. e \in ids[b]
      BY <1>4, <1>5, <3>2 DEF Kept
    <3> QED
      BY <1>1, <1>2, <3>3 DEF Recorded
  <2> QED
    BY <2>2, <2>3
<1>6. ASSUME NEW c \in Copies, Sound(c)'
      PROVE  /\ \/ Carries[c] \in ids'[Bucket(now[c])]
                \/ Bucket(now[c]) + 2 < Bucket(clock)
             /\ \A x \in Copies : Admitted(x)' /\ Carries[x] = Carries[c] => x = c
  <2>1. CASE c = a
    <3>1. ~torn[b] /\ b = Bucket(clock)
      BY <1>1, <1>6, <2>1 DEF Sound
    <3>2. ~Expired(b, now[a])
      BY <1>2 DEF Expired
    <3>3. e \in ids'[b]
      BY <1>1, <1>2, <3>1, <3>2
    <3>4. ASSUME NEW x \in Copies, x # a, Admitted(x)', Carries[x] = e
          PROVE  FALSE
      <4>1. Admitted(x)
        BY <1>3, <3>4
      <4>2. e \notin swallowed \union overtaken
        BY <1>1, <1>6, <2>1, <3>1 DEF Sound
      <4>3. Sound(x)
        BY <3>4, <4>1, <4>2 DEF Sound
      <4> QED
        BY <1>5, <3>1, <3>4, <4>3
    <3> QED
      BY <2>1, <3>3, <3>4
  <2>2. CASE c # a
    <3>1. Sound(c)
      BY <1>1, <1>3, <1>6, <2>2 DEF Sound
    <3>2. CASE Carries[c] = e
      <4>1. b = Bucket(clock)
        BY <1>1, <1>6, <3>2 DEF Sound
      <4> QED
        BY <1>5, <3>1, <3>2, <4>1
    <3>3. CASE Carries[c] # e
      <4> DEFINE d == Bucket(now[c])
      <4>1. d \in Buckets /\ d \in Nat
        BY BucketOfTime DEF GuardTypeOK, Buckets
      <4>2. Carries[c] \in ids[d] \/ d + 2 < Bucket(clock)
        BY <3>1 DEF Kept
      <4>3. \A x \in Copies : Admitted(x)' /\ Carries[x] = Carries[c] => x = c
        BY <1>3, <3>1, <3>3 DEF Kept
      <4>4. CASE Expired(d, now[a])
        <5>1. d + 2 < Bucket(clock)
          BY <1>2, <1>4, <4>1, <4>4 DEF Expired
        <5> QED
          BY <4>3, <5>1
      <4>5. CASE ~Expired(d, now[a])
        <5>1. ids[d] \subseteq ids'[d]
          BY <1>1, <4>1, <4>5
        <5> QED
          BY <4>2, <4>3, <5>1
      <4> QED
        BY <4>3, <4>4, <4>5
    <3> QED
      BY <3>2, <3>3
  <2> QED
    BY <2>1, <2>2
<1>7. \A c \in Copies : Bucket(now[c])' = Bucket(now[c])
  BY <1>1 DEF Bucket
<1>8. Bucket(clock)' = Bucket(clock)
  BY <1>1 DEF Bucket
<1> QED
  BY <1>6, <1>7, <1>8 DEF Kept

\* Every step keeps the sound admissions.
LEMMA KeptKept ==
  ASSUME GuardTypeOK, GuardTypeOK', Timely, Timely', Kept, [GuardNext]_guardVars
  PROVE  Kept'
<1> USE DEF Gentle, Admitted
<1>1. ASSUME NEW c \in Copies, Present(c)
      PROVE  Gentle
  BY <1>1 DEF Present, GuardTypeOK, Times
<1>2. ASSUME NEW c \in Copies, Duplicate(c)
      PROVE  Gentle
  BY <1>2 DEF Duplicate, GuardTypeOK, Times
<1>3. ASSUME NEW c \in Copies, StoreFails(c)
      PROVE  Gentle
  <2>1. Writes(c)
    BY <1>3 DEF StoreFails, Writes
  <2> QED
    BY <1>3, <2>1, WriteEffect DEF StoreFails, IsNew, GuardTypeOK, Times
<1>4. ASSUME NEW p \in Procs, Crash(p)
      PROVE  Gentle
  <2>1. UNCHANGED <<ids, torn>> \/ \E c \in Copies : Writes(c)
    BY <1>4 DEF Crash, Writes
  <2>2. \A b \in Buckets : ids[b] \subseteq ids'[b]
    BY <2>1, WriteEffect
  <2> QED
    BY <1>4, <2>2 DEF Crash, GuardTypeOK, Times
<1>5. ASSUME NEW p \in Procs, Restart(p)
      PROVE  Gentle
  BY <1>5 DEF Restart, GuardTypeOK, Times
<1>6. CASE Tick \/ UNCHANGED guardVars
  <2>1. Gentle
    BY <1>6 DEF Tick, guardVars, GuardTypeOK, Times
  <2> QED
    BY <2>1, GentleKeeps
<1> QED
  BY <1>1, <1>2, <1>3, <1>4, <1>5, <1>6, GentleKeeps, AdmitKeeps DEF GuardNext, AllAnswered

-----------------------------------------------------------------------------
(* Ids are of envelopes that were presented.                               *)

\* A verdict stands, so what was presented stays so.
LEMMA PresentedStands ==
  ASSUME GuardTypeOK, [GuardNext]_guardVars, NEW e, Presented(e)
  PROVE  Presented(e)'
<1>1. \A x \in Copies : pc[x] \in {"admitted", "unavailable", "lost"} => pc'[x] = pc[x]
  BY DEF GuardTypeOK, GuardNext, Present, Duplicate, Admit, IsNew, StoreFails, Crash, Restart, Tick, AllAnswered,
         guardVars
<1> QED
  BY <1>1 DEF Presented

\* Every step keeps the ids known, and refuses only replays of what is known.
LEMMA KnownKept ==
  ASSUME GuardTypeOK, Known, [GuardNext]_guardVars
  PROVE  Known'
<1> DEFINE NewIds(e) == /\ \A b \in Buckets : ids'[b] \subseteq ids[b] \union {e}
                        /\ \A p \in Procs : \A m \in seen'[p] : m \in seen[p] \/ m[1] = e
           Verdict(c) == pc[c] = "replay" =>
                           \E x \in Copies \ {c} :
                             Carries[x] = Carries[c] /\ pc[x] \in {"admitted", "unavailable", "lost"}
<1>0. ids \in [Buckets -> SUBSET Envelopes] /\ At \in [Copies -> Procs]
  BY DEF GuardTypeOK
<1>1. ASSUME NEW e, NewIds(e),
             \/ /\ \A b \in Buckets : ids'[b] \subseteq ids[b]
                /\ \A p \in Procs : seen'[p] \subseteq seen[p]
             \/ Presented(e)'
      PROVE  /\ \A b \in Buckets : \A i \in ids'[b] : Presented(i)'
             /\ \A p \in Procs : \A m \in seen'[p] : Presented(m[1])'
  BY <1>1, PresentedStands DEF Known
<1>2. ASSUME NEW c \in Copies, Verdict(c), pc'[c] = "replay" => pc[c] = "replay"
      PROVE  Verdict(c)'
  <2>1. \A x \in Copies : pc[x] \in {"admitted", "unavailable", "lost"} => pc'[x] = pc[x]
    BY DEF GuardTypeOK, GuardNext, Present, Duplicate, Admit, IsNew, StoreFails, Crash, Restart, Tick, AllAnswered,
           guardVars
  <2> QED
    BY <1>2, <2>1
<1>3. \A c \in Copies : Verdict(c)
  BY DEF Known, FirstCopyIsNoReplay
<1>4. ASSUME \A c \in Copies : Verdict(c)'
      PROVE  FirstCopyIsNoReplay'
  BY <1>4 DEF FirstCopyIsNoReplay
<1>5. ASSUME NEW c \in Copies, Present(c)
      PROVE  Known'
  <2>1. UNCHANGED <<ids, seen>> /\ \A x \in Copies : pc'[x] = "replay" => pc[x] = "replay"
    BY <1>5 DEF Present, GuardTypeOK
  <2>2. NewIds(Carries[c])
    BY <2>1
  <2> QED
    BY <1>1, <1>2, <1>3, <1>4, <2>1, <2>2 DEF Known
<1>6. ASSUME NEW c \in Copies, Duplicate(c)
      PROVE  Known'
  <2>1. /\ UNCHANGED ids /\ \A p \in Procs : seen'[p] \subseteq seen[p]
        /\ \A x \in Copies \ {c} : pc'[x] = pc[x]
    BY <1>6 DEF Duplicate, Remembered, GuardTypeOK
  <2>2. NewIds(Carries[c])
    BY <2>1
  <2>3. Presented(Carries[c])
    <3>1. CASE \E t \in Times : <<Carries[c], t>> \in Remembered(At[c], now[c])
      BY <1>0, <3>1 DEF Remembered, Known
    <3>2. CASE Recorded(Carries[c], now[c])
      BY <3>2 DEF Recorded, Known
    <3> QED
      BY <1>6, <3>1, <3>2 DEF Duplicate
  <2>4. pc[c] = "checking"
    BY <1>6 DEF Duplicate
  <2>5. Verdict(c)'
    BY <2>1, <2>3, <2>4 DEF Presented
  <2>6. \A x \in Copies : Verdict(x)'
    BY <1>2, <1>3, <2>1, <2>5
  <2>7. FirstCopyIsNoReplay'
    BY <1>4, <2>6
  <2> QED
    BY <1>1, <2>1, <2>2, <2>7 DEF Known
<1>7. ASSUME NEW c \in Copies, Admit(c) \/ StoreFails(c)
      PROVE  Known'
  <2>1. NewIds(Carries[c])
    <3>1. CASE Admit(c)
      <4>1. \A b \in Buckets : ids'[b] \subseteq ids[b] \union {Carries[c]}
        BY <3>1 DEF Admit
      <4>2. seen' = [seen EXCEPT ![At[c]] = Remembered(At[c], now[c]) \union {<<Carries[c], now[c]>>}]
        BY <3>1 DEF Admit
      <4> QED
        BY <4>1, <4>2 DEF Remembered, GuardTypeOK
    <3>2. CASE StoreFails(c)
      <4>1. Writes(c) /\ seen' = [seen EXCEPT ![At[c]] = Remembered(At[c], now[c])]
        BY <3>2 DEF StoreFails, Writes
      <4>2. \A b \in Buckets : ids'[b] \subseteq ids[b] \union {Carries[c]}
        BY <4>1, WriteEffect
      <4> QED
        BY <4>1, <4>2 DEF Remembered, GuardTypeOK
    <3> QED
      BY <1>7, <3>1, <3>2
  <2>2. pc'[c] \in {"admitted", "unavailable"} /\ \A x \in Copies \ {c} : pc'[x] = pc[x]
    BY <1>7 DEF Admit, StoreFails, GuardTypeOK
  <2>3. Presented(Carries[c])'
    BY <2>2 DEF Presented
  <2>4. \A x \in Copies : Verdict(x)'
    BY <1>2, <1>3, <2>2
  <2>5. FirstCopyIsNoReplay'
    BY <1>4, <2>4
  <2> QED
    BY <1>1, <2>1, <2>3, <2>5 DEF Known
<1>8. ASSUME NEW p \in Procs, Crash(p)
      PROVE  Known'
  <2>1. /\ \A q \in Procs : seen'[q] \subseteq seen[q]
        /\ \A x \in Copies : pc'[x] = "replay" => pc[x] = "replay"
    BY <1>8 DEF Crash, GuardTypeOK
  <2>2. \A x \in Copies : Verdict(x)'
    BY <1>2, <1>3, <2>1
  <2>3. FirstCopyIsNoReplay'
    BY <1>4, <2>2
  <2>4. CASE UNCHANGED <<ids, torn>>
    <3>1. /\ \A b \in Buckets : \A i \in ids'[b] : Presented(i)'
          /\ \A q \in Procs : \A m \in seen'[q] : Presented(m[1])'
      BY <2>1, <2>4, PresentedStands DEF Known
    <3> QED
      BY <2>3, <3>1 DEF Known
  <2>5. CASE ~UNCHANGED <<ids, torn>>
    <3>1. PICK c \in Copies : At[c] = p /\ IsNew(c) /\ Writes(c)
      BY <1>8, <2>5 DEF Crash, Writes
    <3>2. NewIds(Carries[c])
      BY <2>1, <3>1, WriteEffect
    <3>3. pc'[c] = "lost"
      BY <1>8, <3>1 DEF Crash, IsNew
    <3>4. Presented(Carries[c])'
      BY <3>3 DEF Presented
    <3> QED
      BY <1>1, <2>3, <3>2, <3>4 DEF Known
  <2> QED
    BY <2>4, <2>5
<1>9. CASE Tick \/ UNCHANGED guardVars \/ \E p \in Procs : Restart(p)
  <2>1. UNCHANGED <<ids, seen, pc>>
    BY <1>9 DEF Tick, guardVars, Restart
  <2>2. \A x \in Copies : Verdict(x)'
    BY <1>2, <1>3, <2>1
  <2>3. FirstCopyIsNoReplay'
    BY <1>4, <2>2
  <2>4. /\ \A b \in Buckets : \A i \in ids'[b] : Presented(i)'
        /\ \A q \in Procs : \A m \in seen'[q] : Presented(m[1])'
    BY <2>1, PresentedStands DEF Known
  <2> QED
    BY <2>3, <2>4 DEF Known
<1> QED
  BY <1>5, <1>6, <1>7, <1>8, <1>9 DEF GuardNext, AllAnswered

-----------------------------------------------------------------------------
(* The theorems.                                                           *)

\* The invariant holds in every state.
THEOREM GuardCorrect == GuardSpec => []GuardInv
<1>1. GuardInit => GuardInv
  <2> SUFFICES ASSUME GuardInit
               PROVE  GuardInv
    OBVIOUS
  <2>1. 0 \in Times /\ \A c \in Copies : pc[c] = "idle" /\ now[c] = 0
    BY DEF GuardInit, Times
  <2>2. GuardTypeOK
    BY <2>1 DEF GuardInit, GuardTypeOK
  <2>3. Timely
    BY <2>1 DEF GuardInit, Timely
  <2>4. Kept
    BY <2>1 DEF Kept, Sound, Admitted
  <2>5. Known
    BY <2>1 DEF GuardInit, Known, FirstCopyIsNoReplay
  <2> QED
    BY <2>2, <2>3, <2>4, <2>5 DEF GuardInv
<1>2. GuardInv /\ [GuardNext]_guardVars => GuardInv'
  <2> SUFFICES ASSUME GuardInv, [GuardNext]_guardVars
               PROVE  GuardInv'
    OBVIOUS
  <2>1. GuardTypeOK /\ Timely /\ Kept /\ Known
    BY DEF GuardInv
  <2>2. GuardTypeOK'
    BY <2>1, GuardNextType
  <2>3. Timely'
    BY <2>1, TimelyKept
  <2>4. Kept'
    BY <2>1, <2>2, <2>3, KeptKept
  <2>5. Known'
    BY <2>1, KnownKept
  <2> QED
    BY <2>2, <2>3, <2>4, <2>5 DEF GuardInv
<1> QED
  BY <1>1, <1>2, PTL DEF GuardSpec

\* No envelope is admitted twice by any runs of one identity, across crashes,
\* restarts, failed writes and pruning, unless its record was lost in a torn
\* line or an hour turned under a waiting handler (replayGuard.check,
\* replayStore).
THEOREM AdmittedOnceHolds == GuardSpec => []AdmittedOnce
<1>1. GuardInv => AdmittedOnce
  BY KeptAdmitsOnce
<1> QED
  BY <1>1, GuardCorrect, PTL

\* Only an envelope that some other request presented is refused as a replay.
THEOREM FirstCopyIsNoReplayHolds == GuardSpec => []FirstCopyIsNoReplay
<1>1. GuardInv => FirstCopyIsNoReplay
  BY DEF GuardInv, Known
<1> QED
  BY <1>1, GuardCorrect, PTL

-----------------------------------------------------------------------------
(* The inbox.                                                              *)

USE InboxAssumption

\* How a call travels: it is nowhere before its connection holds it, only what
\* the agent has been given is pending or being answered, and what has been
\* answered is neither any more.
Journey ==
  /\ \A c \in Calls : conn[c] \in {"new", "admitting", "shed"} =>
                        c \notin Queued \union InHand \union known
  /\ pending \union Replying \subseteq known
  /\ \A c \in Calls : sent[c] # 0 => c \in known /\ c \notin pending \union Replying

\* The calls a quota counts are finitely many.
Countable == \A p \in Peers : IsFiniteSet(Undelivered(p))

\* The inductive invariant behind QuotaExact and OnePlace.
InboxInv == TypeOK /\ OnePlace /\ Journey /\ Countable /\ QuotaExact

-----------------------------------------------------------------------------
(* Where calls are.                                                        *)

\* What is queued, in hand and being answered has its type.
LEMMA PlacesType ==
  ASSUME TypeOK
  PROVE  /\ Queued \subseteq Calls /\ InHand \subseteq Calls /\ Replying \subseteq Calls
         /\ Admitting \subseteq Calls
  BY DEF TypeOK, Queued, InHand, Replying, Admitting

\* A call joins the end of the queue.
LEMMA QueueAppend ==
  ASSUME TypeOK, NEW c \in Calls, inbox' = Append(inbox, c)
  PROVE  /\ Queued' = Queued \union {c}
         /\ inbox' \in Seq(Calls)
         /\ Len(inbox') = Len(inbox) + 1 /\ inbox'[Len(inbox) + 1] = c
         /\ \A i \in 1..Len(inbox) : inbox'[i] = inbox[i]
<1>1. /\ inbox' \in Seq(Calls) /\ Len(inbox) \in Nat
      /\ Len(inbox') = Len(inbox) + 1 /\ inbox'[Len(inbox) + 1] = c
      /\ \A i \in 1..Len(inbox) : inbox'[i] = inbox[i]
  BY DEF TypeOK
<1>2. Queued' \subseteq Queued \union {c}
  <2> SUFFICES ASSUME NEW i \in 1..Len(inbox')
               PROVE  inbox'[i] \in Queued \union {c}
    BY DEF Queued
  <2>1. i \in 1..Len(inbox) \/ i = Len(inbox) + 1
    BY <1>1
  <2> QED
    BY <1>1, <2>1 DEF Queued
<1>3. Queued \union {c} \subseteq Queued'
  <2>1. 1..Len(inbox) \subseteq 1..Len(inbox') /\ Len(inbox) + 1 \in 1..Len(inbox')
    BY <1>1
  <2> QED
    BY <1>1, <2>1 DEF Queued
<1> QED
  BY <1>1, <1>2, <1>3

\* The call at the head leaves the queue.
LEMMA QueueTail ==
  ASSUME TypeOK, inbox # <<>>, inbox' = Tail(inbox),
         \A i, j \in 1..Len(inbox) : inbox[i] = inbox[j] => i = j
  PROVE  /\ Head(inbox) \in Queued
         /\ Queued' = Queued \ {Head(inbox)}
         /\ inbox' \in Seq(Calls)
         /\ \A i, j \in 1..Len(inbox') : inbox'[i] = inbox'[j] => i = j
<1>1. /\ inbox' \in Seq(Calls) /\ Len(inbox) \in Nat \ {0}
      /\ Len(inbox') = Len(inbox) - 1 /\ Head(inbox) = inbox[1]
      /\ \A i \in 1..Len(inbox') : inbox'[i] = inbox[i + 1]
  BY DEF TypeOK
<1>2. \A i \in 1..Len(inbox') : i + 1 \in 1..Len(inbox) /\ i + 1 # 1
  BY <1>1
<1>3. \A i \in 1..Len(inbox) : i = 1 \/ (i - 1 \in 1..Len(inbox') /\ (i - 1) + 1 = i)
  BY <1>1
<1>4. 1 \in 1..Len(inbox)
  BY <1>1
<1>5. Queued' \subseteq Queued \ {Head(inbox)}
  BY <1>1, <1>2, <1>4 DEF Queued
<1>6. Queued \ {Head(inbox)} \subseteq Queued'
  <2> SUFFICES ASSUME NEW x \in Queued, x # Head(inbox)
               PROVE  x \in Queued'
    OBVIOUS
  <2>1. PICK i \in 1..Len(inbox) : x = inbox[i]
    BY DEF Queued
  <2>2. i - 1 \in 1..Len(inbox') /\ inbox'[i - 1] = x
    BY <1>1, <1>3, <2>1
  <2> QED
    BY <2>2 DEF Queued
<1>7. \A i, j \in 1..Len(inbox') : inbox'[i] = inbox'[j] => i = j
  <2> SUFFICES ASSUME NEW i \in 1..Len(inbox'), NEW j \in 1..Len(inbox'), inbox'[i] = inbox'[j]
               PROVE  i = j
    OBVIOUS
  <2>1. i + 1 = j + 1
    BY <1>1, <1>2
  <2> QED
    BY <2>1
<1> QED
  BY <1>1, <1>4, <1>5, <1>6, <1>7 DEF Queued

\* A poll takes a call into its hands.
LEMMA HandTakes ==
  ASSUME TypeOK, NEW q \in Polls, NEW c \in Calls, poll[q] = NoCall,
         poll' = [poll EXCEPT ![q] = c]
  PROVE  InHand' = InHand \union {c}
  BY DEF TypeOK, InHand

\* A poll lets go of its call.
LEMMA HandGives ==
  ASSUME TypeOK, OnePlace, NEW q \in Polls, poll[q] # NoCall,
         poll' = [poll EXCEPT ![q] = NoCall]
  PROVE  InHand' = InHand \ {poll[q]}
<1>1. InHand' \subseteq InHand \ {poll[q]}
  BY DEF TypeOK, InHand, OnePlace
<1>2. InHand \ {poll[q]} \subseteq InHand'
  BY DEF TypeOK, InHand
<1> QED
  BY <1>1, <1>2

\* A reply claims a call,
LEMMA ReplyTakes ==
  ASSUME TypeOK, NEW h \in Replies, NEW c \in Calls, reply[h] = NoCall,
         reply' = [reply EXCEPT ![h] = c]
  PROVE  Replying' = Replying \union {c}
  BY DEF TypeOK, Replying

\* and is done with it.
LEMMA ReplyGives ==
  ASSUME TypeOK, OnePlace, NEW h \in Replies, reply[h] # NoCall,
         reply' = [reply EXCEPT ![h] = NoCall]
  PROVE  Replying' = Replying \ {reply[h]}
<1>1. Replying' \subseteq Replying \ {reply[h]}
  BY DEF TypeOK, Replying, OnePlace
<1>2. Replying \ {reply[h]} \subseteq Replying'
  BY DEF TypeOK, Replying
<1> QED
  BY <1>1, <1>2

-----------------------------------------------------------------------------
(* Counting.                                                               *)

\* A step that leaves the undelivered calls and the quotas alone keeps both.
LEMMA SameCount ==
  ASSUME Countable, QuotaExact, used' = used,
         (Admitting \union Queued \union InHand)' = Admitting \union Queued \union InHand
  PROVE  Countable' /\ QuotaExact'
  BY DEF Countable, QuotaExact, Undelivered

\* A call that takes a slot is one more that its peer's quota counts.
LEMMA OneMore ==
  ASSUME TypeOK, Countable, QuotaExact, NEW c \in Calls, HasRoom(From[c]),
         c \notin Admitting \union Queued \union InHand,
         (Admitting \union Queued \union InHand)' = (Admitting \union Queued \union InHand) \union {c},
         used' = [used EXCEPT ![From[c]] = @ + 1]
  PROVE  Countable' /\ QuotaExact'
<1> SUFFICES ASSUME NEW p \in Peers
             PROVE  /\ IsFiniteSet(Undelivered(p)')
                    /\ used'[p] = Cardinality(Undelivered(p)') /\ used'[p] <= Capacity
  BY DEF Countable, QuotaExact
<1>1. IsFiniteSet(Undelivered(p)) /\ used[p] = Cardinality(Undelivered(p)) /\ used[p] <= Capacity
  BY DEF Countable, QuotaExact
<1>2. CASE p = From[c]
  <2>1. Undelivered(p)' = Undelivered(p) \union {c} /\ c \notin Undelivered(p)
    BY <1>2 DEF Undelivered
  <2>2. /\ IsFiniteSet(Undelivered(p)')
        /\ Cardinality(Undelivered(p)') = Cardinality(Undelivered(p)) + 1
    BY <1>1, <2>1, FS_AddElement
  <2>3. used'[p] = used[p] + 1 /\ used[p] < Capacity /\ used[p] \in Nat
    BY <1>2 DEF TypeOK, HasRoom
  <2> QED
    BY <1>1, <2>2, <2>3
<1>3. CASE p # From[c]
  <2>1. Undelivered(p)' = Undelivered(p)
    BY <1>3 DEF Undelivered
  <2>2. used'[p] = used[p]
    BY <1>3 DEF TypeOK
  <2> QED
    BY <1>1, <2>1, <2>2
<1> QED
  BY <1>2, <1>3

\* A call the agent is given frees the one slot it had.
LEMMA OneLess ==
  ASSUME TypeOK, Countable, QuotaExact, NEW c \in Calls,
         c \in Admitting \union Queued \union InHand,
         (Admitting \union Queued \union InHand)' = (Admitting \union Queued \union InHand) \ {c},
         used' = [used EXCEPT ![From[c]] = @ - 1]
  PROVE  Countable' /\ QuotaExact' /\ used' \in [Peers -> Nat]
<1> SUFFICES ASSUME NEW p \in Peers
             PROVE  /\ IsFiniteSet(Undelivered(p)')
                    /\ used'[p] = Cardinality(Undelivered(p)') /\ used'[p] <= Capacity
                    /\ used'[p] \in Nat
  BY DEF Countable, QuotaExact, TypeOK
<1>1. /\ IsFiniteSet(Undelivered(p)) /\ used[p] = Cardinality(Undelivered(p))
      /\ used[p] <= Capacity /\ used[p] \in Nat
  BY DEF Countable, QuotaExact, TypeOK
<1>2. CASE p = From[c]
  <2>1. Undelivered(p)' = Undelivered(p) \ {c} /\ c \in Undelivered(p)
    BY <1>2 DEF Undelivered
  <2>2. /\ IsFiniteSet(Undelivered(p)')
        /\ Cardinality(Undelivered(p)') = Cardinality(Undelivered(p)) - 1
    BY <1>1, <2>1, FS_RemoveElement
  <2>3. used'[p] = used[p] - 1
    BY <1>2 DEF TypeOK
  <2>4. Cardinality(Undelivered(p)') \in Nat
    BY <2>2, FS_CardinalityType
  <2> QED
    BY <1>1, <2>2, <2>3, <2>4
<1>3. CASE p # From[c]
  <2>1. Undelivered(p)' = Undelivered(p)
    BY <1>3 DEF Undelivered
  <2>2. used'[p] = used[p]
    BY <1>3 DEF TypeOK
  <2> QED
    BY <1>1, <2>1, <2>2
<1> QED
  BY <1>2, <1>3

-----------------------------------------------------------------------------
(* The handlers.                                                           *)

\* servePublic takes a slot or sheds.
LEMMA EnterKeeps ==
  ASSUME InboxInv, NEW c \in Calls, Enter(c)
  PROVE  InboxInv'
<1> USE DEF InboxInv
<1>1. conn[c] = "new" /\ UNCHANGED <<inbox, pending, poll, known, reply, resp, sent>>
  BY DEF Enter
<1>2. UNCHANGED <<Queued, InHand, Replying>>
  BY <1>1 DEF Queued, InHand, Replying
<1>3. CASE /\ HasRoom(From[c]) /\ used' = [used EXCEPT ![From[c]] = @ + 1]
           /\ conn' = [conn EXCEPT ![c] = "admitting"]
  <2>1. TypeOK'
    <3>1. used[From[c]] + 1 \in Nat
      BY DEF TypeOK
    <3>2. conn' \in [Calls -> {"new", "admitting", "holding", "expiring"} \union Released]
      BY <1>3 DEF TypeOK
    <3> QED
      BY <1>1, <1>3, <3>1, <3>2 DEF TypeOK
  <2>2. OnePlace' /\ Journey'
    BY <1>1, <1>2, <1>3 DEF TypeOK, OnePlace, Journey
  <2>3. /\ c \notin Admitting \union Queued \union InHand
        /\ (Admitting \union Queued \union InHand)' = (Admitting \union Queued \union InHand) \union {c}
    BY <1>1, <1>2, <1>3 DEF TypeOK, Journey, Admitting
  <2> QED
    BY <1>3, <2>1, <2>2, <2>3, OneMore
<1>4. CASE conn' = [conn EXCEPT ![c] = "shed"] /\ UNCHANGED used
  <2>1. TypeOK'
    BY <1>1, <1>4 DEF TypeOK, Released
  <2>2. OnePlace' /\ Journey'
    BY <1>1, <1>2, <1>4 DEF TypeOK, OnePlace, Journey
  <2>3. Admitting' = Admitting
    BY <1>1, <1>4 DEF TypeOK, Admitting
  <2> QED
    BY <1>2, <1>4, <2>1, <2>2, <2>3, SameCount
<1> QED
  BY <1>3, <1>4 DEF Enter

\* The call enters the channel.
LEMMA ParkKeeps ==
  ASSUME InboxInv, NEW c \in Calls, Park(c)
  PROVE  InboxInv'
<1> USE DEF InboxInv
<1>1. /\ conn[c] = "admitting" /\ conn' = [conn EXCEPT ![c] = "holding"]
      /\ inbox' = Append(inbox, c)
      /\ UNCHANGED <<used, pending, poll, known, reply, resp, sent>>
  BY DEF Park
<1>2. /\ Queued' = Queued \union {c} /\ inbox' \in Seq(Calls)
      /\ Len(inbox') = Len(inbox) + 1 /\ inbox'[Len(inbox) + 1] = c
      /\ \A i \in 1..Len(inbox) : inbox'[i] = inbox[i]
  BY <1>1, QueueAppend
<1>3. UNCHANGED <<InHand, Replying>> /\ c \notin Queued \union InHand \union known
  BY <1>1 DEF InHand, Replying, Journey
<1>4. TypeOK'
  BY <1>1, <1>2 DEF TypeOK
<1>5. \A i, j \in 1..Len(inbox') : inbox'[i] = inbox'[j] => i = j
  <2>1. \A i \in 1..Len(inbox) : inbox[i] # c
    BY <1>3 DEF Queued
  <2>2. \A i \in 1..Len(inbox') : i \in 1..Len(inbox) \/ i = Len(inbox) + 1
    BY <1>2 DEF TypeOK
  <2> QED
    BY <1>2, <2>1, <2>2 DEF OnePlace
<1>6. OnePlace'
  BY <1>1, <1>2, <1>3, <1>5 DEF TypeOK, OnePlace
<1>7. Journey'
  BY <1>1, <1>2, <1>3 DEF TypeOK, Journey
<1>8. (Admitting \union Queued \union InHand)' = Admitting \union Queued \union InHand
  BY <1>1, <1>2, <1>3 DEF TypeOK, Admitting
<1> QED
  BY <1>1, <1>4, <1>6, <1>7, <1>8, SameCount

\* A held connection is answered, given up, or taken out of the pending map.
LEMMA ConnectionKeeps ==
  ASSUME InboxInv, NEW c \in Calls, Answer(c) \/ GiveUp(c) \/ Expire(c)
  PROVE  InboxInv'
<1> USE DEF InboxInv
<1>1. /\ conn[c] \in {"holding", "expiring"}
      /\ \/ conn' = [conn EXCEPT ![c] = "answered"] /\ resp[c]
         \/ conn' = [conn EXCEPT ![c] = "expiring"]
         \/ conn' = [conn EXCEPT ![c] = "expired"]
      /\ resp' = resp \/ resp' = [resp EXCEPT ![c] = FALSE]
      /\ pending' \subseteq pending
      /\ UNCHANGED <<inbox, used, poll, known, reply, sent>>
  BY DEF Answer, GiveUp, Expire
<1>2. UNCHANGED <<Queued, InHand, Replying>>
  BY <1>1 DEF Queued, InHand, Replying
<1>3. Admitting' = Admitting
  BY <1>1 DEF TypeOK, Admitting
<1>4. TypeOK'
  BY <1>1 DEF TypeOK, Released
<1>5. \A d \in Calls : conn'[d] = "answered" \/ resp'[d] => sent'[d] = 1
  BY <1>1 DEF TypeOK, OnePlace
<1>6. OnePlace'
  BY <1>1, <1>2, <1>5 DEF OnePlace
<1>7. Journey'
  BY <1>1, <1>2 DEF TypeOK, Journey
<1> QED
  BY <1>1, <1>2, <1>3, <1>4, <1>6, <1>7, SameCount

\* serveInbox receives from the channel.
LEMMA ReceiveKeeps ==
  ASSUME InboxInv, NEW q \in Polls, Receive(q)
  PROVE  InboxInv'
<1> USE DEF InboxInv
<1> DEFINE c == Head(inbox)
<1>1. /\ poll[q] = NoCall /\ inbox # <<>> /\ inbox' = Tail(inbox)
      /\ poll' = [poll EXCEPT ![q] = c]
      /\ UNCHANGED <<conn, used, pending, known, reply, resp, sent>>
  BY DEF Receive
<1>2. /\ c \in Queued /\ Queued' = Queued \ {c} /\ inbox' \in Seq(Calls)
      /\ \A i, j \in 1..Len(inbox') : inbox'[i] = inbox'[j] => i = j
  BY <1>1, QueueTail DEF OnePlace
<1>3. c \in Calls /\ c \notin InHand \union known
  BY <1>2, PlacesType DEF OnePlace
<1> HIDE DEF c
<1>4. InHand' = InHand \union {c}
  BY <1>1, <1>3, HandTakes
<1>5. UNCHANGED <<Replying, Admitting>>
  BY <1>1 DEF Replying, Admitting
<1>6. TypeOK'
  BY <1>1, <1>2, <1>3 DEF TypeOK
<1>7. \A p, x \in Polls : poll'[p] = poll'[x] /\ poll'[p] # NoCall => p = x
  BY <1>1, <1>3 DEF TypeOK, OnePlace, InHand
<1>8. OnePlace'
  BY <1>1, <1>2, <1>3, <1>4, <1>5, <1>7 DEF OnePlace
<1>9. Journey'
  BY <1>1, <1>2, <1>4, <1>5 DEF Journey
<1>10. (Admitting \union Queued \union InHand)' = Admitting \union Queued \union InHand
  BY <1>2, <1>4, <1>5
<1> QED
  BY <1>1, <1>6, <1>8, <1>9, <1>10, SameCount

\* The call becomes pending, and its slot is free again.
LEMMA DeliverKeeps ==
  ASSUME InboxInv, NEW q \in Polls, Deliver(q)
  PROVE  InboxInv'
<1> USE DEF InboxInv
<1> DEFINE c == poll[q]
<1>1. /\ c # NoCall /\ pending' = pending \union {c} /\ known' = known \union {c}
      /\ used' = [used EXCEPT ![From[c]] = @ - 1]
      /\ poll' = [poll EXCEPT ![q] = NoCall]
      /\ UNCHANGED <<conn, inbox, reply, resp, sent>>
  BY DEF Deliver, FreeSlot
<1>2. c \in Calls /\ c \in InHand
  BY <1>1 DEF TypeOK, InHand
<1>3. InHand' = InHand \ {c}
  BY <1>1, HandGives
<1>4. UNCHANGED <<Queued, Replying, Admitting>>
  BY <1>1 DEF Queued, Replying, Admitting
<1>5. \A p, x \in Polls : poll'[p] = poll'[x] /\ poll'[p] # NoCall => p = x
  BY <1>1 DEF TypeOK, OnePlace
<1> HIDE DEF c
<1>6. c \notin Queued /\ c \notin known /\ c \notin Admitting
  BY <1>2 DEF OnePlace, Journey, Admitting
<1>7. (Admitting \union Queued \union InHand)' = (Admitting \union Queued \union InHand) \ {c}
  BY <1>3, <1>4, <1>6
<1>8. Countable' /\ QuotaExact' /\ used' \in [Peers -> Nat]
  BY <1>1, <1>2, <1>7, OneLess
<1>9. TypeOK'
  BY <1>1, <1>2, <1>8 DEF TypeOK
<1>10. OnePlace'
  BY <1>1, <1>2, <1>3, <1>4, <1>5, <1>6 DEF OnePlace, Journey
<1>11. Journey'
  BY <1>1, <1>2, <1>3, <1>4, <1>6 DEF Journey
<1> QED
  BY <1>8, <1>9, <1>10, <1>11

\* serveReply claims a pending call.
LEMMA ClaimKeeps ==
  ASSUME InboxInv, NEW h \in Replies, NEW c \in Calls, Claim(h, c)
  PROVE  InboxInv'
<1> USE DEF InboxInv
<1>1. /\ reply[h] = NoCall /\ c \in pending /\ pending' = pending \ {c}
      /\ reply' = [reply EXCEPT ![h] = c] \/ reply' = reply
      /\ UNCHANGED <<conn, inbox, used, poll, known, resp, sent>>
  BY DEF Claim, Claimed
<1>2. UNCHANGED <<Queued, InHand, Admitting>>
  BY <1>1 DEF Queued, InHand, Admitting
<1>3. Replying' \subseteq Replying \union {c}
  BY <1>1, ReplyTakes DEF Replying
<1>4. c \notin Replying /\ c \in known /\ sent[c] = 0
  BY <1>1 DEF OnePlace, Journey
<1>5. TypeOK'
  BY <1>1 DEF TypeOK
<1>6. \A g, x \in Replies : reply'[g] = reply'[x] /\ reply'[g] # NoCall => g = x
  <2>1. \A g \in Replies : reply[g] # c
    BY <1>4 DEF Replying
  <2>2. \A g, x \in Replies : reply[g] = reply[x] /\ reply[g] # NoCall => g = x
    BY DEF OnePlace
  <2>3. CASE reply' = reply
    BY <2>2, <2>3
  <2>4. CASE reply' = [reply EXCEPT ![h] = c]
    <3>1. reply \in [Replies -> Calls \union {NoCall}]
      BY DEF TypeOK
    <3>2. \A g \in Replies : reply'[g] = IF g = h THEN c ELSE reply[g]
      BY <2>4, <3>1
    <3> QED
      BY <2>1, <2>2, <3>2
  <2> QED
    BY <1>1, <2>3, <2>4
<1>7. OnePlace'
  BY <1>1, <1>2, <1>3, <1>6 DEF OnePlace
<1>8. Journey'
  BY <1>1, <1>2, <1>3, <1>4 DEF Journey
<1> QED
  BY <1>1, <1>2, <1>5, <1>7, <1>8, SameCount

\* The reply is handed over.
LEMMA HandOverKeeps ==
  ASSUME InboxInv, NEW h \in Replies, HandOver(h)
  PROVE  InboxInv'
<1> USE DEF InboxInv
<1> DEFINE c == reply[h]
<1>1. /\ c # NoCall /\ resp' = [resp EXCEPT ![c] = TRUE]
      /\ sent' = [sent EXCEPT ![c] = @ + 1]
      /\ reply' = [reply EXCEPT ![h] = NoCall]
      /\ UNCHANGED <<conn, inbox, used, pending, poll, known>>
  BY DEF HandOver
<1>2. c \in Calls /\ c \in Replying
  BY <1>1 DEF TypeOK, Replying
<1>3. Replying' = Replying \ {c}
  BY <1>1, ReplyGives
<1>4. UNCHANGED <<Queued, InHand, Admitting>>
  BY <1>1 DEF Queued, InHand, Admitting
<1>5. \A g, x \in Replies : reply'[g] = reply'[x] /\ reply'[g] # NoCall => g = x
  BY <1>1 DEF TypeOK, OnePlace
<1>6. reply' \in [Replies -> Calls \union {NoCall}]
  BY <1>1 DEF TypeOK
<1> HIDE DEF c
<1>7. c \notin pending /\ c \in known /\ sent[c] = 0
  BY <1>2 DEF OnePlace, Journey
<1>8. sent'[c] = 1 /\ \A d \in Calls \ {c} : sent'[d] = sent[d] /\ resp'[d] = resp[d]
  BY <1>1, <1>2, <1>7 DEF TypeOK
<1>9. TypeOK'
  <2>1. sent[c] + 1 \in Nat
    BY <1>7
  <2> QED
    BY <1>1, <1>2, <1>6, <2>1 DEF TypeOK
<1>10. \A d \in Calls : sent'[d] <= 1 /\ (conn'[d] = "answered" \/ resp'[d] => sent'[d] = 1)
  BY <1>1, <1>8 DEF OnePlace
<1>11. OnePlace'
  BY <1>1, <1>3, <1>4, <1>5, <1>10 DEF OnePlace
<1>12. Journey'
  BY <1>1, <1>3, <1>4, <1>7, <1>8 DEF Journey
<1> QED
  BY <1>1, <1>4, <1>9, <1>11, <1>12, SameCount

-----------------------------------------------------------------------------
(* The theorems.                                                           *)

\* Initially there are no calls to place or to count.
LEMMA InitInv == Init => InboxInv
<1> SUFFICES ASSUME Init
             PROVE  InboxInv
  OBVIOUS
<1>1. TypeOK
  BY DEF Init, TypeOK
<1>2. Queued = {} /\ InHand = {} /\ Replying = {} /\ Admitting = {}
  BY DEF Init, Queued, InHand, Replying, Admitting
<1>3. OnePlace /\ Journey
  BY <1>2 DEF Init, OnePlace, Journey
<1>4. \A p \in Peers : Undelivered(p) = {} /\ used[p] = 0
  BY <1>2 DEF Init, Undelivered
<1>5. Countable
  BY <1>4, FS_EmptySet DEF Countable
<1>6. Cardinality({}) = 0
  BY FS_EmptySet
<1>7. QuotaExact
  <2> SUFFICES ASSUME NEW p \in Peers
               PROVE  used[p] = Cardinality(Undelivered(p)) /\ used[p] <= Capacity
    BY DEF QuotaExact
  <2>1. Undelivered(p) = {} /\ used[p] = 0
    BY <1>4
  <2>2. 0 <= Capacity
    OBVIOUS
  <2> QED
    BY <1>6, <2>1, <2>2
<1> QED
  BY <1>1, <1>3, <1>5, <1>7 DEF InboxInv

\* Every step keeps the invariant.
LEMMA NextInv == InboxInv /\ [Next]_vars => InboxInv'
<1> SUFFICES ASSUME InboxInv, [Next]_vars
             PROVE  InboxInv'
  OBVIOUS
<1>1. ASSUME NEW c \in Calls, Public(c)
      PROVE  InboxInv'
  BY <1>1, EnterKeeps, ParkKeeps, ConnectionKeeps DEF Public
<1>2. ASSUME NEW q \in Polls, Receive(q) \/ Deliver(q)
      PROVE  InboxInv'
  BY <1>2, ReceiveKeeps, DeliverKeeps
<1>3. ASSUME NEW h \in Replies, HandOver(h) \/ \E c \in Calls : Claim(h, c)
      PROVE  InboxInv'
  BY <1>3, HandOverKeeps, ClaimKeeps
<1>4. CASE UNCHANGED vars
  <2>1. UNCHANGED <<Queued, InHand, Replying, Admitting>>
    BY <1>4 DEF vars, Queued, InHand, Replying, Admitting
  <2>2. TypeOK' /\ OnePlace' /\ Journey'
    BY <1>4, <2>1 DEF vars, InboxInv, TypeOK, OnePlace, Journey
  <2> QED
    BY <1>4, <2>1, <2>2, SameCount DEF vars, InboxInv
<1> QED
  BY <1>1, <1>2, <1>3, <1>4 DEF Next, Finished

\* Where calls are and what quotas count, in every reachable state: the
\* inductive invariant behind the two theorems below.
THEOREM InboxCorrect == Spec => []InboxInv
  BY InitInv, NextInv, PTL DEF Spec

\* Each peer's quota counts exactly the calls that hold a slot, wherever
\* servePublic and serveInbox stand, and stays within its capacity.
THEOREM QuotaExactHolds == Spec => []QuotaExact
<1>1. InboxInv => QuotaExact
  BY DEF InboxInv
<1> QED
  BY <1>1, InboxCorrect, PTL

\* No call is queued twice, given to the agent twice, or answered twice, and a
\* peer that is answered is answered by the one reply that was sent.
THEOREM OnePlaceHolds == Spec => []OnePlace
<1>1. InboxInv => OnePlace
  BY DEF InboxInv
<1> QED
  BY <1>1, InboxCorrect, PTL
=============================================================================
