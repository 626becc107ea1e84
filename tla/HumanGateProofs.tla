--------------------------- MODULE HumanGateProofs ---------------------------
(***************************************************************************)
(* Proofs about HumanGate, for every set of gates, every configuration,    *)
(* whichever arguments cannot be shown and however much a human types.     *)
(***************************************************************************)
EXTENDS HumanGate, TLAPS

USE GateAssumption

-----------------------------------------------------------------------------
(* The types.                                                              *)

\* What a source returns for want of an answer, and what the terminal and the
\* webhook make of one.
LEMMA ResultTypes ==
  /\ Nothing \in Results
  /\ [Nothing EXCEPT !.source = "webhook"] \in Results
  /\ \A d \in Decisions, a \in Gates \union {NoGate} :
       [Nothing EXCEPT !.decision = d, !.aim = a] \in Results
  /\ \A d \in Decisions, e \in {"plain", "invalid"} :
       [source |-> "webhook", aim |-> NoGate, decision |-> d, event |-> e] \in Results
  BY DEF Nothing, Results, Decisions

\* A source that returns keeps the types.
LEMMA ReturnType ==
  ASSUME TypeOK, NEW g \in Gates, NEW r \in Results, Return(g, r)
  PROVE  results' \in [Gates -> Seq(Results)] /\ first' \in [Gates -> Results]
<1>1. results[g] \in Seq(Results)
  BY DEF TypeOK
<1>2. Append(results[g], r) \in Seq(Results)
  BY <1>1
<1>3. results' \in [Gates -> Seq(Results)]
  BY <1>2 DEF Return, TypeOK
<1>4. first' \in [Gates -> Results]
  BY DEF Return, TypeOK
<1> QED
  BY <1>3, <1>4

\* The handler's steps keep the types.
LEMMA HandlerType ==
  ASSUME TypeOK, NEW g \in Gates, Open(g) \/ Deadline(g) \/ Hear(g) \/ Act(g)
  PROVE  TypeOK'
<1>1. CASE Open(g)
  BY <1>1 DEF Open, terminalVars, TypeOK, Sources
<1>2. CASE Deadline(g)
  BY <1>2 DEF Deadline, handlerVars, terminalVars, TypeOK, Sources
<1>3. CASE Hear(g)
  <2> DEFINE r == Head(results[g])
  <2>1. results[g] \in Seq(Results) /\ results[g] # <<>>
    BY <1>3 DEF Hear, TypeOK
  <2>2. r \in Results /\ Tail(results[g]) \in Seq(Results)
    BY <2>1
  <2>3. r.source \in {"terminal", "webhook"}
    BY <2>2 DEF Results
  <2>4. /\ results' = [results EXCEPT ![g] = Tail(@)]
        /\ pc' = [pc EXCEPT ![g] = "decided"] \/ UNCHANGED pc
        /\ chosen' = [chosen EXCEPT ![g] = r] \/ UNCHANGED chosen
        /\ silent' = [silent EXCEPT ![g] = @ \union {r.source}] \/ UNCHANGED silent
    BY <1>3 DEF Hear
  <2> HIDE DEF r
  <2>5. results' \in [Gates -> Seq(Results)]
    BY <2>2, <2>4 DEF TypeOK
  <2>6. silent' \in [Gates -> SUBSET {"terminal", "webhook"}]
    <3>1. silent[g] \union {r.source} \in SUBSET {"terminal", "webhook"}
      BY <2>3 DEF TypeOK
    <3> QED
      BY <2>4, <3>1 DEF TypeOK
  <2>7. chosen' \in [Gates -> Results]
    BY <2>2, <2>4 DEF TypeOK
  <2>8. pc' \in [Gates -> {"idle", "open", "decided", "over"}]
    BY <2>4 DEF TypeOK
  <2> QED
    BY <1>3, <2>5, <2>6, <2>7, <2>8 DEF Hear, terminalVars, TypeOK
<1>4. CASE Act(g)
  <2>1. EventOf(chosen[g]) \in Events
    BY DEF EventOf, Events
  <2>2. events[g] \in Seq(Events)
    BY DEF TypeOK
  <2>3. Append(events[g], EventOf(chosen[g])) \in Seq(Events)
    BY <2>1, <2>2
  <2>4. events' \in [Gates -> Seq(Events)]
    BY <1>4, <2>3 DEF Act, TypeOK
  <2>5. forwarded' \in [Gates -> Nat]
    BY <1>4 DEF Act, TypeOK
  <2>6. aborted' \in BOOLEAN
    BY <1>4, Zenon DEF Act
  <2> QED
    BY <1>4, <2>4, <2>5, <2>6 DEF Act, terminalVars, TypeOK
<1> QED
  BY <1>1, <1>2, <1>3, <1>4

\* lineCh holds nothing.
LEMMA NoneParked == <<>> \in Seq(Lines) /\ Len(<<>>) = 0
  OBVIOUS

\* So do the terminal's, the webhook's and everyone else's.
LEMMA SourceType ==
  ASSUME TypeOK, NEW g \in Gates, Terminal(g) \/ HookAnswers(g) \/ HookGivesUp(g)
  PROVE  TypeOK'
<1> USE DEF handlerVars, terminalVars
<1>1. CASE Lock(g)
  <2>1. results' \in [Gates -> Seq(Results)] /\ first' \in [Gates -> Results]
    BY <1>1, ReturnType, ResultTypes DEF Lock, TypeOK
  <2>2. reader' \in BOOLEAN
    BY <1>1 DEF Lock, TypeOK, GateAssumption
  <2> QED
    BY <1>1, <2>1, <2>2 DEF Lock, TypeOK
<1>2. CASE Drain(g)
  <2>1. parked' \in Seq(Lines) /\ Len(parked') <= 1
    <3>1. parked' = <<>> \/ parked' = parked
      BY <1>2 DEF Drain
    <3>2. parked \in Seq(Lines) /\ Len(parked) <= 1
      BY DEF TypeOK
    <3>3. CASE parked' = <<>>
      BY <3>3
    <3>4. CASE parked' = parked
      BY <3>2, <3>4
    <3> QED
      BY <3>1, <3>3, <3>4
  <2>2. term' \in [Gates -> {"off", "queued", "draining", "prompting", "mute", "back"}]
    BY <1>2 DEF Drain, TypeOK
  <2> QED
    BY <1>2, <2>1, <2>2 DEF Drain, TypeOK
<1>3. CASE TakeLine(g)
  <2>1. parked[1] \in Lines /\ Head(parked) = parked[1]
    BY <1>3 DEF TakeLine, TypeOK
  <2>2. [Nothing EXCEPT !.decision = Reading(g, Head(parked)), !.aim = Head(parked).aim] \in Results
    BY <2>1, ResultTypes DEF Reading, Lines, Decisions
  <2>3. results' \in [Gates -> Seq(Results)] /\ first' \in [Gates -> Results]
    BY <1>3, <2>2, ReturnType DEF TakeLine, TypeOK
  <2>4. parked' \in Seq(Lines) /\ Len(parked') <= 1
    BY <1>3, NoneParked DEF TakeLine
  <2>5. term' \in [Gates -> {"off", "queued", "draining", "prompting", "mute", "back"}]
    BY <1>3 DEF TakeLine, TypeOK
  <2>6. mu' \in Gates \union {NoGate}
    BY <1>3 DEF TakeLine, TypeOK
  <2> QED
    BY <1>3, <2>3, <2>4, <2>5, <2>6 DEF TakeLine, TypeOK
<1>4. CASE GiveUp(g)
  <2>1. results' \in [Gates -> Seq(Results)] /\ first' \in [Gates -> Results]
    BY <1>4, ReturnType, ResultTypes DEF GiveUp
  <2> QED
    BY <1>4, <2>1 DEF GiveUp, ReleaseLock, TypeOK
<1>5. CASE HookAnswers(g) \/ HookGivesUp(g)
  <2>1. PICK r \in Results : Return(g, r)
    BY <1>5, ResultTypes DEF HookAnswers, HookGivesUp, Answers, Decisions
  <2>2. results' \in [Gates -> Seq(Results)] /\ first' \in [Gates -> Results]
    BY <2>1, ReturnType
  <2> QED
    BY <1>5, <2>2 DEF HookAnswers, HookGivesUp, TypeOK
<1> QED
  BY <1>1, <1>2, <1>3, <1>4, <1>5 DEF Terminal

\* Every step keeps the types.
LEMMA NextType ==
  ASSUME TypeOK, [Next]_vars
  PROVE  TypeOK'
<1> USE DEF handlerVars, terminalVars
<1>1. CASE ReadLine
  <2>1. typed \in Seq(Lines) /\ typed # <<>>
    BY <1>1 DEF ReadLine, TypeOK
  <2>2. Head(typed) \in Lines /\ Tail(typed) \in Seq(Lines)
    BY <2>1
  <2>3. <<Head(typed)>> \in Seq(Lines) /\ Len(<<Head(typed)>>) = 1
    BY <2>2
  <2> QED
    BY <1>1, <2>2, <2>3 DEF ReadLine, TypeOK
<1>2. CASE TypeLine
  <2>1. Showing \in Gates \union {NoGate}
    BY DEF Showing
  <2>2. typed' \in Seq(Lines)
    BY <1>2, <2>1 DEF TypeLine, TypeOK, Lines
  <2> QED
    BY <1>2, <2>2 DEF TypeLine, TypeOK
<1>3. CASE InstallAbort
  BY <1>3 DEF InstallAbort, TypeOK
<1>4. CASE UNCHANGED vars
  BY <1>4 DEF vars, TypeOK
<1> QED
  BY <1>1, <1>2, <1>3, <1>4, HandlerType, SourceType DEF Next, Finished

-----------------------------------------------------------------------------
(* The inductive invariant.                                                *)

\* The source's goroutine has returned its one Result.
Returned(g, s) == IF s = "terminal" THEN term[g] = "back" ELSE hook[g] = "back"

\* A Result as the sources make them: what did not verify denies, and what
\* could not be shown was not approved at the terminal.
Honest(g, r) ==
  /\ r.event = "invalid" => r.decision = "denied"
  /\ g \in Unshowable /\ r.decision = "approved" => r.source = "webhook"

\* A Result in the race's channel is its source's only one, and says nothing
\* before the deadline only when the race is over.
Pending(g, r) ==
  /\ Honest(g, r)
  /\ r.source \in Sources /\ Returned(g, r.source) /\ r.source \notin silent[g]
  /\ pc[g] = "open" /\ r.decision = "none" => expired[g]

ChannelInv(g) ==
  /\ \A i \in 1..Len(results[g]) : Pending(g, results[g][i])
  /\ \A i, j \in 1..Len(results[g]) : results[g][i].source = results[g][j].source => i = j

\* While the race is open, the first decision returned is the first in the channel.
FirstInv(g) ==
  /\ first[g] = Nothing \/ first[g].decision # "none"
  /\ pc[g] = "open" =>
       IF first[g] = Nothing THEN \A i \in 1..Len(results[g]) : results[g][i].decision = "none"
       ELSE \E i \in 1..Len(results[g]) :
              results[g][i] = first[g] /\ \A j \in 1..(i - 1) : results[g][j].decision = "none"

\* Sources that were heard say nothing have returned, and not before the deadline.
SilenceInv(g) ==
  /\ \A s \in silent[g] : Returned(g, s)
  /\ pc[g] = "open" /\ silent[g] # {} => expired[g]
  /\ hook[g] # "off" => config.webhook
  /\ pc[g] = "idle" => /\ term[g] = "off" /\ hook[g] = "off" /\ first[g] = Nothing
                       /\ results[g] = <<>> /\ silent[g] = {}

\* What runGate acts on once the race has ended.
ChosenInv(g) ==
  pc[g] \in {"decided", "over"} =>
    /\ Honest(g, chosen[g])
    /\ IF first[g] = Nothing
       THEN chosen[g].decision = "none" /\ expired[g] /\ \A s \in Sources : Returned(g, s)
       ELSE chosen[g] = first[g]

\* And what it does.
DoneInv(g) ==
  IF pc[g] = "over"
  THEN events[g] = <<EventOf(chosen[g])>> /\ forwarded[g] = (IF MayForward(chosen[g]) THEN 1 ELSE 0)
  ELSE events[g] = <<>> /\ forwarded[g] = 0

GateInv(g) == ChannelInv(g) /\ FirstInv(g) /\ SilenceInv(g) /\ ChosenInv(g) /\ DoneInv(g)

\* The lock is held by the gate whose goroutine is between Lock and Unlock.
Holds(g) == term[g] \in {"draining", "prompting", "mute"}
LockInv == \A g \in Gates : Holds(g) <=> mu = g

IInv == TypeOK /\ LockInv /\ \A g \in Gates : GateInv(g)

-----------------------------------------------------------------------------
(* One gate: the lemmas about what a step does to it.                      *)

\* A gate no step of which is taken.
Same(x) ==
  /\ config' = config /\ pc'[x] = pc[x] /\ expired'[x] = expired[x] /\ results'[x] = results[x]
  /\ silent'[x] = silent[x] /\ chosen'[x] = chosen[x] /\ term'[x] = term[x] /\ hook'[x] = hook[x]
  /\ events'[x] = events[x] /\ forwarded'[x] = forwarded[x] /\ first'[x] = first[x]

\* It keeps its part of the invariant.
LEMMA SameKeeps ==
  ASSUME NEW x \in Gates, GateInv(x), Same(x)
  PROVE  GateInv(x)'
<1> USE DEF Same, Returned, Honest, Pending, Sources
<1>1. ChannelInv(x)'
  BY DEF GateInv, ChannelInv
<1>2. FirstInv(x)'
  BY DEF GateInv, FirstInv
<1>3. SilenceInv(x)'
  BY DEF GateInv, SilenceInv
<1>4. ChosenInv(x)'
  BY DEF GateInv, ChosenInv
<1>5. DoneInv(x)'
  BY DEF GateInv, DoneInv, MayForward, EventOf
<1> QED
  BY <1>1, <1>2, <1>3, <1>4, <1>5 DEF GateInv

\* A source returns: its Result joins the channel.
LEMMA ReturnKeeps ==
  ASSUME TypeOK, NEW g \in Gates, GateInv(g), NEW r \in Results, Return(g, r), Honest(g, r),
         r.decision = "none" => ContextDone(g),
         r.source \in Sources, ~Returned(g, r.source), Returned(g, r.source)',
         \A q : Returned(g, q) => Returned(g, q)',
         pc[g] # "idle", hook'[g] # "off" => config.webhook,
         UNCHANGED <<config, pc, expired, silent, chosen, events, forwarded>>
  PROVE  GateInv(g)' /\ \A x \in Gates \ {g} : results'[x] = results[x] /\ first'[x] = first[x]
<1> DEFINE s == results[g]
           n == Len(s)
<1>1. /\ s \in Seq(Results) /\ n \in Nat /\ results'[g] = Append(s, r)
      /\ \A x \in Gates \ {g} : results'[x] = results[x] /\ first'[x] = first[x]
  BY DEF Return, TypeOK
<1>2. Len(results'[g]) = n + 1 /\ results'[g][n + 1] = r /\ \A i \in 1..n : results'[g][i] = s[i]
  BY <1>1
<1>3. first'[g] = IF r.decision # "none" /\ first[g] = Nothing THEN r ELSE first[g]
  BY DEF Return, TypeOK
<1>4. Nothing.decision = "none"
  BY DEF Nothing
<1>5. \A i \in 1..n : Pending(g, s[i])
  BY DEF GateInv, ChannelInv
<1>6. \A q : Pending(g, q) => Pending(g, q)'
  BY DEF Pending, Sources, Honest
<1> HIDE DEF s, n
<1>7. Pending(g, r)'
  BY DEF Pending, GateInv, SilenceInv, Sources, ContextDone, Honest
<1>8. ChannelInv(g)'
  <2>1. \A i \in 1..(n + 1) : Pending(g, results[g][i])'
    <3> TAKE i \in 1..(n + 1)
    <3>1. PICK q : q = results'[g][i] /\ Pending(g, q)'
      <4>1. CASE i = n + 1
        BY <1>2, <1>7, <4>1
      <4>2. CASE i \in 1..n
        BY <1>2, <1>5, <1>6, <4>2
      <4>3. i = n + 1 \/ i \in 1..n
        BY <1>1
      <4> QED
        BY <4>1, <4>2, <4>3, Zenon
    <3> QED
      BY <3>1 DEF Pending, Honest, Returned, Sources
  <2>2. \A i, j \in 1..n : s[i].source = s[j].source => i = j
    BY DEF GateInv, ChannelInv, s, n
  <2>3. \A i \in 1..n : s[i].source # r.source
    BY <1>5 DEF Pending
  <2>4. \A i, j \in 1..(n + 1) : results'[g][i].source = results'[g][j].source => i = j
    <3>1. \A i \in 1..(n + 1) : i = n + 1 \/ i \in 1..n
      BY <1>1
    <3> QED
      BY <1>2, <2>2, <2>3, <3>1
  <2> QED
    BY <1>2, <2>1, <2>4 DEF ChannelInv
<1>9. FirstInv(g)'
  <2>0. n + 1 \in 1..(n + 1) /\ (n + 1) - 1 = n /\ \A i \in 1..(n + 1) : i = n + 1 \/ i \in 1..n
    BY <1>1
  <2>1. /\ first[g] = Nothing \/ first[g].decision # "none"
        /\ pc[g] = "open" =>
             IF first[g] = Nothing THEN \A i \in 1..n : s[i].decision = "none"
             ELSE \E i \in 1..n : s[i] = first[g] /\ \A j \in 1..(i - 1) : s[j].decision = "none"
    BY DEF GateInv, FirstInv, s, n
  <2>2. CASE first[g] = Nothing /\ r.decision # "none"
    <3>1. first'[g] = r /\ r # Nothing
      BY <1>3, <1>4, <2>2
    <3>2. pc[g] = "open" => \A j \in 1..n : results'[g][j].decision = "none"
      BY <1>2, <2>1, <2>2
    <3> QED
      BY <1>2, <2>0, <2>2, <3>1, <3>2 DEF FirstInv
  <2>3. CASE first[g] = Nothing /\ r.decision = "none"
    <3>1. first'[g] = Nothing
      BY <1>3, <2>3
    <3>2. pc[g] = "open" => \A j \in 1..(n + 1) : results'[g][j].decision = "none"
      BY <1>2, <2>0, <2>1, <2>3
    <3> QED
      BY <1>2, <3>1, <3>2 DEF FirstInv
  <2>4. CASE first[g] # Nothing
    <3>1. first'[g] = first[g] /\ first[g].decision # "none"
      BY <1>3, <2>1, <2>4
    <3>2. ASSUME pc[g] = "open"
          PROVE  \E i \in 1..(n + 1) : /\ results'[g][i] = first[g]
                                       /\ \A j \in 1..(i - 1) : results'[g][j].decision = "none"
      <4>1. PICK i \in 1..n : s[i] = first[g] /\ \A j \in 1..(i - 1) : s[j].decision = "none"
        BY <2>1, <2>4, <3>2
      <4>2. i \in 1..(n + 1) /\ \A j \in 1..(i - 1) : j \in 1..n
        BY <1>1, <4>1
      <4> QED
        BY <1>2, <4>1, <4>2
    <3> QED
      BY <1>2, <2>4, <3>1, <3>2 DEF FirstInv
  <2> QED
    BY <2>2, <2>3, <2>4
<1>10. SilenceInv(g)'
  BY DEF GateInv, SilenceInv
<1>11. ChosenInv(g)'
  BY <1>3 DEF GateInv, ChosenInv, Honest, Sources
<1>12. DoneInv(g)'
  BY DEF GateInv, DoneInv, EventOf, MayForward
<1> QED
  BY <1>1, <1>8, <1>9, <1>10, <1>11, <1>12 DEF GateInv

\* The race hears what is first in its channel.
LEMMA HearKeeps ==
  ASSUME TypeOK, NEW g \in Gates, GateInv(g), Hear(g)
  PROVE  GateInv(g)' /\ \A x \in Gates \ {g} : Same(x)
<1> DEFINE s == results[g]
           n == Len(s)
           r == Head(s)
<1>1. /\ s \in Seq(Results) /\ n \in Nat /\ n >= 1 /\ r = s[1] /\ results'[g] = Tail(s)
      /\ pc[g] = "open"
  BY DEF Hear, TypeOK
<1>2. Len(results'[g]) = n - 1 /\ \A i \in 1..(n - 1) : results'[g][i] = s[i + 1]
  BY <1>1
<1>3. /\ UNCHANGED <<config, expired, term, hook, events, forwarded, first>>
      /\ \/ /\ EndsRace(g, r) /\ pc'[g] = "decided" /\ chosen'[g] = r /\ silent'[g] = silent[g]
         \/ /\ ~EndsRace(g, r) /\ silent'[g] = silent[g] \union {r.source}
            /\ pc'[g] = pc[g] /\ chosen'[g] = chosen[g]
  BY DEF Hear, TypeOK
<1>4. \A x \in Gates \ {g} : Same(x)
  BY DEF Hear, Same, TypeOK
<1>5. /\ \A i \in 1..n : Pending(g, s[i])
      /\ \A i, j \in 1..n : s[i].source = s[j].source => i = j
      /\ IF first[g] = Nothing THEN \A i \in 1..n : s[i].decision = "none"
         ELSE \E i \in 1..n : s[i] = first[g] /\ \A j \in 1..(i - 1) : s[j].decision = "none"
      /\ first[g] = Nothing \/ first[g].decision # "none"
      /\ SilenceInv(g) /\ events[g] = <<>> /\ forwarded[g] = 0
  BY <1>1 DEF GateInv, ChannelInv, FirstInv, DoneInv
<1> HIDE DEF s, n, r
<1>6. 1 \in 1..n /\ Pending(g, r)
  BY <1>1, <1>5
<1>7. \A i \in 1..(n - 1) : i + 1 \in 1..n /\ i + 1 # 1
  BY <1>1
<1>8. FirstInv(g)'
  <2>1. CASE pc'[g] = "decided"
    BY <1>3, <1>5, <2>1 DEF FirstInv
  <2>2. CASE pc'[g] = pc[g] /\ r.decision = "none" /\ first[g] = Nothing
    BY <1>2, <1>3, <1>5, <1>7, <2>2 DEF FirstInv
  <2>3. CASE pc'[g] = pc[g] /\ r.decision = "none" /\ first[g] # Nothing
    <3>1. PICK i \in 1..n : s[i] = first[g] /\ \A j \in 1..(i - 1) : s[j].decision = "none"
      BY <1>5, <2>3
    <3>2. i # 1
      BY <1>1, <1>5, <2>3, <3>1
    <3>3. /\ i - 1 \in 1..(n - 1) /\ (i - 1) + 1 = i
          /\ \A j \in 1..((i - 1) - 1) : j + 1 \in 1..(i - 1) /\ j \in 1..(n - 1)
      BY <1>1, <3>2
    <3>4. results'[g][i - 1] = first[g]
      BY <1>2, <3>1, <3>3
    <3>5. \A j \in 1..((i - 1) - 1) : results'[g][j].decision = "none"
      BY <1>2, <3>1, <3>3
    <3> QED
      BY <1>2, <1>3, <1>5, <2>3, <3>3, <3>4, <3>5 DEF FirstInv
  <2> QED
    BY <1>3, <2>1, <2>2, <2>3 DEF EndsRace
<1>9. SilenceInv(g)'
  <2>1. Returned(g, r.source) /\ (r.decision = "none" => expired[g])
    BY <1>1, <1>6 DEF Pending
  <2>2. \A q \in silent'[g] : Returned(g, q)
    BY <1>3, <1>5, <2>1 DEF SilenceInv
  <2>3. (\A q \in silent[g] : Returned(g, q))'
    BY <1>3, <2>2 DEF Returned
  <2>4. pc'[g] = "open" => expired[g]
    BY <1>3, <2>1 DEF EndsRace
  <2>5. pc'[g] # "idle"
    BY <1>1, <1>3
  <2> QED
    BY <1>3, <1>5, <2>3, <2>4, <2>5 DEF SilenceInv
<1>10. ChannelInv(g)'
  <2>1. \A i \in 1..(n - 1) : s[i + 1].source # r.source
    BY <1>1, <1>5, <1>7, <1>6
  <2>2. \A i \in 1..(n - 1) : Pending(g, s[i + 1])
    BY <1>5, <1>7
  <2>3. \A q : Pending(g, q) /\ q.source # r.source => Pending(g, q)'
    BY <1>3 DEF Pending, Honest, Returned, Sources
  <2>4. \A i \in 1..(n - 1) : Pending(g, results[g][i])'
    <3> TAKE i \in 1..(n - 1)
    <3>1. PICK q : q = results'[g][i] /\ Pending(g, q)'
      BY <1>2, <2>1, <2>2, <2>3
    <3> QED
      BY <3>1 DEF Pending, Honest, Returned, Sources
  <2>5. \A i, j \in 1..(n - 1) : results'[g][i].source = results'[g][j].source => i = j
    <3> TAKE i, j \in 1..(n - 1)
    <3>1. s[i + 1].source = s[j + 1].source => i + 1 = j + 1
      BY <1>5, <1>7
    <3> QED
      BY <1>2, <3>1
  <2> QED
    BY <1>2, <2>4, <2>5 DEF ChannelInv
<1>11. ChosenInv(g)'
  <2>1. SUFFICES ASSUME pc'[g] = "decided"
                 PROVE  ChosenInv(g)'
    BY <1>1, <1>3 DEF ChosenInv
  <2>2. chosen'[g] = r /\ EndsRace(g, r) /\ first'[g] = first[g] /\ expired'[g] = expired[g]
    BY <1>1, <1>3, <2>1
  <2>3. Honest(g, r)
    BY <1>6 DEF Pending
  <2>4. CASE first[g] = Nothing
    <3>1. r.decision = "none"
      BY <1>1, <1>5, <1>6, <2>4
    <3>2. expired[g] /\ Sources \ {r.source} \subseteq silent[g] /\ Returned(g, r.source)
      BY <1>1, <1>6, <2>2, <3>1 DEF EndsRace, Pending
    <3>3. \A q \in Sources : Returned(g, q)
      BY <1>5, <3>2 DEF SilenceInv
    <3>4. (\A q \in Sources : Returned(g, q))'
      BY <1>3, <3>3 DEF Returned, Sources
    <3> QED
      BY <2>1, <2>2, <2>3, <2>4, <3>1, <3>2, <3>4 DEF ChosenInv, Honest
  <2>5. CASE first[g] # Nothing
    <3>1. PICK i \in 1..n : s[i] = first[g] /\ \A j \in 1..(i - 1) : s[j].decision = "none"
      BY <1>5, <2>5
    <3>2. CASE i = 1
      BY <1>1, <2>1, <2>2, <2>3, <2>5, <3>1, <3>2 DEF ChosenInv, Honest
    <3>3. CASE i # 1
      <4>1. 1 \in 1..(i - 1)
        BY <1>1, <3>3
      <4>2. r.decision = "none"
        BY <1>1, <3>1, <4>1
      <4>3. s[i].source \in Sources /\ s[i].source \notin silent[g]
        BY <1>5 DEF Pending
      <4>4. s[i].source = s[1].source
        BY <1>1, <2>2, <4>2, <4>3 DEF EndsRace
      <4> QED
        BY <1>5, <1>6, <3>3, <4>4
    <3> QED
      BY <3>2, <3>3
  <2> QED
    BY <2>4, <2>5
<1>12. DoneInv(g)'
  BY <1>1, <1>3, <1>5 DEF DoneInv
<1> QED
  BY <1>4, <1>8, <1>9, <1>10, <1>11, <1>12 DEF GateInv

\* The other steps of a handler.
LEMMA HandlerKeeps ==
  ASSUME TypeOK, NEW g \in Gates, GateInv(g), Open(g) \/ Deadline(g) \/ Act(g)
  PROVE  GateInv(g)' /\ \A x \in Gates \ {g} : Same(x)
<1>1. CASE Open(g)
  <2>1. \A x \in Gates \ {g} : Same(x)
    BY <1>1 DEF Open, Same, TypeOK
  <2>2. /\ results[g] = <<>> /\ silent[g] = {} /\ first[g] = Nothing /\ Len(results[g]) = 0
        /\ events[g] = <<>> /\ forwarded[g] = 0 /\ pc[g] = "idle"
    BY <1>1 DEF Open, GateInv, SilenceInv, DoneInv
  <2>3. /\ pc'[g] = "open" /\ hook'[g] = (IF config.webhook THEN "polling" ELSE "off")
        /\ UNCHANGED <<config, results, silent, first, events, forwarded>>
    BY <1>1 DEF Open, TypeOK
  <2>4. ChannelInv(g)' /\ FirstInv(g)' /\ SilenceInv(g)' /\ ChosenInv(g)' /\ DoneInv(g)'
    BY <2>2, <2>3 DEF ChannelInv, FirstInv, SilenceInv, ChosenInv, DoneInv
  <2> QED
    BY <2>1, <2>4 DEF GateInv
<1>2. CASE Deadline(g)
  <2>1. \A x \in Gates \ {g} : Same(x)
    BY <1>2 DEF Deadline, handlerVars, Same, TypeOK
  <2>2. expired'[g] /\ UNCHANGED <<config, pc, results, silent, first, events, forwarded, term, hook, chosen>>
    BY <1>2 DEF Deadline, handlerVars, TypeOK
  <2>3. ChannelInv(g)'
    BY <2>2 DEF GateInv, ChannelInv, Pending, Honest, Returned, Sources
  <2>4. FirstInv(g)' /\ SilenceInv(g)'
    BY <2>2 DEF GateInv, FirstInv, SilenceInv, Returned
  <2>5. ChosenInv(g)' /\ DoneInv(g)'
    BY <2>2 DEF GateInv, ChosenInv, DoneInv, Honest, Returned, Sources, EventOf, MayForward
  <2> QED
    BY <2>1, <2>3, <2>4, <2>5 DEF GateInv
<1>3. CASE Act(g)
  <2>1. \A x \in Gates \ {g} : Same(x)
    BY <1>3 DEF Act, Same, TypeOK
  <2>2. /\ pc[g] = "decided" /\ pc'[g] = "over" /\ UNCHANGED <<config, expired, results, silent, first, term, hook, chosen>>
        /\ events'[g] = Append(events[g], EventOf(chosen[g]))
        /\ forwarded'[g] = forwarded[g] + (IF MayForward(chosen[g]) THEN 1 ELSE 0)
    BY <1>3 DEF Act, TypeOK
  <2>3. ChannelInv(g)'
    BY <2>2 DEF GateInv, ChannelInv, Pending, Honest, Returned, Sources
  <2>4. FirstInv(g)' /\ SilenceInv(g)'
    BY <2>2 DEF GateInv, FirstInv, SilenceInv, Returned
  <2>5. ChosenInv(g)'
    BY <2>2 DEF GateInv, ChosenInv, Honest, Returned, Sources
  <2>6. events[g] = <<>> /\ forwarded[g] = 0
    BY <2>2 DEF GateInv, DoneInv
  <2>7. events'[g] = <<EventOf(chosen[g])>>
    BY <2>2, <2>6
  <2>8. DoneInv(g)'
    BY <2>2, <2>6, <2>7 DEF DoneInv, EventOf, MayForward
  <2> QED
    BY <2>1, <2>3, <2>4, <2>5, <2>8 DEF GateInv
<1> QED
  BY <1>1, <1>2, <1>3

\* The steps of the terminal's goroutine for a gate.
LEMMA TerminalKeeps ==
  ASSUME TypeOK, LockInv, NEW g \in Gates, GateInv(g), Terminal(g)
  PROVE  GateInv(g)' /\ (\A x \in Gates \ {g} : Same(x)) /\ LockInv'
<1>1. ASSUME NEW r \in Results, Return(g, r), Honest(g, r), r.source = "terminal",
             r.decision = "none" => ContextDone(g), mu' = NoGate, Holds(g) \/ mu = NoGate,
             term[g] \in {"queued", "prompting", "mute"}, term' = [term EXCEPT ![g] = "back"],
             UNCHANGED <<config, pc, expired, silent, chosen, events, forwarded, hook>>
      PROVE  GateInv(g)' /\ (\A x \in Gates \ {g} : Same(x)) /\ LockInv'
  <2>1. term'[g] = "back" /\ \A x \in Gates \ {g} : term'[x] = term[x]
    BY <1>1 DEF TypeOK
  <2>2. r.source \in Sources /\ ~Returned(g, r.source) /\ Returned(g, r.source)'
    BY <1>1, <2>1 DEF Returned, Sources
  <2>3. \A q : Returned(g, q) => Returned(g, q)'
    BY <1>1, <2>1 DEF Returned
  <2>4. pc[g] # "idle" /\ (hook'[g] # "off" => config.webhook)
    BY <1>1 DEF GateInv, SilenceInv
  <2>5. GateInv(g)' /\ \A x \in Gates \ {g} : results'[x] = results[x] /\ first'[x] = first[x]
    BY <1>1, <2>2, <2>3, <2>4, ReturnKeeps
  <2>6. \A x \in Gates \ {g} : Same(x)
    BY <1>1, <2>1, <2>5 DEF Same
  <2>7. LockInv'
    BY <1>1, <2>1 DEF LockInv, Holds
  <2> QED
    BY <2>5, <2>6, <2>7
<1>2. Nothing \in Results /\ Honest(g, Nothing) /\ Nothing.source = "terminal"
  BY ResultTypes DEF Honest, Nothing
<1>3. ASSUME NEW st \in {"draining", "prompting", "mute"}, term' = [term EXCEPT ![g] = st],
             UNCHANGED <<config, handlerVars, expired, results, first, hook>>,
             \/ term[g] = "queued" /\ mu = NoGate /\ mu' = g
             \/ Holds(g) /\ mu' = mu
      PROVE  GateInv(g)' /\ (\A x \in Gates \ {g} : Same(x)) /\ LockInv'
  <2>1. /\ term'[g] = st /\ \A x \in Gates \ {g} : term'[x] = term[x]
        /\ term[g] \notin {"off", "back"} /\ pc[g] # "idle"
    BY <1>3 DEF TypeOK, Holds, GateInv, SilenceInv
  <2>2. \A q : Returned(g, q)' <=> Returned(g, q)
    BY <1>3, <2>1 DEF Returned
  <2>3. ChannelInv(g)'
    BY <1>3, <2>1 DEF GateInv, ChannelInv, Pending, Honest, Returned, Sources, handlerVars
  <2>4. FirstInv(g)' /\ SilenceInv(g)'
    BY <1>3, <2>1, <2>2 DEF GateInv, FirstInv, SilenceInv, handlerVars
  <2>5. ChosenInv(g)' /\ DoneInv(g)'
    BY <1>3, <2>1 DEF GateInv, ChosenInv, DoneInv, Honest, Returned, Sources, EventOf, MayForward, handlerVars
  <2>6. \A x \in Gates \ {g} : Same(x)
    BY <1>3, <2>1 DEF Same, handlerVars
  <2>7. LockInv'
    BY <1>3, <2>1 DEF LockInv, Holds
  <2> QED
    BY <2>3, <2>4, <2>5, <2>6, <2>7 DEF GateInv
<1>4. CASE Lock(g)
  <2>1. CASE ContextDone(g) /\ term' = [term EXCEPT ![g] = "back"] /\ Return(g, Nothing) /\ UNCHANGED mu
    BY <1>1, <1>2, <1>4, <2>1 DEF Lock, handlerVars
  <2>2. CASE mu' = g /\ term' = [term EXCEPT ![g] = IF config.interactive THEN "draining" ELSE "mute"]
             /\ UNCHANGED <<results, first>>
    BY <1>3, <1>4, <2>2 DEF Lock
  <2> QED
    BY <1>4, <2>1, <2>2 DEF Lock
<1>5. CASE Drain(g)
  <2>1. term' = [term EXCEPT ![g] = "draining"] \/ term' = [term EXCEPT ![g] = "prompting"]
    BY <1>5 DEF Drain, TypeOK
  <2> QED
    BY <1>3, <1>5, <2>1 DEF Drain, Holds
<1>6. CASE TakeLine(g)
  <2>1. CASE UNCHANGED <<term, mu, results, first>>
    <3>1. term' = [term EXCEPT ![g] = "prompting"]
      BY <1>6, <2>1 DEF TakeLine, TypeOK
    <3> QED
      BY <1>3, <1>6, <2>1, <3>1 DEF TakeLine, Holds
  <2>2. ASSUME NEW d, d = Reading(g, Head(parked)), d # "none", term' = [term EXCEPT ![g] = "back"],
               mu' = NoGate, Return(g, [Nothing EXCEPT !.decision = d, !.aim = Head(parked).aim])
        PROVE  GateInv(g)' /\ (\A x \in Gates \ {g} : Same(x)) /\ LockInv'
    <3> DEFINE r == [Nothing EXCEPT !.decision = d, !.aim = Head(parked).aim]
    <3>1. Head(parked) \in Lines
      BY <1>6 DEF TakeLine, TypeOK
    <3>2. Head(parked).aim \in Gates \union {NoGate} /\ d \in Decisions
      BY <2>2, <3>1 DEF Lines, Reading, Decisions
    <3>3. r \in Results
      BY <3>2, ResultTypes
    <3>4. r.decision = d /\ r.source = "terminal" /\ r.event = "plain"
      BY DEF Nothing
    <3>5. Honest(g, r)
      BY <2>2, <3>4 DEF Honest, Reading
    <3> HIDE DEF r
    <3>6. Return(g, r)
      BY <2>2 DEF r
    <3> QED
      BY <1>1, <1>6, <2>2, <3>3, <3>4, <3>5, <3>6 DEF TakeLine, Holds, handlerVars
  <2> QED
    BY <1>6, <2>1, <2>2 DEF TakeLine
<1>7. CASE GiveUp(g)
  BY <1>1, <1>2, <1>7 DEF GiveUp, Holds, ReleaseLock, handlerVars
<1> QED
  BY <1>4, <1>5, <1>6, <1>7 DEF Terminal

\* The webhook's two.
LEMMA HookKeeps ==
  ASSUME TypeOK, LockInv, NEW g \in Gates, GateInv(g), HookAnswers(g) \/ HookGivesUp(g)
  PROVE  GateInv(g)' /\ (\A x \in Gates \ {g} : Same(x)) /\ LockInv'
<1>1. PICK r \in Results : /\ Return(g, r) /\ Honest(g, r) /\ r.source = "webhook"
                           /\ r.decision = "none" => ContextDone(g)
  <2>1. CASE HookAnswers(g)
    <3>1. PICK a \in Answers :
            Return(g, [source |-> "webhook", aim |-> NoGate,
                       decision |-> IF a = "approved" THEN "approved" ELSE "denied",
                       event |-> IF a \in {"approved", "denied"} THEN "plain" ELSE a])
      BY <2>1 DEF HookAnswers
    <3> DEFINE d == IF a = "approved" THEN "approved" ELSE "denied"
               e == IF a \in {"approved", "denied"} THEN "plain" ELSE a
               r == [source |-> "webhook", aim |-> NoGate, decision |-> d, event |-> e]
    <3>2. d \in Decisions /\ e \in {"plain", "invalid"}
      BY <3>1 DEF Answers, Decisions
    <3>3. r \in Results
      BY <3>2, ResultTypes
    <3>4. Honest(g, r) /\ r.decision # "none" /\ r.source = "webhook"
      BY <3>1 DEF Honest, Answers
    <3> QED
      BY <3>1, <3>3, <3>4
  <2>2. CASE HookGivesUp(g)
    <3>1. [Nothing EXCEPT !.source = "webhook"] \in Results
      BY ResultTypes
    <3>2. Honest(g, [Nothing EXCEPT !.source = "webhook"])
      BY DEF Honest, Nothing
    <3>3. [Nothing EXCEPT !.source = "webhook"].source = "webhook"
      BY DEF Nothing
    <3> QED
      BY <2>2, <3>1, <3>2, <3>3 DEF HookGivesUp
  <2> QED
    BY <2>1, <2>2
<1>2. /\ hook[g] = "polling" /\ hook' = [hook EXCEPT ![g] = "back"]
      /\ UNCHANGED <<config, handlerVars, terminalVars, expired, term>>
  BY DEF HookAnswers, HookGivesUp
<1>3. hook'[g] = "back" /\ \A x \in Gates \ {g} : hook'[x] = hook[x]
  BY <1>2 DEF TypeOK
<1>4. config.webhook /\ pc[g] # "idle"
  BY <1>2 DEF GateInv, SilenceInv
<1>5. r.source \in Sources /\ ~Returned(g, r.source) /\ Returned(g, r.source)'
  <2>1. r.source \in Sources
    BY <1>1, <1>4 DEF Sources
  <2>2. ~Returned(g, r.source)
    BY <1>1, <1>2 DEF Returned
  <2>3. Returned(g, r.source)'
    BY <1>1, <1>3 DEF Returned
  <2> QED
    BY <2>1, <2>2, <2>3
<1>6. \A q : Returned(g, q) => Returned(g, q)'
  BY <1>2, <1>3 DEF Returned
<1>7. GateInv(g)' /\ \A x \in Gates \ {g} : results'[x] = results[x] /\ first'[x] = first[x]
  <2>1. UNCHANGED <<config, pc, expired, silent, chosen, events, forwarded>>
    BY <1>2 DEF handlerVars
  <2> QED
    BY <1>1, <1>4, <1>5, <1>6, <2>1, ReturnKeeps
<1>8. \A x \in Gates \ {g} : Same(x)
  BY <1>2, <1>3, <1>7 DEF Same, handlerVars
<1>9. LockInv'
  BY <1>2 DEF LockInv, Holds, terminalVars
<1> QED
  BY <1>7, <1>8, <1>9

-----------------------------------------------------------------------------
(* The theorems.                                                           *)

\* No gate has been opened at first.
LEMMA InitInv == Init => IInv
<1> SUFFICES ASSUME Init PROVE IInv
  OBVIOUS
<1>1. TypeOK
  <2>1. <<>> \in Seq(Results) /\ <<>> \in Seq(Lines) /\ <<>> \in Seq(Events) /\ Len(<<>>) <= 1
    OBVIOUS
  <2>2. /\ results \in [Gates -> Seq(Results)] /\ events \in [Gates -> Seq(Events)]
        /\ typed \in Seq(Lines) /\ parked \in Seq(Lines) /\ Len(parked) <= 1
    BY <2>1 DEF Init
  <2>3. chosen \in [Gates -> Results] /\ first \in [Gates -> Results]
    BY ResultTypes DEF Init
  <2>4. silent \in [Gates -> SUBSET {"terminal", "webhook"}] /\ forwarded \in [Gates -> Nat]
    BY DEF Init
  <2>5. keys \in 0..MaxLines
    BY DEF Init
  <2> QED
    BY <2>2, <2>3, <2>4, <2>5 DEF Init, TypeOK
<1>2. LockInv
  BY DEF Init, LockInv, Holds
<1>3. ASSUME NEW g \in Gates PROVE GateInv(g)
  <2>1. /\ results[g] = <<>> /\ Len(results[g]) = 0 /\ pc[g] = "idle" /\ first[g] = Nothing
        /\ silent[g] = {} /\ term[g] = "off" /\ hook[g] = "off" /\ events[g] = <<>> /\ forwarded[g] = 0
    BY DEF Init
  <2> QED
    BY <2>1 DEF GateInv, ChannelInv, FirstInv, SilenceInv, ChosenInv, DoneInv
<1> QED
  BY <1>1, <1>2, <1>3 DEF IInv

\* Every step keeps the inductive invariant.
LEMMA NextInv == IInv /\ [Next]_vars => IInv'
<1> SUFFICES ASSUME IInv, [Next]_vars PROVE IInv'
  OBVIOUS
<1> USE DEF IInv
<1>1. TypeOK'
  BY NextType
<1>2. ASSUME NEW g \in Gates, GateInv(g)', \A x \in Gates \ {g} : Same(x)
      PROVE  \A x \in Gates : GateInv(x)'
  BY <1>2, SameKeeps
<1>3. ASSUME NEW g \in Gates, Open(g) \/ Deadline(g) \/ Hear(g) \/ Act(g)
      PROVE  LockInv' /\ \A x \in Gates : GateInv(x)'
  <2>1. \A x \in Gates : GateInv(x)'
    BY <1>2, <1>3, HearKeeps, HandlerKeeps
  <2>2. mu' = mu /\ \A x \in Gates : Holds(x)' <=> Holds(x)
    <3>1. CASE Open(g)
      <4>1. term[g] = "off"
        BY <3>1 DEF Open, GateInv, SilenceInv
      <4> QED
        BY <3>1, <4>1 DEF Open, terminalVars, Holds, TypeOK
    <3>2. CASE Deadline(g) \/ Hear(g) \/ Act(g)
      BY <3>2 DEF Deadline, Hear, Act, terminalVars, Holds
    <3> QED
      BY <1>3, <3>1, <3>2
  <2> QED
    BY <2>1, <2>2 DEF LockInv
<1>4. ASSUME NEW g \in Gates, Terminal(g) \/ HookAnswers(g) \/ HookGivesUp(g)
      PROVE  LockInv' /\ \A x \in Gates : GateInv(x)'
  BY <1>2, <1>4, TerminalKeeps, HookKeeps
<1>5. CASE ReadLine \/ TypeLine \/ InstallAbort \/ UNCHANGED vars
  <2>1. \A x \in Gates : Same(x)
    BY <1>5 DEF ReadLine, TypeLine, InstallAbort, vars, handlerVars, terminalVars, Same
  <2>2. UNCHANGED <<mu, term>>
    BY <1>5 DEF ReadLine, TypeLine, InstallAbort, vars, handlerVars, terminalVars
  <2>3. LockInv'
    BY <2>2 DEF LockInv, Holds
  <2> QED
    BY <1>1, <2>1, <2>3, SameKeeps
<1> QED
  BY <1>1, <1>3, <1>4, <1>5 DEF Next, Finished

\* Every reachable state satisfies the inductive invariant.
THEOREM GatesCorrect == Spec => []IInv
  BY InitInv, NextInv, PTL DEF Spec

\* RaceApprover.Decide and runGate: a call is handled by the first decision a
\* source returned, and by on_timeout only when none decided by its deadline.
THEOREM FirstDecisionWinsHolds == Spec => []FirstDecisionWins
<1>1. IInv => FirstDecisionWins
  BY DEF IInv, GateInv, ChosenInv, FirstDecisionWins
<1> QED
  BY <1>1, GatesCorrect, PTL

\* runGate logs one terminal event per gate, the one that tells whether the call
\* was forwarded.
THEOREM LogMatchesOutcomeHolds == Spec => []LogMatchesOutcome
<1>1. ASSUME IInv, NEW g \in Gates, pc[g] = "over"
      PROVE  /\ Len(events[g]) = 1
             /\ forwarded[g] = 1 <=> \/ events[g][1] = "gate_approved"
                                     \/ events[g][1] = "gate_timeout" /\ config.onTimeout = "proceed"
  <2> DEFINE r == chosen[g]
  <2>1. events[g] = <<EventOf(r)>> /\ forwarded[g] = (IF MayForward(r) THEN 1 ELSE 0) /\ Honest(g, r)
    BY <1>1 DEF IInv, GateInv, DoneInv, ChosenInv
  <2>2. Len(events[g]) = 1 /\ events[g][1] = EventOf(r)
    BY <2>1
  <2>3. r.decision \in Decisions /\ r.event \in {"plain", "invalid"}
    <3>1. r \in Results
      BY <1>1 DEF IInv, TypeOK
    <3> QED
      BY <3>1 DEF Results
  <2>4. MayForward(r) <=> \/ EventOf(r) = "gate_approved"
                          \/ EventOf(r) = "gate_timeout" /\ config.onTimeout = "proceed"
    BY <2>1, <2>3 DEF MayForward, EventOf, Honest, Decisions
  <2> QED
    BY <2>1, <2>2, <2>4
<1>2. IInv => LogMatchesOutcome
  BY <1>1 DEF LogMatchesOutcome
<1> QED
  BY <1>2, GatesCorrect, PTL

\* TerminalApprover.Decide collects no approval for arguments it could not show,
\* so that an approval of such a call came from the webhook.
THEOREM UnseenNotApprovedHereHolds == Spec => []UnseenNotApprovedHere
<1>1. IInv => UnseenNotApprovedHere
  BY DEF IInv, GateInv, ChosenInv, Honest, UnseenNotApprovedHere
<1> QED
  BY <1>1, GatesCorrect, PTL

\* No two prompts show, and none is drained for while another is up.
OnePrompt == \A g, h \in Gates : Holds(g) /\ Holds(h) => g = h

\* TerminalApprover's lock: one goroutine at a time has the terminal.
THEOREM OnePromptHolds == Spec => []OnePrompt
<1>1. IInv => OnePrompt
  BY DEF IInv, LockInv, OnePrompt
<1> QED
  BY <1>1, GatesCorrect, PTL
=============================================================================
