-------------------------- MODULE AuditTrailProofs --------------------------
(***************************************************************************)
(* Proofs about what the signed log can be held to.                        *)
(*                                                                         *)
(* AuditLog, the log of one identity: for every set of runs of a day,      *)
(* however many entries they write and wherever a write fails or a process *)
(* dies.                                                                   *)
(*                                                                         *)
(* A2ARoundTrip, whose two sides each keep one: for every set of agents    *)
(* and calls, also of agents that call themselves, and any number of lost, *)
(* repeated, garbled and misdirected messages and of processes that die.   *)
(***************************************************************************)
EXTENDS AuditLog, A2ARoundTrip, SequenceTheorems, FiniteSetTheorems, TLAPS

USE BoundAssumption

-----------------------------------------------------------------------------
(* The inductive invariant.                                                *)

Lines == [run : Runs, n : Nat, prev : Hashes, form : Forms]

\* Entry n of run r stands in file f and can be read.
Stands(f, r, n) ==
  \E i \in 1..Len(f) : f[i].run = r /\ f[i].n = n /\ f[i].form \in {"good", "joined"}

\* No line holds an entry its run has not made yet, and a run's entries are in
\* the order it made them.
NumberInv ==
  /\ \A i \in 1..Len(file) : file[i].n \in 1..given[file[i].run]
  /\ \A i, j \in 1..Len(file) :
       i < j => file[i].run # file[j].run \/ file[i].n < file[j].n

\* Where no write was cut short every line is as its entry was.
FormInv ==
  /\ \A i \in 1..Len(file) : file[i].form # "good" => cut
  /\ tail => cut

\* As long as runs did not overlap there is one writer at a time, and unless a
\* write was cut short every line chains to the one above it and the writer
\* will chain to the last.
ChainInv ==
  overlap \/
    /\ \A r, s \in Holding : r = s
    /\ cut \/ /\ \A i \in 1..Len(file) : file[i].prev = Above(file, i)
              /\ \A r \in Holding : last[r] = LastHash

\* The Logger of a run that has seen no error has written all it was given,
\* and a run that vouched for its entries had.
CompleteInv ==
  \A r \in Runs :
    /\ phase[r] = "new" => given[r] = 0
    /\ phase[r] \in {"running", "checking"} /\ ~failed[r] =>
         \A n \in 1..given[r] : Stands(file, r, n)
    /\ outcome[r] = "finished" =>
         \A n \in 1..vouched[r] : Stands(file, r, n)

IInv == TypeOK /\ NumberInv /\ FormInv /\ ChainInv /\ CompleteInv

-----------------------------------------------------------------------------
(* One more line.                                                          *)

\* An entry of run r is appended to the file, whole or cut short.
Enters(r, form) ==
  /\ form \in {"good", "cut"}
  /\ file' = AddLine(r, form)
  /\ tail' = (form = "cut")
  /\ cut' = (cut \/ form = "cut")
  /\ given' = [given EXCEPT ![r] = @ + 1]

\* What stands in the last line then.
NewLine(r, form) ==
  [run |-> r, n |-> given[r] + 1, prev |-> last[r],
   form |-> IF tail /\ form = "good" THEN "joined" ELSE form]

\* AddLine puts it below the whole lines there are, in place of a cut one.
LEMMA LineAdded ==
  ASSUME TypeOK, NEW r \in Runs, NEW form \in {"good", "cut"}
  PROVE  LET f == AddLine(r, form) IN
         /\ f \in Seq(Lines)
         /\ Len(f) = IF tail THEN Len(file) ELSE Len(file) + 1
         /\ Len(f) \in Nat \ {0}
         /\ f[Len(f)] = NewLine(r, form)
         /\ \A i \in 1..(Len(f) - 1) : i \in 1..Len(file) /\ f[i] = file[i]
         /\ tail => file[Len(f)].form = "cut"
<1> DEFINE line == [run |-> r, n |-> given[r] + 1, prev |-> last[r], form |-> form]
           x == [line EXCEPT !.form = IF form = "good" THEN "joined" ELSE form]
<1>1. file \in Seq(Lines) /\ Len(file) \in Nat
  BY DEF TypeOK, Lines
<1>2. given[r] + 1 \in Nat /\ last[r] \in Hashes
  BY DEF TypeOK
<1>3. line \in Lines /\ x \in Lines
  BY <1>2 DEF Lines, Forms
<1>4. CASE tail
  <2>1. file # <<>> /\ file[Len(file)].form = "cut" /\ Len(file) # 0
    BY <1>1, <1>4 DEF TypeOK
  <2>2. AddLine(r, form) = [file EXCEPT ![Len(file)] = x]
    BY <1>4 DEF AddLine
  <2>3. x = NewLine(r, form)
    BY <1>4 DEF NewLine
  <2> HIDE DEF x
  <2>4. [file EXCEPT ![Len(file)] = x] \in Seq(Lines)
    BY <1>1, <1>3, <2>1
  <2> QED
    BY <1>1, <1>4, <2>1, <2>2, <2>3, <2>4
<1>5. CASE ~tail
  <2>1. AddLine(r, form) = Append(file, line)
    BY <1>5 DEF AddLine
  <2>2. line = NewLine(r, form)
    BY <1>5 DEF NewLine
  <2> HIDE DEF line
  <2> QED
    BY <1>1, <1>3, <1>5, <2>1, <2>2
<1> QED
  BY <1>4, <1>5 DEF TypeOK

\* It has its entry's number, and what stood before still does.
LEMMA LineKeeps ==
  ASSUME TypeOK, NumberInv, FormInv, NEW r \in Runs, NEW form, Enters(r, form)
  PROVE  /\ NumberInv' /\ FormInv'
         /\ \A q \in Runs, n \in Nat : Stands(file, q, n) => Stands(file', q, n)
         /\ form = "good" => Stands(file', r, given[r] + 1)
<1> DEFINE k == Len(file')
<1>1. /\ k = IF tail THEN Len(file) ELSE Len(file) + 1
      /\ k \in Nat \ {0} /\ Len(file) \in Nat
      /\ file'[k] = NewLine(r, form)
      /\ \A i \in 1..(k - 1) : i \in 1..Len(file) /\ file'[i] = file[i]
      /\ tail => file[k].form = "cut"
  <2>1. form \in {"good", "cut"} /\ file' = AddLine(r, form)
    BY DEF Enters
  <2>2. Len(file) \in Nat
    BY DEF TypeOK
  <2> QED
    BY <2>1, <2>2, LineAdded
<1>2. given[r] \in Nat /\ given'[r] = given[r] + 1 /\ \A q \in Runs \ {r} : given'[q] = given[q]
  BY DEF Enters, TypeOK
<1>3. \A i \in 1..Len(file) : file[i].run \in Runs /\ file[i].n \in Nat
  <2>1. file \in Seq(Lines)
    BY DEF TypeOK, Lines
  <2>2. \A i \in 1..Len(file) : file[i] \in Lines
    BY <2>1
  <2> QED
    BY <2>2 DEF Lines
<1>4. /\ file'[k].run = r /\ file'[k].n = given[r] + 1
      /\ file'[k].form = IF tail /\ form = "good" THEN "joined" ELSE form
  BY <1>1 DEF NewLine
<1>0. k \in 1..k /\ \A i \in 1..k : i # k => i \in 1..(k - 1)
  BY <1>1
<1> HIDE DEF k
<1>5. ASSUME NEW i \in 1..k PROVE file'[i].n \in 1..given'[file'[i].run]
  <2>1. CASE i = k
    BY <1>2, <1>4, <2>1
  <2>2. CASE i # k
    <3>1. i \in 1..Len(file) /\ file'[i] = file[i]
      BY <1>0, <1>1, <2>2
    <3>2. file[i].n \in 1..given[file[i].run] /\ file[i].run \in Runs /\ file[i].n \in Nat
      BY <1>3, <3>1 DEF NumberInv
    <3>3. CASE file[i].run = r
      BY <1>2, <3>1, <3>2, <3>3
    <3>4. CASE file[i].run # r
      BY <1>2, <3>1, <3>2, <3>4
    <3> QED
      BY <3>3, <3>4
  <2> QED
    BY <2>1, <2>2
<1>6. ASSUME NEW i \in 1..k, NEW j \in 1..k, i < j
      PROVE  file'[i].run # file'[j].run \/ file'[i].n < file'[j].n
  <2>1. i \in 1..(k - 1) /\ i \in 1..Len(file) /\ file'[i] = file[i]
    BY <1>1, <1>6
  <2>2. CASE j = k
    BY <1>2, <1>4, <2>1, <2>2, <1>3 DEF NumberInv
  <2>3. CASE j # k
    <3>1. j \in 1..Len(file) /\ file'[j] = file[j]
      BY <1>0, <1>1, <2>3
    <3> QED
      BY <1>6, <2>1, <3>1 DEF NumberInv
  <2> QED
    BY <2>2, <2>3
<1>7. NumberInv'
  BY <1>5, <1>6 DEF NumberInv, k
<1>8. FormInv'
  <2>1. ASSUME NEW i \in 1..k, file'[i].form # "good" PROVE cut'
    <3>1. CASE i = k
      BY <1>4, <2>1, <3>1 DEF FormInv, Enters
    <3>2. CASE i # k
      <4>1. i \in 1..Len(file) /\ file'[i] = file[i]
        BY <1>0, <1>1, <3>2
      <4> QED
        BY <2>1, <4>1 DEF FormInv, Enters
    <3> QED
      BY <3>1, <3>2
  <2> QED
    BY <2>1 DEF FormInv, Enters, k
<1>9. ASSUME NEW q \in Runs, NEW n \in Nat, Stands(file, q, n)
      PROVE  Stands(file', q, n)
  <2>1. PICK i \in 1..Len(file) : file[i].run = q /\ file[i].n = n /\ file[i].form \in {"good", "joined"}
    BY <1>9 DEF Stands
  <2>2. i \in 1..(k - 1)
    BY <1>1, <2>1
  <2>3. file'[i] = file[i] /\ i \in 1..k
    BY <1>1, <2>2
  <2> QED
    BY <2>1, <2>3 DEF Stands, k
<1>10. ASSUME form = "good" PROVE Stands(file', r, given[r] + 1)
  <2>1. k \in 1..k /\ file'[k].form \in {"good", "joined"}
    BY <1>0, <1>4, <1>10
  <2> QED
    BY <1>4, <2>1 DEF Stands, k
<1> QED
  BY <1>7, <1>8, <1>9, <1>10

-----------------------------------------------------------------------------
(* The steps.                                                              *)

\* What an entry of run r leaves behind: it is written, or the Logger has its
\* error, and then the file is as it was or ends in a cut line.
Kept(r) ==
  /\ Enters(r, "good")
  /\ last' = [last EXCEPT ![r] = <<r, given[r] + 1, "good">>]
  /\ failed' = failed
Lost(r) ==
  /\ failed' = [failed EXCEPT ![r] = TRUE]
  /\ last' = last
  /\ given' = [given EXCEPT ![r] = @ + 1]
  /\ UNCHANGED <<file, tail, cut>> \/ Enters(r, "cut")

\* Logger.Write has these two outcomes, and so has a line of the flush.
LEMMA EntryOutcomes ==
  ASSUME TypeOK, NEW r \in Runs, given' = [given EXCEPT ![r] = @ + 1]
  PROVE  /\ KeepEntry(r) => Kept(r)
         /\ LoseEntry(r) => Lost(r)
<1>1. failed = [failed EXCEPT ![r] = failed[r]] /\ last = [last EXCEPT ![r] = last[r]]
  BY DEF TypeOK
<1>2. cut \in BOOLEAN
  BY DEF TypeOK
<1>3. ASSUME KeepEntry(r) PROVE Kept(r)
  BY <1>1, <1>2, <1>3 DEF KeepEntry, Kept, Enters, TailAfterEntry, ErrorAfterSuccess
<1>4. ASSUME LoseEntry(r) PROVE Lost(r)
  BY <1>1, <1>2, <1>4 DEF LoseEntry, Lost, Enters, ChainAfterError
<1> QED
  BY <1>3, <1>4

\* The steps of a run r that make an entry, and the others: what they do to the
\* file and the Logger and where they leave cmdRun.
Enter(r) ==
  /\ phase[r] \in {"running", "checking", "flushing"}
  /\ Kept(r) \/ Lost(r)
  /\ \E p \in {"running", "checking", "flushing", "over"} :
       /\ phase' = [phase EXCEPT ![r] = p]
       /\ p \in {"running", "checking"} => phase[r] \in {"running", "checking"}
  /\ \/ UNCHANGED <<outcome, vouched>>
     \/ /\ outcome' = [outcome EXCEPT ![r] = "failed"]
        /\ vouched' = [vouched EXCEPT ![r] = given'[r]]
  /\ UNCHANGED overlap

Leave(r) ==
  /\ phase[r] \in {"running", "checking", "flushing"}
  /\ phase' = [phase EXCEPT ![r] = "over"] \/ phase' = [phase EXCEPT ![r] = "dead"]
  /\ UNCHANGED <<file, tail, cut, given>> \/ Enters(r, "cut")
  /\ UNCHANGED <<last, failed, outcome, vouched, overlap>>

\* A step of a run opens the log, makes an entry, reports, or ends the run.
LEMMA StepShape ==
  ASSUME TypeOK, NEW r \in Runs,
         Open(r) \/ LogEvent(r) \/ Conclude(r) \/ Report(r)
           \/ FlushLine(r) \/ EndFlush(r) \/ Crash(r)
  PROVE  /\ flushed' \in [Runs -> 0..MaxNet]
         /\ Open(r) \/ Enter(r) \/ Report(r) \/ Leave(r)
<1>1. phase = [phase EXCEPT ![r] = phase[r]]
  BY DEF TypeOK
<1>2. CASE Open(r)
  BY <1>2 DEF Open, TypeOK
<1>3. CASE LogEvent(r)
  <2>1. Kept(r) \/ Lost(r)
    BY <1>3, EntryOutcomes DEF LogEvent, Write
  <2>2. phase[r] \in {"running", "checking", "flushing"} /\ phase' = phase
    BY <1>3 DEF LogEvent, Holding
  <2> QED
    BY <1>1, <1>3, <2>1, <2>2 DEF LogEvent, Enter, TypeOK
<1>4. CASE Conclude(r)
  <2>1. Kept(r) \/ Lost(r)
    BY <1>4, EntryOutcomes DEF Conclude, Write
  <2> QED
    BY <1>4, <2>1 DEF Conclude, Enter, TypeOK
<1>5. CASE Report(r)
  BY <1>5 DEF Report, TypeOK
<1>6. CASE FlushLine(r)
  <2>1. Kept(r) \/ Lost(r)
    BY <1>6, EntryOutcomes DEF FlushLine
  <2>2. flushed[r] \in 0..MaxNet /\ flushed[r] < MaxNet
    BY <1>6 DEF FlushLine, TypeOK
  <2>3. flushed[r] + 1 \in 0..MaxNet
    BY <2>2
  <2>4. flushed' \in [Runs -> 0..MaxNet]
    BY <1>6, <2>3 DEF FlushLine, TypeOK
  <2>5. phase' = phase \/ phase' = [phase EXCEPT ![r] = "over"]
    BY <1>6 DEF FlushLine
  <2> QED
    BY <1>1, <1>6, <2>1, <2>4, <2>5 DEF FlushLine, Enter
<1>7. CASE EndFlush(r)
  BY <1>7 DEF EndFlush, Leave, logVars, TypeOK
<1>8. CASE Crash(r)
  <2>1. UNCHANGED <<file, tail, cut, given>> \/ Enters(r, "cut")
    BY <1>8 DEF Crash, Enters, TypeOK
  <2> QED
    BY <1>8, <2>1 DEF Crash, Leave, Holding, TypeOK
<1> QED
  BY <1>2, <1>3, <1>4, <1>5, <1>6, <1>7, <1>8

\* An entry keeps the types of the file.
LEMMA EntersType ==
  ASSUME TypeOK, NEW r \in Runs, NEW form, Enters(r, form)
  PROVE  /\ file' \in Seq(Lines) /\ tail' \in BOOLEAN /\ cut' \in BOOLEAN
         /\ given' \in [Runs -> Nat]
         /\ tail' => file' # <<>> /\ file'[Len(file')].form = "cut"
<1>1. form \in {"good", "cut"} /\ file' = AddLine(r, form)
  BY DEF Enters
<1>2. file' \in Seq(Lines) /\ Len(file') # 0 /\ file'[Len(file')] = NewLine(r, form)
  BY <1>1, LineAdded
<1>3. ASSUME tail' PROVE file' # <<>> /\ file'[Len(file')].form = "cut"
  <2>1. form = "cut"
    BY <1>3 DEF Enters
  <2>2. NewLine(r, form).form = "cut"
    BY <2>1 DEF NewLine
  <2>3. file' # <<>>
    BY <1>2
  <2> QED
    BY <1>2, <2>2, <2>3
<1>4. given[r] + 1 \in Nat
  BY DEF TypeOK
<1> QED
  BY <1>2, <1>3, <1>4 DEF Enters, TypeOK

\* Every step keeps the types.
LEMMA NextType == TypeOK /\ [Next]_vars => TypeOK'
<1> SUFFICES ASSUME TypeOK, [Next]_vars PROVE TypeOK'
  OBVIOUS
<1>1. ASSUME NEW r \in Runs, flushed' \in [Runs -> 0..MaxNet],
             Open(r) \/ Enter(r) \/ Report(r) \/ Leave(r)
      PROVE  TypeOK'
  <2>1. CASE Open(r)
    <3>1. file \in Seq(Lines)
      BY DEF TypeOK, Lines
    <3>2. LastHash \in Hashes
      <4>1. CASE file # <<>>
        <5>1. file[Len(file)] \in Lines
          BY <3>1, <4>1
        <5> QED
          BY <4>1, <5>1 DEF LastHash, Hash, Lines, Hashes
      <4> QED
        BY <4>1 DEF LastHash, Hashes
    <3> QED
      BY <2>1, <3>2 DEF Open, ChainStart, TypeOK
  <2>2. CASE Enter(r)
    <3>1. /\ file' \in Seq(Lines) /\ tail' \in BOOLEAN /\ cut' \in BOOLEAN
          /\ given' \in [Runs -> Nat]
          /\ tail' => file' # <<>> /\ file'[Len(file')].form = "cut"
      <4>1. CASE \E form \in {"good", "cut"} : Enters(r, form)
        BY <4>1, EntersType
      <4>2. CASE UNCHANGED <<file, tail, cut>> /\ given' = [given EXCEPT ![r] = @ + 1]
        BY <4>2 DEF TypeOK, Lines
      <4> QED
        BY <2>2, <4>1, <4>2 DEF Enter, Kept, Lost
    <3>2. given'[r] \in Nat
      BY <3>1
    <3>3. last' \in [Runs -> Hashes] /\ failed' \in [Runs -> BOOLEAN]
      <4>1. <<r, given[r] + 1, "good">> \in Hashes
        BY DEF Hashes, Forms, TypeOK
      <4>2. last' = [last EXCEPT ![r] = <<r, given[r] + 1, "good">>] \/ last' = last
        BY <2>2 DEF Enter, Kept, Lost
      <4>3. failed' = [failed EXCEPT ![r] = TRUE] \/ failed' = failed
        BY <2>2 DEF Enter, Kept, Lost
      <4>4. last' \in [Runs -> Hashes]
        BY <4>1, <4>2 DEF TypeOK
      <4> QED
        BY <4>3, <4>4 DEF TypeOK
    <3>4. phase' \in [Runs -> {"new", "running", "checking", "flushing", "over", "dead"}]
      BY <2>2 DEF Enter, TypeOK
    <3>5. /\ outcome' \in [Runs -> {"none", "failed", "finished", "incomplete"}]
          /\ vouched' \in [Runs -> Nat] /\ overlap' \in BOOLEAN
      BY <2>2, <3>2 DEF Enter, TypeOK
    <3> QED
      BY <1>1, <3>1, <3>3, <3>4, <3>5 DEF TypeOK, Lines
  <2>3. CASE Report(r)
    BY <2>3 DEF Report, logVars, TypeOK
  <2>4. CASE Leave(r)
    <3>1. /\ file' \in Seq(Lines) /\ tail' \in BOOLEAN /\ cut' \in BOOLEAN
          /\ given' \in [Runs -> Nat]
          /\ tail' => file' # <<>> /\ file'[Len(file')].form = "cut"
      <4>1. CASE Enters(r, "cut")
        BY <4>1, EntersType
      <4>2. CASE UNCHANGED <<file, tail, cut, given>>
        BY <4>2 DEF TypeOK, Lines
      <4> QED
        BY <2>4, <4>1, <4>2 DEF Leave
    <3>2. phase' \in [Runs -> {"new", "running", "checking", "flushing", "over", "dead"}]
      BY <2>4 DEF Leave, TypeOK
    <3> QED
      BY <1>1, <2>4, <3>1, <3>2 DEF Leave, TypeOK, Lines
  <2> QED
    BY <1>1, <2>1, <2>2, <2>3, <2>4
<1>2. CASE UNCHANGED vars
  BY <1>2 DEF vars, logVars, TypeOK
<1> QED
  BY <1>1, <1>2, StepShape DEF Next, Finished

\* Nothing that stands in the file is disturbed by a run's step.
LEMMA DiskKeeps ==
  ASSUME TypeOK, NumberInv, FormInv, NEW r \in Runs,
         Open(r) \/ Enter(r) \/ Report(r) \/ Leave(r)
  PROVE  /\ NumberInv' /\ FormInv'
         /\ \A q \in Runs, n \in Nat : Stands(file, q, n) => Stands(file', q, n)
<1>1. CASE \E form : Enters(r, form)
  BY <1>1, LineKeeps
<1>2. CASE /\ UNCHANGED <<file, tail, cut>>
           /\ given' = given \/ given' = [given EXCEPT ![r] = @ + 1]
  <2>1. \A i \in 1..Len(file) : file[i].run \in Runs /\ file[i].n \in Nat
    <3>1. file \in Seq(Lines)
      BY DEF TypeOK, Lines
    <3>2. \A i \in 1..Len(file) : file[i] \in Lines
      BY <3>1
    <3> QED
      BY <3>2 DEF Lines
  <2>2. \A q \in Runs : given[q] \in Nat /\ given'[q] \in Nat /\ given[q] <= given'[q]
    <3>1. \A q \in Runs : given[q] \in Nat
      BY DEF TypeOK
    <3>2. CASE given' = given
      BY <3>1, <3>2
    <3>3. CASE given' = [given EXCEPT ![r] = @ + 1]
      <4>1. \A q \in Runs : given'[q] = IF q = r THEN given[q] + 1 ELSE given[q]
        BY <3>3 DEF TypeOK
      <4> QED
        BY <3>1, <4>1
    <3> QED
      BY <1>2, <3>2, <3>3
  <2>3. \A i \in 1..Len(file) : file[i].n \in 1..given'[file[i].run]
    BY <2>1, <2>2 DEF NumberInv
  <2> QED
    BY <1>2, <2>3 DEF NumberInv, FormInv, Stands
<1> QED
  BY <1>1, <1>2 DEF Open, Enter, Kept, Lost, Report, logVars, Leave

\* The chain stays whole: an entry goes below the line its run chains to, and
\* one that is lost leaves the end of the chain where it was.
LEMMA ChainKeeps ==
  ASSUME TypeOK, FormInv, ChainInv, NEW r \in Runs,
         Open(r) \/ Enter(r) \/ Report(r) \/ Leave(r)
  PROVE  ChainInv'
<1> DEFINE Writers == {q \in Runs : phase'[q] \in {"running", "checking", "flushing"}}
<1>1. Holding' = Writers
  BY DEF Holding
<1> HIDE DEF Writers
<1>2. ASSUME UNCHANGED <<file, overlap>>, Writers \subseteq Holding, cut => cut',
             cut' \/ last' = last
      PROVE  ChainInv'
  <2>1. \A i \in 1..Len(file) : Above(file, i)' = Above(file, i)
    BY <1>2 DEF Above, Hash
  <2>2. LastHash' = LastHash
    BY <1>2 DEF LastHash, Hash
  <2> QED
    BY <1>1, <1>2, <2>1, <2>2 DEF ChainInv
<1>3. CASE Open(r)
  <2>1. Writers \subseteq Holding \union {r}
    BY <1>3 DEF Writers, Holding, Open, TypeOK
  <2>2. CASE Holding # {}
    BY <1>3, <2>2 DEF Open, ChainInv, TypeOK
  <2>3. CASE Holding = {}
    <3>1. UNCHANGED <<file, cut>> /\ overlap' = overlap
      BY <1>3, <2>3 DEF Open, TypeOK
    <3>2. last'[r] = LastHash
      BY <1>3 DEF Open, ChainStart, TypeOK
    <3>3. \A i \in 1..Len(file) : Above(file, i)' = Above(file, i)
      BY <3>1 DEF Above, Hash
    <3>4. LastHash' = LastHash
      BY <3>1 DEF LastHash, Hash
    <3>5. \A q \in Writers : q = r
      BY <2>1, <2>3
    <3> QED
      BY <1>1, <3>1, <3>2, <3>3, <3>4, <3>5 DEF ChainInv
  <2> QED
    BY <2>2, <2>3
<1>4. CASE Enter(r)
  <2>1. Writers \subseteq Holding /\ r \in Holding /\ overlap' = overlap
    BY <1>4 DEF Writers, Holding, Enter, TypeOK
  <2>2. CASE cut' \/ overlap
    <3>1. overlap \/ \A p, q \in Writers : p = q
      BY <2>1 DEF ChainInv
    <3> QED
      BY <1>1, <2>1, <2>2, <3>1 DEF ChainInv
  <2>3. CASE Lost(r) /\ ~cut'
    <3>1. ~Enters(r, "cut")
      BY <2>3 DEF Enters
    <3>2. UNCHANGED <<file, tail, cut>> /\ last' = last
      BY <2>3, <3>1 DEF Lost
    <3>3. UNCHANGED <<file, overlap>> /\ (cut => cut')
      BY <2>1, <3>2
    <3> QED
      BY <1>2, <2>1, <3>2, <3>3
  <2>4. CASE Kept(r) /\ ~cut' /\ ~overlap
    <3> DEFINE k == Len(file')
    <3>1. ~cut /\ ~tail
      BY <2>4 DEF FormInv, Kept, Enters
    <3>2. /\ k = Len(file) + 1 /\ file'[k] = NewLine(r, "good") /\ Len(file) \in Nat
          /\ \A i \in 1..(k - 1) : file'[i] = file[i]
      <4>1. file' = AddLine(r, "good")
        BY <2>4 DEF Kept, Enters
      <4>2. Len(file) \in Nat
        BY DEF TypeOK
      <4> QED
        BY <3>1, <4>1, <4>2, LineAdded
    <3> HIDE DEF k
    <3>3. /\ file'[k].prev = last[r] /\ Hash(file'[k]) = <<r, given[r] + 1, "good">>
      BY <3>1, <3>2 DEF NewLine, Hash
    <3>4. last[r] = LastHash /\ \A q \in Writers : q = r
      BY <2>1, <2>4, <3>1 DEF ChainInv
    <3>5. LastHash = Above(file', k)
      <4>1. CASE Len(file) = 0
        <5>1. file = <<>>
          BY <4>1 DEF TypeOK
        <5> QED
          BY <3>2, <4>1, <5>1 DEF LastHash, Above
      <4>2. CASE Len(file) # 0
        <5>1. file # <<>> /\ file'[k - 1] = file[Len(file)] /\ k # 1
          BY <3>2, <4>2
        <5> QED
          BY <5>1 DEF LastHash, Above
      <4> QED
        BY <4>1, <4>2
    <3>6. ASSUME NEW i \in 1..k PROVE file'[i].prev = Above(file', i)
      <4>1. CASE i = k
        BY <3>3, <3>4, <3>5, <4>1
      <4>2. CASE i # k
        <5>1. i \in 1..Len(file) /\ file'[i] = file[i] /\ (i # 1 => file'[i - 1] = file[i - 1])
          BY <3>2, <4>2
        <5>2. file[i].prev = Above(file, i)
          BY <2>4, <3>1, <5>1 DEF ChainInv
        <5> QED
          BY <5>1, <5>2 DEF Above
      <4> QED
        BY <4>1, <4>2
    <3>7. LastHash' = <<r, given[r] + 1, "good">>
      <4>1. file' # <<>>
        BY <3>2 DEF k
      <4> QED
        BY <3>3, <4>1 DEF LastHash, k, Hash
    <3>8. last'[r] = <<r, given[r] + 1, "good">>
      BY <2>4 DEF Kept, TypeOK
    <3>9. /\ \A i \in 1..Len(file') : file'[i].prev = Above(file', i)
          /\ \A q \in Writers : last'[q] = LastHash'
      BY <3>4, <3>6, <3>7, <3>8 DEF k
    <3>10. \A p, q \in Writers : p = q
      BY <3>4
    <3> QED
      BY <1>1, <3>9, <3>10 DEF ChainInv, Above, Hash
  <2> QED
    BY <1>4, <2>2, <2>3, <2>4 DEF Enter
<1>5. CASE Report(r)
  <2>1. Writers \subseteq Holding
    BY <1>5 DEF Writers, Holding, Report, TypeOK
  <2> QED
    BY <1>2, <1>5, <2>1 DEF Report, logVars
<1>6. CASE Leave(r)
  <2>1. Writers \subseteq Holding /\ overlap' = overlap
    BY <1>6 DEF Writers, Holding, Leave, TypeOK
  <2>2. CASE Enters(r, "cut")
    <3>1. cut'
      BY <2>2 DEF Enters
    <3>2. overlap \/ \A p, q \in Writers : p = q
      BY <2>1 DEF ChainInv
    <3> QED
      BY <1>1, <2>1, <3>1, <3>2 DEF ChainInv
  <2>3. CASE UNCHANGED <<file, tail, cut, given>>
    BY <1>2, <1>6, <2>1, <2>3 DEF Leave
  <2> QED
    BY <1>6, <2>2, <2>3 DEF Leave
<1> QED
  BY <1>3, <1>4, <1>5, <1>6

\* What a run has vouched for, or will if it is asked now, stays in the file.
LEMMA CompleteKeeps ==
  ASSUME TypeOK, NumberInv, FormInv, CompleteInv, NEW r \in Runs,
         Open(r) \/ Enter(r) \/ Report(r) \/ Leave(r)
  PROVE  CompleteInv'
<1>1. \A q \in Runs, n \in Nat : Stands(file, q, n) => Stands(file', q, n)
  BY DiskKeeps
<1>2. \A q \in Runs : given[q] \in Nat /\ vouched[q] \in Nat
  BY DEF TypeOK
<1>3. \A q \in Runs : \A n \in 1..given[q] : n \in Nat
  BY <1>2
<1>4. \A q \in Runs : \A n \in 1..vouched[q] : n \in Nat
  BY <1>2
<1>5. ASSUME NEW q \in Runs, outcome'[q] = outcome[q], vouched'[q] = vouched[q]
      PROVE  outcome'[q] = "finished" => \A n \in 1..vouched'[q] : Stands(file', q, n)
  BY <1>1, <1>4, <1>5 DEF CompleteInv
<1>6. ASSUME NEW q \in Runs \ {r}
      PROVE  /\ phase'[q] = phase[q] /\ given'[q] = given[q] /\ failed'[q] = failed[q]
             /\ outcome'[q] = outcome[q] /\ vouched'[q] = vouched[q]
  <2>1. CASE Open(r)
    BY <2>1 DEF Open, TypeOK
  <2>2. CASE Enter(r)
    BY <2>2 DEF Enter, Kept, Lost, Enters, TypeOK
  <2>3. CASE Report(r)
    BY <2>3 DEF Report, logVars, TypeOK
  <2>4. CASE Leave(r)
    BY <2>4 DEF Leave, Enters, TypeOK
  <2> QED
    BY <2>1, <2>2, <2>3, <2>4
<1>7. ASSUME NEW q \in Runs \ {r}
      PROVE  /\ phase'[q] = "new" => given'[q] = 0
             /\ phase'[q] \in {"running", "checking"} /\ ~failed'[q] =>
                  \A n \in 1..given'[q] : Stands(file', q, n)
             /\ outcome'[q] = "finished" => \A n \in 1..vouched'[q] : Stands(file', q, n)
  BY <1>1, <1>3, <1>5, <1>6 DEF CompleteInv
<1>8. /\ phase'[r] = "new" => given'[r] = 0
      /\ phase'[r] \in {"running", "checking"} /\ ~failed'[r] =>
           \A n \in 1..given'[r] : Stands(file', r, n)
      /\ outcome'[r] = "finished" => \A n \in 1..vouched'[r] : Stands(file', r, n)
  <2>1. CASE Open(r)
    <3>1. given'[r] = 0 /\ outcome'[r] = outcome[r] /\ vouched'[r] = vouched[r]
      BY <2>1 DEF Open, CompleteInv
    <3> QED
      BY <1>5, <3>1
  <2>2. CASE Enter(r)
    <3>1. phase'[r] # "new" /\ (phase'[r] \in {"running", "checking"} => phase[r] \in {"running", "checking"})
      BY <2>2 DEF Enter, TypeOK
    <3>2. outcome'[r] = "finished" => \A n \in 1..vouched'[r] : Stands(file', r, n)
      BY <1>5, <2>2 DEF Enter, TypeOK
    <3>3. CASE Lost(r)
      <4>1. failed'[r]
        BY <3>3 DEF Lost, TypeOK
      <4> QED
        BY <3>1, <3>2, <4>1
    <3>4. CASE Kept(r)
      <4>1. Stands(file', r, given[r] + 1) /\ failed' = failed /\ given'[r] = given[r] + 1
        BY <3>4, LineKeeps DEF Kept, Enters, TypeOK
      <4>2. \A n \in 1..given'[r] : n \in 1..given[r] \/ n = given[r] + 1
        BY <1>2, <4>1
      <4>3. phase'[r] \in {"running", "checking"} /\ ~failed'[r] =>
              \A n \in 1..given[r] : Stands(file', r, n)
        BY <1>1, <1>3, <3>1, <4>1 DEF CompleteInv
      <4> QED
        BY <3>1, <3>2, <4>1, <4>2, <4>3
    <3> QED
      BY <2>2, <3>3, <3>4 DEF Enter
  <2>3. CASE Report(r)
    <3>1. /\ phase'[r] = "flushing" /\ vouched'[r] = given[r]
          /\ outcome'[r] = IF failed[r] THEN "incomplete" ELSE "finished"
      BY <2>3 DEF Report, TypeOK
    <3>2. phase[r] = "checking"
      BY <2>3 DEF Report
    <3> QED
      BY <1>1, <1>3, <3>1, <3>2 DEF CompleteInv
  <2>4. CASE Leave(r)
    <3>1. phase'[r] \in {"over", "dead"} /\ outcome'[r] = outcome[r] /\ vouched'[r] = vouched[r]
      BY <2>4 DEF Leave, TypeOK
    <3> QED
      BY <1>5, <3>1
  <2> QED
    BY <2>1, <2>2, <2>3, <2>4
<1> QED
  BY <1>7, <1>8 DEF CompleteInv, Stands

-----------------------------------------------------------------------------
(* The invariant holds.                                                    *)

\* A day begins with an empty file.
LEMMA InitInv == Init => IInv
<1> SUFFICES ASSUME Init PROVE IInv
  OBVIOUS
<1>1. TypeOK
  <2>1. file \in Seq(Lines) /\ tail = FALSE
    BY DEF Init
  <2>2. last \in [Runs -> Hashes]
    BY DEF Init, Hashes
  <2>3. /\ phase \in [Runs -> {"new", "running", "checking", "flushing", "over", "dead"}]
        /\ failed \in [Runs -> BOOLEAN]
        /\ outcome \in [Runs -> {"none", "failed", "finished", "incomplete"}]
        /\ cut \in BOOLEAN /\ overlap \in BOOLEAN
    BY DEF Init
  <2>4. given \in [Runs -> Nat] /\ vouched \in [Runs -> Nat] /\ flushed \in [Runs -> 0..MaxNet]
    <3>1. 0 \in Nat /\ 0 \in 0..MaxNet
      OBVIOUS
    <3> QED
      BY <3>1 DEF Init
  <2> QED
    BY <2>1, <2>2, <2>3, <2>4 DEF TypeOK, Lines
<1>2. NumberInv /\ FormInv
  BY DEF Init, NumberInv, FormInv
<1>3. ChainInv
  BY DEF Init, ChainInv, Holding
<1>4. CompleteInv
  BY DEF Init, CompleteInv
<1> QED
  BY <1>1, <1>2, <1>3, <1>4 DEF IInv

\* Every step keeps the inductive invariant.
LEMMA NextInv == IInv /\ [Next]_vars => IInv'
<1> SUFFICES ASSUME IInv, [Next]_vars PROVE IInv'
  OBVIOUS
<1> USE DEF IInv
<1>1. TypeOK'
  BY NextType
<1>2. ASSUME NEW r \in Runs, Open(r) \/ Enter(r) \/ Report(r) \/ Leave(r)
      PROVE  NumberInv' /\ FormInv' /\ ChainInv' /\ CompleteInv'
  BY <1>2, DiskKeeps, ChainKeeps, CompleteKeeps
<1>3. CASE UNCHANGED vars
  BY <1>1, <1>3 DEF vars, logVars, NumberInv, FormInv, ChainInv, CompleteInv,
                    Holding, LastHash, Above, Hash, Stands
<1> QED
  BY <1>1, <1>2, <1>3, StepShape DEF Next, Finished

\* Every reachable state satisfies the inductive invariant.
THEOREM LogCorrect == Spec => []IInv
  BY InitInv, NextInv, PTL DEF Spec

\* NewSigned and Write: what the runs of a day leave verifies, through failed
\* writes, crashes and restarts, unless a write was cut short or runs overlapped.
THEOREM ChainVerifiesHolds == Spec => []ChainVerifies
<1>1. ASSUME IInv, ~cut, ~overlap, NEW i \in 1..Len(file)
      PROVE  Fault(file, i) = "none"
  <2>1. file[i].form = "good" /\ file[i].prev = Above(file, i)
    BY <1>1 DEF IInv, FormInv, ChainInv
  <2> QED
    BY <2>1 DEF Fault
<1>2. IInv => ChainVerifies
  BY <1>1 DEF ChainVerifies, Intact
<1> QED
  BY <1>2, LogCorrect, PTL

\* cmdRun's report: a run that says it finished has every entry it was given
\* until then in the log, in order and readable.
THEOREM SuccessIsCompleteHolds == Spec => []SuccessIsComplete
<1>1. ASSUME IInv, NEW r \in Runs, outcome[r] = "finished", NEW n \in 1..vouched[r]
      PROVE  \E i \in 1..Len(file) :
               /\ file[i].run = r /\ file[i].n = n
               /\ file[i].form \in {"good", "joined"}
               /\ file[i].form = "joined" => cut
               /\ \A j \in 1..(i - 1) : file[j].run = r => file[j].n < n
  <2>1. PICK i \in 1..Len(file) : file[i].run = r /\ file[i].n = n /\ file[i].form \in {"good", "joined"}
    BY <1>1 DEF IInv, CompleteInv, Stands
  <2>2. file[i].form = "joined" => cut
    BY <1>1 DEF IInv, FormInv
  <2>3. \A j \in 1..(i - 1) : j \in 1..Len(file) /\ j < i
    <3>1. Len(file) \in Nat
      BY <1>1 DEF IInv, TypeOK
    <3> QED
      BY <3>1
  <2>4. \A j \in 1..(i - 1) : file[j].run = r => file[j].n < n
    BY <1>1, <2>1, <2>3 DEF IInv, NumberInv
  <2> QED
    BY <2>1, <2>2, <2>4
<1>2. IInv => SuccessIsComplete
  BY <1>1 DEF SuccessIsComplete
<1> QED
  BY <1>2, LogCorrect, PTL

-----------------------------------------------------------------------------
(* Tampering.                                                              *)

\* The line VerifyFile reports is the first that has a fault.
LEMMA FirstFault ==
  ASSUME NEW f, Len(f) \in Nat, NEW i \in 1..Len(f), Fault(f, i) # "none",
         \A j \in 1..(i - 1) : Fault(f, j) = "none"
  PROVE  Reported(f) = i
<1> DEFINE First(k) == Fault(f, k) # "none" /\ \A j \in 1..(k - 1) : Fault(f, j) = "none"
<1>1. ~Intact(f)
  BY DEF Intact
<1>2. Reported(f) = CHOOSE k \in 1..Len(f) : First(k)
  BY <1>1 DEF Reported
<1>3. First(i)
  OBVIOUS
<1>4. ASSUME NEW k \in 1..Len(f), First(k) PROVE k = i
  <2>1. ~(k < i) /\ ~(i < k)
    BY <1>4
  <2> QED
    BY <2>1
<1> HIDE DEF First
<1> QED
  BY <1>2, <1>3, <1>4

\* No two lines of the log have one hash, and none has that of an empty log.
LEMMA HashesDiffer ==
  ASSUME TypeOK, NumberInv
  PROVE  /\ \A i, j \in 1..Len(file) : Hash(file[i]) = Hash(file[j]) => i = j
         /\ \A i \in 1..Len(file) : Hash(file[i]) # Genesis
<1>1. \A i \in 1..Len(file) : file[i].run \in Runs /\ file[i].n \in Nat
  <2>1. file \in Seq(Lines)
    BY DEF TypeOK, Lines
  <2>2. \A i \in 1..Len(file) : file[i] \in Lines
    BY <2>1
  <2> QED
    BY <2>2 DEF Lines
<1>2. Len(file) \in Nat
  BY DEF TypeOK
<1>3. ASSUME NEW i \in 1..Len(file), NEW j \in 1..Len(file), Hash(file[i]) = Hash(file[j])
      PROVE  i = j
  <2>1. file[i].run = file[j].run /\ file[i].n = file[j].n
    BY <1>3 DEF Hash
  <2>2. ~(i < j) /\ ~(j < i)
    BY <1>1, <2>1 DEF NumberInv
  <2> QED
    BY <1>2, <2>2
<1>4. \A i \in 1..Len(file) : Hash(file[i]) # Genesis
  BY DEF Hash, Genesis
<1> QED
  BY <1>3, <1>4

\* The lines of a log that verifies are whole and chained.
LEMMA IntactLines ==
  ASSUME Intact(file)
  PROVE  \A i \in 1..Len(file) :
           /\ file[i].form \notin {"cut", "joined", "edited"}
           /\ file[i].prev = Above(file, i)
<1> SUFFICES ASSUME NEW i \in 1..Len(file)
             PROVE  /\ file[i].form \notin {"cut", "joined", "edited"}
                    /\ file[i].prev = Above(file, i)
  OBVIOUS
<1>1. Fault(file, i) = "none"
  BY DEF Intact
<1> QED
  BY <1>1 DEF Fault

\* Up to a line from which on a file was changed nothing is found.
LEMMA SameAbove ==
  ASSUME Intact(file), Len(file) \in Nat, NEW f, NEW i \in 1..Len(file),
         \A j \in 1..(i - 1) : f[j] = file[j]
  PROVE  /\ \A j \in 1..(i - 1) : Fault(f, j) = "none"
         /\ Above(f, i) = Above(file, i)
<1>1. ASSUME NEW j \in 1..(i - 1) PROVE Fault(f, j) = "none"
  <2>1. f[j] = file[j] /\ Above(f, j) = Above(file, j) /\ j \in 1..Len(file)
    BY DEF Above
  <2> QED
    BY <2>1, IntactLines DEF Fault
<1>2. Above(f, i) = Above(file, i)
  BY DEF Above
<1> QED
  BY <1>1, <1>2

\* VerifyFile, over whatever the runs can leave: an edited line is reported at
\* itself, a deleted line at the one that followed it, and two exchanged lines
\* at the first of them, each by its kind.
THEOREM TamperingIsLocatedHolds == Spec => []TamperingIsLocated
<1>1. ASSUME IInv, Intact(file), NEW i \in 1..Len(file)
      PROVE  /\ ReportedAs(Edited(file, i), i, "invalid_signature")
             /\ i < Len(file) => ReportedAs(Without(file, i), i, "chain_break_missing_entry")
             /\ \A j \in (i + 1)..Len(file) :
                  ReportedAs(Swap(file, i, j), i, "chain_break_reordered")
  <2> USE <1>1 DEF IInv
  <2>1. file \in Seq(Lines) /\ Len(file) \in Nat
    BY DEF TypeOK, Lines
  <2>2. \A k \in 1..Len(file) : file[k] \in Lines
    BY <2>1
  <2>3. \A k, j \in 1..Len(file) : Hash(file[k]) = Hash(file[j]) => k = j
    BY HashesDiffer
  <2>4. \A k \in 1..Len(file) : Hash(file[k]) # Genesis
    BY HashesDiffer
  <2>5. \A k \in 1..Len(file) : /\ file[k].form \notin {"cut", "joined", "edited"}
                                /\ file[k].prev = Above(file, k)
    BY IntactLines
  <2>6. ASSUME NEW f, Len(f) \in Nat, i <= Len(f), \A j \in 1..(i - 1) : f[j] = file[j],
               NEW kind, kind # "none", Fault(f, i) = kind
        PROVE  ReportedAs(f, i, kind)
    <3>1. \A j \in 1..(i - 1) : Fault(f, j) = "none"
      BY <2>1, <2>6, SameAbove
    <3> QED
      BY <2>6, <3>1, FirstFault DEF ReportedAs
  <2>7. ReportedAs(Edited(file, i), i, "invalid_signature")
    <3> DEFINE f == Edited(file, i)
    <3>1. f = [file EXCEPT ![i] = [file[i] EXCEPT !.form = "edited"]]
      BY DEF Edited
    <3>2. [file[i] EXCEPT !.form = "edited"] \in Lines
      BY <2>2 DEF Lines, Forms
    <3>3. f \in Seq(Lines) /\ Len(f) = Len(file)
      BY <2>1, <3>1, <3>2
    <3>4. f[i] = [file[i] EXCEPT !.form = "edited"] /\ \A j \in 1..(i - 1) : f[j] = file[j]
      BY <2>1, <3>1
    <3>5. f[i].form = "edited"
      BY <2>2, <3>4 DEF Lines
    <3> HIDE DEF f
    <3>6. Fault(f, i) = "invalid_signature"
      BY <3>5 DEF Fault
    <3> QED
      BY <2>1, <2>6, <3>3, <3>4, <3>6 DEF f
  <2>8. ASSUME i < Len(file)
        PROVE  ReportedAs(Without(file, i), i, "chain_break_missing_entry")
    <3> DEFINE f == Without(file, i)
    <3>1. /\ Len(f) = Len(file) - 1
          /\ \A k \in 1..(i - 1) : f[k] = file[k]
          /\ \A k \in i..(Len(file) - 1) : f[k] = file[k + 1]
      <4> DEFINE a == SubSeq(file, 1, i - 1)
                 b == SubSeq(file, i + 1, Len(file))
      <4>1. a \in Seq(Lines) /\ Len(a) = i - 1 /\ \A k \in 1..(i - 1) : a[k] = file[k]
        BY <2>1, <2>8
      <4>2. /\ b \in Seq(Lines) /\ Len(b) = Len(file) - i
            /\ \A k \in 1..(Len(file) - i) : b[k] = file[i + k]
        BY <2>1, <2>8
      <4> HIDE DEF a, b
      <4>3. f = a \o b
        BY DEF Without, a, b
      <4>4. /\ Len(f) = Len(a) + Len(b)
            /\ \A k \in 1..(Len(a) + Len(b)) :
                 f[k] = IF k <= Len(a) THEN a[k] ELSE b[k - Len(a)]
        <5>1. a \in Seq(Lines) /\ b \in Seq(Lines)
          BY <4>1, <4>2
        <5> QED
          BY <5>1, <4>3, ConcatProperties
      <4>5. Len(f) = Len(file) - 1
        BY <2>1, <4>1, <4>2, <4>4
      <4>6. ASSUME NEW k \in 1..(i - 1) PROVE f[k] = file[k]
        <5>1. k <= Len(a) /\ k \in 1..(Len(a) + Len(b))
          BY <2>1, <4>1, <4>2
        <5>2. f[k] = a[k]
          BY <4>4, <5>1
        <5> QED
          BY <4>1, <5>2
      <4>7. ASSUME NEW k \in i..(Len(file) - 1) PROVE f[k] = file[k + 1]
        <5>1. f[k] = b[k - Len(a)] /\ k - Len(a) = k - i + 1 /\ k - i + 1 \in 1..(Len(file) - i)
          BY <2>1, <4>1, <4>2, <4>4
        <5>2. i + (k - i + 1) = k + 1
          BY <2>1
        <5> QED
          BY <4>2, <5>1, <5>2
      <4> QED
        BY <4>5, <4>6, <4>7
    <3> HIDE DEF f
    <3>2. f[i] = file[i + 1] /\ i + 1 \in 1..Len(file) /\ i \in 1..Len(f) /\ Len(f) \in Nat
      BY <2>1, <2>8, <3>1
    <3>3. f[i].prev = Hash(file[i])
      BY <2>5, <3>2 DEF Above
    <3>4. Above(f, i) = Above(file, i)
      BY <2>1, <3>1, SameAbove
    <3>5. Above(file, i) # Hash(file[i])
      BY <2>1, <2>3, <2>4 DEF Above
    <3>6. \A k \in 1..Len(f) : Hash(f[k]) # Hash(file[i])
      <4>1. ASSUME NEW k \in 1..Len(f) PROVE Hash(f[k]) # Hash(file[i])
        <5>1. CASE k < i
          BY <2>1, <2>3, <3>1, <5>1
        <5>2. CASE ~(k < i)
          <6>1. k \in i..(Len(file) - 1) /\ k + 1 \in 1..Len(file) /\ k + 1 # i
            BY <2>1, <3>1, <5>2
          <6> QED
            BY <2>3, <3>1, <6>1
        <5> QED
          BY <5>1, <5>2
      <4> QED
        BY <4>1
    <3>7. Fault(f, i) = "chain_break_missing_entry"
      BY <2>5, <3>2, <3>3, <3>4, <3>5, <3>6 DEF Fault
    <3> QED
      BY <2>6, <3>1, <3>2, <3>7 DEF f
  <2>9. ASSUME NEW j \in (i + 1)..Len(file)
        PROVE  ReportedAs(Swap(file, i, j), i, "chain_break_reordered")
    <3> DEFINE f == Swap(file, i, j)
    <3>0. j \in 1..Len(file) /\ i < j
      BY <2>1
    <3>1. /\ Len(f) = Len(file) /\ f[i] = file[j] /\ f[j] = file[i]
          /\ \A k \in 1..Len(file) : k # i /\ k # j => f[k] = file[k]
      BY <2>1, <2>2, <3>0 DEF Swap
    <3> HIDE DEF f
    <3>2. \A k \in 1..(i - 1) : f[k] = file[k]
      BY <2>1, <3>0, <3>1
    <3>3. f[i].prev = Hash(file[j - 1]) /\ j - 1 \in 1..Len(file) /\ j # 1
      BY <2>1, <2>5, <3>0, <3>1 DEF Above
    <3>4. Above(f, i) = Above(file, i)
      BY <2>1, <3>2, SameAbove
    <3>5. Above(file, i) # Hash(file[j - 1])
      <4>1. CASE i = 1
        BY <2>4, <3>3, <4>1 DEF Above
      <4>2. CASE i # 1
        <5>1. i - 1 \in 1..Len(file) /\ i - 1 # j - 1
          BY <2>1, <3>0, <4>2
        <5> QED
          BY <2>3, <3>3, <4>2, <5>1 DEF Above
      <4> QED
        BY <4>1, <4>2
    <3>6. \E k \in 1..Len(f) : Hash(f[k]) = Hash(file[j - 1])
      <4>1. CASE j - 1 = i
        BY <3>0, <3>1, <4>1
      <4>2. CASE j - 1 # i
        <5>1. f[j - 1] = file[j - 1] /\ j - 1 \in 1..Len(f)
          BY <3>0, <3>1, <3>3, <4>2
        <5> QED
          BY <5>1
      <4> QED
        BY <4>1, <4>2
    <3>7. Fault(f, i) = "chain_break_reordered"
      BY <2>5, <3>0, <3>1, <3>3, <3>4, <3>5, <3>6 DEF Fault
    <3> QED
      BY <2>1, <2>6, <3>1, <3>2, <3>7 DEF f
  <2> QED
    BY <2>7, <2>8, <2>9
<1>2. IInv => TamperingIsLocated
  BY <1>1 DEF TamperingIsLocated
<1> QED
  BY <1>2, LogCorrect, PTL

-----------------------------------------------------------------------------
(* A call and its answer (A2ARoundTrip).                                    *)

USE RoundTripAssumption

-----------------------------------------------------------------------------
(* The types.                                                              *)

\* A log that gains an entry is still a log.
LEMMA LogType ==
  ASSUME TripTypeOK, NEW a \in Agents, NEW e \in Entries, Logs(a, e)
  PROVE  log' \in [Agents -> SUBSET Entries]
  BY DEF TripTypeOK, Logs

\* The entries the gates make.
LEMMA EntryTypes ==
  ASSUME NEW c \in Calls, NEW leg \in {"request", "response"}, NEW w \in Reasons
  PROVE  Sent(leg, c) \in Entries /\ Received(leg, c) \in Entries /\ Rejected(leg, c, w) \in Entries
  BY DEF Sent, Received, Rejected, Entry, Entries, Reasons

\* The messages they send.
LEMMA MessageTypes ==
  ASSUME NEW c \in Calls
  PROVE  Request(c) \in Messages /\ Answer(c) \in Messages /\ Refusal(c) \in Messages
  BY DEF Request, Answer, Refusal, Messages

\* Why a sender ends its call.
LEMMA FlawIsReason ==
  ASSUME NEW c, NEW m
  PROVE  /\ Flaw(c, m) \in Reasons
         /\ Flaw(c, m) \notin {"reply_timeout", "peer_disconnected", "peer_unreachable"}
  BY DEF Flaw, Reasons

\* A call that ends without an answer keeps the types.
LEMMA SettleType ==
  ASSUME TripTypeOK, NEW c \in Calls, NEW why \in Reasons, Settle(c, why)
  PROVE  /\ stage' \in [Calls -> {"idle", "logged", "posted", "settled"}]
         /\ log' \in [Agents -> SUBSET Entries]
<1>1. (IF why = "peer_unreachable" THEN "request" ELSE "response") \in {"request", "response"}
  OBVIOUS
<1>2. Rejected(IF why = "peer_unreachable" THEN "request" ELSE "response", c, why) \in Entries
  BY <1>1, EntryTypes
<1>3. log' \in [Agents -> SUBSET Entries]
  BY <1>2, LogType DEF Settle
<1> QED
  BY <1>3 DEF Settle, TripTypeOK

\* The bound on what goes amiss.
LEMMA TroubleType ==
  ASSUME TripTypeOK, Trouble \/ NoTrouble
  PROVE  troubles' \in 0 .. MaxTroubles
  BY DEF TripTypeOK, Trouble, NoTrouble

\* A sender's step keeps the types.
LEMMA SenderType ==
  ASSUME TripTypeOK, NEW c \in Calls,
         Sign(c) \/ Post(c) \/ CallTimesOut(c) \/ \E m : Collect(c, m)
  PROVE  TripTypeOK'
<1> USE DEF TripTypeOK
<1>1. CASE Sign(c)
  <2>1. log' \in [Agents -> SUBSET Entries]
    <3>1. Sent("request", c) \in Entries /\ "none" \in Reasons
      BY EntryTypes DEF Reasons
    <3> QED
      BY <1>1, <3>1, LogType DEF Sign
  <2> QED
    BY <1>1, <2>1 DEF Sign
<1>2. CASE Post(c)
  <2>1. troubles' \in 0 .. MaxTroubles
    <3>1. Trouble \/ NoTrouble
      BY <1>2 DEF Post
    <3> QED
      BY <3>1, TroubleType
  <2>2. CASE wire' = wire \union {Request(c)}
    BY <1>2, <2>1, <2>2, MessageTypes, SettleType DEF Post, Reasons
  <2>3. CASE Settle(c, "peer_unreachable") /\ UNCHANGED wire
    BY <1>2, <2>1, <2>3, SettleType DEF Post, Reasons
  <2> QED
    BY <1>2, <2>2, <2>3 DEF Post
<1>3. CASE CallTimesOut(c)
  BY <1>3, SettleType DEF CallTimesOut, Reasons
<1>4. ASSUME NEW m, Collect(c, m)
      PROVE  TripTypeOK'
  <2>1. troubles' \in 0 .. MaxTroubles
    BY <1>4, TroubleType DEF Collect, Arrives
  <2>2. CASE Flaw(c, m) = "none"
    <3>1. m \in wire
      BY <1>4, <2>2 DEF Collect, Arrives, Flaw, Messages
    <3>2. Received("response", c) \in Entries /\ "none" \in Reasons
      BY EntryTypes DEF Reasons
    <3>3. log' \in [Agents -> SUBSET Entries]
      BY <1>4, <2>2, <3>2, LogType DEF Collect
    <3> QED
      BY <1>4, <2>1, <2>2, <3>1, <3>3 DEF Collect
  <2>3. CASE Flaw(c, m) # "none"
    BY <1>4, <2>1, <2>3, FlawIsReason, SettleType DEF Collect
  <2> QED
    BY <2>2, <2>3
<1> QED
  BY <1>1, <1>2, <1>3, <1>4

\* So does a receiver's.
LEMMA ReceiverType ==
  ASSUME TripTypeOK, NEW c \in Calls, Accept(c) \/ Poll(c) \/ Reply(c) \/ Handler(c)
  PROVE  TripTypeOK'
<1> USE DEF TripTypeOK
<1>0. /\ \A leg \in {"request", "response"} :
           Sent(leg, c) \in Entries /\ Received(leg, c) \in Entries
      /\ \A w \in Reasons : \A leg \in {"request", "response"} : Rejected(leg, c, w) \in Entries
      /\ Answer(c) \in Messages /\ Refusal(c) \in Messages
  <2>1. "none" \in Reasons
    BY DEF Reasons
  <2> QED
    BY <2>1, EntryTypes, MessageTypes
<1>1. CASE Accept(c)
  <2>1. troubles' \in 0 .. MaxTroubles
    BY <1>1, TroubleType DEF Accept
  <2>2. ASSUME NEW w \in Reasons, Logs(To[c], Rejected("request", c, w))
        PROVE  log' \in [Agents -> SUBSET Entries]
    BY <1>0, <2>2, LogType
  <2>3. log' \in [Agents -> SUBSET Entries]
    BY <1>1, <2>2 DEF Accept, Refuse, Reasons
  <2>4. /\ wire' \subseteq Messages
        /\ part' \in [Calls -> {"none", "parked", "pending", "signed", "handed", "told", "expired"}]
        /\ handler' \in [Calls -> {"none", "entered", "waiting", "over"}]
        /\ seen' \in [Agents -> SUBSET Calls]
    BY <1>0, <1>1 DEF Accept, Refuse
  <2> QED
    BY <1>1, <2>1, <2>3, <2>4 DEF Accept
<1>2. CASE Poll(c) \/ Reply(c) \/ HandOver(c)
  BY <1>2 DEF Poll, Reply, HandOver
<1>3. CASE LogCall(c)
  <2>1. log' \in [Agents -> SUBSET Entries]
    BY <1>0, <1>3, LogType DEF LogCall
  <2> QED
    BY <1>3, <2>1 DEF LogCall
<1>4. CASE LogAnswer(c)
  <2>1. log' \in [Agents -> SUBSET Entries]
    BY <1>0, <1>4, LogType DEF LogAnswer
  <2> QED
    BY <1>4, <2>1 DEF LogAnswer
<1>5. CASE Respond(c)
  BY <1>0, <1>5 DEF Respond
<1>6. CASE Expire(c)
  <2>1. log' \in [Agents -> SUBSET Entries]
    <3>1. /\ Rejected("response", c, "reply_timeout") \in Entries
          /\ Rejected("response", c, "peer_disconnected") \in Entries
      BY <1>0 DEF Reasons
    <3> QED
      BY <1>6, <3>1, LogType DEF Expire
  <2>2. part' \in [Calls -> {"none", "parked", "pending", "signed", "handed", "told", "expired"}]
    BY <1>6 DEF Expire
  <2>3. handler' \in [Calls -> {"none", "entered", "waiting", "over"}]
    BY <1>6 DEF Expire, Released
  <2> QED
    BY <1>0, <1>6, <2>1, <2>2, <2>3 DEF Expire
<1> QED
  BY <1>1, <1>2, <1>3, <1>4, <1>5, <1>6 DEF Handler

\* And every other.
LEMMA TripNextType ==
  ASSUME TripTypeOK, [TripNext]_tripVars
  PROVE  TripTypeOK'
<1>1. ASSUME NEW a \in Agents, StartGate(a) \/ Die(a)
      PROVE  TripTypeOK'
  <2>1. troubles' \in 0 .. MaxTroubles
    BY <1>1, TroubleType DEF StartGate, Die
  <2>2. handler' \in [Calls -> {"none", "entered", "waiting", "over"}]
    BY <1>1 DEF StartGate, Die, TripTypeOK
  <2> QED
    BY <1>1, <2>1, <2>2 DEF StartGate, Die, TripTypeOK
<1>2. ASSUME NEW m \in wire, Lose(m)
      PROVE  TripTypeOK'
  BY <1>2, TroubleType DEF Lose, TripTypeOK
<1>3. CASE UNCHANGED tripVars
  BY <1>3 DEF tripVars, TripTypeOK
<1> QED
  BY <1>1, <1>2, <1>3, SenderType, ReceiverType DEF TripNext, Sender

-----------------------------------------------------------------------------
(* The inductive invariant.                                                *)

\* What is on the wire is what the gates sent, and an answer is there only
\* once the receiver's agent has given it.
Genuine(m) ==
  \E c \in Calls : \/ m = Request(c) \/ m = Refusal(c)
                   \/ m = Answer(c) /\ part[c] \in {"handed", "told"}
WireInv == \A m \in wire : Genuine(m)

\* The entries that are an outcome of a call.
IsOutcome(e, c) ==
  /\ e.call = c
  /\ \/ e.leg = "response" /\ e.event = "received"
     \/ e.event = "rejected" /\ e.leg = "response" /\ e.why \notin {"reply_timeout", "peer_disconnected"}
     \/ e.event = "rejected" /\ e.why = "peer_unreachable"

\* A call has one outcome once it is settled and none before.
OutcomeInv(c) ==
  IF stage[c] = "settled" THEN \E e : Outcomes(c) = {e} ELSE Outcomes(c) = {}

\* The receiver logged that its response leg failed.
LegFailed(c) ==
  {Rejected("response", c, w) : w \in {"reply_timeout", "peer_disconnected"}} \cap log[To[c]] # {}

\* The answer has left the receiver, or was there for the sender.
Replied(c) ==
  \/ Answer(c) \in wire \/ taken[c] # NoAnswer
  \/ Received("response", c) \in log[From[c]]

\* What the receiver's handlers have done, and what its log says by then.
ReceiverInv(c) ==
  /\ part[c] # "none" \/ handler[c] # "none" => c \in seen[To[c]]
  /\ handler[c] = "waiting" => Received("request", c) \in log[To[c]]
  /\ part[c] = "told" => Sent("response", c) \in log[To[c]]
  /\ LegFailed(c) => handler[c] = "over"
  /\ taken[c] # NoAnswer => taken[c] = Answer(c)
  /\ Replied(c) => /\ handler[c] = "over" /\ part[c] \in {"handed", "told"} /\ ~LegFailed(c)
                   /\ Received("request", c) \in log[To[c]]

CallInv(c) == OutcomeInv(c) /\ ReceiverInv(c)
TripIInv == TripTypeOK /\ WireInv /\ \A c \in Calls : CallInv(c)

\* Messages and entries are of one call.
LEMMA Distinct ==
  ASSUME NEW c, NEW x
  PROVE  /\ Answer(c) = Answer(x) => c = x
         /\ Answer(c) # Refusal(x) /\ Answer(c) # Request(x) /\ Answer(c) # NoAnswer
         /\ \A leg, w : /\ Sent(leg, c).call = c /\ Received(leg, c).call = c
                        /\ Rejected(leg, c, w).call = c
<1>1. Answer(c).re = c /\ Answer(x).re = x
  BY DEF Answer
<1>2. Answer(c).kind = "answer" /\ Refusal(x).kind = "refusal" /\ Request(x).kind = "request"
      /\ NoAnswer.kind = "none"
  BY DEF Answer, Refusal, Request, NoAnswer
<1>3. \A leg, w : /\ Sent(leg, c).call = c /\ Received(leg, c).call = c
                  /\ Rejected(leg, c, w).call = c
  BY DEF Sent, Received, Rejected, Entry
<1> QED
  BY <1>1, <1>2, <1>3

\* What an entry more makes of the outcomes.
LEMMA Noted ==
  ASSUME TripTypeOK, NEW a \in Agents, NEW e, Logs(a, e), NEW c \in Calls
  PROVE  Outcomes(c)' = Outcomes(c) \union (IF From[c] = a /\ IsOutcome(e, c) THEN {e} ELSE {})
<1>1. Outcomes(c) = {x \in log[From[c]] : IsOutcome(x, c)}
  BY DEF Outcomes, IsOutcome
<1>2. Outcomes(c)' = {x \in log'[From[c]] : IsOutcome(x, c)}
  BY DEF Outcomes, IsOutcome
<1>3. log'[From[c]] = IF From[c] = a THEN log[From[c]] \union {e} ELSE log[From[c]]
  BY DEF Logs, TripTypeOK
<1> QED
  BY <1>1, <1>2, <1>3

\* The receiver's entries are no outcomes.
LEMMA NoOutcome ==
  ASSUME NEW c, NEW x
  PROVE  /\ ~IsOutcome(Sent("request", c), x) /\ ~IsOutcome(Sent("response", c), x)
         /\ ~IsOutcome(Received("request", c), x)
         /\ \A w : w # "peer_unreachable" => ~IsOutcome(Rejected("request", c, w), x)
         /\ \A w \in {"reply_timeout", "peer_disconnected"} : ~IsOutcome(Rejected("response", c, w), x)
  BY DEF IsOutcome, Sent, Received, Rejected, Entry

\* A step is about call c: other calls stand where they stood, and at most one
\* log gains an entry, about c.
About(c) ==
  /\ \A x \in Calls \ {c} :
       /\ stage'[x] = stage[x] /\ part'[x] = part[x] /\ handler'[x] = handler[x] /\ taken'[x] = taken[x]
       /\ Answer(x) \in wire' => Answer(x) \in wire
  /\ \A a \in Agents : seen[a] \subseteq seen'[a]
  /\ \/ UNCHANGED log
     \/ \E a \in Agents : \E e : e.call = c /\ Logs(a, e)

\* Other calls keep their invariant.
LEMMA OthersKeep ==
  ASSUME TripTypeOK, NEW c \in Calls, About(c), NEW x \in Calls \ {c}, CallInv(x)
  PROVE  CallInv(x)'
<1>1. \A a \in Agents : \A e : e.call = x => (e \in log'[a] <=> e \in log[a])
  BY DEF About, Logs, TripTypeOK
<1>2. From[x] \in Agents /\ To[x] \in Agents
  OBVIOUS
<1>3. \A leg, w : /\ Sent(leg, x).call = x /\ Received(leg, x).call = x
                  /\ Rejected(leg, x, w).call = x
  BY Distinct
<1>4. /\ \A leg : Received(leg, x) \in log'[From[x]] <=> Received(leg, x) \in log[From[x]]
      /\ \A leg : Received(leg, x) \in log'[To[x]] <=> Received(leg, x) \in log[To[x]]
      /\ \A leg : Sent(leg, x) \in log'[To[x]] <=> Sent(leg, x) \in log[To[x]]
      /\ \A leg, w : Rejected(leg, x, w) \in log'[To[x]] <=> Rejected(leg, x, w) \in log[To[x]]
  BY <1>1, <1>2, <1>3
<1>5. LegFailed(x)' <=> LegFailed(x)
  BY <1>4 DEF LegFailed
<1>6. Outcomes(x)' = Outcomes(x)
  <2>1. Outcomes(x) = {e \in log[From[x]] : IsOutcome(e, x)}
    BY DEF Outcomes, IsOutcome
  <2>2. Outcomes(x)' = {e \in log'[From[x]] : IsOutcome(e, x)}
    BY DEF Outcomes, IsOutcome
  <2>3. \A e : IsOutcome(e, x) => e.call = x
    BY DEF IsOutcome
  <2> QED
    BY <1>1, <1>2, <2>1, <2>2, <2>3
<1>7. OutcomeInv(x)'
  BY <1>6 DEF CallInv, OutcomeInv, About
<1>8. Replied(x)' => Replied(x)
  BY <1>4 DEF Replied, About
<1>9. ReceiverInv(x)'
  BY <1>2, <1>4, <1>5, <1>8 DEF CallInv, ReceiverInv, About
<1> QED
  BY <1>7, <1>9 DEF CallInv

\* The wire stays genuine when a step adds nothing but what gates send and no
\* answer is taken back.
LEMMA WireKeeps ==
  ASSUME WireInv, \A m \in wire' : m \in wire \/ Genuine(m)',
         \A c \in Calls : part[c] \in {"handed", "told"} => part'[c] \in {"handed", "told"}
  PROVE  WireInv'
  BY DEF WireInv, Genuine

-----------------------------------------------------------------------------
(* The sender's steps.                                                     *)

\* A call that ends without an answer has its one outcome.
LEMMA SettleKeeps ==
  ASSUME TripTypeOK, NEW c \in Calls, CallInv(c), stage[c] # "settled",
         NEW why, why \notin {"reply_timeout", "peer_disconnected"}, Settle(c, why)
  PROVE  OutcomeInv(c)'
<1> DEFINE e == Rejected(IF why = "peer_unreachable" THEN "request" ELSE "response", c, why)
<1>1. IsOutcome(e, c)
  BY DEF IsOutcome, Rejected, Entry
<1>2. From[c] \in Agents /\ Logs(From[c], e)
  BY DEF Settle
<1> HIDE DEF e
<1>3. Outcomes(c)' = Outcomes(c) \union {e}
  BY <1>1, <1>2, Noted
<1>4. Outcomes(c) = {}
  BY DEF CallInv, OutcomeInv
<1>5. stage'[c] = "settled"
  BY DEF Settle, TripTypeOK
<1> QED
  BY <1>3, <1>4, <1>5 DEF OutcomeInv

\* A sender's entry leaves the receiver's part of the invariant alone, unless
\* it is the answer's.
LEMMA SenderEntry ==
  ASSUME TripTypeOK, NEW c \in Calls, ReceiverInv(c), NEW e, Logs(From[c], e),
         e # Received("response", c),
         \A w \in {"reply_timeout", "peer_disconnected"} : e # Rejected("response", c, w),
         UNCHANGED <<part, handler, seen, taken>>, Answer(c) \in wire' => Answer(c) \in wire
  PROVE  ReceiverInv(c)'
<1>1. \A a \in Agents : log[a] \subseteq log'[a] /\ log'[a] \subseteq log[a] \union {e}
  BY DEF Logs, TripTypeOK
<1>2. From[c] \in Agents /\ To[c] \in Agents
  OBVIOUS
<1>3. LegFailed(c)' => LegFailed(c)
  BY <1>1, <1>2 DEF LegFailed
<1>4. Replied(c)' => Replied(c)
  BY <1>1, <1>2 DEF Replied
<1> QED
  BY <1>1, <1>2, <1>3, <1>4 DEF ReceiverInv

\* serveSend and the answer it waits for.
LEMMA SenderKeeps ==
  ASSUME TripIInv, NEW c \in Calls, Sign(c) \/ Post(c) \/ CallTimesOut(c)
  PROVE  About(c) /\ CallInv(c)' /\ WireInv'
<1> USE DEF TripIInv
<1>0. From[c] \in Agents /\ CallInv(c)
  OBVIOUS
<1>1. CASE Sign(c)
  <2> DEFINE e == Sent("request", c)
  <2>1. /\ Logs(From[c], e) /\ UNCHANGED <<part, handler, seen, taken, wire>>
        /\ stage' = [stage EXCEPT ![c] = "logged"] /\ stage[c] = "idle"
    BY <1>1 DEF Sign
  <2>2. About(c)
    BY <1>0, <2>1, Distinct DEF About, TripTypeOK
  <2>3. Outcomes(c)' = Outcomes(c)
    BY <1>0, <2>1, Noted, NoOutcome
  <2>4. OutcomeInv(c)'
    BY <1>0, <2>1, <2>3 DEF CallInv, OutcomeInv, TripTypeOK
  <2>5. e # Received("response", c) /\ \A w : e # Rejected("response", c, w)
    BY DEF Sent, Received, Rejected, Entry
  <2>6. ReceiverInv(c)'
    BY <1>0, <2>1, <2>5, SenderEntry DEF CallInv
  <2>7. WireInv'
    BY <2>1, WireKeeps
  <2> QED
    BY <2>2, <2>4, <2>6, <2>7 DEF CallInv
<1>2. ASSUME NEW why, why \in {"peer_unreachable", "peer_http_error"}, Settle(c, why),
             stage[c] # "settled", UNCHANGED <<part, handler, seen, taken, wire>>
      PROVE  About(c) /\ CallInv(c)' /\ WireInv'
  <2> DEFINE e == Rejected(IF why = "peer_unreachable" THEN "request" ELSE "response", c, why)
  <2>1. Logs(From[c], e) /\ stage' = [stage EXCEPT ![c] = "settled"]
    BY <1>2 DEF Settle
  <2>2. e.call = c
    BY Distinct
  <2>3. About(c)
    BY <1>0, <1>2, <2>1, <2>2 DEF About, TripTypeOK
  <2>4. OutcomeInv(c)'
    BY <1>0, <1>2, SettleKeeps
  <2>5. /\ e # Received("response", c)
        /\ \A w \in {"reply_timeout", "peer_disconnected"} : e # Rejected("response", c, w)
    BY <1>2 DEF Received, Rejected, Entry
  <2>6. ReceiverInv(c)'
    BY <1>0, <1>2, <2>1, <2>5, SenderEntry DEF CallInv
  <2>7. WireInv'
    BY <1>2, WireKeeps
  <2> QED
    BY <2>3, <2>4, <2>6, <2>7 DEF CallInv
<1>3. CASE CallTimesOut(c)
  BY <1>2, <1>3 DEF CallTimesOut, GivesUp
<1>4. CASE Post(c)
  <2>1. CASE Settle(c, "peer_unreachable") /\ UNCHANGED wire
    BY <1>2, <1>4, <2>1 DEF Post
  <2>2. CASE stage' = [stage EXCEPT ![c] = "posted"] /\ wire' = wire \union {Request(c)} /\ UNCHANGED log
    <3>1. UNCHANGED <<part, handler, seen, taken>> /\ stage[c] = "logged"
      BY <1>4 DEF Post
    <3>2. \A x \in Calls : Answer(x) \in wire' => Answer(x) \in wire
      BY <2>2, Distinct
    <3>3. About(c)
      BY <2>2, <3>1, <3>2 DEF About, TripTypeOK
    <3>4. OutcomeInv(c)'
      BY <1>0, <2>2, <3>1 DEF CallInv, OutcomeInv, Outcomes, TripTypeOK
    <3>5. Replied(c)' => Replied(c)
      BY <2>2, <3>1, <3>2 DEF Replied
    <3>6. LegFailed(c)' <=> LegFailed(c)
      BY <2>2 DEF LegFailed
    <3>7. ReceiverInv(c)'
      BY <1>0, <2>2, <3>1, <3>5, <3>6 DEF CallInv, ReceiverInv
    <3>8. WireInv'
      BY <2>2, <3>1, WireKeeps DEF Genuine
    <3> QED
      BY <3>3, <3>4, <3>7, <3>8 DEF CallInv
  <2> QED
    BY <1>4, <2>1, <2>2 DEF Post
<1> QED
  BY <1>1, <1>3, <1>4

\* verifyResponse accepts the answer of this call and no other message.
LEMMA FlawlessIsAnswer ==
  ASSUME TripTypeOK, WireInv, NEW c \in Calls, NEW m, Collect(c, m), Flaw(c, m) = "none"
  PROVE  m = Answer(c) /\ Answer(c) \in wire
<1>1. m.kind # "refusal" /\ m.intact /\ m.re = c
  BY DEF Flaw
<1>2. m \in wire
  <2>1. Arrives(c, m)
    BY DEF Collect
  <2>2. ASSUME NEW n \in wire, m = [n EXCEPT !.intact = FALSE]
        PROVE  FALSE
    <3>1. n \in Messages
      BY DEF TripTypeOK
    <3>2. m.intact = FALSE
      BY <2>2, <3>1 DEF Messages
    <3> QED
      BY <1>1, <3>2
  <2> QED
    BY <2>1, <2>2 DEF Arrives, SentOn
<1>3. PICK x \in Calls : m = Request(x) \/ m = Refusal(x) \/ m = Answer(x)
  BY <1>2 DEF WireInv, Genuine
<1>4. m = Answer(x)
  <2>1. Request(x).re = "none" /\ "none" # c /\ Refusal(x).kind = "refusal"
    BY NoneAssumption DEF Request, Refusal
  <2> QED
    BY <1>1, <1>3, <2>1
<1>5. x = c
  BY <1>1, <1>4 DEF Answer
<1> QED
  BY <1>2, <1>4, <1>5

\* The sender takes the answer, or finds it flawed.
LEMMA CollectKeeps ==
  ASSUME TripIInv, NEW c \in Calls, NEW m, Collect(c, m)
  PROVE  About(c) /\ CallInv(c)' /\ WireInv'
<1> USE DEF TripIInv
<1>0. From[c] \in Agents /\ CallInv(c) /\ stage[c] = "posted"
      /\ UNCHANGED <<part, handler, seen, wire>>
  BY DEF Collect
<1>1. WireInv'
  BY <1>0, WireKeeps
<1>2. CASE Flaw(c, m) # "none"
  <2> DEFINE why == Flaw(c, m)
             e == Rejected(IF why = "peer_unreachable" THEN "request" ELSE "response", c, why)
  <2>1. why \notin {"reply_timeout", "peer_disconnected"}
    BY FlawIsReason
  <2>2. Settle(c, why) /\ UNCHANGED taken
    BY <1>2 DEF Collect
  <2> HIDE DEF why
  <2>3. Logs(From[c], e) /\ stage' = [stage EXCEPT ![c] = "settled"]
    BY <2>2 DEF Settle
  <2>4. e.call = c
    BY Distinct
  <2>5. About(c)
    BY <1>0, <2>2, <2>3, <2>4 DEF About, TripTypeOK
  <2>6. OutcomeInv(c)'
    BY <1>0, <2>1, <2>2, SettleKeeps
  <2>7. /\ e # Received("response", c)
        /\ \A w \in {"reply_timeout", "peer_disconnected"} : e # Rejected("response", c, w)
    BY <2>1 DEF Received, Rejected, Entry
  <2>8. ReceiverInv(c)'
    BY <1>0, <2>2, <2>3, <2>7, SenderEntry DEF CallInv
  <2> QED
    BY <1>1, <2>5, <2>6, <2>8 DEF CallInv
<1>3. CASE Flaw(c, m) = "none"
  <2> DEFINE e == Received("response", c)
  <2>1. m = Answer(c) /\ Answer(c) \in wire
    BY <1>3, FlawlessIsAnswer
  <2>2. /\ Logs(From[c], e) /\ taken' = [taken EXCEPT ![c] = Answer(c)]
        /\ stage' = [stage EXCEPT ![c] = "settled"]
    BY <1>3, <2>1 DEF Collect
  <2>3. e.call = c /\ IsOutcome(e, c)
    BY DEF Received, Entry, IsOutcome
  <2>4. About(c)
    BY <1>0, <2>2, <2>3 DEF About, TripTypeOK
  <2>5. Outcomes(c)' = {e}
    <3>1. Outcomes(c)' = Outcomes(c) \union {e}
      BY <1>0, <2>2, <2>3, Noted
    <3>2. Outcomes(c) = {}
      BY <1>0 DEF CallInv, OutcomeInv
    <3> QED
      BY <3>1, <3>2
  <2>6. OutcomeInv(c)'
    BY <2>2, <2>5 DEF OutcomeInv, TripTypeOK
  <2>7. Replied(c)
    BY <2>1 DEF Replied
  <2>8. \A a \in Agents : log[a] \subseteq log'[a] /\ log'[a] \subseteq log[a] \union {e}
    BY <2>2 DEF Logs, TripTypeOK
  <2>9. LegFailed(c)' => LegFailed(c)
    <3>1. \A w : e # Rejected("response", c, w)
      BY DEF Received, Rejected, Entry
    <3> QED
      BY <2>8, <3>1 DEF LegFailed
  <2>10. taken'[c] = Answer(c)
    BY <2>2 DEF TripTypeOK
  <2>11. To[c] \in Agents
    OBVIOUS
  <2>12. ReceiverInv(c)'
    BY <1>0, <2>7, <2>8, <2>9, <2>10, <2>11 DEF CallInv, ReceiverInv
  <2> QED
    BY <1>1, <2>4, <2>6, <2>12 DEF CallInv
<1> QED
  BY <1>2, <1>3

-----------------------------------------------------------------------------
(* The receiver's steps.                                                   *)

\* A receiver's entry is no outcome of the call at its sender, also where an
\* agent calls itself.
LEMMA ReceiverEntry ==
  ASSUME TripTypeOK, NEW c \in Calls, OutcomeInv(c), UNCHANGED stage,
         \/ UNCHANGED log
         \/ \E e : Logs(To[c], e) /\ ~IsOutcome(e, c)
  PROVE  OutcomeInv(c)'
<1>1. CASE UNCHANGED log
  BY <1>1 DEF OutcomeInv, Outcomes
<1>2. CASE \E e : Logs(To[c], e) /\ ~IsOutcome(e, c)
  <2>1. PICK e : Logs(To[c], e) /\ ~IsOutcome(e, c)
    BY <1>2
  <2>2. Outcomes(c)' = Outcomes(c)
    BY <2>1, Noted
  <2> QED
    BY <2>2 DEF OutcomeInv
<1> QED
  BY <1>1, <1>2

\* servePublic admits the call or refuses it.
LEMMA AcceptKeeps ==
  ASSUME TripIInv, NEW c \in Calls, Accept(c)
  PROVE  About(c) /\ CallInv(c)' /\ WireInv'
<1> USE DEF TripIInv
<1>0. /\ To[c] \in Agents /\ From[c] \in Agents /\ CallInv(c)
      /\ UNCHANGED <<stage, taken>>
  BY DEF Accept
<1>1. CASE /\ c \notin seen[To[c]]
           /\ seen' = [seen EXCEPT ![To[c]] = @ \union {c}]
           /\ part' = [part EXCEPT ![c] = "parked"]
           /\ handler' = [handler EXCEPT ![c] = "entered"]
           /\ UNCHANGED <<wire, log>>
  <2>1. part[c] = "none" /\ handler[c] = "none"
    BY <1>0, <1>1 DEF CallInv, ReceiverInv
  <2>2. ~Replied(c) /\ ~LegFailed(c)
    BY <1>0, <2>1 DEF CallInv, ReceiverInv
  <2>3. About(c)
    BY <1>0, <1>1 DEF About, TripTypeOK
  <2>4. OutcomeInv(c)'
    BY <1>0, <1>1, ReceiverEntry DEF CallInv
  <2>5. ~Replied(c)' /\ ~LegFailed(c)'
    BY <1>0, <1>1, <2>2 DEF Replied, LegFailed
  <2>6. part'[c] = "parked" /\ handler'[c] = "entered" /\ c \in seen'[To[c]]
    BY <1>0, <1>1 DEF TripTypeOK
  <2>7. ReceiverInv(c)'
    BY <1>0, <2>5, <2>6 DEF ReceiverInv, CallInv, Replied
  <2>8. WireInv'
    BY <1>1, <2>1, WireKeeps DEF TripTypeOK
  <2> QED
    BY <2>3, <2>4, <2>7, <2>8 DEF CallInv
<1>2. ASSUME NEW w, w \in {"replay", "replay_guard_unavailable", "bad_signature", "inbox_full"},
             Logs(To[c], Rejected("request", c, w)), wire' = wire \union {Refusal(c)},
             UNCHANGED <<part, handler>>, \A a \in Agents : seen[a] \subseteq seen'[a]
      PROVE  About(c) /\ CallInv(c)' /\ WireInv'
  <2> DEFINE e == Rejected("request", c, w)
  <2>1. e.call = c /\ \A x \in Calls : Answer(x) \in wire' => Answer(x) \in wire
    BY <1>2, Distinct
  <2>2. About(c)
    BY <1>0, <1>2, <2>1 DEF About, TripTypeOK
  <2>3. ~IsOutcome(e, c)
    BY <1>2, NoOutcome
  <2>4. OutcomeInv(c)'
    BY <1>0, <1>2, <2>3, ReceiverEntry DEF CallInv
  <2>5. e # Received("response", c) /\ \A v : e # Rejected("response", c, v)
    BY DEF Received, Rejected, Entry
  <2>6. \A a \in Agents : log[a] \subseteq log'[a] /\ log'[a] \subseteq log[a] \union {e}
    BY <1>2 DEF Logs, TripTypeOK
  <2> HIDE DEF e
  <2>7. (LegFailed(c)' => LegFailed(c)) /\ (LegFailed(c) => LegFailed(c)')
    BY <1>0, <2>5, <2>6 DEF LegFailed
  <2>8. Replied(c)' => Replied(c)
    BY <1>0, <2>1, <2>5, <2>6 DEF Replied
  <2>9. ReceiverInv(c)'
    BY <1>0, <1>2, <2>6, <2>7, <2>8 DEF CallInv, ReceiverInv
  <2>10. WireInv'
    BY <1>2, WireKeeps DEF Genuine
  <2> QED
    BY <2>2, <2>4, <2>9, <2>10 DEF CallInv
<1>3. CASE \E w \in {"replay", "replay_guard_unavailable", "bad_signature"} : Refuse(c, w)
  BY <1>2, <1>3 DEF Refuse
<1>4. CASE /\ seen' = [seen EXCEPT ![To[c]] = @ \union {c}]
           /\ Logs(To[c], Rejected("request", c, "inbox_full"))
           /\ wire' = wire \union {Refusal(c)}
           /\ UNCHANGED <<part, handler>>
  <2>1. \A a \in Agents : seen[a] \subseteq seen'[a]
    BY <1>4 DEF TripTypeOK
  <2> QED
    BY <1>2, <1>4, <2>1
<1> QED
  BY <1>1, <1>3, <1>4 DEF Accept

\* serveInbox and serveReply, which log nothing.
LEMMA QuietKeeps ==
  ASSUME TripIInv, NEW c \in Calls, Poll(c) \/ Reply(c) \/ HandOver(c)
  PROVE  About(c) /\ CallInv(c)' /\ WireInv'
<1> USE DEF TripIInv
<1>1. /\ CallInv(c) /\ UNCHANGED <<stage, handler, seen, wire, taken, log>>
      /\ \A x \in Calls \ {c} : part'[x] = part[x]
      /\ part[c] \notin {"none", "handed", "told"}
      /\ part'[c] \notin {"none", "told"}
  BY DEF Poll, Reply, HandOver, TripTypeOK
<1>2. ~Replied(c) /\ ~Replied(c)'
  BY <1>1 DEF CallInv, ReceiverInv, Replied
<1>3. About(c)
  BY <1>1 DEF About
<1>4. OutcomeInv(c)'
  BY <1>1, ReceiverEntry DEF CallInv
<1>5. ReceiverInv(c)'
  BY <1>1, <1>2 DEF CallInv, ReceiverInv, LegFailed
<1>6. WireInv'
  BY <1>1, WireKeeps
<1> QED
  BY <1>3, <1>4, <1>5, <1>6 DEF CallInv

\* The handlers log the request as received and the answer as sent.
LEMMA LoggingKeeps ==
  ASSUME TripIInv, NEW c \in Calls, LogCall(c) \/ LogAnswer(c)
  PROVE  About(c) /\ CallInv(c)' /\ WireInv'
<1> USE DEF TripIInv
<1>0. To[c] \in Agents /\ From[c] \in Agents /\ CallInv(c)
  OBVIOUS
<1>1. PICK e : /\ Logs(To[c], e)
               /\ \/ /\ e = Received("request", c) /\ handler[c] = "entered"
                     /\ handler' = [handler EXCEPT ![c] = "waiting"] /\ UNCHANGED part
                  \/ /\ e = Sent("response", c) /\ part[c] = "handed"
                     /\ part' = [part EXCEPT ![c] = "told"] /\ UNCHANGED handler
  BY DEF LogCall, LogAnswer
<1>2. UNCHANGED <<stage, seen, wire, taken>>
  BY DEF LogCall, LogAnswer
<1>3. e.call = c /\ ~IsOutcome(e, c)
  <2>1. e.call = c
    BY <1>1 DEF Sent, Received, Entry
  <2>2. ~IsOutcome(e, c)
    BY <1>1 DEF IsOutcome, Sent, Received, Entry
  <2> QED
    BY <2>1, <2>2
<1>4. e # Received("response", c) /\ \A v : e # Rejected("response", c, v)
  BY <1>1 DEF Sent, Received, Rejected, Entry
<1>5. About(c)
  BY <1>0, <1>1, <1>2, <1>3 DEF About, TripTypeOK
<1>6. OutcomeInv(c)'
  BY <1>0, <1>1, <1>2, <1>3, ReceiverEntry DEF CallInv
<1>7. /\ \A a \in Agents : log[a] \subseteq log'[a] /\ log'[a] \subseteq log[a] \union {e}
      /\ e \in log'[To[c]]
  BY <1>1 DEF Logs, TripTypeOK
<1>8. (LegFailed(c)' => LegFailed(c)) /\ (LegFailed(c) => LegFailed(c)')
  BY <1>0, <1>4, <1>7 DEF LegFailed
<1>9. Replied(c)' => Replied(c)
  BY <1>0, <1>2, <1>4, <1>7 DEF Replied
<1>10. ReceiverInv(c)'
  <2>1. CASE e = Received("request", c) /\ handler' = [handler EXCEPT ![c] = "waiting"]
             /\ handler[c] = "entered" /\ UNCHANGED part
    <3>1. ~LegFailed(c) /\ ~Replied(c)
      BY <1>0, <2>1 DEF CallInv, ReceiverInv
    <3>2. handler'[c] = "waiting"
      BY <2>1 DEF TripTypeOK
    <3> QED
      BY <1>0, <1>2, <1>7, <1>8, <1>9, <2>1, <3>1, <3>2 DEF CallInv, ReceiverInv
  <2>2. CASE e = Sent("response", c) /\ part[c] = "handed" /\ UNCHANGED handler
             /\ part' = [part EXCEPT ![c] = "told"]
    <3>1. part'[c] = "told"
      BY <2>2 DEF TripTypeOK
    <3> QED
      BY <1>0, <1>2, <1>7, <1>8, <1>9, <2>2, <3>1 DEF CallInv, ReceiverInv
  <2> QED
    BY <1>1, <2>1, <2>2
<1>11. WireInv'
  <2>1. \A x \in Calls : part[x] \in {"handed", "told"} => part'[x] \in {"handed", "told"}
    BY <1>1 DEF TripTypeOK
  <2> QED
    BY <1>2, <2>1, WireKeeps
<1> QED
  BY <1>5, <1>6, <1>10, <1>11 DEF CallInv

\* The handler writes the answer on the peer's connection.
LEMMA RespondKeeps ==
  ASSUME TripIInv, NEW c \in Calls, Respond(c)
  PROVE  About(c) /\ CallInv(c)' /\ WireInv'
<1> USE DEF TripIInv
<1>1. /\ CallInv(c) /\ handler[c] = "waiting" /\ part[c] \in {"handed", "told"}
      /\ handler' = [handler EXCEPT ![c] = "over"] /\ wire' = wire \union {Answer(c)}
      /\ UNCHANGED <<stage, part, seen, taken, log>>
  BY DEF Respond
<1>2. About(c)
  BY <1>1, Distinct DEF About, TripTypeOK
<1>3. OutcomeInv(c)'
  BY <1>1, ReceiverEntry DEF CallInv
<1>4. handler'[c] = "over"
  BY <1>1 DEF TripTypeOK
<1>5. ~LegFailed(c) /\ ~LegFailed(c)'
  BY <1>1 DEF CallInv, ReceiverInv, LegFailed
<1>6. ReceiverInv(c)'
  BY <1>1, <1>4, <1>5 DEF CallInv, ReceiverInv
<1>7. WireInv'
  BY <1>1, WireKeeps DEF Genuine
<1> QED
  BY <1>2, <1>3, <1>6, <1>7 DEF CallInv

\* The handler gives up.
LEMMA ExpireKeeps ==
  ASSUME TripIInv, NEW c \in Calls, Expire(c)
  PROVE  About(c) /\ CallInv(c)' /\ WireInv'
<1> USE DEF TripIInv
<1>0. To[c] \in Agents /\ From[c] \in Agents /\ CallInv(c)
  OBVIOUS
<1>1. PICK w \in {"reply_timeout", "peer_disconnected"} :
        Logs(To[c], Rejected("response", c, w)) /\ (wire' = wire \union {Refusal(c)} \/ UNCHANGED wire)
  BY DEF Expire
<1> DEFINE e == Rejected("response", c, w)
<1>2. /\ handler[c] = "waiting" /\ handler' = [handler EXCEPT ![c] = "over"]
      /\ part' = [part EXCEPT ![c] = IF @ = "pending" THEN "expired" ELSE @]
      /\ UNCHANGED <<stage, seen, taken>>
  BY DEF Expire, Released
<1>3. e.call = c /\ ~IsOutcome(e, c) /\ e # Received("response", c)
  <2>1. e # Received("response", c)
    BY DEF Received, Rejected, Entry
  <2>2. e.call = c
    BY DEF Rejected, Entry
  <2>3. ~IsOutcome(e, c)
    BY <1>1 DEF IsOutcome, Rejected, Entry
  <2> QED
    BY <2>1, <2>2, <2>3
<1>4. \A x \in Calls : Answer(x) \in wire' => Answer(x) \in wire
  BY <1>1, Distinct
<1>5. About(c)
  BY <1>0, <1>1, <1>2, <1>3, <1>4 DEF About, TripTypeOK
<1>6. OutcomeInv(c)'
  BY <1>0, <1>1, <1>2, <1>3, ReceiverEntry DEF CallInv
<1>7. \A a \in Agents : log[a] \subseteq log'[a] /\ log'[a] \subseteq log[a] \union {e}
  BY <1>1 DEF Logs, TripTypeOK
<1> HIDE DEF e
<1>8. Replied(c)' => Replied(c)
  BY <1>0, <1>2, <1>3, <1>4, <1>7 DEF Replied
<1>9. ~Replied(c)
  BY <1>0, <1>2 DEF CallInv, ReceiverInv
<1>10. handler'[c] = "over" /\ part'[c] = (IF part[c] = "pending" THEN "expired" ELSE part[c])
  BY <1>2 DEF TripTypeOK
<1>11. ReceiverInv(c)'
  BY <1>0, <1>2, <1>7, <1>8, <1>9, <1>10 DEF CallInv, ReceiverInv, Replied
<1>12. WireInv'
  <2>1. \A x \in Calls : part[x] \in {"handed", "told"} => part'[x] \in {"handed", "told"}
    BY <1>2 DEF TripTypeOK
  <2>2. \A m \in wire' : m \in wire \/ m = Refusal(c)
    BY <1>1
  <2> QED
    BY <2>1, <2>2, WireKeeps DEF Genuine
<1> QED
  BY <1>5, <1>6, <1>11, <1>12 DEF CallInv

-----------------------------------------------------------------------------
(* The theorems.                                                           *)

\* Gates that start, processes that end and messages that are lost.
World == \/ \E a \in Agents : StartGate(a) \/ Die(a)
         \/ \E m \in wire : Lose(m)
         \/ UNCHANGED tripVars

\* None of these changes a call or an entry.
LEMMA WorldKeeps ==
  ASSUME TripIInv, World
  PROVE  WireInv' /\ \A c \in Calls : CallInv(c)'
<1> USE DEF TripIInv
<1>1. /\ UNCHANGED <<stage, part, seen, taken, log>> /\ wire' \subseteq wire
      /\ \A c \in Calls : handler'[c] = handler[c] \/ (handler[c] # "none" /\ handler'[c] = "over")
  BY DEF World, StartGate, Die, Lose, tripVars, TripTypeOK
<1>2. WireInv'
  BY <1>1, WireKeeps
<1>3. ASSUME NEW c \in Calls
      PROVE  CallInv(c)'
  <2>1. OutcomeInv(c)'
    BY <1>1 DEF CallInv, OutcomeInv, Outcomes
  <2>2. (LegFailed(c)' <=> LegFailed(c)) /\ (Replied(c)' => Replied(c))
    BY <1>1 DEF LegFailed, Replied
  <2>3. ReceiverInv(c)'
    BY <1>1, <2>2 DEF CallInv, ReceiverInv
  <2> QED
    BY <2>1, <2>3 DEF CallInv
<1> QED
  BY <1>2, <1>3

\* The invariant holds in every state.
THEOREM RoundTripCorrect == TripSpec => []TripIInv
<1>1. TripInit => TripIInv
  <2> SUFFICES ASSUME TripInit
               PROVE  TripIInv
    OBVIOUS
  <2>1. TripTypeOK
    BY DEF TripInit, TripTypeOK
  <2>2. WireInv
    BY DEF TripInit, WireInv
  <2>3. ASSUME NEW c \in Calls
        PROVE  CallInv(c)
    <3>1. Outcomes(c) = {} /\ stage[c] = "idle"
      BY DEF TripInit, Outcomes
    <3>2. ~LegFailed(c) /\ ~Replied(c)
      BY DEF TripInit, LegFailed, Replied
    <3> QED
      BY <3>1, <3>2 DEF TripInit, CallInv, OutcomeInv, ReceiverInv
  <2> QED
    BY <2>1, <2>2, <2>3 DEF TripIInv
<1>2. TripIInv /\ [TripNext]_tripVars => TripIInv'
  <2> SUFFICES ASSUME TripIInv, [TripNext]_tripVars
               PROVE  TripIInv'
    OBVIOUS
  <2>1. TripTypeOK /\ \A c \in Calls : CallInv(c)
    BY DEF TripIInv
  <2>2. TripTypeOK'
    BY <2>1, TripNextType
  <2>3. ASSUME NEW c \in Calls, About(c), CallInv(c)', WireInv'
        PROVE  TripIInv'
    <3>1. \A x \in Calls : CallInv(x)'
      BY <2>1, <2>3, OthersKeep
    <3> QED
      BY <2>2, <2>3, <3>1 DEF TripIInv
  <2>4. ASSUME NEW c \in Calls, Sender(c) \/ \E m \in Garbled : Collect(c, m)
        PROVE  TripIInv'
    BY <2>3, <2>4, SenderKeeps, CollectKeeps DEF Sender
  <2>5. ASSUME NEW c \in Calls, Accept(c) \/ Poll(c) \/ Reply(c) \/ Handler(c)
        PROVE  TripIInv'
    BY <2>3, <2>5, AcceptKeeps, QuietKeeps, LoggingKeeps, RespondKeeps, ExpireKeeps DEF Handler
  <2>6. CASE World
    <3>1. WireInv' /\ \A c \in Calls : CallInv(c)'
      BY <2>6, WorldKeeps
    <3> QED
      BY <2>2, <3>1 DEF TripIInv
  <2> QED
    BY <2>4, <2>5, <2>6 DEF TripNext, World
<1> QED
  BY <1>1, <1>2, PTL DEF TripSpec

\* What an agent is given as the answer to its call is the answer the other
\* agent gave to that call (verifyResponse).
THEOREM AnswersMatchHolds == TripSpec => []AnswersMatch
<1>1. TripIInv => AnswersMatch
  <2> SUFFICES ASSUME TripIInv, NEW c \in Calls, taken[c] # NoAnswer
               PROVE  taken[c] = Answer(c) /\ part[c] \in {"handed", "told"}
    BY DEF AnswersMatch
  <2> QED
    BY DEF TripIInv, CallInv, ReceiverInv, Replied
<1> QED
  BY <1>1, RoundTripCorrect, PTL

\* Sender and receiver log one story of every call, whatever the network loses
\* and whoever dies (serveSend, servePublic, serveReply).
THEOREM StoriesAgreeHolds == TripSpec => []StoriesAgree
<1>1. TripIInv => StoriesAgree
  <2> SUFFICES ASSUME TripIInv, NEW c \in Calls
               PROVE  /\ Cardinality(Outcomes(c)) = (IF stage[c] = "settled" THEN 1 ELSE 0)
                      /\ Received("response", c) \in log[From[c]] =>
                           /\ Received("request", c) \in log[To[c]]
                           /\ ~LegFailed(c)
                           /\ Sent("response", c) \in log[To[c]] \/ part[c] = "handed"
    BY DEF StoriesAgree, LegFailed
  <2>1. CallInv(c)
    BY DEF TripIInv
  <2>2. Cardinality(Outcomes(c)) = (IF stage[c] = "settled" THEN 1 ELSE 0)
    BY <2>1, FS_EmptySet, FS_Singleton DEF CallInv, OutcomeInv
  <2>3. Received("response", c) \in log[From[c]] =>
          /\ Received("request", c) \in log[To[c]]
          /\ ~LegFailed(c)
          /\ Sent("response", c) \in log[To[c]] \/ part[c] = "handed"
    BY <2>1 DEF CallInv, ReceiverInv, Replied
  <2> QED
    BY <2>2, <2>3
<1> QED
  BY <1>1, RoundTripCorrect, PTL
=============================================================================
