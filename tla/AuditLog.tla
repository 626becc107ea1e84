------------------------------ MODULE AuditLog ------------------------------
(***************************************************************************)
(* The signed audit log (internal/audit) and how `constle run` vouches for *)
(* it.  The day's file of one agent name is shared by every run of that    *)
(* name; each run's Logger reads the hash of the last line once, when it   *)
(* opens the file, and from then on chains to what it wrote itself.        *)
(*                                                                         *)
(* A line stands for the n-th entry some run passed to Write; its hash is  *)
(* its content, so a line that was cut short, joined to another or edited  *)
(* hashes to something else than the entry did.  Write holds the Logger's  *)
(* mutex from end to end and appends with one write(2): one step.          *)
(*                                                                         *)
(*   new -> running -> checking (terminal entry logged) -> flushing (the   *)
(*   outcome is reported, the sandbox torn down) -> over;  or dead         *)
(***************************************************************************)
EXTENDS Integers, Sequences

CONSTANTS
  Runs,       \* runs of one agent name on one day, all with its DID
  MaxEvents,  \* bound on the entries of a run before the flush
  MaxNet      \* bound on the lines of a run's Squid log

ASSUME BoundAssumption == MaxEvents \in Nat /\ MaxNet \in Nat

Genesis == <<>>
Forms == {"good", "cut", "joined", "edited"}

VARIABLES
  file,      \* the log's lines
  tail,      \* the last line has no newline
  phase,     \* cmdRun
  last,      \* Logger.lastHash
  failed,    \* Logger.writeErr is set
  given,     \* entries passed to Write
  flushed,   \* of them, network events of the flush
  outcome,   \* what the run reported
  vouched,   \* history: entries given when the outcome was reported
  cut,       \* history: some write was cut short
  overlap    \* history: a run opened the log while another had it open

logVars == <<file, tail, last, failed, given, cut>>
vars == <<logVars, phase, flushed, outcome, vouched, overlap>>

Hash(line) == <<line.run, line.n, line.form>>

\* lastLineHash
LastHash == IF file = <<>> THEN Genesis ELSE Hash(file[Len(file)])

Holding == {r \in Runs : phase[r] \in {"running", "checking", "flushing"}}

Init ==
  /\ file = <<>>
  /\ tail = FALSE
  /\ phase = [r \in Runs |-> "new"]
  /\ last = [r \in Runs |-> Genesis]
  /\ failed = [r \in Runs |-> FALSE]
  /\ given = [r \in Runs |-> 0]
  /\ flushed = [r \in Runs |-> 0]
  /\ outcome = [r \in Runs |-> "none"]
  /\ vouched = [r \in Runs |-> 0]
  /\ cut = FALSE
  /\ overlap = FALSE

-----------------------------------------------------------------------------
(* Logger.Write.                                                           *)

\* What the file holds once r's next entry is appended: after a line without
\* a newline the two become one.
AddLine(r, form) ==
  LET line == [run |-> r, n |-> given[r] + 1, prev |-> last[r], form |-> form] IN
  IF tail THEN [file EXCEPT ![Len(file)] =
                  [line EXCEPT !.form = IF form = "good" THEN "joined" ELSE form]]
  ELSE Append(file, line)

\* The hash the next entry chains to after one that was lost: an entry becomes
\* the chain's end only once it is written.
MutChainLost(r) == <<r, given[r] + 1, "good">>
ChainAfterError(r) == last[r]

\* The first error is kept for good.
MutForgetError(r) == FALSE
ErrorAfterSuccess(r) == failed[r]

\* The entry is not written at all, or cut short.
LoseEntry(r) ==
  /\ failed' = [failed EXCEPT ![r] = TRUE]
  /\ last' = [last EXCEPT ![r] = ChainAfterError(r)]
  /\ \/ UNCHANGED <<file, tail, cut>>
     \/ file' = AddLine(r, "cut") /\ tail' = TRUE /\ cut' = TRUE

\* Whether the line of an entry is left without its newline.
TailAfterEntry == FALSE

KeepEntry(r) ==
  /\ file' = AddLine(r, "good")
  /\ tail' = TailAfterEntry
  /\ last' = [last EXCEPT ![r] = <<r, given[r] + 1, "good">>]
  /\ failed' = [failed EXCEPT ![r] = ErrorAfterSuccess(r)]
  /\ UNCHANGED cut

Write(r) ==
  /\ given' = [given EXCEPT ![r] = @ + 1]
  /\ KeepEntry(r) \/ LoseEntry(r)

-----------------------------------------------------------------------------
(* cmdRun.                                                                 *)

\* What the first entry of a run chains to.
ChainStart == LastHash

\* NewSigned: the chain resumes from the last line there is now.
Open(r) ==
  /\ phase[r] = "new"
  /\ phase' = [phase EXCEPT ![r] = "running"]
  /\ last' = [last EXCEPT ![r] = ChainStart]
  /\ overlap' = (overlap \/ Holding # {})
  /\ UNCHANGED <<file, tail, failed, given, cut, flushed, outcome, vouched>>

\* Any entry of the run or of a gate's handler; handlers are not waited for,
\* so some come after the outcome.
LogEvent(r) ==
  /\ r \in Holding
  /\ given[r] < MaxEvents
  /\ Write(r)
  /\ UNCHANGED <<phase, flushed, outcome, vouched, overlap>>

\* The agent has exited: the terminal entry.  A run that failed or was stopped
\* returns its outcome; a clean exit goes on to ask the logger.
Conclude(r) ==
  /\ phase[r] = "running"
  /\ Write(r)
  /\ \/ /\ phase' = [phase EXCEPT ![r] = "checking"]
        /\ UNCHANGED <<outcome, vouched>>
     \/ /\ phase' = [phase EXCEPT ![r] = "flushing"]
        /\ outcome' = [outcome EXCEPT ![r] = "failed"]
        /\ vouched' = [vouched EXCEPT ![r] = given'[r]]
  /\ UNCHANGED <<flushed, overlap>>

\* logger.Err() decides between success and an incomplete log.
Report(r) ==
  /\ phase[r] = "checking"
  /\ phase' = [phase EXCEPT ![r] = "flushing"]
  /\ outcome' = [outcome EXCEPT ![r] = IF failed[r] THEN "incomplete" ELSE "finished"]
  /\ vouched' = [vouched EXCEPT ![r] = given[r]]
  /\ UNCHANGED <<logVars, flushed, overlap>>

\* The deferred teardown turns each line of the Squid log into an entry; the
\* first that fails ends the flush.
FlushLine(r) ==
  /\ phase[r] = "flushing"
  /\ flushed[r] < MaxNet
  /\ flushed' = [flushed EXCEPT ![r] = @ + 1]
  /\ given' = [given EXCEPT ![r] = @ + 1]
  /\ \/ KeepEntry(r) /\ UNCHANGED phase
     \/ LoseEntry(r) /\ phase' = [phase EXCEPT ![r] = "over"]
  /\ UNCHANGED <<outcome, vouched, overlap>>

\* Nothing left to flush, or the Squid log cannot be read; the log is closed.
EndFlush(r) ==
  /\ phase[r] = "flushing"
  /\ phase' = [phase EXCEPT ![r] = "over"]
  /\ UNCHANGED <<logVars, flushed, outcome, vouched, overlap>>

\* The process is killed, in the middle of a write or not.
Crash(r) ==
  /\ r \in Holding
  /\ phase' = [phase EXCEPT ![r] = "dead"]
  /\ \/ UNCHANGED <<file, tail, given, cut>>
     \/ /\ file' = AddLine(r, "cut") /\ tail' = TRUE /\ cut' = TRUE
        /\ given' = [given EXCEPT ![r] = @ + 1]
  /\ UNCHANGED <<last, failed, flushed, outcome, vouched, overlap>>

Finished == (\A r \in Runs : phase[r] \in {"over", "dead"}) /\ UNCHANGED vars

Next ==
  \/ \E r \in Runs :
       \/ Open(r) \/ LogEvent(r) \/ Conclude(r) \/ Report(r)
       \/ FlushLine(r) \/ EndFlush(r) \/ Crash(r)
  \/ Finished

Spec == Init /\ [][Next]_vars

-----------------------------------------------------------------------------
(* VerifyFile.                                                             *)

\* The hash a line must chain to.
Above(f, i) == IF i = 1 THEN Genesis ELSE Hash(f[i - 1])

\* What is wrong with line i, the lines above being in order.
MutAnyLineAbove(f, i) ==
  IF f[i].form \in {"cut", "joined"} THEN "malformed_entry"
  ELSE IF f[i].form = "edited" THEN "invalid_signature"
  ELSE IF f[i].prev = Genesis \/ (\E j \in 1..(i - 1) : Hash(f[j]) = f[i].prev) THEN "none"
  ELSE "chain_break_missing_entry"
Fault(f, i) ==
  IF f[i].form \in {"cut", "joined"} THEN "malformed_entry"
  ELSE IF f[i].form = "edited" THEN "invalid_signature"
  ELSE IF f[i].prev = Above(f, i) THEN "none"
  ELSE IF \E j \in 1..Len(f) : Hash(f[j]) = f[i].prev THEN "chain_break_reordered"
  ELSE "chain_break_missing_entry"

Intact(f) == \A i \in 1..Len(f) : Fault(f, i) = "none"

\* The first line with a fault is the one reported; 0 when there is none.
Reported(f) ==
  IF Intact(f) THEN 0
  ELSE CHOOSE i \in 1..Len(f) : /\ Fault(f, i) # "none"
                                /\ \A j \in 1..(i - 1) : Fault(f, j) = "none"
ReportedAs(f, i, kind) == Reported(f) = i /\ Fault(f, i) = kind

-----------------------------------------------------------------------------
(* Properties.                                                             *)

Hashes == {Genesis} \union (Runs \X Nat \X Forms)

TypeOK ==
  /\ file \in Seq([run : Runs, n : Nat, prev : Hashes, form : Forms])
  /\ tail \in BOOLEAN
  /\ phase \in [Runs -> {"new", "running", "checking", "flushing", "over", "dead"}]
  /\ last \in [Runs -> Hashes]
  /\ failed \in [Runs -> BOOLEAN]
  /\ given \in [Runs -> Nat]
  /\ flushed \in [Runs -> 0..MaxNet]
  /\ outcome \in [Runs -> {"none", "failed", "finished", "incomplete"}]
  /\ vouched \in [Runs -> Nat]
  /\ cut \in BOOLEAN /\ overlap \in BOOLEAN
  /\ tail => file # <<>> /\ file[Len(file)].form = "cut"

\* What the runs of a day leave verifies, through failed writes, crashes and
\* restarts, as long as no write was cut short and no two runs overlapped: an
\* entry that was lost leaves no hole in the chain.
ChainVerifies == cut \/ overlap \/ Intact(file)

\* A run that reports success has every entry it was given until then in the
\* log, in order and readable, unless another run left a torn line that one of
\* them was joined to.
SuccessIsComplete ==
  \A r \in Runs : outcome[r] = "finished" =>
    \A n \in 1..vouched[r] : \E i \in 1..Len(file) :
      /\ file[i].run = r /\ file[i].n = n
      /\ file[i].form \in {"good", "joined"}
      /\ file[i].form = "joined" => cut
      /\ \A j \in 1..(i - 1) : file[j].run = r => file[j].n < n

\* What VerifyFile says of a log that was intact names the line and the kind:
\* a deleted line at the one that followed it, two exchanged lines at the
\* first of them, an edited line at itself.
Without(f, i)  == SubSeq(f, 1, i - 1) \o SubSeq(f, i + 1, Len(f))
Swap(f, i, j)  == [f EXCEPT ![i] = f[j], ![j] = f[i]]
Edited(f, i)   == [f EXCEPT ![i].form = "edited"]
TamperingIsLocated ==
  Intact(file) =>
    \A i \in 1..Len(file) :
      /\ ReportedAs(Edited(file, i), i, "invalid_signature")
      /\ i < Len(file) => ReportedAs(Without(file, i), i, "chain_break_missing_entry")
      /\ \A j \in (i + 1)..Len(file) :
           ReportedAs(Swap(file, i, j), i, "chain_break_reordered")
=============================================================================
