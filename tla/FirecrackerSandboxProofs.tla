---------------------- MODULE FirecrackerSandboxProofs ----------------------
(***************************************************************************)
(* Proofs about FirecrackerSandbox, for every set of runs and of PIDs, any *)
(* number of faults, crashes and reboots, and PIDs given out again as soon *)
(* as they are free.                                                       *)
(*                                                                         *)
(* Two facts carry them.  Whoever keeps the PID of a process that lives    *)
(* keeps the right one (Traced): its own constle while that lives, and the *)
(* state file once it is written and parses.  And nobody but Start adds to *)
(* a run, so that a list of removals that was complete when it was drawn   *)
(* up remains so until each of them has been carried out (Clear).          *)
(***************************************************************************)
EXTENDS FirecrackerSandbox, TLAPS

-----------------------------------------------------------------------------
(* Lists of removals.                                                      *)

Cmds == [run : Runs, what : Whats]
Lists(s, c) == \E i \in 1 .. Len(s) : s[i] = c
All(s, v, whats) == \A i \in 1 .. Len(s) : s[i].run = v /\ s[i].what \in whats

\* An empty list.
LEMMA Empty ==
  /\ <<>> \in Seq(Cmds) /\ Len(<<>>) = 0 /\ \A c : ~Lists(<<>>, c)
  /\ \A i \in 1 .. Len(<<>>) : FALSE
<1>1. <<>> \in Seq(Cmds) /\ Len(<<>>) = 0
  OBVIOUS
<1>2. \A i \in 1 .. Len(<<>>) : FALSE
  BY <1>1
<1> QED BY <1>1, <1>2 DEF Lists

\* What is undone of a run, whole.
LEMMA TeardownFits ==
  ASSUME NEW v \in Runs
  PROVE  /\ Teardown(v) \in Seq(Cmds) /\ Teardown(v) # <<>>
         /\ All(Teardown(v), v, {"vm", "squid", "jail", "net"})
         /\ \A what \in {"vm", "squid", "jail", "net"} : Lists(Teardown(v), Do(v, what))
<1> DEFINE t == Teardown(v)
<1>1. /\ Do(v, "vm") \in Cmds /\ Do(v, "squid") \in Cmds
      /\ Do(v, "jail") \in Cmds /\ Do(v, "net") \in Cmds
      /\ \A what : Do(v, what).run = v /\ Do(v, what).what = what
  BY DEF Cmds, Whats, Do
<1>2. /\ t \in Seq(Cmds) /\ Len(t) = 4
      /\ t[1] = Do(v, "vm") /\ t[2] = Do(v, "squid") /\ t[3] = Do(v, "jail") /\ t[4] = Do(v, "net")
  BY <1>1 DEF Teardown
<1> HIDE DEF t
<1>3. \A i \in 1 .. Len(t) : i \in {1, 2, 3, 4}
  BY <1>2
<1>4. All(t, v, {"vm", "squid", "jail", "net"})
  BY <1>1, <1>2, <1>3 DEF All
<1>5. 1 \in 1 .. Len(t) /\ 2 \in 1 .. Len(t) /\ 3 \in 1 .. Len(t) /\ 4 \in 1 .. Len(t)
  BY <1>2
<1>6. \A what \in {"vm", "squid", "jail", "net"} : Lists(t, Do(v, what))
  BY <1>2, <1>5 DEF Lists
<1>7. t # <<>>
  BY <1>6, Empty
<1> QED BY <1>2, <1>4, <1>6, <1>7 DEF t

Steps == {"network", "squid", "image", "chroot", "launch", "boot", "state", "record"}

\* What each failure of Start undoes of the run.
LEMMA RollbackFits ==
  ASSUME NEW r \in Runs, NEW step \in Steps
  PROVE  /\ Rollback(r, step) \in Seq(Cmds)
         /\ All(Rollback(r, step), r, {"pid", "child", "jail", "net"})
         /\ \A i \in 1 .. Len(Rollback(r, step)) :
              Rollback(r, step)[i].what = "child" => i = 1 /\ step \in {"boot", "state", "record"}
         /\ Lists(Rollback(r, step), Do(r, "net"))
         /\ step \notin {"network", "squid"} => Lists(Rollback(r, step), Do(r, "pid"))
         /\ step \in {"launch", "boot", "state", "record"} => Lists(Rollback(r, step), Do(r, "jail"))
         /\ step \in {"boot", "state", "record"} => Lists(Rollback(r, step), Do(r, "child"))
<1> DEFINE t == Rollback(r, step)
<1>1. /\ Do(r, "pid") \in Cmds /\ Do(r, "child") \in Cmds
      /\ Do(r, "jail") \in Cmds /\ Do(r, "net") \in Cmds
      /\ \A what : Do(r, what).run = r /\ Do(r, what).what = what
  BY DEF Cmds, Whats, Do
<1>2. CASE step \in {"network", "squid"}
  <2>1. t \in Seq(Cmds) /\ Len(t) = 1 /\ t[1] = Do(r, "net")
    BY <1>1, <1>2 DEF Rollback
  <2> HIDE DEF t
  <2>2. \A i \in 1 .. Len(t) : i = 1
    BY <2>1
  <2>3. 1 \in 1 .. Len(t)
    BY <2>1
  <2>4. Lists(t, Do(r, "net")) /\ All(t, r, {"pid", "child", "jail", "net"})
    BY <1>1, <2>1, <2>2, <2>3 DEF Lists, All
  <2> QED BY <1>1, <1>2, <2>1, <2>2, <2>4 DEF t
<1>3. CASE step \in {"image", "chroot"}
  <2>1. t \in Seq(Cmds) /\ Len(t) = 2 /\ t[1] = Do(r, "pid") /\ t[2] = Do(r, "net")
    BY <1>1, <1>3 DEF Rollback, CleanupNet
  <2> HIDE DEF t
  <2>2. \A i \in 1 .. Len(t) : i \in {1, 2}
    BY <2>1
  <2>3. 1 \in 1 .. Len(t) /\ 2 \in 1 .. Len(t)
    BY <2>1
  <2>4. Lists(t, Do(r, "net")) /\ Lists(t, Do(r, "pid")) /\ All(t, r, {"pid", "child", "jail", "net"})
    BY <1>1, <2>1, <2>2, <2>3 DEF Lists, All
  <2> QED BY <1>1, <1>3, <2>1, <2>2, <2>4 DEF t
<1>4. CASE step = "launch"
  <2>1. t \in Seq(Cmds) /\ Len(t) = 3 /\ t[1] = Do(r, "jail") /\ t[2] = Do(r, "pid") /\ t[3] = Do(r, "net")
    BY <1>1, <1>4 DEF Rollback, CleanupNet
  <2> HIDE DEF t
  <2>2. \A i \in 1 .. Len(t) : i \in {1, 2, 3}
    BY <2>1
  <2>3. 1 \in 1 .. Len(t) /\ 2 \in 1 .. Len(t) /\ 3 \in 1 .. Len(t)
    BY <2>1
  <2>4. /\ Lists(t, Do(r, "net")) /\ Lists(t, Do(r, "pid")) /\ Lists(t, Do(r, "jail"))
        /\ All(t, r, {"pid", "child", "jail", "net"})
    BY <1>1, <2>1, <2>2, <2>3 DEF Lists, All
  <2> QED BY <1>1, <1>4, <2>1, <2>2, <2>4 DEF t
<1>5. CASE step \in {"boot", "state", "record"}
  <2>1. /\ t \in Seq(Cmds) /\ Len(t) = 4
        /\ t[1] = Do(r, "child") /\ t[2] = Do(r, "jail") /\ t[3] = Do(r, "pid") /\ t[4] = Do(r, "net")
    BY <1>1, <1>5 DEF Rollback, CleanupNet
  <2> HIDE DEF t
  <2>2. \A i \in 1 .. Len(t) : i \in {1, 2, 3, 4}
    BY <2>1
  <2>3. 1 \in 1 .. Len(t) /\ 2 \in 1 .. Len(t) /\ 3 \in 1 .. Len(t) /\ 4 \in 1 .. Len(t)
    BY <2>1
  <2>4. /\ Lists(t, Do(r, "net")) /\ Lists(t, Do(r, "pid")) /\ Lists(t, Do(r, "jail")) /\ Lists(t, Do(r, "child"))
        /\ All(t, r, {"pid", "child", "jail", "net"})
    BY <1>1, <2>1, <2>2, <2>3 DEF Lists, All
  <2>5. \A i \in 1 .. Len(t) : t[i].what = "child" => i = 1
    BY <1>1, <2>1, <2>2
  <2> QED BY <1>5, <2>1, <2>4, <2>5 DEF t
<1> QED BY <1>2, <1>3, <1>4, <1>5 DEF Steps

\* A list without its head.
LEMMA TailKeeps ==
  ASSUME NEW s \in Seq(Cmds), s # <<>>
  PROVE  /\ Head(s) \in Cmds /\ Tail(s) \in Seq(Cmds)
         /\ Len(s) \in Nat \ {0} /\ 1 \in 1 .. Len(s) /\ Head(s) = s[1]
         /\ Len(Tail(s)) = Len(s) - 1
         /\ \A i \in 1 .. Len(Tail(s)) : i + 1 \in 1 .. Len(s) /\ Tail(s)[i] = s[i + 1]
         /\ \A c : Lists(s, c) => c = Head(s) \/ Lists(Tail(s), c)
         /\ \A c : Lists(Tail(s), c) => Lists(s, c)
<1>1. /\ Len(s) \in Nat /\ Len(s) # 0 /\ Head(s) = s[1] /\ Head(s) \in Cmds
      /\ Tail(s) \in Seq(Cmds) /\ Len(Tail(s)) = Len(s) - 1
  OBVIOUS
<1>2. \A i \in 1 .. Len(Tail(s)) : i + 1 \in 1 .. Len(s) /\ Tail(s)[i] = s[i + 1]
  BY <1>1
<1>3. \A i \in 1 .. Len(s) : i = 1 \/ (i - 1 \in 1 .. Len(Tail(s)) /\ Tail(s)[i - 1] = s[i])
  BY <1>1
<1>4. 1 \in 1 .. Len(s)
  BY <1>1
<1>5. \A c : Lists(s, c) => c = Head(s) \/ Lists(Tail(s), c)
  BY <1>1, <1>3 DEF Lists
<1>6. \A c : Lists(Tail(s), c) => Lists(s, c)
  BY <1>2 DEF Lists
<1> QED BY <1>1, <1>2, <1>4, <1>5, <1>6

-----------------------------------------------------------------------------
(* The types.                                                              *)

Process == [bin : {"vm", "squid", "zombie"}, run : Runs] \union {NoProc}

\* What a process can be.
LEMMA Kinds ==
  /\ \A r \in Runs : /\ Vm(r) \in Process /\ Squid(r) \in Process /\ Zombie(r) \in Process
                     /\ Vm(r) # NoProc /\ Squid(r) # NoProc /\ Zombie(r) # NoProc
                     /\ Vm(r).bin = "vm" /\ Squid(r).bin = "squid" /\ Zombie(r).bin = "zombie"
                     /\ Vm(r).run = r /\ Squid(r).run = r /\ Zombie(r).run = r
  /\ NoProc \in Process /\ NoProc.bin = "none"
  /\ \A x \in Process : x = NoProc \/ \E r \in Runs : x \in {Vm(r), Squid(r), Zombie(r)}
<1>1. ASSUME NEW x \in Process, x # NoProc
      PROVE  \E r \in Runs : x \in {Vm(r), Squid(r), Zombie(r)}
  <2>1. x.run \in Runs /\ x = [bin |-> x.bin, run |-> x.run] /\ x.bin \in {"vm", "squid", "zombie"}
    BY <1>1 DEF Process
  <2> QED BY <2>1 DEF Vm, Squid, Zombie
<1>2. NoProc \in Process /\ NoProc.bin = "none"
  BY DEF NoProc, Process
<1>3. \A r \in Runs : /\ Vm(r) \in Process /\ Squid(r) \in Process /\ Zombie(r) \in Process
                      /\ Vm(r).bin = "vm" /\ Squid(r).bin = "squid" /\ Zombie(r).bin = "zombie"
                      /\ Vm(r).run = r /\ Squid(r).run = r /\ Zombie(r).run = r
  BY DEF Vm, Squid, Zombie, Process
<1> QED BY <1>1, <1>2, <1>3

\* What is left of a process that ends.
LEMMA EndedFacts ==
  /\ \A r \in Runs : /\ Ended(Vm(r)) = IF Alive(r) THEN Zombie(r) ELSE NoProc
                     /\ Ended(Squid(r)) = NoProc /\ Ended(Zombie(r)) = Zombie(r)
  /\ Ended(NoProc) = NoProc
  /\ \A x \in Process : Ended(x) \in Process
<1>1. \A r \in Runs : /\ Ended(Vm(r)) = IF Alive(r) THEN Zombie(r) ELSE NoProc
                      /\ Ended(Squid(r)) = NoProc /\ Ended(Zombie(r)) = Zombie(r)
  BY Kinds DEF Ended
<1>2. Ended(NoProc) = NoProc
  BY Kinds DEF Ended
<1> QED BY <1>1, <1>2, Kinds

\* The operator is no run, and the numbers of no process are no PIDs.
LEMMA Apart ==
  /\ Operator \notin Runs /\ NoRun \notin Runs /\ Operator \in Procs /\ Runs \subseteq Procs
  /\ NoPid \notin Pids /\ NoPids \in PidPairs /\ NoPids.vm = NoPid /\ NoPids.squid = NoPid
  /\ Torn \notin PidPairs /\ Torn.vm \notin Pids /\ Torn.squid \notin Pids /\ NoPids # Torn
  /\ \A p \in Pids : p \in Nat
BY FirecrackerAssumption DEF Procs, NoPid, NoPids, Torn, PidPairs

\* The types, by variable.
LEMMA TypeFacts ==
  ASSUME TypeOK
  PROVE  /\ pc \in [Runs -> PCs] /\ pending \in [Runs -> SUBSET Runs]
         /\ todo \in [Procs -> Seq(Cmds)] /\ aim \in [Procs -> PidPairs \union {Torn}]
         /\ failed \in [Procs -> BOOLEAN] /\ proc \in [Pids -> Process]
         /\ own \in [Runs -> PidPairs] /\ host \in [Runs -> SUBSET {"tap", "nft"}]
         /\ jail \in [Runs -> {"absent", "bare", "image", "code"}]
         /\ dir \in [Runs -> SUBSET {"dir", "log", "image", "state"}]
         /\ young \in [Runs -> BOOLEAN] /\ rec \in [Runs -> PidPairs \union {Torn}]
         /\ guest \in [Runs -> {"none", "running", "wrote", "died"}]
         /\ kill \in [Runs -> {"none", "rung", "asked", "done"}]
         /\ report \in [Runs -> {"none", "notStarted", "noChroot", "noListener", "code", "killed", "lost"}]
         /\ stopRun \in Runs \union {NoRun} /\ troubles \in 0 .. MaxTroubles
         /\ robbed \subseteq Runs /\ slow \subseteq Runs /\ strays \subseteq Runs /\ cleared \subseteq Runs
BY DEF TypeOK, Cmds, Process

\* A signal.
LEMMA SignalType ==
  ASSUME TypeOK, NEW p \in Pids, Signal(p)
  PROVE  proc' \in [Pids -> Process] /\ guest' \in [Runs -> {"none", "running", "wrote", "died"}]
<1>1. proc' \in [Pids -> Process]
  BY TypeFacts, EndedFacts DEF Signal
<1> QED BY <1>1, TypeFacts DEF Signal

\* A PID of a pair.
LEMMA PairFacts ==
  ASSUME NEW x \in PidPairs
  PROVE  /\ x.vm \in Pids \union {NoPid} /\ x.squid \in Pids \union {NoPid}
         /\ \A p \in Pids : [x EXCEPT !.vm = p] \in PidPairs /\ [x EXCEPT !.squid = p] \in PidPairs
BY DEF PidPairs

\* A fork.
LEMMA ForkVm ==
  ASSUME TypeOK, NEW r \in Runs, Fork(r, "vm", "vm")
  PROVE  \E p \in Pids : /\ proc[p] = NoProc /\ proc' = [proc EXCEPT ![p] = Vm(r)]
                         /\ own' = [own EXCEPT ![r] = [own[r] EXCEPT !.vm = p]]
                         /\ proc' \in [Pids -> Process] /\ own' \in [Runs -> PidPairs]
<1>1. PICK p \in Pids : /\ proc[p] = NoProc /\ proc' = [proc EXCEPT ![p] = [bin |-> "vm", run |-> r]]
                        /\ own' = [own EXCEPT ![r].vm = p]
  BY DEF Fork, Free
<1>2. [bin |-> "vm", run |-> r] = Vm(r)
  BY DEF Vm
<1>3. own[r] \in PidPairs
  BY TypeFacts
<1>4. own' = [own EXCEPT ![r] = [own[r] EXCEPT !.vm = p]]
  BY <1>1
<1>5. proc' \in [Pids -> Process]
  BY <1>1, <1>2, TypeFacts, Kinds
<1>6. own' \in [Runs -> PidPairs]
  BY <1>3, <1>4, TypeFacts, PairFacts
<1> QED BY <1>1, <1>2, <1>4, <1>5, <1>6

\* A fork of a Squid.
LEMMA ForkSquid ==
  ASSUME TypeOK, NEW r \in Runs, Fork(r, "squid", "squid")
  PROVE  \E p \in Pids : /\ proc[p] = NoProc /\ proc' = [proc EXCEPT ![p] = Squid(r)]
                         /\ own' = [own EXCEPT ![r] = [own[r] EXCEPT !.squid = p]]
                         /\ proc' \in [Pids -> Process] /\ own' \in [Runs -> PidPairs]
<1>1. PICK p \in Pids : /\ proc[p] = NoProc /\ proc' = [proc EXCEPT ![p] = [bin |-> "squid", run |-> r]]
                        /\ own' = [own EXCEPT ![r].squid = p]
  BY DEF Fork, Free
<1>2. [bin |-> "squid", run |-> r] = Squid(r)
  BY DEF Squid
<1>3. own[r] \in PidPairs
  BY TypeFacts
<1>4. own' = [own EXCEPT ![r] = [own[r] EXCEPT !.squid = p]]
  BY <1>1
<1>5. proc' \in [Pids -> Process]
  BY <1>1, <1>2, TypeFacts, Kinds
<1>6. own' \in [Runs -> PidPairs]
  BY <1>3, <1>4, TypeFacts, PairFacts
<1> QED BY <1>1, <1>2, <1>4, <1>5, <1>6

\* Troubles are counted up to their bound.
LEMMA BoundsKept ==
  ASSUME TypeOK
  PROVE  /\ \A r : Trouble(r) => troubles' \in 0 .. MaxTroubles
         /\ NoTrouble => troubles' \in 0 .. MaxTroubles
BY FirecrackerAssumption DEF TypeOK, Trouble, NoTrouble

Kinds7 == {"none", "notStarted", "noChroot", "noListener", "code", "killed", "lost"}

\* The steps of Start: on, or back.
LEMMA ProceedType ==
  ASSUME TypeOK, NEW r \in Runs, NEW next \in PCs, Proceed(r, next)
  PROVE  /\ pc' \in [Runs -> PCs] /\ todo' \in [Procs -> Seq(Cmds)] /\ failed' \in [Procs -> BOOLEAN]
         /\ report' \in [Runs -> Kinds7]
BY TypeFacts DEF Proceed, Goto, Kinds7

\* A step of Start that fails.
LEMMA GiveUpType ==
  ASSUME TypeOK, NEW r \in Runs, NEW step \in Steps, GiveUp(r, step)
  PROVE  /\ pc' \in [Runs -> PCs] /\ todo' \in [Procs -> Seq(Cmds)] /\ failed' \in [Procs -> BOOLEAN]
         /\ report' \in [Runs -> Kinds7]
<1>1. Rollback(r, step) \in Seq(Cmds)
  BY RollbackFits
<1> QED BY <1>1, TypeFacts, Apart DEF GiveUp, Goto, Kinds7, PCs

\* Stop.
LEMMA BeginStopType ==
  ASSUME TypeOK, NEW r \in Runs, BeginStop(r)
  PROVE  /\ pc' \in [Runs -> PCs] /\ todo' \in [Procs -> Seq(Cmds)] /\ failed' \in [Procs -> BOOLEAN]
         /\ aim' \in [Procs -> PidPairs \union {Torn}]
<1>1. Teardown(r) \in Seq(Cmds)
  BY TeardownFits
<1> QED BY <1>1, TypeFacts, Apart DEF BeginStop, Goto, PCs

\* What a step of Start does.
StartFrame == <<pending, aim, kill, stopRun, history>>
\* Whatever a step of Start does keeps the types.
LEMMA StartType ==
  ASSUME TypeOK, NEW r \in Runs, UNCHANGED StartFrame, NEW next \in PCs, NEW step \in Steps,
         Proceed(r, next) \/ GiveUp(r, step),
         proc' \in [Pids -> Process], own' \in [Runs -> PidPairs],
         host' \in [Runs -> SUBSET {"tap", "nft"}],
         jail' \in [Runs -> {"absent", "bare", "image", "code"}],
         dir' \in [Runs -> SUBSET {"dir", "log", "image", "state"}],
         young' \in [Runs -> BOOLEAN], rec' \in [Runs -> PidPairs \union {Torn}],
         guest' \in [Runs -> {"none", "running", "wrote", "died"}],
         troubles' \in 0 .. MaxTroubles
  PROVE  TypeOK'
<1>1. /\ pc' \in [Runs -> PCs] /\ todo' \in [Procs -> Seq(Cmds)] /\ failed' \in [Procs -> BOOLEAN]
      /\ report' \in [Runs -> Kinds7]
  BY ProceedType, GiveUpType
<1> QED BY <1>1, TypeFacts DEF StartFrame, history, TypeOK, Kinds7, Cmds, Process

\* A failure, possible or forced, gives up.
LEMMA FailsIs ==
  ASSUME TypeOK, NEW r \in Runs, NEW step, NEW b, Fails(r, step, b)
  PROVE  GiveUp(r, step) /\ troubles' \in 0 .. MaxTroubles
BY BoundsKept DEF Fails

\* A directory that is written to.
LEMMA TouchType ==
  ASSUME TypeOK, NEW r \in Runs, NEW content \in SUBSET {"dir", "log", "image", "state"}, Touch(r, content)
  PROVE  /\ dir' \in [Runs -> SUBSET {"dir", "log", "image", "state"}]
         /\ young' \in [Runs -> BOOLEAN]
BY TypeFacts DEF Touch

Starts(r) == \/ ProvideNetwork(r) \/ StartSquid(r) \/ BuildImage(r) \/ PrepareChroot(r) \/ LaunchVM(r)
             \/ BootVM(r) \/ CreateState(r) \/ RecordState(r)

\* Every step of Start.
LEMMA StartsType ==
  ASSUME TypeOK, NEW r \in Runs, Starts(r)
  PROVE  TypeOK'
<1> USE TypeFacts, BoundsKept
<1>0. /\ {"network", "squid", "image", "chroot", "launch", "boot", "state", "record", "wait"} \subseteq PCs
      /\ {"network", "squid", "image", "chroot", "launch", "boot", "state", "record"} = Steps
  BY DEF PCs, Steps
<1>00. dir[r] \subseteq {"dir", "log", "image", "state"}
  OBVIOUS
<1>1. CASE ProvideNetwork(r)
  <2>1. Proceed(r, "squid") \/ GiveUp(r, "network")
    BY <1>1, FailsIs DEF ProvideNetwork
  <2>2. troubles' \in 0 .. MaxTroubles
    BY <1>1, FailsIs DEF ProvideNetwork
  <2>4. \E made \in SUBSET {"tap", "nft"} : host' = [host EXCEPT ![r] = made]
    <3>1. CASE host' = [host EXCEPT ![r] = {"tap", "nft"}]
      BY <3>1
    <3>2. CASE \E made \in {{}, {"tap"}} : host' = [host EXCEPT ![r] = made]
      <4>1. PICK made \in {{}, {"tap"}} : host' = [host EXCEPT ![r] = made]
        BY <3>2
      <4>2. made \in SUBSET {"tap", "nft"}
        OBVIOUS
      <4> QED BY <4>1, <4>2
    <3> QED BY <1>1, <3>1, <3>2 DEF ProvideNetwork
  <2>5. host' \in [Runs -> SUBSET {"tap", "nft"}]
    BY <2>4
  <2>3. dir' \in [Runs -> SUBSET {"dir", "log", "image", "state"}] /\ young' \in [Runs -> BOOLEAN]
    BY <1>1, TouchType DEF ProvideNetwork
  <2> QED BY <1>0, <1>1, <2>1, <2>2, <2>3, <2>5, StartType DEF ProvideNetwork, StartFrame
<1>2. CASE StartSquid(r)
  <2>1. Proceed(r, "image") \/ GiveUp(r, "squid")
    BY <1>2, FailsIs DEF StartSquid
  <2>2. troubles' \in 0 .. MaxTroubles
    BY <1>2, FailsIs DEF StartSquid
  <2>3. dir' \in [Runs -> SUBSET {"dir", "log", "image", "state"}] /\ young' \in [Runs -> BOOLEAN]
    BY <1>2, <1>00, TouchType DEF StartSquid
  <2>4. proc' \in [Pids -> Process] /\ own' \in [Runs -> PidPairs]
    BY <1>2, ForkSquid DEF StartSquid
  <2> QED BY <1>0, <1>2, <2>1, <2>2, <2>3, <2>4, StartType DEF StartSquid, StartFrame
<1>3. CASE BuildImage(r)
  <2>1. Proceed(r, "chroot") \/ GiveUp(r, "image")
    BY <1>3, FailsIs DEF BuildImage
  <2>2. troubles' \in 0 .. MaxTroubles
    BY <1>3, FailsIs DEF BuildImage
  <2>3. dir' \in [Runs -> SUBSET {"dir", "log", "image", "state"}] /\ young' \in [Runs -> BOOLEAN]
    BY <1>3, <1>00, TouchType DEF BuildImage
  <2> QED BY <1>0, <1>3, <2>1, <2>2, <2>3, StartType DEF BuildImage, StartFrame
<1>4. CASE PrepareChroot(r)
  <2>1. Proceed(r, "launch") \/ GiveUp(r, "chroot")
    BY <1>4, FailsIs DEF PrepareChroot
  <2>2. troubles' \in 0 .. MaxTroubles
    BY <1>4, FailsIs DEF PrepareChroot
  <2>3. dir' \in [Runs -> SUBSET {"dir", "log", "image", "state"}] /\ young' \in [Runs -> BOOLEAN]
    BY <1>4, <1>00, TouchType DEF PrepareChroot
  <2>4. jail' \in [Runs -> {"absent", "bare", "image", "code"}]
    BY <1>4 DEF PrepareChroot
  <2> QED BY <1>0, <1>4, <2>1, <2>2, <2>3, <2>4, StartType DEF PrepareChroot, StartFrame
<1>5. CASE LaunchVM(r)
  <2>1. Proceed(r, "boot") \/ GiveUp(r, "launch")
    BY <1>5, FailsIs DEF LaunchVM
  <2>2. troubles' \in 0 .. MaxTroubles
    BY <1>5, FailsIs DEF LaunchVM
  <2>3. dir' \in [Runs -> SUBSET {"dir", "log", "image", "state"}] /\ young' \in [Runs -> BOOLEAN]
    BY <1>5, <1>00, TouchType DEF LaunchVM
  <2>4. proc' \in [Pids -> Process] /\ own' \in [Runs -> PidPairs]
    BY <1>5, ForkVm DEF LaunchVM
  <2> QED BY <1>0, <1>5, <2>1, <2>2, <2>3, <2>4, StartType DEF LaunchVM, StartFrame
<1>6. CASE BootVM(r)
  <2>1. Proceed(r, "state") \/ GiveUp(r, "boot")
    BY <1>6, FailsIs DEF BootVM
  <2>2. troubles' \in 0 .. MaxTroubles
    BY <1>6, FailsIs DEF BootVM
  <2>3. guest' \in [Runs -> {"none", "running", "wrote", "died"}]
    BY <1>6 DEF BootVM
  <2> QED BY <1>0, <1>6, <2>1, <2>2, <2>3, StartType DEF BootVM, StartFrame, disk
<1>7. CASE CreateState(r)
  <2>1. Proceed(r, "record") \/ GiveUp(r, "state")
    BY <1>7, FailsIs DEF CreateState
  <2>2. troubles' \in 0 .. MaxTroubles
    BY <1>7, FailsIs DEF CreateState
  <2>3. dir' \in [Runs -> SUBSET {"dir", "log", "image", "state"}] /\ young' \in [Runs -> BOOLEAN]
    BY <1>7, <1>00, TouchType DEF CreateState
  <2>4. rec' \in [Runs -> PidPairs \union {Torn}]
    BY <1>7 DEF CreateState
  <2> QED BY <1>0, <1>7, <2>1, <2>2, <2>3, <2>4, StartType DEF CreateState, StartFrame
<1>8. CASE RecordState(r)
  <2>1. Proceed(r, "wait") \/ GiveUp(r, "record")
    BY <1>8, FailsIs DEF RecordState
  <2>2. troubles' \in 0 .. MaxTroubles
    BY <1>8, FailsIs DEF RecordState
  <2>4. rec' \in [Runs -> PidPairs \union {Torn}]
    <3>1. own[r] \in PidPairs
      OBVIOUS
    <3>2. rec' = [rec EXCEPT ![r] = own[r]] \/ rec' = rec
      BY <1>8 DEF RecordState
    <3> QED BY <3>1, <3>2
  <2> QED BY <1>0, <1>8, <2>1, <2>2, <2>4, StartType DEF RecordState, StartFrame
<1> QED BY <1>1, <1>2, <1>3, <1>4, <1>5, <1>6, <1>7, <1>8 DEF Starts

Guests == {"none", "running", "wrote", "died"}

\* Whose removal it is, and whom it may strike.
LEMMA StruckPid ==
  ASSUME TypeOK, NEW p \in Procs, NEW c \in Cmds
  PROVE  /\ Struck(p, c) = NoPid \/ Struck(p, c) \in Pids
         /\ c.what = "vm" /\ Struck(p, c) # NoPid => Struck(p, c) = aim[p].vm /\ proc[aim[p].vm] = Vm(c.run)
         /\ c.what = "vm" /\ aim[p].vm \in Pids /\ proc[aim[p].vm] = Vm(c.run) => Struck(p, c) = aim[p].vm
         /\ c.what = "squid" /\ Struck(p, c) # NoPid
              => Struck(p, c) = aim[p].squid /\ proc[aim[p].squid].bin = "squid"
         /\ c.what = "squid" /\ aim[p].squid \in Pids /\ proc[aim[p].squid].bin = "squid"
              => Struck(p, c) = aim[p].squid
         /\ c.what = "pid" /\ Struck(p, c) # NoPid => Struck(p, c) = own[c.run].squid
         /\ c.what = "pid" /\ own[c.run].squid \in Pids /\ proc[own[c.run].squid] # NoProc
              => Struck(p, c) = own[c.run].squid
         /\ c.what = "child" /\ Struck(p, c) # NoPid => Struck(p, c) = own[c.run].vm
         /\ c.what = "child" /\ own[c.run].vm \in Pids => Struck(p, c) = own[c.run].vm
<1>1. c.run \in Runs /\ c.what \in Whats
  BY DEF Cmds
<1>2. CASE c.what = "vm"
  BY <1>1, <1>2, Apart DEF Struck, IsVM
<1>3. CASE c.what = "squid"
  BY <1>1, <1>3, Apart DEF Struck, IsSquid
<1>4. CASE c.what = "pid"
  BY <1>1, <1>4, Apart DEF Struck
<1>5. CASE c.what = "child"
  <2>1. own[c.run] \in PidPairs
    BY <1>1, TypeFacts
  <2> QED BY <1>1, <1>5, <2>1, Apart, PairFacts DEF Struck
<1>6. CASE c.what \notin {"vm", "squid", "pid", "child"}
  <2>1. own[c.run] \in PidPairs
    BY <1>1, TypeFacts
  <2> QED BY <1>1, <1>6, <2>1, Apart, PairFacts DEF Struck
<1> QED BY <1>2, <1>3, <1>4, <1>5, <1>6

\* A signal.
LEMMA SendType ==
  ASSUME TypeOK, NEW p \in Procs, NEW c \in Cmds, SendSignal(p, c)
  PROVE  /\ proc' \in [Pids -> Process] /\ guest' \in [Runs -> Guests]
         /\ failed' \in [Procs -> BOOLEAN] /\ strays' \subseteq Runs /\ troubles' \in 0 .. MaxTroubles
         /\ UNCHANGED <<host, jail, dir, rec, robbed>>
<1> DEFINE q == Struck(p, c)
<1>1. c.run \in Runs
  BY DEF Cmds
<1>2. q = NoPid \/ q \in Pids
  BY StruckPid
<1>3. troubles' \in 0 .. MaxTroubles
  BY BoundsKept DEF SendSignal, Resists
<1>4. failed' \in [Procs -> BOOLEAN]
  BY TypeFacts DEF SendSignal
<1>5. strays' \subseteq Runs
  <2>1. CASE strays' = strays
    BY <2>1, TypeFacts
  <2>2. CASE q \in Pids /\ proc[q].bin = "vm" /\ strays' = strays \union {proc[q].run}
    <3>1. proc[q] \in Process /\ proc[q] # NoProc
      BY <2>2, TypeFacts, Kinds
    <3>2. PICK v \in Runs : proc[q] \in {Vm(v), Squid(v), Zombie(v)}
      BY <3>1, Kinds
    <3>3. proc[q].run = v
      BY <3>2, Kinds
    <3> QED BY <2>2, <3>3, TypeFacts
  <2> QED BY <1>2, <2>1, <2>2 DEF SendSignal
<1> HIDE DEF q
<1>6. CASE NoSignal
  BY <1>3, <1>4, <1>5, <1>6, TypeFacts DEF NoSignal, SendSignal, Guests
<1>7. CASE q \in Pids /\ Signal(q)
  BY <1>3, <1>4, <1>5, <1>7, SignalType DEF SendSignal, Guests
<1>8. CASE proc' = [proc EXCEPT ![q] = NoProc] /\ guest' = [guest EXCEPT ![c.run] = "died"]
  BY <1>3, <1>4, <1>5, <1>8, TypeFacts, Kinds DEF SendSignal, Guests
<1> QED BY <1>2, <1>6, <1>7, <1>8 DEF SendSignal, q

\* A removal of files or devices.
LEMMA DeleteType ==
  ASSUME TypeOK, NEW p \in Procs, NEW c \in Cmds, Delete(p, c)
  PROVE  /\ proc' \in [Pids -> Process] /\ guest' \in [Runs -> Guests]
         /\ failed' \in [Procs -> BOOLEAN] /\ strays' \subseteq Runs /\ troubles' \in 0 .. MaxTroubles
         /\ host' \in [Runs -> SUBSET {"tap", "nft"}]
         /\ jail' \in [Runs -> {"absent", "bare", "image", "code"}]
         /\ dir' \in [Runs -> SUBSET {"dir", "log", "image", "state"}]
         /\ rec' \in [Runs -> PidPairs \union {Torn}] /\ robbed' \subseteq Runs
<1>1. c.run \in Runs
  BY DEF Cmds
<1>2. UNCHANGED <<proc, guest, strays>>
  BY DEF Delete, NoSignal
<1>3. failed' \in [Procs -> BOOLEAN]
  BY TypeFacts DEF Delete
<1>4. troubles' \in 0 .. MaxTroubles
  BY BoundsKept DEF Delete
<1>5. robbed' \subseteq Runs
  BY <1>1, TypeFacts DEF Delete
<1>6. jail' \in [Runs -> {"absent", "bare", "image", "code"}]
  BY <1>1, TypeFacts DEF Delete
<1>7. /\ dir' \in [Runs -> SUBSET {"dir", "log", "image", "state"}]
      /\ rec' \in [Runs -> PidPairs \union {Torn}]
  <2>1. RemoveDir(c.run) \/ UNCHANGED <<dir, rec>>
    BY DEF Delete
  <2>2. {} \in SUBSET {"dir", "log", "image", "state"}
    OBVIOUS
  <2>3. CASE UNCHANGED <<dir, rec>>
    BY <2>3, TypeFacts
  <2>4. CASE RemoveDir(c.run)
    <3>1. dir' = [dir EXCEPT ![c.run] = {}] /\ rec' = [rec EXCEPT ![c.run] = NoPids]
      BY <2>4 DEF RemoveDir
    <3>2. dir' \in [Runs -> SUBSET {"dir", "log", "image", "state"}]
      BY <1>1, <2>2, <3>1, TypeFacts
    <3>3. rec' \in [Runs -> PidPairs \union {Torn}]
      BY <1>1, <3>1, TypeFacts, Apart
    <3> QED BY <3>2, <3>3
  <2> QED BY <2>1, <2>3, <2>4
<1>8. host' \in [Runs -> SUBSET {"tap", "nft"}]
  <2>1. CASE host' = host
    BY <2>1, TypeFacts
  <2>2. CASE host' = [host EXCEPT ![c.run] = {}]
    BY <2>2, TypeFacts
  <2>3. CASE \E w \in host[c.run] : host' = [host EXCEPT ![c.run] = {w}]
    <3>1. PICK w \in host[c.run] : host' = [host EXCEPT ![c.run] = {w}]
      BY <2>3
    <3>2. {w} \in SUBSET {"tap", "nft"}
      BY <1>1, <3>1, TypeFacts
    <3> QED BY <3>1, <3>2, TypeFacts
  <2> QED BY <2>1, <2>2, <2>3 DEF Delete
<1> QED BY <1>2, <1>3, <1>4, <1>5, <1>6, <1>7, <1>8, TypeFacts DEF Guests

\* A removal as a whole.
LEMMA RemoveType ==
  ASSUME TypeOK, NEW p \in Procs, Remove(p)
  PROVE  TypeOK'
<1> DEFINE c == Head(todo[p])
<1>1. todo[p] \in Seq(Cmds) /\ todo[p] # <<>>
  BY TypeFacts DEF Remove
<1>2. c \in Cmds /\ Tail(todo[p]) \in Seq(Cmds)
  BY <1>1, TailKeeps
<1>3. c.run \in Runs
  BY <1>2 DEF Cmds
<1>4. todo' \in [Procs -> Seq(Cmds)] /\ aim' \in [Procs -> PidPairs \union {Torn}]
  BY <1>2, TypeFacts, Apart DEF Remove
<1>5. cleared' \subseteq Runs
  BY <1>3, TypeFacts DEF Remove
<1>6. SendSignal(p, c) \/ Delete(p, c)
  BY DEF Remove
<1> HIDE DEF c
<1>7. /\ proc' \in [Pids -> Process] /\ guest' \in [Runs -> Guests]
      /\ failed' \in [Procs -> BOOLEAN] /\ strays' \subseteq Runs /\ troubles' \in 0 .. MaxTroubles
      /\ host' \in [Runs -> SUBSET {"tap", "nft"}]
      /\ jail' \in [Runs -> {"absent", "bare", "image", "code"}]
      /\ dir' \in [Runs -> SUBSET {"dir", "log", "image", "state"}]
      /\ rec' \in [Runs -> PidPairs \union {Torn}] /\ robbed' \subseteq Runs
  <2>1. CASE SendSignal(p, c)
    BY <1>2, <2>1, SendType, TypeFacts
  <2>2. CASE Delete(p, c)
    BY <1>2, <2>2, DeleteType
  <2> QED BY <1>6, <2>1, <2>2
<1>8. UNCHANGED <<pc, pending, own, young, kill, report, stopRun, slow>>
  BY DEF Remove
<1> QED BY <1>4, <1>5, <1>7, <1>8, TypeFacts DEF TypeOK, Guests, Cmds, Process

\* The steps of a run's process that are none of Start's and no removals.
LEMMA ReapType ==
  ASSUME TypeOK, NEW r \in Runs, Reap(r)
  PROVE  /\ proc' \in [Pids -> Process]
         /\ \A p \in Pids : proc'[p] = IF proc[p] = Zombie(r) THEN NoProc ELSE proc[p]
BY TypeFacts, Kinds DEF Reap

\* What a process that ends takes with it.
LEMMA ForgetType ==
  ASSUME TypeOK, NEW S, Forget(S)
  PROVE  /\ own' \in [Runs -> PidPairs] /\ kill' \in [Runs -> {"none", "rung", "asked", "done"}]
         /\ report' \in [Runs -> Kinds7]
BY TypeFacts, Apart DEF Forget, Kinds7

\* A sweep.
LEMMA SweepType ==
  ASSUME TypeOK, NEW r \in Runs, List(r) \/ Swept(r) \/ \E v \in Runs : Judge(r, v)
  PROVE  TypeOK'
<1> USE TypeFacts
<1>1. CASE List(r)
  BY <1>1 DEF List, Goto, PCs, removal, disk, life, history, TypeOK, Cmds, Process
<1>2. CASE Swept(r)
  BY <1>2, Apart DEF Swept, Goto, PCs, disk, life, history, TypeOK, Cmds, Process
<1>3. ASSUME NEW v \in Runs, Judge(r, v) PROVE TypeOK'
  <2>1. Debris(v) \in Seq(Cmds)
    <3>1. <<Do(v, "dir")>> \in Seq(Cmds)
      BY DEF Do, Cmds, Whats
    <3> QED BY <3>1, TeardownFits DEF Debris
  <2>2. Unreadable(v) \in BOOLEAN
    BY DEF Unreadable
  <2>3. /\ todo' \in [Procs -> Seq(Cmds)] /\ aim' \in [Procs -> PidPairs \union {Torn}]
        /\ failed' \in [Procs -> BOOLEAN]
    <3>1. CASE UNCHANGED removal
      BY <3>1 DEF removal
    <3>2. CASE /\ todo' = [todo EXCEPT ![r] = Debris(v)] /\ aim' = [aim EXCEPT ![r] = rec[v]]
               /\ failed' = [failed EXCEPT ![r] = Unreadable(v)]
      BY <2>1, <2>2, <3>2, Apart
    <3> QED BY <1>3, <3>1, <3>2 DEF Judge
  <2>4. pending' \in [Runs -> SUBSET Runs] /\ slow' \subseteq Runs
    BY <1>3 DEF Judge
  <2> QED BY <1>3, <2>3, <2>4 DEF Judge, disk, life, TypeOK, Cmds, Process
<1> QED BY <1>1, <1>2, <1>3

\* Wait, the reading of the exit code and the end of Stop.
LEMMA StopType ==
  ASSUME TypeOK, NEW r \in Runs, SetUpFails(r) \/ WaitReturns(r) \/ ReadExitCode(r) \/ Return(r)
  PROVE  TypeOK'
<1> USE TypeFacts
<1>1. CASE SetUpFails(r)
  <2>1. troubles' \in 0 .. MaxTroubles
    BY <1>1, BoundsKept DEF SetUpFails
  <2>2. /\ pc' \in [Runs -> PCs] /\ todo' \in [Procs -> Seq(Cmds)] /\ failed' \in [Procs -> BOOLEAN]
        /\ aim' \in [Procs -> PidPairs \union {Torn}]
    BY <1>1, BeginStopType DEF SetUpFails
  <2>3. report' \in [Runs -> Kinds7]
    BY <1>1 DEF SetUpFails, Kinds7
  <2> QED BY <1>1, <2>1, <2>2, <2>3 DEF SetUpFails, disk, history, Kinds7, TypeOK, Cmds, Process
<1>2. CASE WaitReturns(r)
  <2>1. proc' \in [Pids -> Process]
    BY <1>2, ReapType DEF WaitReturns
  <2>2. pc' \in [Runs -> PCs] /\ kill' \in [Runs -> {"none", "rung", "asked", "done"}]
    BY <1>2 DEF WaitReturns, Goto, PCs
  <2>3. troubles' \in 0 .. MaxTroubles
    BY <1>2, BoundsKept DEF WaitReturns
  <2> QED BY <1>2, <2>1, <2>2, <2>3 DEF WaitReturns, removal, disk, history, TypeOK, Cmds, Process
<1>3. CASE ReadExitCode(r)
  <2>2. /\ pc' \in [Runs -> PCs] /\ todo' \in [Procs -> Seq(Cmds)] /\ failed' \in [Procs -> BOOLEAN]
        /\ aim' \in [Procs -> PidPairs \union {Torn}]
    BY <1>3, BeginStopType DEF ReadExitCode
  <2>3. \E found \in {"code", "killed", "lost"} : report' = [report EXCEPT ![r] = found]
    BY <1>3 DEF ReadExitCode
  <2>4. report' \in [Runs -> Kinds7]
    BY <2>3 DEF Kinds7
  <2> QED BY <1>3, <2>2, <2>4 DEF ReadExitCode, disk, history, Kinds7, TypeOK, Cmds, Process
<1>4. CASE Return(r)
  <2>1. proc' \in [Pids -> Process]
    BY <1>4, ReapType DEF Return
  <2>2. /\ own' \in [Runs -> PidPairs] /\ kill' \in [Runs -> {"none", "rung", "asked", "done"}]
        /\ report' \in [Runs -> Kinds7]
    <3>1. Forget({r})
      BY <1>4 DEF Return
    <3> QED BY <3>1, ForgetType
  <2>3. pc' \in [Runs -> PCs] /\ guest' \in [Runs -> Guests]
    BY <1>4 DEF Return, Goto, PCs, Guests
  <2> QED BY <1>4, <2>1, <2>2, <2>3 DEF Return, removal, disk, history, Guests, Kinds7, TypeOK, Cmds, Process
<1> QED BY <1>1, <1>2, <1>3, <1>4

\* Kill, guests, dying Squids, time and `constle stop`.
LEMMA WorldType ==
  ASSUME TypeOK, NEW r \in Runs,
         Killer(r) \/ Ring(r) \/ GuestEnds(r) \/ SquidDies(r) \/ Age(r) \/ OperatorStop(r)
  PROVE  TypeOK'
<1> USE TypeFacts
<1>1. CASE AskGuest(r) \/ Ring(r)
  <2>0. \E x \in {"rung", "asked", "done"} : kill' = [kill EXCEPT ![r] = x]
    <3>1. CASE Ring(r)
      BY <3>1 DEF Ring
    <3>2. CASE AskGuest(r) /\ IsVM(own[r].vm, r)
      BY <3>2 DEF AskGuest
    <3>3. CASE AskGuest(r) /\ ~IsVM(own[r].vm, r)
      BY <3>3 DEF AskGuest
    <3> QED BY <1>1, <3>1, <3>2, <3>3
  <2>1. kill' \in [Runs -> {"none", "rung", "asked", "done"}]
    BY <2>0
  <2>2. UNCHANGED <<pc, pending, removal, proc, own, host, disk, guest, report, stopRun, troubles, history>>
    BY <1>1 DEF AskGuest, Ring
  <2> QED BY <2>1, <2>2 DEF removal, disk, history, TypeOK, Cmds, Process
<1>2. CASE ForceGuest(r)
  <2>1. proc' \in [Pids -> Process] /\ guest' \in [Runs -> Guests]
    <3>1. CASE NoSignal
      BY <3>1 DEF NoSignal, Guests
    <3>2. CASE own[r].vm \in Pids /\ Signal(own[r].vm)
      BY <3>2, SignalType DEF Guests
    <3> QED BY <1>2, <3>1, <3>2 DEF ForceGuest
  <2> QED BY <1>2, <2>1 DEF ForceGuest, removal, disk, history, Guests, TypeOK, Cmds, Process
<1>3. CASE GuestEnds(r)
  <2>1. proc' \in [Pids -> Process]
    BY <1>3, EndedFacts DEF GuestEnds
  <2>2. guest' \in [Runs -> Guests] /\ jail' \in [Runs -> {"absent", "bare", "image", "code"}]
    <3>1. \/ UNCHANGED jail
          \/ jail' = [jail EXCEPT ![r] = IF jail[r] = "image" THEN "code" ELSE jail[r]]
      BY <1>3 DEF GuestEnds
    <3>2. jail' \in [Runs -> {"absent", "bare", "image", "code"}]
      BY <3>1
    <3>3. \E x \in Guests : guest' = [guest EXCEPT ![r] = x]
      BY <1>3 DEF GuestEnds, Guests
    <3>4. guest' \in [Runs -> Guests]
      BY <3>3 DEF Guests
    <3> QED BY <3>2, <3>4
  <2> QED BY <1>3, <2>1, <2>2 DEF GuestEnds, removal, history, Guests, TypeOK, Cmds, Process
<1>4. CASE SquidDies(r)
  <2>1. proc' \in [Pids -> Process]
    BY <1>4, Kinds DEF SquidDies
  <2>2. troubles' \in 0 .. MaxTroubles
    BY <1>4, BoundsKept DEF SquidDies
  <2> QED BY <1>4, <2>1, <2>2 DEF SquidDies, removal, disk, life, history, TypeOK, Cmds, Process
<1>5. CASE Age(r)
  BY <1>5 DEF Age, removal, life, history, TypeOK, Cmds, Process
<1>6. CASE OperatorStop(r)
  <2>1. troubles' \in 0 .. MaxTroubles
    BY <1>6, BoundsKept DEF OperatorStop
  <2>2. todo' \in [Procs -> Seq(Cmds)] /\ aim' \in [Procs -> PidPairs \union {Torn}]
    BY <1>6, TeardownFits, Apart DEF OperatorStop
  <2> QED BY <1>6, <2>1, <2>2 DEF OperatorStop, disk, life, history, TypeOK, Cmds, Process
<1> QED BY <1>1, <1>2, <1>3, <1>4, <1>5, <1>6 DEF Killer

\* Processes that die.
LEMMA DieType ==
  ASSUME TypeOK, NEW S, Die(S)
  PROVE  /\ pc' \in [Runs -> PCs] /\ pending' \in [Runs -> SUBSET Runs]
         /\ todo' \in [Procs -> Seq(Cmds)] /\ troubles' \in 0 .. MaxTroubles
<1> USE TypeFacts
<1>1. pc' \in [Runs -> PCs] /\ pending' \in [Runs -> SUBSET Runs]
  BY DEF Die, PCs
<1>2. todo' \in [Procs -> Seq(Cmds)]
  BY Empty DEF Die
<1>3. troubles' \in 0 .. MaxTroubles
  BY BoundsKept DEF Die
<1> QED BY <1>1, <1>2, <1>3

\* A crash and a reboot.
LEMMA EndType ==
  ASSUME TypeOK, (\E r \in Runs : Crash(r)) \/ Reboot
  PROVE  TypeOK'
<1> USE TypeFacts
<1>1. ASSUME NEW r \in Runs, Crash(r) PROVE TypeOK'
  <2>1. Die({r}) /\ Forget({r}) /\ Reap(r)
    BY <1>1 DEF Crash
  <2>2. /\ pc' \in [Runs -> PCs] /\ pending' \in [Runs -> SUBSET Runs]
        /\ todo' \in [Procs -> Seq(Cmds)] /\ troubles' \in 0 .. MaxTroubles
    BY <2>1, DieType
  <2>3. /\ own' \in [Runs -> PidPairs] /\ kill' \in [Runs -> {"none", "rung", "asked", "done"}]
        /\ report' \in [Runs -> Kinds7] /\ proc' \in [Pids -> Process]
    BY <2>1, ForgetType, ReapType
  <2> QED BY <1>1, <2>2, <2>3 DEF Crash, disk, history, Kinds7, TypeOK, Cmds, Process
<1>2. CASE Reboot
  <2>0. PICK S, T : Die(S) /\ Forget(T)
    BY <1>2 DEF Reboot
  <2>2. /\ pc' \in [Runs -> PCs] /\ pending' \in [Runs -> SUBSET Runs]
        /\ todo' \in [Procs -> Seq(Cmds)] /\ troubles' \in 0 .. MaxTroubles
    BY <2>0, DieType
  <2>3. /\ own' \in [Runs -> PidPairs] /\ kill' \in [Runs -> {"none", "rung", "asked", "done"}]
        /\ report' \in [Runs -> Kinds7]
    BY <2>0, ForgetType
  <2>4. /\ proc' \in [Pids -> Process] /\ guest' \in [Runs -> Guests]
        /\ host' \in [Runs -> SUBSET {"tap", "nft"}]
    BY <1>2, Kinds DEF Reboot, Guests
  <2> QED BY <1>2, <2>2, <2>3, <2>4 DEF Reboot, disk, history, Guests, Kinds7, TypeOK, Cmds, Process
<1> QED BY <1>1, <1>2

\* Every step keeps the types.
LEMMA TypeStep ==
  ASSUME TypeOK, [Next]_vars
  PROVE  TypeOK'
<1>1. ASSUME NEW r \in Runs, Owner(r) PROVE TypeOK'
  <2>1. CASE Starts(r)
    BY <2>1, StartsType
  <2>2. CASE Remove(r)
    BY <2>2, RemoveType, Apart
  <2> QED BY <1>1, <2>1, <2>2, SweepType, StopType DEF Owner, Starts
<1>2. CASE UNCHANGED vars
  BY <1>2 DEF vars, removal, disk, life, history, TypeOK
<1> QED BY <1>1, <1>2, WorldType, EndType, RemoveType, Apart DEF Next, AllOver

\* The types hold at first.
LEMMA TypeInit == Init => TypeOK
<1> SUFFICES ASSUME Init PROVE TypeOK
  OBVIOUS
<1>1. /\ NoProc \in Process /\ NoPids \in PidPairs /\ <<>> \in Seq(Cmds)
  BY Kinds, Apart, Empty
<1>2. troubles \in 0 .. MaxTroubles
  BY FirecrackerAssumption DEF Init
<1>3. todo \in [Procs -> Seq(Cmds)]
  BY <1>1 DEF Init
<1> QED BY <1>1, <1>2, <1>3 DEF Init, TypeOK, PCs, Cmds, Process

-----------------------------------------------------------------------------
(* The steps there are, and what a removal does.                           *)

\* Steps that touch nothing on the host and no guest.
Quiet(r) == \/ List(r) \/ Swept(r) \/ (\E v \in Runs : Judge(r, v)) \/ SetUpFails(r) \/ ReadExitCode(r)
            \/ AskGuest(r) \/ Ring(r) \/ Age(r) \/ OperatorStop(r)
things == <<host, jail, dir, rec, proc, guest, own>>

\* The steps there are.
LEMMA Cases ==
  ASSUME [Next]_vars
  PROVE  \/ UNCHANGED vars
         \/ \E r \in Runs : \/ Starts(r) \/ Quiet(r) \/ WaitReturns(r) \/ Return(r) \/ ForceGuest(r)
                            \/ GuestEnds(r) \/ SquidDies(r) \/ Crash(r)
         \/ \E p \in Procs : Remove(p)
         \/ Reboot
<1>1. ASSUME NEW r \in Runs, Owner(r)
      PROVE  Starts(r) \/ Quiet(r) \/ WaitReturns(r) \/ Return(r) \/ Remove(r)
  BY <1>1 DEF Owner, Starts, Quiet
<1>2. ASSUME NEW r \in Runs, Killer(r) \/ Ring(r) \/ Age(r) \/ OperatorStop(r)
      PROVE  Quiet(r) \/ ForceGuest(r)
  BY <1>2 DEF Killer, Quiet
<1>3. AllOver => UNCHANGED vars
  BY DEF AllOver
<1> QED BY <1>1, <1>2, <1>3, Apart DEF Next

\* They leave files, processes and guests as they are.
LEMMA QuietKeeps ==
  ASSUME NEW r \in Runs, Quiet(r)
  PROVE  UNCHANGED things
BY DEF Quiet, things, List, Swept, Judge, SetUpFails, ReadExitCode, AskGuest, Ring, Age, OperatorStop,
       disk, life

\* A step that changes nothing.
LEMMA VarsKept ==
  ASSUME UNCHANGED vars
  PROVE  /\ UNCHANGED things /\ UNCHANGED <<pc, pending, todo, aim, failed, young, kill, report, stopRun>>
         /\ UNCHANGED <<robbed, slow, strays, cleared>>
BY DEF vars, things, removal, disk, life, history

\* What an order does.  Signals touch processes and guests only; removals the
\* things of one run.
LEMMA OrderKeeps ==
  ASSUME TypeOK, NEW p \in Procs, Remove(p)
  PROVE  /\ todo[p] # <<>> /\ todo[p] \in Seq(Cmds) /\ Head(todo[p]) \in Cmds
         /\ Head(todo[p]).run \in Runs /\ Head(todo[p]).what \in Whats
         /\ todo' = [todo EXCEPT ![p] = Tail(todo[p])]
         /\ aim' = [aim EXCEPT ![p] = IF Len(todo[p]) = 1 THEN NoPids ELSE aim[p]]
         /\ UNCHANGED <<pc, pending, own, young, kill, report, stopRun, slow>>
         /\ failed' = failed \/ failed' = [failed EXCEPT ![p] = TRUE]
         /\ Head(todo[p]).what \in {"vm", "squid", "pid", "child"} => SendSignal(p, Head(todo[p]))
         /\ Head(todo[p]).what \notin {"vm", "squid", "pid", "child"} => Delete(p, Head(todo[p]))
<1> DEFINE c == Head(todo[p])
<1>1. todo[p] # <<>> /\ todo[p] \in Seq(Cmds)
  BY TypeFacts DEF Remove
<1>2. c \in Cmds /\ c.run \in Runs /\ c.what \in Whats
  BY <1>1, TailKeeps DEF Cmds
<1>3. SendSignal(p, c) \/ Delete(p, c)
  BY DEF Remove
<1>4. SendSignal(p, c) => c.what \in {"vm", "squid", "pid", "child"}
  BY DEF SendSignal
<1>5. Delete(p, c) => c.what \in {"jail", "net", "dir"}
  BY DEF Delete
<1>6. failed' = failed \/ failed' = [failed EXCEPT ![p] = TRUE]
  BY <1>3 DEF SendSignal, Delete
<1> HIDE DEF c
<1>7. /\ c.what \in {"vm", "squid", "pid", "child"} => SendSignal(p, c)
      /\ c.what \notin {"vm", "squid", "pid", "child"} => Delete(p, c)
  BY <1>3, <1>4, <1>5
<1> QED BY <1>1, <1>2, <1>6, <1>7 DEF Remove, c

DiskKept(v) == host'[v] = host[v] /\ jail'[v] = jail[v] /\ dir'[v] = dir[v] /\ rec'[v] = rec[v]
DiskWanes(v) == /\ host'[v] \subseteq host[v]
                /\ \/ dir'[v] = dir[v] /\ rec'[v] = rec[v]
                   \/ dir'[v] = {} /\ rec'[v] = NoPids
                /\ \/ jail'[v] \in {jail[v], "absent"}
                   \/ jail[v] = "image" /\ jail'[v] = "code"

\* What a removal does to a run's device, directory and chroot.
LEMMA OrderOnDisk ==
  ASSUME TypeOK, NEW p \in Procs, Remove(p), NEW v \in Runs
  PROVE  LET c == Head(todo[p]) IN
         /\ DiskWanes(v)
         /\ c.run # v => DiskKept(v)
         /\ c.what \notin {"net"} => host'[v] = host[v]
         /\ c.what \notin {"net", "dir"} => dir'[v] = dir[v] /\ rec'[v] = rec[v]
         /\ c.what # "jail" => jail'[v] = jail[v]
         /\ jail'[v] \in {jail[v], "absent"}
         /\ c.run = v /\ c.what = "net" /\ ~failed'[p] => host'[v] = {} /\ dir'[v] = {}
         /\ c.run = v /\ c.what = "jail" /\ ~failed'[p] => jail'[v] = "absent"
         /\ robbed \subseteq robbed'
         /\ jail'[v] # jail[v] => p = v \/ ~Alive(v) \/ v \in robbed'
<1> DEFINE c == Head(todo[p])
<1>1. /\ c \in Cmds /\ c.run \in Runs /\ c.what \in Whats
      /\ c.what \in {"vm", "squid", "pid", "child"} => SendSignal(p, c)
      /\ c.what \notin {"vm", "squid", "pid", "child"} => Delete(p, c)
  BY OrderKeeps
<1>2. failed[p] \in BOOLEAN
  BY TypeFacts
<1> DEFINE G ==
         /\ DiskWanes(v)
         /\ c.run # v => DiskKept(v)
         /\ c.what \notin {"net"} => host'[v] = host[v]
         /\ c.what \notin {"net", "dir"} => dir'[v] = dir[v] /\ rec'[v] = rec[v]
         /\ c.what # "jail" => jail'[v] = jail[v]
         /\ jail'[v] \in {jail[v], "absent"}
         /\ c.run = v /\ c.what = "net" /\ ~failed'[p] => host'[v] = {} /\ dir'[v] = {}
         /\ c.run = v /\ c.what = "jail" /\ ~failed'[p] => jail'[v] = "absent"
         /\ robbed \subseteq robbed'
         /\ jail'[v] # jail[v] => p = v \/ ~Alive(v) \/ v \in robbed'
<1> SUFFICES G
  OBVIOUS
<1> HIDE DEF c
<1>3. CASE c.what \in {"vm", "squid", "pid", "child"}
  <2>1. UNCHANGED <<host, jail, dir, rec, robbed>>
    BY <1>1, <1>3 DEF SendSignal
  <2> QED BY <1>3, <2>1 DEF DiskWanes, DiskKept
<1>4. CASE c.what = "jail"
  <2>0. Delete(p, c) /\ UNCHANGED <<host, dir, rec>>
    BY <1>1, <1>4 DEF Delete
  <2>1. CASE UNCHANGED <<jail, robbed>> /\ failed' = [failed EXCEPT ![p] = TRUE]
    <3>1. failed'[p]
      BY <2>1, TypeFacts
    <3> QED BY <1>4, <2>0, <2>1, <3>1 DEF DiskWanes, DiskKept
  <2>2. CASE /\ jail' = [jail EXCEPT ![c.run] = "absent"]
             /\ robbed' = IF p # c.run /\ Alive(c.run) THEN robbed \union {c.run} ELSE robbed
    <3>1. /\ c.run = v => jail'[v] = "absent"
          /\ c.run # v => jail'[v] = jail[v]
      BY <1>1, <2>2, TypeFacts
    <3>2. robbed \subseteq robbed' /\ (p = c.run \/ ~Alive(c.run) \/ c.run \in robbed')
      BY <2>2
    <3> QED BY <1>4, <2>0, <3>1, <3>2 DEF DiskWanes, DiskKept
  <2> QED BY <1>4, <2>0, <2>1, <2>2 DEF Delete
<1>5. CASE c.what = "dir"
  <2>1. RemoveDir(c.run) /\ UNCHANGED <<host, jail, robbed>>
    BY <1>1, <1>5 DEF Delete
  <2>2. /\ c.run = v => dir'[v] = {} /\ rec'[v] = NoPids
        /\ c.run # v => dir'[v] = dir[v] /\ rec'[v] = rec[v]
    BY <1>1, <2>1, TypeFacts DEF RemoveDir
  <2> QED BY <1>5, <2>1, <2>2 DEF DiskWanes, DiskKept
<1>6. CASE c.what = "net"
  <2>0. Delete(p, c) /\ UNCHANGED <<jail, robbed>>
    BY <1>1, <1>6 DEF Delete
  <2>1. CASE host' = [host EXCEPT ![c.run] = {}] /\ RemoveDir(c.run)
    <3>1. /\ c.run = v => host'[v] = {} /\ dir'[v] = {} /\ rec'[v] = NoPids
          /\ c.run # v => host'[v] = host[v] /\ dir'[v] = dir[v] /\ rec'[v] = rec[v]
      BY <1>1, <2>1, TypeFacts DEF RemoveDir
    <3> QED BY <1>6, <2>0, <3>1 DEF DiskWanes, DiskKept
  <2>2. CASE failed' = [failed EXCEPT ![p] = TRUE] /\ RemoveDir(c.run)
             /\ \E w \in host[c.run] : host' = [host EXCEPT ![c.run] = {w}]
    <3>1. failed'[p]
      BY <2>2, TypeFacts
    <3>2. PICK w \in host[c.run] : host' = [host EXCEPT ![c.run] = {w}]
      BY <2>2
    <3>3. /\ c.run = v => host'[v] \subseteq host[v] /\ dir'[v] = {} /\ rec'[v] = NoPids
          /\ c.run # v => host'[v] = host[v] /\ dir'[v] = dir[v] /\ rec'[v] = rec[v]
      BY <1>1, <2>2, <3>2, TypeFacts DEF RemoveDir
    <3> QED BY <1>6, <2>0, <3>1, <3>3 DEF DiskWanes, DiskKept
  <2>3. CASE failed' = [failed EXCEPT ![p] = TRUE] /\ host' = [host EXCEPT ![c.run] = {}] /\ UNCHANGED <<dir, rec>>
    <3>1. failed'[p]
      BY <2>3, TypeFacts
    <3>2. /\ c.run = v => host'[v] = {}
          /\ c.run # v => host'[v] = host[v]
      BY <1>1, <2>3, TypeFacts
    <3> QED BY <1>6, <2>0, <2>3, <3>1, <3>2 DEF DiskWanes, DiskKept
  <2> QED BY <1>6, <2>0, <2>1, <2>2, <2>3 DEF Delete
<1> QED BY <1>1, <1>3, <1>4, <1>5, <1>6 DEF Whats

\* What a signal does.
LEMMA OrderOnProcs ==
  ASSUME TypeOK, NEW p \in Procs, Remove(p)
  PROVE  LET c == Head(todo[p]) IN
         /\ c.what \notin {"vm", "squid", "pid", "child"} => UNCHANGED <<proc, guest>> /\ strays' = strays
         /\ \/ /\ UNCHANGED <<proc, guest>>
               /\ Struck(p, c) = NoPid \/ failed'[p]
            \/ /\ Struck(p, c) \in Pids /\ c.what # "child"
               /\ proc' = [proc EXCEPT ![Struck(p, c)] = Ended(proc[Struck(p, c)])]
               /\ guest' = IF proc[Struck(p, c)].bin = "vm"
                           THEN [guest EXCEPT ![proc[Struck(p, c)].run] = "died"] ELSE guest
            \/ /\ Struck(p, c) \in Pids /\ c.what = "child"
               /\ proc' = [proc EXCEPT ![Struck(p, c)] = NoProc]
               /\ guest' = [guest EXCEPT ![c.run] = "died"]
            \/ c.what \notin {"vm", "squid", "pid", "child"} /\ UNCHANGED <<proc, guest>>
         /\ \/ strays' = strays
            \/ /\ c.what = "vm" /\ Struck(p, c) \in Pids /\ proc[Struck(p, c)] = Vm(c.run)
               /\ c.run # p /\ strays' = strays \union {c.run}
<1> DEFINE c == Head(todo[p])
<1>1. /\ c \in Cmds /\ c.run \in Runs /\ c.what \in Whats
      /\ c.what \in {"vm", "squid", "pid", "child"} => SendSignal(p, c)
      /\ c.what \notin {"vm", "squid", "pid", "child"} => Delete(p, c)
  BY OrderKeeps
<1> HIDE DEF c
<1>2. CASE c.what \notin {"vm", "squid", "pid", "child"}
  <2>1. UNCHANGED <<proc, guest>> /\ strays' = strays
    BY <1>1, <1>2 DEF Delete, NoSignal
  <2> QED BY <1>2, <2>1 DEF c
<1>3. CASE c.what \in {"vm", "squid", "pid", "child"}
  <2> DEFINE q == Struck(p, c)
  <2>1. SendSignal(p, c) /\ (q = NoPid \/ q \in Pids)
    BY <1>1, <1>3, StruckPid
  <2>2. /\ c.what = "vm" /\ q # NoPid => proc[q] = Vm(c.run)
        /\ c.what = "squid" /\ q # NoPid => proc[q].bin = "squid"
    BY <1>1, StruckPid
  <2> HIDE DEF q
  <2>3. \/ UNCHANGED <<proc, guest>> /\ (q = NoPid \/ failed'[p])
        \/ /\ q \in Pids /\ c.what # "child"
           /\ proc' = [proc EXCEPT ![q] = Ended(proc[q])]
           /\ guest' = IF proc[q].bin = "vm" THEN [guest EXCEPT ![proc[q].run] = "died"] ELSE guest
        \/ /\ q \in Pids /\ c.what = "child"
           /\ proc' = [proc EXCEPT ![q] = NoProc]
           /\ guest' = [guest EXCEPT ![c.run] = "died"]
    <3>1. CASE failed' = [failed EXCEPT ![p] = TRUE] /\ NoSignal
      BY <3>1, TypeFacts DEF NoSignal
    <3>2. CASE q = NoPid /\ NoSignal
      BY <3>2 DEF NoSignal
    <3>3. CASE q # NoPid /\ c.what = "child" /\ proc' = [proc EXCEPT ![q] = NoProc]
               /\ guest' = [guest EXCEPT ![c.run] = "died"]
      BY <2>1, <3>3
    <3>4. CASE q # NoPid /\ c.what # "child" /\ Signal(q)
      BY <2>1, <3>4 DEF Signal
    <3> QED BY <2>1, <3>1, <3>2, <3>3, <3>4 DEF SendSignal, q
  <2>4. \/ strays' = strays
        \/ /\ c.what = "vm" /\ q \in Pids /\ proc[q] = Vm(c.run)
           /\ c.run # p /\ strays' = strays \union {c.run}
    <3>1. CASE strays' = strays
      BY <3>1
    <3>2. CASE /\ q # NoPid /\ c.what \in {"vm", "squid"} /\ proc[q].bin = "vm" /\ proc[q].run # p
               /\ strays' = strays \union {proc[q].run}
      BY <1>1, <2>1, <2>2, <3>2, Kinds
    <3> QED BY <2>1, <3>1, <3>2 DEF SendSignal, q
  <2> QED BY <1>3, <2>3, <2>4 DEF q, c
<1> QED BY <1>2, <1>3

-----------------------------------------------------------------------------
(* Start.                                                                  *)

\* A step of Start that succeeds, and one that does not, by where Start is.
Ahead(r) ==
  /\ pc[r] = "network" => pc'[r] = "squid"
  /\ pc[r] = "squid"   => pc'[r] = "image"
  /\ pc[r] = "image"   => pc'[r] = "chroot"
  /\ pc[r] = "chroot"  => pc'[r] = "launch"
  /\ pc[r] = "launch"  => pc'[r] = "boot"
  /\ pc[r] = "boot"    => pc'[r] = "state"
  /\ pc[r] = "state"   => pc'[r] = "record"
  /\ pc[r] = "record"  => pc'[r] = "wait"
  /\ todo' = todo /\ failed' = failed /\ report' = report
  /\ host'[r] = IF pc[r] = "network" THEN {"tap", "nft"} ELSE host[r]
  /\ jail'[r] = IF pc[r] = "chroot" THEN "image" ELSE jail[r]
  /\ pc[r] \in {"launch", "boot", "record"} => dir'[r] = dir[r]
  /\ pc[r] # "state" => dir'[r] \subseteq dir[r] \union {"dir", "log", "image"}
  /\ pc[r] = "state" => dir'[r] = dir[r] \union {"state"}
  /\ rec'[r] = IF pc[r] = "state" THEN Torn ELSE IF pc[r] = "record" THEN own[r] ELSE rec[r]
  /\ guest'[r] = IF pc[r] = "boot" THEN "running" ELSE guest[r]
  /\ pc[r] = "boot" => Has("vm", r)
  /\ pc[r] = "squid" => \E p \in Pids : /\ proc[p] = NoProc /\ proc' = [proc EXCEPT ![p] = Squid(r)]
                                        /\ own' = [own EXCEPT ![r] = [own[r] EXCEPT !.squid = p]]
  /\ pc[r] = "launch" => \E p \in Pids : /\ proc[p] = NoProc /\ proc' = [proc EXCEPT ![p] = Vm(r)]
                                         /\ own' = [own EXCEPT ![r] = [own[r] EXCEPT !.vm = p]]
  /\ pc[r] \notin {"squid", "launch"} => proc' = proc /\ own' = own
Back(r) ==
  /\ pc'[r] = "unwind"
  /\ todo' = [todo EXCEPT ![r] = Rollback(r, pc[r])]
  /\ failed' = [failed EXCEPT ![r] = FALSE]
  /\ report'[r] = IF pc[r] = "chroot" THEN "noChroot" ELSE "notStarted"
  /\ UNCHANGED <<proc, own, guest, rec>>
  /\ pc[r] # "network" => host'[r] = host[r]
  /\ dir'[r] = IF pc[r] = "network" THEN {"dir"} ELSE dir[r]
  /\ pc[r] # "chroot" => jail'[r] = jail[r]

\* Proceed, by what it changes.
LEMMA GoesOn ==
  ASSUME TypeOK, NEW r \in Runs, NEW next, Proceed(r, next)
  PROVE  pc'[r] = next /\ todo' = todo /\ failed' = failed /\ report' = report
BY TypeFacts DEF Proceed, Goto

\* GiveUp, by what it changes.
LEMMA GoesBack ==
  ASSUME TypeOK, NEW r \in Runs, GiveUp(r, pc[r])
  PROVE  /\ pc'[r] = "unwind" /\ todo' = [todo EXCEPT ![r] = Rollback(r, pc[r])]
         /\ failed' = [failed EXCEPT ![r] = FALSE]
         /\ report'[r] = IF pc[r] = "chroot" THEN "noChroot" ELSE "notStarted"
BY TypeFacts, Apart DEF GiveUp, Goto

\* A step of Start is one or the other.
LEMMA StartsOn ==
  ASSUME TypeOK, NEW r \in Runs, Starts(r)
  PROVE  pc[r] \in Steps /\ (Ahead(r) \/ Back(r))
<1> USE TypeFacts
<1>1. CASE ProvideNetwork(r)
  <2>0. pc[r] = "network" /\ UNCHANGED <<proc, own, jail, rec, guest>> /\ dir'[r] = {"dir"}
    BY <1>1 DEF ProvideNetwork, Touch
  <2>1. CASE Proceed(r, "squid") /\ host' = [host EXCEPT ![r] = {"tap", "nft"}]
    <3>1. pc'[r] = "squid" /\ todo' = todo /\ failed' = failed /\ report' = report
      BY <2>1, GoesOn
    <3>2. host'[r] = {"tap", "nft"}
      BY <2>1
    <3> QED BY <2>0, <3>1, <3>2 DEF Ahead, Steps
  <2>2. CASE Fails(r, "network", TRUE)
    <3>0. GiveUp(r, pc[r])
      BY <2>0, <2>2 DEF Fails
    <3>1. /\ pc'[r] = "unwind" /\ todo' = [todo EXCEPT ![r] = Rollback(r, pc[r])]
          /\ failed' = [failed EXCEPT ![r] = FALSE]
          /\ report'[r] = IF pc[r] = "chroot" THEN "noChroot" ELSE "notStarted"
      BY <3>0, GoesBack
    <3> QED BY <2>0, <2>2, <3>1 DEF Back, Steps
  <2> QED BY <1>1, <2>1, <2>2 DEF ProvideNetwork
<1>2. CASE StartSquid(r)
  <2>0. pc[r] = "squid" /\ UNCHANGED <<host, jail, rec, guest>>
    BY <1>2 DEF StartSquid
  <2>1. CASE Proceed(r, "image") /\ Fork(r, "squid", "squid") /\ Touch(r, dir[r] \union {"log"})
    <3>1. pc'[r] = "image" /\ todo' = todo /\ failed' = failed /\ report' = report
      BY <2>1, GoesOn
    <3>2. dir'[r] = dir[r] \union {"log"}
      BY <2>1 DEF Touch
    <3>3. \E p \in Pids : /\ proc[p] = NoProc /\ proc' = [proc EXCEPT ![p] = Squid(r)]
                          /\ own' = [own EXCEPT ![r] = [own[r] EXCEPT !.squid = p]]
      BY <2>1, ForkSquid
    <3> QED BY <2>0, <3>1, <3>2, <3>3 DEF Ahead, Steps
  <2>2. CASE Fails(r, "squid", dir[r] # {}) /\ UNCHANGED <<proc, own, dir, young>>
    <3>0. GiveUp(r, pc[r])
      BY <2>0, <2>2 DEF Fails
    <3>1. /\ pc'[r] = "unwind" /\ todo' = [todo EXCEPT ![r] = Rollback(r, pc[r])]
          /\ failed' = [failed EXCEPT ![r] = FALSE]
          /\ report'[r] = IF pc[r] = "chroot" THEN "noChroot" ELSE "notStarted"
      BY <3>0, GoesBack
    <3> QED BY <2>0, <2>2, <3>1 DEF Back, Steps
  <2> QED BY <1>2, <2>1, <2>2 DEF StartSquid
<1>3. CASE BuildImage(r)
  <2>0. pc[r] = "image" /\ UNCHANGED <<proc, own, host, jail, rec, guest>>
    BY <1>3 DEF BuildImage
  <2>1. CASE Proceed(r, "chroot") /\ Touch(r, dir[r] \union {"dir", "image"})
    <3>1. pc'[r] = "chroot" /\ todo' = todo /\ failed' = failed /\ report' = report
      BY <2>1, GoesOn
    <3>2. dir'[r] = dir[r] \union {"dir", "image"}
      BY <2>1 DEF Touch
    <3> QED BY <2>0, <3>1, <3>2 DEF Ahead, Steps
  <2>2. CASE Fails(r, "image", TRUE) /\ UNCHANGED <<dir, young>>
    <3>0. GiveUp(r, pc[r])
      BY <2>0, <2>2 DEF Fails
    <3>1. /\ pc'[r] = "unwind" /\ todo' = [todo EXCEPT ![r] = Rollback(r, pc[r])]
          /\ failed' = [failed EXCEPT ![r] = FALSE]
          /\ report'[r] = IF pc[r] = "chroot" THEN "noChroot" ELSE "notStarted"
      BY <3>0, GoesBack
    <3> QED BY <2>0, <2>2, <3>1 DEF Back, Steps
  <2> QED BY <1>3, <2>1, <2>2 DEF BuildImage
<1>4. CASE PrepareChroot(r)
  <2>0. pc[r] = "chroot" /\ UNCHANGED <<proc, own, host, rec, guest>>
    BY <1>4 DEF PrepareChroot
  <2>1. CASE Proceed(r, "launch") /\ jail' = [jail EXCEPT ![r] = "image"] /\ Touch(r, dir[r] \ {"image"})
    <3>1. pc'[r] = "launch" /\ todo' = todo /\ failed' = failed /\ report' = report
      BY <2>1, GoesOn
    <3>2. dir'[r] = dir[r] \ {"image"} /\ jail'[r] = "image"
      BY <2>1 DEF Touch
    <3> QED BY <2>0, <3>1, <3>2 DEF Ahead, Steps
  <2>2. CASE Fails(r, "chroot", "image" \in dir[r]) /\ UNCHANGED <<dir, young>>
    <3>0. GiveUp(r, pc[r])
      BY <2>0, <2>2 DEF Fails
    <3>1. /\ pc'[r] = "unwind" /\ todo' = [todo EXCEPT ![r] = Rollback(r, pc[r])]
          /\ failed' = [failed EXCEPT ![r] = FALSE]
          /\ report'[r] = IF pc[r] = "chroot" THEN "noChroot" ELSE "notStarted"
      BY <3>0, GoesBack
    <3> QED BY <2>0, <2>2, <3>1 DEF Back, Steps
  <2> QED BY <1>4, <2>1, <2>2 DEF PrepareChroot
<1>5. CASE LaunchVM(r)
  <2>0. pc[r] = "launch" /\ UNCHANGED <<host, jail, rec, guest>>
    BY <1>5 DEF LaunchVM
  <2>1. CASE Proceed(r, "boot") /\ Fork(r, "vm", "vm") /\ Touch(r, dir[r])
    <3>1. pc'[r] = "boot" /\ todo' = todo /\ failed' = failed /\ report' = report
      BY <2>1, GoesOn
    <3>2. dir'[r] = dir[r]
      BY <2>1 DEF Touch
    <3>3. \E p \in Pids : /\ proc[p] = NoProc /\ proc' = [proc EXCEPT ![p] = Vm(r)]
                          /\ own' = [own EXCEPT ![r] = [own[r] EXCEPT !.vm = p]]
      BY <2>1, ForkVm
    <3> QED BY <2>0, <3>1, <3>2, <3>3 DEF Ahead, Steps
  <2>2. CASE Fails(r, "launch", dir[r] # {}) /\ UNCHANGED <<proc, own, dir, young>>
    <3>0. GiveUp(r, pc[r])
      BY <2>0, <2>2 DEF Fails
    <3>1. /\ pc'[r] = "unwind" /\ todo' = [todo EXCEPT ![r] = Rollback(r, pc[r])]
          /\ failed' = [failed EXCEPT ![r] = FALSE]
          /\ report'[r] = IF pc[r] = "chroot" THEN "noChroot" ELSE "notStarted"
      BY <3>0, GoesBack
    <3> QED BY <2>0, <2>2, <3>1 DEF Back, Steps
  <2> QED BY <1>5, <2>1, <2>2 DEF LaunchVM
<1>6. CASE BootVM(r)
  <2>0. pc[r] = "boot" /\ UNCHANGED <<proc, own, host, jail, dir, rec>>
    BY <1>6 DEF BootVM, disk
  <2>1. CASE Has("vm", r) /\ Proceed(r, "state") /\ guest' = [guest EXCEPT ![r] = "running"]
    <3>1. pc'[r] = "state" /\ todo' = todo /\ failed' = failed /\ report' = report
      BY <2>1, GoesOn
    <3>2. guest'[r] = "running"
      BY <2>1
    <3> QED BY <2>0, <2>1, <3>1, <3>2 DEF Ahead, Steps
  <2>2. CASE Fails(r, "boot", Has("vm", r)) /\ UNCHANGED guest
    <3>0. GiveUp(r, pc[r])
      BY <2>0, <2>2 DEF Fails
    <3>1. /\ pc'[r] = "unwind" /\ todo' = [todo EXCEPT ![r] = Rollback(r, pc[r])]
          /\ failed' = [failed EXCEPT ![r] = FALSE]
          /\ report'[r] = IF pc[r] = "chroot" THEN "noChroot" ELSE "notStarted"
      BY <3>0, GoesBack
    <3> QED BY <2>0, <2>2, <3>1 DEF Back, Steps
  <2> QED BY <1>6, <2>1, <2>2 DEF BootVM
<1>7. CASE CreateState(r)
  <2>0. pc[r] = "state" /\ UNCHANGED <<proc, own, host, jail, guest>>
    BY <1>7 DEF CreateState
  <2>1. CASE Proceed(r, "record") /\ Touch(r, dir[r] \union {"state"}) /\ rec' = [rec EXCEPT ![r] = Torn]
    <3>1. pc'[r] = "record" /\ todo' = todo /\ failed' = failed /\ report' = report
      BY <2>1, GoesOn
    <3>2. dir'[r] = dir[r] \union {"state"} /\ rec'[r] = Torn
      BY <2>1 DEF Touch
    <3> QED BY <2>0, <3>1, <3>2 DEF Ahead, Steps
  <2>2. CASE Fails(r, "state", dir[r] # {}) /\ UNCHANGED <<dir, young, rec>>
    <3>0. GiveUp(r, pc[r])
      BY <2>0, <2>2 DEF Fails
    <3>1. /\ pc'[r] = "unwind" /\ todo' = [todo EXCEPT ![r] = Rollback(r, pc[r])]
          /\ failed' = [failed EXCEPT ![r] = FALSE]
          /\ report'[r] = IF pc[r] = "chroot" THEN "noChroot" ELSE "notStarted"
      BY <3>0, GoesBack
    <3> QED BY <2>0, <2>2, <3>1 DEF Back, Steps
  <2> QED BY <1>7, <2>1, <2>2 DEF CreateState
<1>8. CASE RecordState(r)
  <2>0. pc[r] = "record" /\ UNCHANGED <<proc, own, host, jail, dir, guest>>
    BY <1>8 DEF RecordState
  <2>1. CASE Proceed(r, "wait") /\ rec' = [rec EXCEPT ![r] = own[r]]
    <3>1. pc'[r] = "wait" /\ todo' = todo /\ failed' = failed /\ report' = report
      BY <2>1, GoesOn
    <3>2. rec'[r] = own[r]
      BY <2>1
    <3> QED BY <2>0, <3>1, <3>2 DEF Ahead, Steps
  <2>2. CASE Fails(r, "record", TRUE) /\ UNCHANGED rec
    <3>0. GiveUp(r, pc[r])
      BY <2>0, <2>2 DEF Fails
    <3>1. /\ pc'[r] = "unwind" /\ todo' = [todo EXCEPT ![r] = Rollback(r, pc[r])]
          /\ failed' = [failed EXCEPT ![r] = FALSE]
          /\ report'[r] = IF pc[r] = "chroot" THEN "noChroot" ELSE "notStarted"
      BY <3>0, GoesBack
    <3> QED BY <2>0, <2>2, <3>1 DEF Back, Steps
  <2> QED BY <1>8, <2>1, <2>2 DEF RecordState
<1> QED BY <1>1, <1>2, <1>3, <1>4, <1>5, <1>6, <1>7, <1>8 DEF Starts

-----------------------------------------------------------------------------
(* What only Start can do.                                                 *)

\* A step of Start leaves other runs alone.
LEMMA StartsApart ==
  ASSUME TypeOK, NEW r \in Runs, Starts(r)
  PROVE  /\ \A v \in Runs \ {r} : /\ pc'[v] = pc[v] /\ own'[v] = own[v] /\ report'[v] = report[v]
                                  /\ guest'[v] = guest[v] /\ DiskKept(v)
         /\ \A p \in Procs \ {r} : todo'[p] = todo[p] /\ failed'[p] = failed[p]
         /\ UNCHANGED <<pending, aim, kill, stopRun, robbed, slow, strays, cleared>>
         /\ \A p \in Pids : proc'[p] = proc[p] \/ (proc[p] = NoProc /\ proc'[p] \in {Vm(r), Squid(r)})
<1> USE TypeFacts
<1>0. ASSUME NEW v \in Runs \ {r} PROVE v # r
  OBVIOUS
<1>1. UNCHANGED <<pending, aim, kill, stopRun, robbed, slow, strays, cleared>>
  BY DEF Starts, ProvideNetwork, StartSquid, BuildImage, PrepareChroot, LaunchVM, BootVM, CreateState,
         RecordState, history
<1>2. /\ \A v \in Runs \ {r} : pc'[v] = pc[v] /\ report'[v] = report[v]
      /\ \A p \in Procs \ {r} : todo'[p] = todo[p] /\ failed'[p] = failed[p]
  <2>1. ASSUME NEW next, Proceed(r, next)
        PROVE  /\ \A v \in Runs \ {r} : pc'[v] = pc[v] /\ report'[v] = report[v]
               /\ \A p \in Procs \ {r} : todo'[p] = todo[p] /\ failed'[p] = failed[p]
    BY <2>1 DEF Proceed, Goto
  <2>2. ASSUME NEW step, GiveUp(r, step)
        PROVE  /\ \A v \in Runs \ {r} : pc'[v] = pc[v] /\ report'[v] = report[v]
               /\ \A p \in Procs \ {r} : todo'[p] = todo[p] /\ failed'[p] = failed[p]
    BY <2>2 DEF GiveUp, Goto
  <2> QED BY <2>1, <2>2 DEF Fails, Starts, ProvideNetwork, StartSquid, BuildImage, PrepareChroot, LaunchVM,
                            BootVM, CreateState, RecordState
<1>3. \A v \in Runs \ {r} : dir'[v] = dir[v]
  BY DEF Touch, Starts, ProvideNetwork, StartSquid, BuildImage, PrepareChroot, LaunchVM, BootVM, CreateState,
         RecordState, disk
<1>4. \A v \in Runs \ {r} : host'[v] = host[v]
  <2>1. CASE ProvideNetwork(r)
    <3>1. CASE host' = [host EXCEPT ![r] = {"tap", "nft"}]
      BY <3>1
    <3>2. ASSUME NEW made, host' = [host EXCEPT ![r] = made] PROVE \A v \in Runs \ {r} : host'[v] = host[v]
      BY <3>2
    <3> QED BY <2>1, <3>1, <3>2 DEF ProvideNetwork
  <2>2. CASE ~ProvideNetwork(r)
    BY <2>2 DEF Starts, StartSquid, BuildImage, PrepareChroot, LaunchVM, BootVM, CreateState,
           RecordState
  <2> QED BY <2>1, <2>2
<1>5. \A v \in Runs \ {r} : jail'[v] = jail[v] /\ rec'[v] = rec[v] /\ guest'[v] = guest[v]
  <2>1. CASE PrepareChroot(r)
    <3>1. jail' = [jail EXCEPT ![r] = "image"] \/ \E made : jail' = [jail EXCEPT ![r] = made]
      BY <2>1 DEF PrepareChroot
    <3>2. \A v \in Runs \ {r} : jail'[v] = jail[v]
      BY <3>1
    <3> QED BY <2>1, <3>2 DEF PrepareChroot
  <2>2. CASE ProvideNetwork(r) \/ StartSquid(r) \/ BuildImage(r) \/ LaunchVM(r)
    BY <2>2 DEF ProvideNetwork, StartSquid, BuildImage, LaunchVM
  <2>3. CASE BootVM(r)
    BY <2>3 DEF BootVM, disk
  <2>4. CASE CreateState(r)
    BY <2>4 DEF CreateState
  <2>5. CASE RecordState(r)
    BY <2>5 DEF RecordState
  <2> QED BY <2>1, <2>2, <2>3, <2>4, <2>5 DEF Starts
<1>6. /\ \A v \in Runs \ {r} : own'[v] = own[v]
      /\ \A p \in Pids : proc'[p] = proc[p] \/ (proc[p] = NoProc /\ proc'[p] \in {Vm(r), Squid(r)})
  <2>1. CASE Fork(r, "squid", "squid")
    BY <2>1, ForkSquid
  <2>2. CASE Fork(r, "vm", "vm")
    BY <2>2, ForkVm
  <2>3. CASE UNCHANGED <<proc, own>>
    BY <2>3
  <2> QED BY <2>1, <2>2, <2>3 DEF Starts, ProvideNetwork, StartSquid, BuildImage, PrepareChroot, LaunchVM,
                                  BootVM, CreateState, RecordState
<1> QED BY <1>1, <1>2, <1>3, <1>4, <1>5, <1>6 DEF DiskKept

PcMoves(v) == \/ pc'[v] = pc[v]
              \/ pc[v] = "idle" /\ pc'[v] = "sweep"
              \/ pc[v] = "sweep" /\ pc'[v] = "network"
              \/ pc[v] = "wait" /\ pc'[v] \in {"teardown", "read"}
              \/ pc[v] = "read" /\ pc'[v] = "teardown"
              \/ pc[v] \in {"unwind", "teardown"} /\ pc'[v] = "over"
              \/ Alive(v) /\ pc'[v] = "dead"

\* The stages a run goes through outside Start.
LEMMA PcStep ==
  ASSUME TypeOK, [Next]_vars, NEW v \in Runs, ~Starts(v)
  PROVE  PcMoves(v)
<1> USE TypeFacts
<1>1. ASSUME NEW r \in Runs, Quiet(r) PROVE PcMoves(v)
  <2>1. \/ pc' = pc
        \/ Goto(r, "sweep") /\ pc[r] = "idle"
        \/ Goto(r, "network") /\ pc[r] = "sweep"
        \/ Goto(r, "teardown") /\ pc[r] \in {"wait", "read"}
    BY <1>1 DEF Quiet, List, Swept, Judge, SetUpFails, ReadExitCode, AskGuest, Ring, Age, OperatorStop, BeginStop
  <2> QED BY <2>1 DEF Goto, PcMoves
<1>2. ASSUME NEW r \in Runs, WaitReturns(r) \/ Return(r) PROVE PcMoves(v)
  BY <1>2 DEF WaitReturns, Return, Goto, PcMoves
<1>3. ASSUME NEW r \in Runs, ForceGuest(r) \/ GuestEnds(r) \/ SquidDies(r) PROVE PcMoves(v)
  BY <1>3 DEF ForceGuest, GuestEnds, SquidDies, PcMoves
<1>4. ASSUME NEW r \in Runs, Crash(r) PROVE PcMoves(v)
  BY <1>4 DEF Crash, Die, PcMoves
<1>5. CASE Reboot
  BY <1>5, Apart DEF Reboot, Die, PcMoves
<1>6. ASSUME NEW p \in Procs, Remove(p) PROVE PcMoves(v)
  BY <1>6 DEF Remove, PcMoves
<1>7. ASSUME NEW r \in Runs, Starts(r) PROVE PcMoves(v)
  BY <1>7, StartsApart DEF PcMoves
<1>8. UNCHANGED vars => PcMoves(v)
  BY DEF vars, PcMoves
<1> QED BY <1>1, <1>2, <1>3, <1>4, <1>5, <1>6, <1>7, <1>8, Cases

\* PIDs in a RunContext change only while Start runs, until the run is over.
LEMMA OwnStep ==
  ASSUME TypeOK, [Next]_vars, NEW v \in Runs, ~Starts(v)
  PROVE  own'[v] = own[v] \/ pc'[v] \in {"over", "dead"}
<1> USE TypeFacts
<1>1. ASSUME NEW r \in Runs, Quiet(r) PROVE own'[v] = own[v]
  BY <1>1, QuietKeeps DEF things
<1>2. ASSUME NEW r \in Runs, WaitReturns(r) PROVE own'[v] = own[v]
  BY <1>2 DEF WaitReturns
<1>3. ASSUME NEW r \in Runs, Return(r) PROVE own'[v] = own[v] \/ pc'[v] \in {"over", "dead"}
  BY <1>3 DEF Return, Goto, Forget
<1>4. ASSUME NEW r \in Runs, ForceGuest(r) \/ GuestEnds(r) \/ SquidDies(r) PROVE own'[v] = own[v]
  BY <1>4 DEF ForceGuest, GuestEnds, SquidDies
<1>5. ASSUME NEW r \in Runs, Crash(r) PROVE own'[v] = own[v] \/ pc'[v] \in {"over", "dead"}
  BY <1>5 DEF Crash, Die, Forget
<1>6. CASE Reboot
  BY <1>6 DEF Reboot, Die, Forget
<1>7. ASSUME NEW p \in Procs, Remove(p) PROVE own'[v] = own[v]
  BY <1>7 DEF Remove
<1>8. ASSUME NEW r \in Runs, Starts(r) PROVE own'[v] = own[v]
  BY <1>8, StartsApart
<1>9. UNCHANGED vars => own'[v] = own[v]
  BY DEF vars
<1> QED BY <1>1, <1>2, <1>3, <1>4, <1>5, <1>6, <1>7, <1>8, <1>9, Cases

\* A process that another one replaces has been waited for.
LEMMA Distinct ==
  ASSUME NEW r \in Runs, NEW v \in Runs
  PROVE  /\ Vm(r) # Squid(v) /\ Vm(r) # Zombie(v) /\ Squid(r) # Zombie(v)
         /\ r # v => Vm(r) # Vm(v) /\ Squid(r) # Squid(v) /\ Zombie(r) # Zombie(v)
BY DEF Vm, Squid, Zombie

ProcWanes(v) ==
  \A p \in Pids : /\ proc'[p] = Vm(v) => proc[p] = Vm(v)
                  /\ proc'[p] = Squid(v) => proc[p] = Squid(v)
                  /\ proc'[p] = Zombie(v) => proc[p] \in {Vm(v), Zombie(v)}

\* A process that ends leaves at most a zombie.
LEMMA EndedWanes ==
  ASSUME NEW v \in Runs, NEW x \in Process
  PROVE  /\ Ended(x) # Vm(v) /\ Ended(x) # Squid(v)
         /\ Ended(x) = Zombie(v) => x \in {Vm(v), Zombie(v)}
         /\ Alive(v) /\ x \in {Vm(v), Zombie(v)} => Ended(x) = Zombie(v)
<1>1. CASE x = NoProc
  BY <1>1, EndedFacts, Kinds
<1>2. ASSUME NEW r \in Runs, x \in {Vm(r), Squid(r), Zombie(r)}
      PROVE  /\ Ended(x) # Vm(v) /\ Ended(x) # Squid(v)
             /\ Ended(x) = Zombie(v) => x \in {Vm(v), Zombie(v)}
             /\ Alive(v) /\ x \in {Vm(v), Zombie(v)} => Ended(x) = Zombie(v)
  <2>1. /\ Ended(Vm(r)) = IF Alive(r) THEN Zombie(r) ELSE NoProc
        /\ Ended(Squid(r)) = NoProc /\ Ended(Zombie(r)) = Zombie(r)
    BY EndedFacts
  <2>2. /\ Vm(v) # NoProc /\ Squid(v) # NoProc /\ Zombie(v) # NoProc
        /\ Zombie(r) # Vm(v) /\ Zombie(r) # Squid(v)
        /\ Vm(r) # Zombie(v) /\ Squid(r) # Zombie(v) /\ Squid(r) # Vm(v)
        /\ r # v => Vm(r) # Vm(v) /\ Zombie(r) # Zombie(v)
    BY Kinds, Distinct
  <2> QED BY <1>2, <2>1, <2>2
<1> QED BY <1>1, <1>2, Kinds

\* Processes of a run come into being in its Start alone.
LEMMA ProcStep ==
  ASSUME TypeOK, [Next]_vars, NEW v \in Runs, ~Starts(v)
  PROVE  ProcWanes(v)
<1> USE TypeFacts
<1>0. /\ Vm(v) # NoProc /\ Squid(v) # NoProc /\ Zombie(v) # NoProc
  BY Kinds
<1>1. proc' = proc => ProcWanes(v)
  BY DEF ProcWanes
<1>2. ASSUME NEW S, \A p \in Pids : proc'[p] = IF p \in S THEN Ended(proc[p]) ELSE proc[p]
      PROVE  ProcWanes(v)
  BY <1>2, EndedWanes DEF ProcWanes
<1>3. ASSUME NEW S, \A p \in Pids : proc'[p] = IF p \in S THEN NoProc ELSE proc[p]
      PROVE  ProcWanes(v)
  BY <1>0, <1>3 DEF ProcWanes
<1>4. ASSUME NEW r \in Runs, WaitReturns(r) \/ Return(r) \/ Crash(r)
      PROVE  ProcWanes(v)
  <2>1. \A p \in Pids : proc'[p] = IF p \in {q \in Pids : proc[q] = Zombie(r)} THEN NoProc ELSE proc[p]
    BY <1>4, ReapType DEF WaitReturns, Return, Crash
  <2> QED BY <1>3, <2>1
<1>5. ASSUME NEW r \in Runs, ForceGuest(r) PROVE ProcWanes(v)
  <2>1. CASE NoSignal
    BY <1>1, <2>1 DEF NoSignal
  <2>2. CASE Signal(own[r].vm)
    <3>1. \A p \in Pids : proc'[p] = IF p \in {own[r].vm} THEN Ended(proc[p]) ELSE proc[p]
      BY <2>2 DEF Signal
    <3> QED BY <1>2, <3>1
  <2> QED BY <1>5, <2>1, <2>2 DEF ForceGuest
<1>6. ASSUME NEW r \in Runs, GuestEnds(r) PROVE ProcWanes(v)
  <2>1. \A p \in Pids : proc'[p] = IF p \in {q \in Pids : proc[q] = Vm(r)} THEN Ended(proc[p]) ELSE proc[p]
    BY <1>6 DEF GuestEnds
  <2> QED BY <1>2, <2>1
<1>7. ASSUME NEW r \in Runs, SquidDies(r) PROVE ProcWanes(v)
  <2>1. \A p \in Pids : proc'[p] = IF p \in {q \in Pids : proc[q] = Squid(r)} THEN NoProc ELSE proc[p]
    BY <1>7 DEF SquidDies
  <2> QED BY <1>3, <2>1
<1>8. CASE Reboot
  <2>1. \A p \in Pids : proc'[p] = IF p \in Pids THEN NoProc ELSE proc[p]
    BY <1>8 DEF Reboot
  <2> QED BY <1>3, <2>1
<1>9. ASSUME NEW p \in Procs, Remove(p) PROVE ProcWanes(v)
  <2> DEFINE s == Struck(p, Head(todo[p]))
  <2>1. \/ proc' = proc \/ proc' = [proc EXCEPT ![s] = Ended(proc[s])]
        \/ proc' = [proc EXCEPT ![s] = NoProc]
    BY <1>9, OrderOnProcs
  <2> HIDE DEF s
  <2>2. CASE proc' = [proc EXCEPT ![s] = Ended(proc[s])]
    <3>1. \A q \in Pids : proc'[q] = IF q \in {s} THEN Ended(proc[q]) ELSE proc[q]
      BY <2>2
    <3> QED BY <1>2, <3>1
  <2>3. CASE proc' = [proc EXCEPT ![s] = NoProc]
    <3>1. \A q \in Pids : proc'[q] = IF q \in {s} THEN NoProc ELSE proc[q]
      BY <2>3
    <3> QED BY <1>3, <3>1
  <2> QED BY <1>1, <2>1, <2>2, <2>3
<1>10. ASSUME NEW r \in Runs, Starts(r) PROVE ProcWanes(v)
  <2>1. r # v
    BY <1>10
  <2>2. \A p \in Pids : proc'[p] = proc[p] \/ proc'[p] \in {Vm(r), Squid(r)}
    BY <1>10, StartsApart
  <2> QED BY <2>1, <2>2, Distinct DEF ProcWanes
<1>11. ASSUME NEW r \in Runs, Quiet(r) PROVE ProcWanes(v)
  BY <1>1, <1>11, QuietKeeps DEF things
<1>12. UNCHANGED vars => ProcWanes(v)
  BY <1>1 DEF vars
<1> QED BY <1>4, <1>5, <1>6, <1>7, <1>8, <1>9, <1>10, <1>11, <1>12, Cases

\* What becomes of a run's device, directory and chroot outside Start.
LEMMA DiskStep ==
  ASSUME TypeOK, [Next]_vars, NEW v \in Runs, ~Starts(v)
  PROVE  /\ DiskWanes(v)
         /\ \/ DiskKept(v)
            \/ \E p \in Procs : Remove(p) /\ Head(todo[p]).run = v
            \/ GuestEnds(v) /\ host'[v] = host[v] /\ dir'[v] = dir[v] /\ rec'[v] = rec[v]
            \/ Reboot /\ jail'[v] = jail[v] /\ dir'[v] = dir[v] /\ rec'[v] = rec[v]
<1> USE TypeFacts
<1>0. DiskKept(v) => DiskWanes(v)
  BY DEF DiskKept, DiskWanes
<1>1. ASSUME NEW r \in Runs, Quiet(r) PROVE DiskKept(v)
  BY <1>1, QuietKeeps DEF things, DiskKept
<1>2. ASSUME NEW r \in Runs, WaitReturns(r) \/ Return(r) \/ ForceGuest(r) \/ SquidDies(r) \/ Crash(r) PROVE DiskKept(v)
  BY <1>2 DEF WaitReturns, Return, ForceGuest, SquidDies, Crash, disk, DiskKept
<1>3. ASSUME NEW r \in Runs, GuestEnds(r)
      PROVE  /\ DiskWanes(v)
             /\ r # v => DiskKept(v)
             /\ host'[v] = host[v] /\ dir'[v] = dir[v] /\ rec'[v] = rec[v]
  <2>1. host'[v] = host[v] /\ dir'[v] = dir[v] /\ rec'[v] = rec[v]
    BY <1>3 DEF GuestEnds
  <2>2. jail' = jail \/ jail' = [jail EXCEPT ![r] = IF jail[r] = "image" THEN "code" ELSE jail[r]]
    BY <1>3 DEF GuestEnds
  <2>3. jail'[v] = jail[v] \/ (r = v /\ jail[v] = "image" /\ jail'[v] = "code")
    <3>1. CASE jail' = jail
      BY <3>1
    <3>2. CASE jail[r] = "image" /\ jail' = [jail EXCEPT ![r] = "code"]
      BY <3>2
    <3>3. CASE jail[r] # "image" /\ jail' = [jail EXCEPT ![r] = jail[r]]
      BY <3>3
    <3> QED BY <2>2, <3>1, <3>2, <3>3
  <2> QED BY <2>1, <2>3 DEF DiskWanes, DiskKept
<1>4. ASSUME NEW p \in Procs, Remove(p)
      PROVE  DiskWanes(v) /\ (DiskKept(v) \/ Head(todo[p]).run = v)
  BY <1>4, OrderOnDisk
<1>5. CASE Reboot
  <2>1. jail'[v] = jail[v] /\ dir'[v] = dir[v] /\ rec'[v] = rec[v] /\ host'[v] = {}
    BY <1>5 DEF Reboot, disk
  <2> QED BY <1>5, <2>1 DEF DiskWanes
<1>6. ASSUME NEW r \in Runs, Starts(r) PROVE DiskKept(v)
  BY <1>6, StartsApart
<1>7. UNCHANGED vars => DiskKept(v)
  BY VarsKept DEF things, DiskKept
<1> QED BY <1>0, <1>1, <1>2, <1>3, <1>4, <1>5, <1>6, <1>7, Cases

-----------------------------------------------------------------------------
(* Whose things a process has in hand.                                     *)

Tear == {"vm", "squid", "jail", "net"}
Undo == {"pid", "child", "jail", "net"}

\* Whose things a process has in hand, at each stage.
Child(r) == own[r].vm \in Pids /\ proc[own[r].vm] \in {Vm(r), Zombie(r)}
OrdersOf(r) ==
  /\ pc[r] \notin {"sweep", "unwind", "teardown"} => todo[r] = <<>>
  /\ pc[r] = "unwind" => All(todo[r], r, Undo)
  /\ pc[r] = "teardown" => All(todo[r], r, Tear)
  /\ pc[r] = "teardown" /\ todo[r] # <<>> => aim[r] = own[r]
  /\ pc[r] = "sweep" /\ todo[r] # <<>> =>
       LET v == Head(todo[r]).run IN v # r /\ (All(todo[r], v, Tear) \/ All(todo[r], v, {"dir"}))
  /\ \A i \in 1 .. Len(todo[r]) : todo[r][i].what = "child" => i = 1
  /\ pc[r] \in {"boot", "state", "record"} \/ Lists(todo[r], Do(r, "child")) => Child(r)
Orders == (\A r \in Runs : OrdersOf(r)) /\ All(todo[Operator], stopRun, Tear)

\* Whose orders they can be.
LEMMA HeadOf ==
  ASSUME TypeOK, Orders, NEW p \in Procs, todo[p] # <<>>
  PROVE  LET c == Head(todo[p]) IN
         /\ p = Operator => c.run = stopRun /\ c.what \in Tear
         /\ p \in Runs =>
              \/ pc[p] = "unwind" /\ c.run = p /\ c.what \in Undo
              \/ pc[p] = "teardown" /\ c.run = p /\ c.what \in Tear /\ aim[p] = own[p]
              \/ pc[p] = "sweep" /\ c.run # p /\ c.what \in Tear \union {"dir"}
<1>1. todo[p] \in Seq(Cmds)
  BY TypeFacts
<1>2. Head(todo[p]) = todo[p][1] /\ 1 \in 1 .. Len(todo[p])
  BY <1>1, TailKeeps
<1>3. p = Operator => Head(todo[p]).run = stopRun /\ Head(todo[p]).what \in Tear
  BY <1>2 DEF Orders, All
<1>4. p \in Runs => OrdersOf(p)
  BY DEF Orders
<1> QED BY <1>2, <1>3, <1>4 DEF OrdersOf, All, Tear

\* What holds of all of a list holds of its tail.
LEMMA AllTail ==
  ASSUME NEW s \in Seq(Cmds), s # <<>>, NEW v, NEW W, All(s, v, W)
  PROVE  All(Tail(s), v, W) /\ (Tail(s) # <<>> => Head(Tail(s)).run = v)
<1>1. All(Tail(s), v, W)
  BY TailKeeps DEF All
<1>2. Tail(s) \in Seq(Cmds)
  BY TailKeeps
<1>3. Tail(s) # <<>> => Head(Tail(s)) = Tail(s)[1] /\ 1 \in 1 .. Len(Tail(s))
  BY <1>2, TailKeeps
<1> QED BY <1>1, <1>3 DEF All

\* What becomes of the orders of a run's process.
LEMMA TodoStep ==
  ASSUME TypeOK, [Next]_vars, NEW r \in Runs, ~Starts(r)
  PROVE  \/ todo'[r] = todo[r] /\ aim'[r] = aim[r] /\ (failed'[r] = failed[r] \/ pc'[r] = "network")
         \/ \E v \in Runs : Judge(r, v)
         \/ BeginStop(r) /\ pc[r] \in {"wait", "read"} /\ (SetUpFails(r) \/ ReadExitCode(r))
         \/ Remove(r)
         \/ todo'[r] = <<>> /\ aim'[r] = aim[r] /\ failed'[r] = failed[r] /\ pc'[r] = "dead"
<1> DEFINE Same == todo'[r] = todo[r] /\ aim'[r] = aim[r] /\ (failed'[r] = failed[r] \/ pc'[r] = "network")
<1> USE TypeFacts, Apart
<1>1. ASSUME NEW v \in Runs, Quiet(v)
      PROVE  \/ Same \/ (\E w \in Runs : Judge(r, w))
             \/ BeginStop(r) /\ pc[r] \in {"wait", "read"} /\ (SetUpFails(r) \/ ReadExitCode(r))
  <2>1. CASE List(v) \/ AskGuest(v) \/ Ring(v) \/ Age(v)
    BY <2>1 DEF List, AskGuest, Ring, Age, removal
  <2>2. CASE Swept(v)
    BY <2>2 DEF Swept, Goto
  <2>3. ASSUME NEW w \in Runs, Judge(v, w), v # r PROVE Same
    BY <2>3 DEF Judge, removal
  <2>4. CASE SetUpFails(v) \/ ReadExitCode(v)
    <3>1. BeginStop(v) /\ pc[v] \in {"wait", "read"}
      BY <2>4 DEF SetUpFails, ReadExitCode
    <3>2. v # r => Same
      BY <3>1 DEF BeginStop
    <3> QED BY <2>4, <3>1, <3>2
  <2>5. CASE OperatorStop(v)
    <3>1. Operator # r
      OBVIOUS
    <3> QED BY <2>5, <3>1 DEF OperatorStop
  <2> QED BY <1>1, <2>1, <2>2, <2>3, <2>4, <2>5 DEF Quiet
<1>2. ASSUME NEW v \in Runs, WaitReturns(v) \/ Return(v) \/ ForceGuest(v) \/ GuestEnds(v) \/ SquidDies(v)
      PROVE  Same
  BY <1>2 DEF WaitReturns, Return, ForceGuest, GuestEnds, SquidDies, removal
<1>3. ASSUME NEW v \in Runs, Crash(v)
      PROVE  Same \/ (todo'[r] = <<>> /\ aim'[r] = aim[r] /\ failed'[r] = failed[r] /\ pc'[r] = "dead")
  BY <1>3 DEF Crash, Die
<1>4. CASE Reboot
  <2>1. Operator # r /\ r \in Procs
    OBVIOUS
  <2> QED BY <1>4, <2>1 DEF Reboot, Die
<1>5. ASSUME NEW p \in Procs, Remove(p), p # r PROVE Same
  <2>1. todo'[r] = todo[r] /\ aim'[r] = aim[r] /\ failed'[r] = failed[r]
    <3>1. /\ todo' = [todo EXCEPT ![p] = Tail(todo[p])]
          /\ aim' = [aim EXCEPT ![p] = IF Len(todo[p]) = 1 THEN NoPids ELSE aim[p]]
          /\ failed' = failed \/ failed' = [failed EXCEPT ![p] = TRUE]
      BY <1>5, OrderKeeps
    <3>2. r \in Procs
      OBVIOUS
    <3> QED BY <1>5, <3>1, <3>2
  <2> QED BY <2>1
<1>6. ASSUME NEW v \in Runs, Starts(v) PROVE Same
  <2>1. v # r
    BY <1>6
  <2> QED BY <1>6, <2>1, StartsApart
<1>7. UNCHANGED vars => Same
  BY VarsKept
<1> QED BY <1>1, <1>2, <1>3, <1>4, <1>5, <1>6, <1>7, Cases

\* What becomes of the operator's.
LEMMA OperatorStep ==
  ASSUME TypeOK, [Next]_vars
  PROVE  \/ todo'[Operator] = todo[Operator] /\ aim'[Operator] = aim[Operator]
            /\ failed'[Operator] = failed[Operator] /\ stopRun' = stopRun
         \/ \E v \in Runs : OperatorStop(v)
         \/ Remove(Operator) /\ stopRun' = stopRun
         \/ todo'[Operator] = <<>> /\ stopRun' = stopRun
<1> DEFINE Same == /\ todo'[Operator] = todo[Operator] /\ aim'[Operator] = aim[Operator]
                   /\ failed'[Operator] = failed[Operator] /\ stopRun' = stopRun
<1> USE TypeFacts, Apart
<1>1. ASSUME NEW v \in Runs, Quiet(v) PROVE Same \/ OperatorStop(v)
  <2>0. v # Operator
    OBVIOUS
  <2>1. CASE List(v) \/ AskGuest(v) \/ Ring(v) \/ Age(v)
    BY <2>1 DEF List, AskGuest, Ring, Age, removal
  <2>2. CASE Swept(v)
    BY <2>0, <2>2 DEF Swept
  <2>3. ASSUME NEW w \in Runs, Judge(v, w) PROVE Same
    BY <2>0, <2>3 DEF Judge, removal
  <2>4. CASE SetUpFails(v) \/ ReadExitCode(v)
    <3>1. BeginStop(v) /\ stopRun' = stopRun
      BY <2>4 DEF SetUpFails, ReadExitCode
    <3> QED BY <2>0, <3>1 DEF BeginStop
  <2> QED BY <1>1, <2>1, <2>2, <2>3, <2>4 DEF Quiet
<1>2. ASSUME NEW v \in Runs, WaitReturns(v) \/ Return(v) \/ ForceGuest(v) \/ GuestEnds(v) \/ SquidDies(v)
      PROVE  Same
  BY <1>2 DEF WaitReturns, Return, ForceGuest, GuestEnds, SquidDies, removal
<1>3. ASSUME NEW v \in Runs, Crash(v) PROVE Same
  <2>0. Operator \notin {v}
    BY <1>3
  <2> QED BY <1>3, <2>0 DEF Crash, Die
<1>4. CASE Reboot
  BY <1>4 DEF Reboot, Die
<1>5. ASSUME NEW p \in Procs, Remove(p) PROVE stopRun' = stopRun /\ (Same \/ p = Operator)
  <2>1. /\ todo' = [todo EXCEPT ![p] = Tail(todo[p])]
        /\ aim' = [aim EXCEPT ![p] = IF Len(todo[p]) = 1 THEN NoPids ELSE aim[p]]
        /\ failed' = failed \/ failed' = [failed EXCEPT ![p] = TRUE]
        /\ stopRun' = stopRun
    BY <1>5, OrderKeeps
  <2> QED BY <2>1
<1>6. ASSUME NEW v \in Runs, Starts(v) PROVE Same
  <2>1. v # Operator
    OBVIOUS
  <2> QED BY <1>6, <2>1, StartsApart
<1>7. UNCHANGED vars => Same
  BY VarsKept
<1> QED BY <1>1, <1>2, <1>3, <1>4, <1>5, <1>6, <1>7, Cases

Early    == {"idle", "sweep", "network", "squid", "image", "chroot", "launch"}
Settled  == {"wait", "read", "teardown", "over", "dead"}
Readable(v) == ~Unreadable(v)

\* A state file is written last, and no run sweeps itself.
FilesOf(r) ==
  /\ "state" \in dir[r] => pc[r] \notin Early \union {"boot", "state"}
  /\ Readable(r) => pc[r] \in Settled
  /\ pc[r] \in {"idle", "sweep"} => dir[r] = {}
  /\ r \notin pending[r]
Files == \A r \in Runs : FilesOf(r)

\* A sweep takes up what it has listed, and lists once.
LEMMA PendingStep ==
  ASSUME TypeOK, [Next]_vars, NEW r \in Runs
  PROVE  pending'[r] \subseteq pending[r] \/ (pc[r] = "idle" /\ pending'[r] = {v \in Runs : dir[v] # {}})
<1> DEFINE G == pending'[r] \subseteq pending[r] \/ (pc[r] = "idle" /\ pending'[r] = {v \in Runs : dir[v] # {}})
<1> USE TypeFacts, Apart
<1>1. ASSUME NEW v \in Runs, Quiet(v) PROVE G
  <2>1. CASE List(v)
    BY <2>1 DEF List
  <2>2. ASSUME NEW w \in Runs, Judge(v, w) PROVE G
    BY <2>2 DEF Judge
  <2>3. CASE Swept(v) \/ SetUpFails(v) \/ ReadExitCode(v) \/ AskGuest(v) \/ Ring(v) \/ Age(v) \/ OperatorStop(v)
    BY <2>3 DEF Swept, SetUpFails, ReadExitCode, AskGuest, Ring, Age, OperatorStop
  <2> QED BY <1>1, <2>1, <2>2, <2>3 DEF Quiet
<1>2. ASSUME NEW v \in Runs, WaitReturns(v) \/ Return(v) \/ ForceGuest(v) \/ GuestEnds(v) \/ SquidDies(v) PROVE G
  BY <1>2 DEF WaitReturns, Return, ForceGuest, GuestEnds, SquidDies
<1>3. ASSUME NEW v \in Runs, Crash(v) PROVE G
  BY <1>3 DEF Crash, Die
<1>4. CASE Reboot
  <2>1. PICK S : pending' = [v \in Runs |-> IF v \in S THEN {} ELSE pending[v]]
    BY <1>4 DEF Reboot, Die
  <2> QED BY <2>1
<1>5. ASSUME NEW p \in Procs, Remove(p) PROVE G
  BY <1>5, OrderKeeps
<1>6. ASSUME NEW v \in Runs, Starts(v) PROVE G
  BY <1>6, StartsApart
<1>7. UNCHANGED vars => G
  BY VarsKept
<1> QED BY <1>1, <1>2, <1>3, <1>4, <1>5, <1>6, <1>7, Cases

\* Every step keeps the order of files.
LEMMA FilesStep ==
  ASSUME TypeOK, Files, [Next]_vars
  PROVE  Files'
<1> SUFFICES ASSUME NEW r \in Runs PROVE FilesOf(r)'
  BY DEF Files
<1> USE TypeFacts
<1>0. FilesOf(r)
  BY DEF Files
<1>1. r \notin pending'[r]
  BY <1>0, PendingStep DEF FilesOf
<1>2. CASE ~Starts(r)
  <2>1. PcMoves(r) /\ DiskWanes(r)
    BY <1>2, PcStep, DiskStep
  <2>2. "state" \in dir'[r] => "state" \in dir[r] /\ rec'[r] = rec[r]
    BY <2>1 DEF DiskWanes
  <2>3. pc'[r] \in {"idle", "sweep"} => pc[r] \in {"idle", "sweep"}
    BY <2>1 DEF PcMoves
  <2>4. pc[r] = "idle" \/ pc[r] = "sweep" => dir'[r] = {}
    BY <1>0, <2>1 DEF FilesOf, DiskWanes
  <2>5. pc'[r] \in Early \union {"boot", "state"} => pc[r] \in Early \union {"boot", "state"}
    BY <2>1 DEF PcMoves, Early
  <2>6. pc[r] \in Settled => pc'[r] \in Settled
    BY <2>1 DEF PcMoves, Settled
  <2>7. Readable(r)' => Readable(r)
    BY <2>2 DEF Readable, Unreadable
  <2> QED BY <1>0, <1>1, <2>2, <2>3, <2>4, <2>5, <2>6, <2>7 DEF FilesOf
<1>3. CASE Starts(r) /\ Ahead(r)
  <2>1. pc[r] \in Steps
    BY <1>3, StartsOn
  <2>2. pc'[r] \notin {"idle", "sweep"} /\ (pc'[r] \in Early \union {"boot", "state"} <=> pc[r] \notin {"state", "record"})
    BY <1>3, <2>1 DEF Ahead, Steps, Early
  <2>3. "state" \in dir'[r] => pc[r] \in {"state", "record"}
    BY <1>0, <1>3, <2>1 DEF Ahead, FilesOf, Steps, Early
  <2>4. Readable(r)' => pc[r] = "record" /\ pc'[r] = "wait"
    BY <1>0, <1>3, <2>1, <2>3 DEF Ahead, Readable, Unreadable
  <2> QED BY <1>1, <2>2, <2>3, <2>4 DEF FilesOf, Settled
<1>4. CASE Starts(r) /\ Back(r)
  <2>1. pc[r] \in Steps /\ pc'[r] = "unwind"
    BY <1>4, StartsOn DEF Back
  <2>2. "state" \in dir'[r] => "state" \in dir[r] /\ rec' = rec /\ dir'[r] = dir[r]
    BY <1>4 DEF Back
  <2>3. Readable(r)' => Readable(r)
    BY <2>2 DEF Readable, Unreadable
  <2>4. pc[r] \notin Settled
    BY <2>1 DEF Steps, Settled
  <2> QED BY <1>0, <1>1, <2>1, <2>3, <2>4 DEF FilesOf, Early
<1> QED BY <1>2, <1>3, <1>4, StartsOn

\* A child that nobody has waited for keeps its PID while its parent runs.
LEMMA ChildStays ==
  ASSUME TypeOK, Orders, [Next]_vars, NEW r \in Runs, ~Starts(r),
         pc[r] \in {"boot", "state", "record", "unwind"}, pc'[r] = pc[r], Child(r),
         Remove(r) => Head(todo[r]).what # "child"
  PROVE  own'[r] = own[r] /\ proc'[own[r].vm] \in {Vm(r), Zombie(r)}
<1> DEFINE q == own[r].vm
<1> USE TypeFacts
<1>0. /\ own'[r] = own[r] /\ q \in Pids /\ proc[q] \in {Vm(r), Zombie(r)} /\ proc[q] \in Process
      /\ Alive(r) /\ pc'[r] # "dead"
  BY OwnStep DEF Child, Alive
<1>1. Ended(proc[q]) = Zombie(r)
  BY <1>0, EndedWanes
<1>2. /\ proc[q] # NoProc /\ \A v \in Runs : proc[q] # Squid(v) /\ (v # r => proc[q] # Zombie(v) /\ proc[q] # Vm(v))
  BY <1>0, Distinct, Kinds
<1> HIDE DEF q
<1> DEFINE G == proc'[q] \in {Vm(r), Zombie(r)}
<1>3. proc'[q] \in {proc[q], Ended(proc[q])} => G
  BY <1>0, <1>1
<1>4. ASSUME NEW v \in Runs, Quiet(v) PROVE G
  BY <1>3, <1>4, QuietKeeps DEF things
<1>5. ASSUME NEW v \in Runs, WaitReturns(v) \/ Return(v) \/ Crash(v) PROVE G
  <2>1. v # r
    BY <1>0, <1>5 DEF WaitReturns, Return, Crash, Die, Goto
  <2>2. proc'[q] = IF proc[q] = Zombie(v) THEN NoProc ELSE proc[q]
    BY <1>0, <1>5 DEF WaitReturns, Return, Crash, Reap
  <2> QED BY <1>2, <1>3, <2>1, <2>2
<1>6. ASSUME NEW v \in Runs, ForceGuest(v) PROVE G
  <2>1. NoSignal \/ proc' = [proc EXCEPT ![own[v].vm] = Ended(proc[own[v].vm])]
    BY <1>6 DEF ForceGuest, Signal
  <2>2. proc'[q] \in {proc[q], Ended(proc[q])}
    BY <1>0, <2>1 DEF NoSignal
  <2> QED BY <1>3, <2>2
<1>7. ASSUME NEW v \in Runs, GuestEnds(v) PROVE G
  <2>1. proc'[q] \in {proc[q], Ended(proc[q])}
    BY <1>0, <1>7 DEF GuestEnds
  <2> QED BY <1>3, <2>1
<1>8. ASSUME NEW v \in Runs, SquidDies(v) PROVE G
  <2>1. proc'[q] = proc[q]
    BY <1>0, <1>2, <1>8 DEF SquidDies
  <2> QED BY <1>3, <2>1
<1>9. ~Reboot
  BY <1>0 DEF Reboot, Die
<1>10. ASSUME NEW v \in Runs, Starts(v) PROVE G
  <2>1. proc'[q] = proc[q]
    BY <1>0, <1>2, <1>10, StartsApart
  <2> QED BY <1>3, <2>1
<1>11. ASSUME NEW p \in Procs, Remove(p) PROVE G
  <2> DEFINE c == Head(todo[p])
             s == Struck(p, c)
  <2>1. \/ proc' = proc
        \/ proc' = [proc EXCEPT ![s] = Ended(proc[s])]
        \/ s \in Pids /\ c.what = "child" /\ proc' = [proc EXCEPT ![s] = NoProc]
    BY <1>11, OrderOnProcs
  <2>2. CASE proc' = proc
    BY <1>3, <2>2
  <2>3. CASE proc' = [proc EXCEPT ![s] = Ended(proc[s])]
    <3> HIDE DEF s
    <3>1. proc'[q] \in {proc[q], Ended(proc[q])}
      BY <1>0, <2>3
    <3> QED BY <1>3, <3>1
  <2>4. CASE s \in Pids /\ c.what = "child" /\ proc' = [proc EXCEPT ![s] = NoProc]
    <3>1. todo[p] # <<>> /\ c \in Cmds /\ todo[p] \in Seq(Cmds) /\ c.run \in Runs
      BY <1>11, OrderKeeps
    <3>2. p \in Runs /\ pc[p] = "unwind" /\ c.run = p
      BY <2>4, <3>1, HeadOf DEF Tear, Procs
    <3>3. p # r
      BY <1>11, <2>4
    <3>4. s = own[p].vm
      BY <2>4, <3>1, <3>2, Apart, StruckPid
    <3>5. Lists(todo[p], Do(p, "child"))
      <4>1. c = Do(p, "child")
        BY <2>4, <3>1, <3>2 DEF Do, Cmds
      <4> QED BY <3>1, <4>1, TailKeeps DEF Lists
    <3>6. Child(p)
      BY <3>2, <3>5 DEF Orders, OrdersOf
    <3>7. proc[s] \in {Vm(p), Zombie(p)}
      BY <3>4, <3>6 DEF Child
    <3>8. s # q
      BY <1>2, <3>2, <3>3, <3>7
    <3> HIDE DEF s
    <3>9. proc'[q] = proc[q]
      BY <1>0, <2>4, <3>8
    <3> QED BY <1>3, <3>9
  <2> QED BY <2>1, <2>2, <2>3, <2>4
<1>12. UNCHANGED vars => G
  BY <1>3, VarsKept DEF things
<1> QED BY <1>0, <1>4, <1>5, <1>6, <1>7, <1>8, <1>9, <1>10, <1>11, <1>12, Cases DEF q

\* The orders given fit the stage their giver is at.
LEMMA NoOrders ==
  ASSUME NEW s, s = <<>>
  PROVE  /\ \A v, W : All(s, v, W)
         /\ \A i \in 1 .. Len(s) : FALSE
         /\ \A c : ~Lists(s, c)
BY Empty DEF All

\* What an order is made of.
LEMMA DoFacts ==
  /\ \A v, what : Do(v, what).run = v /\ Do(v, what).what = what
  /\ \A c \in Cmds : c = Do(c.run, c.what)
BY DEF Do, Cmds

\* Steps of Start give the orders that fit where they end.
LEMMA OrdersStart ==
  ASSUME TypeOK, Orders, NEW r \in Runs, Starts(r)
  PROVE  OrdersOf(r)'
<1> USE TypeFacts, Apart
<1>0. OrdersOf(r) /\ pc[r] \in Steps /\ todo[r] = <<>> /\ own[r] \in PidPairs
  BY StartsOn DEF Orders, OrdersOf, Steps
<1>1. CASE Ahead(r)
  <2>1. todo'[r] = <<>>
    BY <1>0, <1>1 DEF Ahead
  <2>2. pc'[r] \notin {"sweep", "unwind", "teardown"}
    BY <1>0, <1>1 DEF Ahead, Steps
  <2>3. pc'[r] \in {"boot", "state", "record"} => Child(r)'
    <3>1. CASE pc[r] = "launch"
      <4>1. PICK p \in Pids : proc' = [proc EXCEPT ![p] = Vm(r)]
                              /\ own' = [own EXCEPT ![r] = [own[r] EXCEPT !.vm = p]]
        BY <1>1, <3>1 DEF Ahead
      <4>2. own'[r].vm = p
        BY <1>0, <4>1 DEF PidPairs
      <4>3. proc'[p] = Vm(r)
        BY <4>1
      <4> QED BY <4>2, <4>3 DEF Child
    <3>2. CASE pc[r] \in {"boot", "state", "record"}
      <4>1. Child(r) /\ proc' = proc /\ own' = own
        BY <1>0, <1>1, <3>2 DEF OrdersOf, Ahead
      <4> QED BY <4>1 DEF Child
    <3>3. CASE pc[r] \in {"network", "squid", "image", "chroot"}
      <4>1. pc'[r] \notin {"boot", "state", "record"}
        BY <1>1, <3>3 DEF Ahead
      <4> QED BY <4>1
    <3> QED BY <1>0, <3>1, <3>2, <3>3 DEF Steps
  <2>4. /\ \A i \in 1 .. Len(todo'[r]) : FALSE
        /\ \A c : ~Lists(todo'[r], c)
    BY <2>1, NoOrders
  <2> QED BY <2>1, <2>2, <2>3, <2>4 DEF OrdersOf
<1>2. CASE Back(r)
  <2> DEFINE t == Rollback(r, pc[r])
  <2>1. pc'[r] = "unwind" /\ todo'[r] = t /\ proc' = proc /\ own' = own
    BY <1>2 DEF Back
  <2>2. /\ All(t, r, Undo) /\ \A i \in 1 .. Len(t) : t[i].what = "child" => i = 1 /\ pc[r] \in {"boot", "state", "record"}
    BY <1>0, RollbackFits DEF Undo
  <2> HIDE DEF t
  <2>3. Lists(t, Do(r, "child")) => Child(r)
    <3>1. SUFFICES ASSUME Lists(t, Do(r, "child")) PROVE Child(r)
      OBVIOUS
    <3>2. PICK i \in 1 .. Len(t) : t[i] = Do(r, "child")
      BY <3>1 DEF Lists
    <3>3. pc[r] \in {"boot", "state", "record"}
      BY <2>2, <3>2 DEF Do
    <3> QED BY <1>0, <3>3 DEF OrdersOf
  <2>4. Child(r) => Child(r)'
    BY <2>1 DEF Child
  <2> QED BY <2>1, <2>2, <2>3, <2>4 DEF OrdersOf
<1> QED BY <1>1, <1>2, StartsOn

\* So do all other steps.
LEMMA OrdersOther ==
  ASSUME TypeOK, Files, Orders, [Next]_vars, NEW r \in Runs, ~Starts(r)
  PROVE  OrdersOf(r)'
<1> USE TypeFacts, Apart
<1>0. OrdersOf(r) /\ PcMoves(r)
  BY PcStep DEF Orders
<1>1. CASE todo'[r] = todo[r] /\ aim'[r] = aim[r]
  <2>1. pc[r] \in {"sweep", "unwind", "teardown"} /\ pc'[r] # pc[r] => todo'[r] = <<>>
    <3>1. ASSUME NEW v \in Runs, Swept(v) PROVE v = r \/ pc'[r] = pc[r]
      BY <3>1 DEF Swept, Goto
    <3>2. ASSUME NEW v \in Runs, Return(v) PROVE v = r \/ pc'[r] = pc[r]
      BY <3>2 DEF Return, Goto
    <3>3. Swept(r) \/ Return(r) => todo[r] = <<>>
      BY DEF Swept, Return
    <3>4. ASSUME NEW v \in Runs, List(v) \/ (\E w \in Runs : Judge(v, w)) \/ SetUpFails(v) \/ ReadExitCode(v)
                   \/ AskGuest(v) \/ Ring(v) \/ Age(v) \/ OperatorStop(v) \/ WaitReturns(v) \/ ForceGuest(v)
                   \/ GuestEnds(v) \/ SquidDies(v)
          PROVE  pc'[r] = pc[r] \/ pc[r] \notin {"sweep", "unwind", "teardown"}
      BY <3>4 DEF List, Judge, SetUpFails, ReadExitCode, AskGuest, Ring, Age, OperatorStop, WaitReturns, ForceGuest,
                  GuestEnds, SquidDies, BeginStop, Goto
    <3>5. ASSUME NEW v \in Runs, Crash(v) PROVE pc'[r] = pc[r] \/ todo'[r] = <<>>
      BY <3>5 DEF Crash, Die
    <3>6. ASSUME Reboot PROVE pc'[r] = pc[r] \/ todo'[r] = <<>>
      BY <3>6 DEF Reboot, Die
    <3>7. ASSUME NEW p \in Procs, Remove(p) PROVE pc'[r] = pc[r]
      BY <3>7, OrderKeeps
    <3>8. ASSUME NEW v \in Runs, Starts(v) PROVE pc'[r] = pc[r]
      <4>1. v # r
        BY <3>8
      <4> QED BY <3>8, <4>1, StartsApart
    <3>9. UNCHANGED vars => pc' = pc
      BY DEF vars
    <3> QED BY <1>1, <3>1, <3>2, <3>3, <3>4, <3>5, <3>6, <3>7, <3>8, <3>9, Cases DEF Quiet
  <2>2. CASE todo'[r] = <<>>
    <3>1. pc'[r] \in {"boot", "state", "record"} => pc[r] = pc'[r]
      BY <1>0 DEF PcMoves
    <3>2. pc'[r] \in {"boot", "state", "record"} => Child(r)'
      <4>1. SUFFICES ASSUME pc'[r] \in {"boot", "state", "record"} PROVE Child(r)'
        OBVIOUS
      <4>2. pc[r] = pc'[r] /\ Child(r)
        BY <1>0, <3>1, <4>1 DEF OrdersOf
      <4>3. Remove(r) => Head(todo[r]).what # "child"
        BY <1>0, <4>1, <4>2 DEF Remove, OrdersOf
      <4>4. own'[r] = own[r] /\ proc'[own[r].vm] \in {Vm(r), Zombie(r)}
        BY <4>1, <4>2, <4>3, ChildStays
      <4> QED BY <4>2, <4>4 DEF Child
    <3>3. /\ All(todo'[r], r, Undo) /\ All(todo'[r], r, Tear)
          /\ \A i \in 1 .. Len(todo'[r]) : FALSE
          /\ \A c : ~Lists(todo'[r], c)
      BY <2>2, NoOrders
    <3> QED BY <2>2, <3>2, <3>3 DEF OrdersOf
  <2>3. CASE todo'[r] # <<>>
    <3>1. pc'[r] = pc[r] /\ pc[r] \in {"sweep", "unwind", "teardown"}
      BY <1>0, <1>1, <2>1, <2>3 DEF OrdersOf
    <3>2. own'[r] = own[r]
      BY <3>1, OwnStep
    <3>3. Lists(todo[r], Do(r, "child")) => Child(r)'
      <4>1. SUFFICES ASSUME Lists(todo[r], Do(r, "child")) PROVE Child(r)'
        OBVIOUS
      <4>2. pc[r] = "unwind"
        <5>1. PICK i \in 1 .. Len(todo[r]) : todo[r][i] = Do(r, "child")
          BY <4>1 DEF Lists
        <5>2. \A v, W : All(todo[r], v, W) => "child" \in W
          BY <5>1 DEF All, Do
        <5>3. "child" \notin Tear /\ "child" \notin {"dir"}
          BY DEF Tear
        <5>4. todo[r] # <<>>
          BY <2>3, <1>1
        <5>5. pc[r] # "teardown"
          BY <1>0, <5>2, <5>3 DEF OrdersOf
        <5>6. pc[r] # "sweep"
          BY <1>0, <5>2, <5>3, <5>4 DEF OrdersOf
        <5> QED BY <3>1, <5>5, <5>6
      <4>3. Child(r)
        BY <1>0, <4>1 DEF OrdersOf
      <4>4. ~Remove(r)
        <5>1. Remove(r) => Len(todo'[r]) = Len(todo[r]) - 1 /\ Len(todo[r]) \in Nat
          BY OrderKeeps, TailKeeps
        <5> QED BY <1>1, <5>1
      <4>5. own'[r] = own[r] /\ proc'[own[r].vm] \in {Vm(r), Zombie(r)}
        BY <3>1, <4>2, <4>3, <4>4, ChildStays
      <4> QED BY <4>3, <4>5 DEF Child
    <3> QED BY <1>0, <1>1, <3>1, <3>2, <3>3 DEF OrdersOf
  <2> QED BY <2>2, <2>3
<1>2. ASSUME NEW v \in Runs, Judge(r, v), ~(todo'[r] = todo[r] /\ aim'[r] = aim[r]) PROVE OrdersOf(r)'
  <2>0. pc[r] = "sweep" /\ pc'[r] = "sweep" /\ todo'[r] = Debris(v)
    BY <1>2 DEF Judge, removal
  <2>1. v # r
    BY <1>2 DEF Judge, Files, FilesOf
  <2>2. /\ Debris(v) # <<>> /\ Head(Debris(v)).run = v
        /\ All(Debris(v), v, Tear) \/ All(Debris(v), v, {"dir"})
    <3>1. CASE Unreadable(v)
      <4> DEFINE t == <<Do(v, "dir")>>
      <4>1. Debris(v) = t /\ t # <<>> /\ Len(t) = 1 /\ t[1] = Do(v, "dir") /\ Head(t) = Do(v, "dir")
        BY <3>1 DEF Debris
      <4> HIDE DEF t
      <4>2. All(t, v, {"dir"})
        <5>1. \A i \in 1 .. Len(t) : i = 1
          BY <4>1
        <5> QED BY <4>1, <5>1, DoFacts DEF All
      <4> QED BY <4>1, <4>2, DoFacts
    <3>2. CASE ~Unreadable(v)
      <4>1. Debris(v) = Teardown(v)
        BY <3>2 DEF Debris
      <4>2. Head(Teardown(v)) = Do(v, "vm")
        BY DEF Teardown
      <4> QED BY <4>1, <4>2, TeardownFits, DoFacts DEF Tear
    <3> QED BY <3>1, <3>2
  <2>3. \A i \in 1 .. Len(todo'[r]) : todo'[r][i].what # "child"
    BY <2>0, <2>2 DEF All, Tear
  <2>4. ~Lists(todo'[r], Do(r, "child"))
    BY <2>3 DEF Lists, Do
  <2> QED BY <2>0, <2>1, <2>2, <2>3, <2>4 DEF OrdersOf
<1>3. CASE BeginStop(r)
  <2>1. pc'[r] = "teardown" /\ todo'[r] = Teardown(r) /\ aim'[r] = own[r]
    BY <1>3 DEF BeginStop, Goto
  <2>2. All(todo'[r], r, Tear)
    BY <2>1, TeardownFits DEF Tear
  <2>3. \A i \in 1 .. Len(todo'[r]) : todo'[r][i].what # "child"
    BY <2>2 DEF All, Tear
  <2>4. ~Lists(todo'[r], Do(r, "child"))
    BY <2>3 DEF Lists, Do
  <2>5. own'[r] = own[r]
    BY <2>1, OwnStep
  <2> QED BY <2>1, <2>2, <2>3, <2>4, <2>5 DEF OrdersOf
<1>4. CASE Remove(r)
  <2>1. /\ todo[r] # <<>> /\ todo[r] \in Seq(Cmds) /\ pc'[r] = pc[r] /\ own'[r] = own[r]
        /\ todo' = [todo EXCEPT ![r] = Tail(todo[r])]
        /\ aim' = [aim EXCEPT ![r] = IF Len(todo[r]) = 1 THEN NoPids ELSE aim[r]]
    BY <1>4, OrderKeeps
  <2>2. todo'[r] = Tail(todo[r]) /\ aim'[r] = IF Len(todo[r]) = 1 THEN NoPids ELSE aim[r]
    BY <2>1
  <2> DEFINE t == Tail(todo[r])
  <2>3. /\ t \in Seq(Cmds) /\ Len(t) = Len(todo[r]) - 1 /\ Len(todo[r]) \in Nat \ {0}
        /\ \A i \in 1 .. Len(t) : i + 1 \in 1 .. Len(todo[r]) /\ t[i] = todo[r][i + 1]
    BY <2>1, TailKeeps
  <2>4. \A v, W : All(todo[r], v, W) => All(t, v, W) /\ (t # <<>> => Head(t).run = v)
    BY <2>1, AllTail
  <2> HIDE DEF t
  <2>5. \A i \in 1 .. Len(t) : t[i].what # "child"
    <3>1. SUFFICES ASSUME NEW i \in 1 .. Len(t), t[i].what = "child" PROVE FALSE
      OBVIOUS
    <3>2. i + 1 \in 1 .. Len(todo[r]) /\ todo[r][i + 1].what = "child"
      BY <2>3, <3>1
    <3>3. \A j \in 1 .. Len(todo[r]) : todo[r][j].what = "child" => j = 1
      BY <1>0 DEF OrdersOf
    <3>4. i + 1 = 1
      BY <3>2, <3>3
    <3> QED BY <3>4
  <2>6. ~Lists(t, Do(r, "child"))
    BY <2>5 DEF Lists, Do
  <2>7. t # <<>> => Len(todo[r]) # 1
    <3>1. Len(t) = 0 => t = <<>>
      BY <2>3
    <3> QED BY <2>3, <3>1
  <2>8. pc[r] \in {"sweep", "unwind", "teardown"}
    BY <1>0, <2>1 DEF OrdersOf
  <2>9. pc[r] = "sweep" /\ t # <<>> => LET v == Head(t).run IN v # r /\ (All(t, v, Tear) \/ All(t, v, {"dir"}))
    BY <1>0, <2>1, <2>4 DEF OrdersOf
  <2> QED BY <1>0, <2>1, <2>2, <2>4, <2>5, <2>6, <2>7, <2>8, <2>9 DEF OrdersOf, t
<1>5. CASE todo'[r] = <<>> /\ pc'[r] = "dead"
  <2>1. /\ \A i \in 1 .. Len(todo'[r]) : FALSE
        /\ \A c : ~Lists(todo'[r], c)
    BY <1>5, NoOrders
  <2> QED BY <1>5, <2>1 DEF OrdersOf
<1> QED BY <1>1, <1>2, <1>3, <1>4, <1>5, TodoStep

\* Orders fit after every step.
LEMMA OrdersStep ==
  ASSUME TypeOK, Files, Orders, [Next]_vars
  PROVE  Orders'
<1> USE TypeFacts, Apart
<1>1. ASSUME NEW r \in Runs PROVE OrdersOf(r)'
  BY OrdersStart, OrdersOther
<1>2. All(todo[Operator], stopRun, Tear)
  BY DEF Orders
<1>3. All(todo'[Operator], stopRun', Tear)
  <2>1. CASE todo'[Operator] = todo[Operator] /\ stopRun' = stopRun
    BY <1>2, <2>1
  <2>2. ASSUME NEW v \in Runs, OperatorStop(v) PROVE All(todo'[Operator], stopRun', Tear)
    <3>1. todo'[Operator] = Teardown(v) /\ stopRun' = v
      BY <2>2 DEF OperatorStop
    <3> QED BY <3>1, TeardownFits DEF Tear
  <2>3. CASE Remove(Operator) /\ stopRun' = stopRun
    <3>1. /\ todo[Operator] # <<>> /\ todo[Operator] \in Seq(Cmds)
          /\ todo' = [todo EXCEPT ![Operator] = Tail(todo[Operator])]
      BY <2>3, OrderKeeps
    <3>2. todo'[Operator] = Tail(todo[Operator])
      BY <3>1
    <3>3. All(Tail(todo[Operator]), stopRun, Tear)
      BY <1>2, <3>1, AllTail
    <3> QED BY <2>3, <3>2, <3>3
  <2>4. CASE todo'[Operator] = <<>>
    BY <2>4, NoOrders
  <2> QED BY <2>1, <2>2, <2>3, <2>4, OperatorStep
<1> QED BY <1>1, <1>3 DEF Orders

-----------------------------------------------------------------------------
(* Processes are known to those who keep their PIDs.                       *)

\* Each process is known to those who keep its PID.
NoSquidYet == {"idle", "sweep", "network", "squid"}
TracedOf(r) ==
  /\ \A p \in Pids : proc[p] \in {Vm(r), Zombie(r)} => pc[r] \notin Early /\ (Alive(r) => own[r].vm = p)
  /\ \A p \in Pids : proc[p] = Squid(r) => pc[r] \notin NoSquidYet /\ (Alive(r) => own[r].squid = p)
  /\ Readable(r) => \A p \in Pids : /\ proc[p] = Vm(r) => p = rec[r].vm
                                    /\ proc[p] = Squid(r) => p = rec[r].squid
Traced == \A r \in Runs : TracedOf(r)

\* Only Start makes a state file, and nobody rewrites one.
LEMMA ReadableStep ==
  ASSUME TypeOK, [Next]_vars, NEW r \in Runs, ~Starts(r), Readable(r)'
  PROVE  Readable(r) /\ rec'[r] = rec[r] /\ dir'[r] = dir[r]
BY DiskStep DEF Readable, Unreadable, DiskWanes

\* Every step keeps processes traced, though PIDs are given out again.
LEMMA TracedStep ==
  ASSUME TypeOK, Files, Traced, [Next]_vars
  PROVE  Traced'
<1> SUFFICES ASSUME NEW r \in Runs PROVE TracedOf(r)'
  BY DEF Traced
<1> USE TypeFacts
<1>0. TracedOf(r) /\ FilesOf(r) /\ own[r] \in PidPairs
  BY DEF Traced, Files
<1>1. CASE ~Starts(r)
  <2>1. ProcWanes(r) /\ PcMoves(r) /\ (own'[r] = own[r] \/ pc'[r] \in {"over", "dead"})
    BY <1>1, ProcStep, PcStep, OwnStep
  <2>2. /\ pc'[r] \in Early => pc[r] \in Early
        /\ pc'[r] \in NoSquidYet => pc[r] \in NoSquidYet
    BY <2>1 DEF PcMoves, Early, NoSquidYet
  <2>3. Alive(r)' => own'[r] = own[r] /\ (Alive(r) \/ pc[r] = "idle")
    BY <2>1 DEF PcMoves, Alive
  <2>4. "idle" \in Early /\ "idle" \in NoSquidYet
    BY DEF Early, NoSquidYet
  <2>5. Readable(r)' => Readable(r) /\ rec'[r] = rec[r]
    BY <1>1, ReadableStep
  <2>6. ASSUME NEW p \in Pids, proc'[p] \in {Vm(r), Zombie(r)}
        PROVE  pc'[r] \notin Early /\ (Alive(r)' => own'[r].vm = p)
    <3>1. proc[p] \in {Vm(r), Zombie(r)}
      BY <2>1, <2>6 DEF ProcWanes
    <3>2. pc[r] \notin Early /\ (Alive(r) => own[r].vm = p)
      BY <1>0, <3>1 DEF TracedOf
    <3> QED BY <2>2, <2>3, <2>4, <3>2
  <2>7. ASSUME NEW p \in Pids, proc'[p] = Squid(r)
        PROVE  pc'[r] \notin NoSquidYet /\ (Alive(r)' => own'[r].squid = p)
    <3>1. proc[p] = Squid(r)
      BY <2>1, <2>7 DEF ProcWanes
    <3>2. pc[r] \notin NoSquidYet /\ (Alive(r) => own[r].squid = p)
      BY <1>0, <3>1 DEF TracedOf
    <3> QED BY <2>2, <2>3, <2>4, <3>2
  <2>8. ASSUME Readable(r)', NEW p \in Pids
        PROVE  /\ proc'[p] = Vm(r) => p = rec'[r].vm
               /\ proc'[p] = Squid(r) => p = rec'[r].squid
    BY <1>0, <2>1, <2>5, <2>8 DEF TracedOf, ProcWanes
  <2> QED BY <2>6, <2>7, <2>8 DEF TracedOf
<1>2. CASE Starts(r) /\ Ahead(r)
  <2>0. pc[r] \in Steps /\ Alive(r) /\ (pc[r] # "record" => ~Readable(r)')
    <3>1. pc[r] \in Steps
      BY <1>2, StartsOn
    <3>2. Alive(r)
      BY <3>1 DEF Steps, Alive
    <3>3. pc'[r] \in Settled => pc[r] = "record"
      BY <1>2, <3>1 DEF Ahead, Steps, Settled
    <3>4. FilesOf(r)'
      BY FilesStep DEF Files
    <3> QED BY <3>1, <3>2, <3>3, <3>4 DEF FilesOf
  <2>1. CASE pc[r] = "launch"
    <3>1. PICK q \in Pids : /\ proc' = [proc EXCEPT ![q] = Vm(r)]
                            /\ own' = [own EXCEPT ![r] = [own[r] EXCEPT !.vm = q]]
      BY <1>2, <2>1 DEF Ahead
    <3>2. own'[r].vm = q /\ own'[r].squid = own[r].squid
      BY <1>0, <3>1 DEF PidPairs
    <3>3. \A p \in Pids : proc[p] \notin {Vm(r), Zombie(r)}
      BY <1>0, <2>1 DEF TracedOf, Early
    <3>4. \A p \in Pids : proc'[p] = IF p = q THEN Vm(r) ELSE proc[p]
      BY <3>1
    <3>5. Vm(r) # Squid(r)
      BY Distinct
    <3>6. pc'[r] = "boot"
      BY <1>2, <2>1 DEF Ahead
    <3> QED BY <1>0, <2>0, <2>1, <3>2, <3>3, <3>4, <3>5, <3>6 DEF TracedOf, Early, NoSquidYet
  <2>2. CASE pc[r] = "squid"
    <3>1. PICK q \in Pids : /\ proc' = [proc EXCEPT ![q] = Squid(r)]
                            /\ own' = [own EXCEPT ![r] = [own[r] EXCEPT !.squid = q]]
      BY <1>2, <2>2 DEF Ahead
    <3>2. own'[r].squid = q /\ own'[r].vm = own[r].vm
      BY <1>0, <3>1 DEF PidPairs
    <3>3. \A p \in Pids : proc[p] # Squid(r) /\ proc[p] \notin {Vm(r), Zombie(r)}
      BY <1>0, <2>2 DEF TracedOf, NoSquidYet, Early
    <3>4. \A p \in Pids : proc'[p] = IF p = q THEN Squid(r) ELSE proc[p]
      BY <3>1
    <3>5. Vm(r) # Squid(r) /\ Squid(r) # Zombie(r)
      BY Distinct
    <3>6. pc'[r] = "image"
      BY <1>2, <2>2 DEF Ahead
    <3> QED BY <2>0, <2>2, <3>2, <3>3, <3>4, <3>5, <3>6 DEF TracedOf, NoSquidYet
  <2>3. CASE pc[r] \notin {"launch", "squid"}
    <3>1. proc' = proc /\ own' = own
      BY <1>2, <2>3 DEF Ahead
    <3>2. /\ pc'[r] \in Early => pc[r] \in Early
          /\ pc'[r] \in NoSquidYet => pc[r] \in NoSquidYet
      BY <1>2, <2>0, <2>3 DEF Ahead, Steps, Early, NoSquidYet
    <3>3. Readable(r)' => rec'[r] = own[r]
      BY <1>2, <2>0 DEF Ahead
    <3> QED BY <1>0, <2>0, <3>1, <3>2, <3>3 DEF TracedOf
  <2> QED BY <2>1, <2>2, <2>3
<1>3. CASE Starts(r) /\ Back(r)
  <2>0. pc[r] \in Steps /\ Alive(r)
    <3>1. pc[r] \in Steps
      BY <1>3, StartsOn
    <3> QED BY <3>1 DEF Steps, Alive
  <2>1. proc' = proc /\ own' = own /\ rec' = rec /\ pc'[r] = "unwind" /\ ~Readable(r)'
    <3>1. FilesOf(r)'
      BY FilesStep DEF Files
    <3> QED BY <1>3, <3>1 DEF Back, FilesOf, Settled
  <2> QED BY <1>0, <2>0, <2>1 DEF TracedOf, Early, NoSquidYet
<1> QED BY <1>1, <1>2, <1>3, StartsOn

\* A run with a VM has one, under the PID its process keeps.
LEMMA OneVm ==
  ASSUME TypeOK, Traced, NEW r \in Runs, Has("vm", r)
  PROVE  /\ pc[r] \notin Early
         /\ Alive(r) => IsVM(own[r].vm, r)
         /\ Readable(r) => IsVM(rec[r].vm, r)
<1>1. PICK p \in Pids : proc[p] = Vm(r)
  BY DEF Has, Vm
<1> QED BY <1>1 DEF Traced, TracedOf, IsVM

\* Whose processes there are.
LEMMA HasFacts ==
  ASSUME TypeOK, NEW r \in Runs
  PROVE  /\ Has("vm", r) <=> \E p \in Pids : proc[p] = Vm(r)
         /\ Has("squid", r) <=> \E p \in Pids : proc[p] = Squid(r)
BY DEF Has, Vm, Squid
\* Processes of a run come into being in its Start alone.
LEMMA HasWanes ==
  ASSUME TypeOK, [Next]_vars, NEW r \in Runs, ~Starts(r)
  PROVE  (Has("vm", r)' => Has("vm", r)) /\ (Has("squid", r)' => Has("squid", r))
<1>1. /\ Has("vm", r)' <=> \E p \in Pids : proc'[p] = Vm(r)
      /\ Has("squid", r)' <=> \E p \in Pids : proc'[p] = Squid(r)
  BY DEF Has, Vm, Squid
<1> QED BY <1>1, ProcStep, HasFacts DEF ProcWanes

\* Where a run has settled Start has ended.
LEMMA SettledStays ==
  ASSUME TypeOK, [Next]_vars, NEW r \in Runs, pc[r] \in Settled
  PROVE  ~Starts(r) /\ pc'[r] \in Settled
<1>1. ~Starts(r)
  BY StartsOn DEF Settled, Steps
<1> QED BY <1>1, PcStep DEF PcMoves, Settled

-----------------------------------------------------------------------------
(* Removals by others.                                                     *)

\* Who removes another's things: a sweep that has seen the run settled and its
\* VM gone, one that judges by the age of the directory, or the operator.
ForeignOf(p) ==
  todo[p] # <<>> /\ Head(todo[p]).run # p =>
    LET v == Head(todo[p]).run IN
    \/ All(todo[p], v, Tear) /\ pc[v] \in Settled /\ (p \in Runs => ~Has("vm", v))
    \/ All(todo[p], v, {"dir"}) /\ failed[p] /\ p \in Runs /\ (v \in slow \/ pc[v] \in {"over", "dead"})
Foreign == \A p \in Procs : ForeignOf(p)

\* The head of a list that is about one run.
LEMMA HeadAll ==
  ASSUME NEW s \in Seq(Cmds), s # <<>>, NEW v, NEW W, All(s, v, W)
  PROVE  Head(s).run = v /\ Head(s).what \in W
BY TailKeeps DEF All

\* A run once judged slow remains so.
LEMMA SlowGrows ==
  ASSUME TypeOK, [Next]_vars
  PROVE  slow \subseteq slow'
<1>1. ASSUME NEW v \in Runs, Quiet(v) PROVE slow \subseteq slow'
  BY <1>1 DEF Quiet, List, Swept, Judge, SetUpFails, ReadExitCode, AskGuest, Ring, Age, OperatorStop, history
<1>2. ASSUME NEW v \in Runs, WaitReturns(v) \/ Return(v) \/ ForceGuest(v) \/ GuestEnds(v) \/ SquidDies(v) \/ Crash(v)
      PROVE  slow \subseteq slow'
  BY <1>2 DEF WaitReturns, Return, ForceGuest, GuestEnds, SquidDies, Crash, history
<1>3. CASE Reboot
  BY <1>3 DEF Reboot, history
<1>4. ASSUME NEW p \in Procs, Remove(p) PROVE slow \subseteq slow'
  BY <1>4, OrderKeeps
<1>5. ASSUME NEW v \in Runs, Starts(v) PROVE slow \subseteq slow'
  BY <1>5, StartsApart
<1>6. UNCHANGED vars => slow \subseteq slow'
  BY VarsKept
<1> QED BY <1>1, <1>2, <1>3, <1>4, <1>5, <1>6, Cases

\* What is true of such a run stays true of it.
LEMMA ForeignStays ==
  ASSUME TypeOK, [Next]_vars, NEW v \in Runs
  PROVE  /\ pc[v] \in Settled => pc'[v] \in Settled
         /\ pc[v] \in Settled /\ ~Has("vm", v) => ~Has("vm", v)'
         /\ v \in slow => v \in slow'
         /\ pc[v] \in {"over", "dead"} => pc'[v] \in {"over", "dead"}
         /\ pc[v] = "dead" => pc'[v] = "dead"
<1>1. pc[v] \in {"over", "dead"} => pc[v] \in Settled
  BY DEF Settled
<1>2. pc[v] \in {"over", "dead"} => pc'[v] = pc[v]
  BY <1>1, SettledStays, PcStep DEF PcMoves, Alive
<1>3. pc[v] \in Settled => pc'[v] \in Settled
  BY SettledStays
<1>4. pc[v] \in Settled /\ ~Has("vm", v) => ~Has("vm", v)'
  BY SettledStays, HasWanes
<1> QED BY <1>2, <1>3, <1>4, SlowGrows

\* Every step keeps removals by others justified.
LEMMA ForeignStep ==
  ASSUME TypeOK, Files, Orders, Traced, Foreign, [Next]_vars
  PROVE  Foreign'
<1> SUFFICES ASSUME NEW p \in Procs, todo'[p] # <<>>, Head(todo'[p]).run # p PROVE ForeignOf(p)'
  BY DEF Foreign, ForeignOf
<1> USE TypeFacts, Apart
<1>0. ForeignOf(p) /\ TypeOK' /\ Orders' /\ (p \in Runs => OrdersOf(p)')
  BY TypeStep, OrdersStep DEF Foreign, Orders
<1>00. todo'[p] \in Seq(Cmds) /\ todo[p] \in Seq(Cmds)
  <2>1. todo' \in [Procs -> Seq(Cmds)]
    BY <1>0 DEF TypeOK, Cmds
  <2> QED BY <2>1
<1>1. p \in Runs => pc'[p] = "sweep"
  <2>1. SUFFICES ASSUME p \in Runs, pc'[p] # "sweep" PROVE FALSE
    OBVIOUS
  <2>2. \A W : ~All(todo'[p], p, W)
    BY <1>00, HeadAll
  <2> QED BY <1>0, <2>1, <2>2 DEF OrdersOf
<1>2. CASE todo'[p] = todo[p] /\ (failed[p] /\ p \in Runs => failed'[p])
  <2>1. PICK v \in Runs : v = Head(todo[p]).run
    BY <1>00, <1>2, TailKeeps DEF Cmds
  <2>2. \/ All(todo[p], v, Tear) /\ pc[v] \in Settled /\ (p \in Runs => ~Has("vm", v))
        \/ All(todo[p], v, {"dir"}) /\ failed[p] /\ p \in Runs /\ (v \in slow \/ pc[v] \in {"over", "dead"})
    BY <1>0, <1>2, <2>1 DEF ForeignOf
  <2>3. Head(todo'[p]).run = v
    BY <1>2, <2>1
  <2>4. \/ All(todo'[p], v, Tear) /\ pc'[v] \in Settled /\ (p \in Runs => ~Has("vm", v)')
        \/ All(todo'[p], v, {"dir"}) /\ failed'[p] /\ p \in Runs /\ (v \in slow' \/ pc'[v] \in {"over", "dead"})
    BY <1>2, <2>1, <2>2, ForeignStays
  <2> QED BY <2>3, <2>4 DEF ForeignOf
<1>3. CASE Remove(p)
  <2>00. PICK v \in Runs : v = Head(todo[p]).run
    BY <1>3, OrderKeeps
  <2>0. /\ todo[p] # <<>> /\ todo' = [todo EXCEPT ![p] = Tail(todo[p])]
        /\ failed' = failed \/ failed' = [failed EXCEPT ![p] = TRUE]
    BY <1>3, OrderKeeps
  <2>1. todo'[p] = Tail(todo[p]) /\ (failed[p] => failed'[p])
    BY <2>0
  <2>2. \A W : All(todo[p], v, W) => All(todo'[p], v, W)
    BY <1>00, <2>0, <2>1, AllTail
  <2>3. Head(todo'[p]).run = v
    <3>1. \E W : All(todo[p], v, W)
      <4>1. CASE p \in Runs
        <5>1. OrdersOf(p) /\ pc[p] = "sweep"
          BY <1>1, <1>3, <4>1, OrderKeeps DEF Orders
        <5> QED BY <2>00, <2>0, <5>1 DEF OrdersOf
      <4>2. CASE p = Operator
        <5>1. v = stopRun /\ All(todo[p], stopRun, Tear)
          BY <2>00, <2>0, <4>2, HeadOf DEF Orders
        <5> QED BY <5>1
      <4> QED BY <4>1, <4>2 DEF Procs
    <3> QED BY <1>00, <2>0, <2>1, <3>1, AllTail
  <2>4. \/ All(todo[p], v, Tear) /\ pc[v] \in Settled /\ (p \in Runs => ~Has("vm", v))
        \/ All(todo[p], v, {"dir"}) /\ failed[p] /\ p \in Runs /\ (v \in slow \/ pc[v] \in {"over", "dead"})
    BY <1>0, <2>00, <2>0, <2>3 DEF ForeignOf
  <2>5. \/ All(todo'[p], v, Tear) /\ pc'[v] \in Settled /\ (p \in Runs => ~Has("vm", v)')
        \/ All(todo'[p], v, {"dir"}) /\ failed'[p] /\ p \in Runs /\ (v \in slow' \/ pc'[v] \in {"over", "dead"})
    BY <2>0, <2>1, <2>2, <2>4, ForeignStays
  <2> QED BY <2>3, <2>5 DEF ForeignOf
<1>4. CASE p \in Runs
  <2>1. ~Starts(p)
    <3>1. SUFFICES ASSUME Starts(p) PROVE pc'[p] # "sweep"
      BY <1>1, <1>4
    <3> QED BY <1>4, <3>1, StartsOn DEF Ahead, Back, Steps
  <2>2. ASSUME NEW v \in Runs, Judge(p, v), ~(todo'[p] = todo[p] /\ failed'[p] = failed[p]) PROVE ForeignOf(p)'
    <3>0. /\ pc' = pc /\ proc' = proc /\ todo'[p] = Debris(v) /\ failed'[p] = Unreadable(v) /\ ~Spared(v)
          /\ slow' = IF Unreadable(v) /\ Alive(v) THEN slow \union {v} ELSE slow
      BY <1>4, <2>2 DEF Judge, removal
    <3>1. CASE Unreadable(v)
      <4> DEFINE t == <<Do(v, "dir")>>
      <4>1. Debris(v) = t /\ t # <<>> /\ Len(t) = 1 /\ t[1] = Do(v, "dir") /\ Head(t) = Do(v, "dir")
        BY <3>1 DEF Debris
      <4> HIDE DEF t
      <4>2. All(t, v, {"dir"})
        <5>1. \A i \in 1 .. Len(t) : i = 1
          BY <4>1
        <5> QED BY <4>1, <5>1 DEF All, Do
      <4>3. v \in slow' \/ pc'[v] \in {"over", "dead"}
        <5>1. dir[v] # {}
          BY <3>0, <3>1 DEF Spared
        <5>2. pc[v] # "idle"
          BY <5>1 DEF Files, FilesOf
        <5> QED BY <3>0, <3>1, <5>2 DEF Alive
      <4>4. Head(todo'[p]).run = v
        BY <3>0, <4>1 DEF Do
      <4> QED BY <1>4, <3>0, <3>1, <4>1, <4>2, <4>3, <4>4 DEF ForeignOf
    <3>2. CASE ~Unreadable(v)
      <4>1. Debris(v) = Teardown(v) /\ All(Teardown(v), v, Tear)
        BY <3>2, TeardownFits DEF Debris, Tear
      <4>2. Head(todo'[p]).run = v
        BY <3>0, <4>1 DEF Teardown, Do
      <4>3. pc[v] \in Settled
        BY <3>2 DEF Files, FilesOf, Readable
      <4>4. ~Has("vm", v)
        BY <3>0, <3>2, OneVm DEF Spared, Readable
      <4>5. ~Has("vm", v)'
        BY <3>0, <4>4 DEF Has
      <4> QED BY <3>0, <4>1, <4>2, <4>3, <4>5 DEF ForeignOf
    <3> QED BY <3>1, <3>2
  <2>3. CASE BeginStop(p)
    <3>1. pc'[p] = "teardown"
      BY <1>4, <2>3 DEF BeginStop, Goto
    <3> QED BY <1>1, <1>4, <3>1
  <2>4. pc'[p] # "network" /\ pc'[p] # "dead"
    BY <1>1, <1>4
  <2> QED BY <1>2, <1>3, <1>4, <2>1, <2>2, <2>3, <2>4, TodoStep
<1>5. CASE p = Operator
  <2>1. ASSUME NEW v \in Runs, OperatorStop(v) PROVE ForeignOf(p)'
    <3>1. todo'[p] = Teardown(v) /\ pc' = pc /\ ~Unreadable(v)
      BY <1>5, <2>1 DEF OperatorStop
    <3>2. All(Teardown(v), v, Tear) /\ Head(Teardown(v)).run = v
      <4>1. Teardown(v) \in Seq(Cmds) /\ Teardown(v) # <<>> /\ All(Teardown(v), v, Tear)
        BY TeardownFits DEF Tear
      <4> QED BY <4>1, HeadAll
    <3>3. pc[v] \in Settled
      BY <3>1 DEF Files, FilesOf, Readable
    <3> QED BY <1>5, <3>1, <3>2, <3>3 DEF ForeignOf
  <2> QED BY <1>2, <1>3, <1>5, <2>1, OperatorStep
<1> QED BY <1>4, <1>5 DEF Procs

\* So no teardown but the operator's finds a VM of another run.
LEMMA StraysStep ==
  ASSUME TypeOK, Orders, Foreign, strays \subseteq {stopRun}, [Next]_vars
  PROVE  strays' \subseteq {stopRun'}
<1> USE TypeFacts, Apart
<1>0. stopRun' = stopRun \/ stopRun = NoRun
  <2>1. ASSUME NEW v \in Runs, OperatorStop(v) PROVE stopRun = NoRun
    BY <2>1 DEF OperatorStop
  <2> QED BY <2>1, OperatorStep
<1>1. strays \subseteq {stopRun'}
  BY <1>0
<1>2. ASSUME NEW v \in Runs, Quiet(v) PROVE strays' = strays
  BY <1>2 DEF Quiet, List, Swept, Judge, SetUpFails, ReadExitCode, AskGuest, Ring, Age, OperatorStop, history
<1>3. ASSUME NEW v \in Runs, WaitReturns(v) \/ Return(v) \/ ForceGuest(v) \/ GuestEnds(v) \/ SquidDies(v) \/ Crash(v)
      PROVE  strays' = strays
  BY <1>3 DEF WaitReturns, Return, ForceGuest, GuestEnds, SquidDies, Crash, history
<1>4. CASE Reboot
  BY <1>1, <1>4 DEF Reboot, history
<1>5. ASSUME NEW v \in Runs, Starts(v) PROVE strays' = strays
  BY <1>5, StartsApart
<1>6. UNCHANGED vars => strays' = strays
  BY VarsKept
<1>7. ASSUME NEW p \in Procs, Remove(p) PROVE strays' \subseteq {stopRun'}
  <2> DEFINE c == Head(todo[p])
  <2>0. todo[p] # <<>> /\ todo[p] \in Seq(Cmds) /\ c \in Cmds /\ c.run \in Runs /\ stopRun' = stopRun
    BY <1>7, OrderKeeps
  <2>1. CASE strays' = strays
    BY <1>1, <2>1
  <2>2. CASE /\ c.what = "vm" /\ Struck(p, c) \in Pids /\ proc[Struck(p, c)] = Vm(c.run)
             /\ c.run # p /\ strays' = strays \union {c.run}
    <3>1. Has("vm", c.run)
      BY <2>2 DEF Has, Vm
    <3>2. p \notin Runs
      <4>1. ~All(todo[p], c.run, {"dir"})
        BY <2>0, <2>2, HeadAll
      <4> QED BY <2>0, <2>2, <3>1, <4>1 DEF Foreign, ForeignOf
    <3>3. c.run = stopRun
      BY <2>0, <3>2, HeadOf DEF Procs
    <3> QED BY <2>0, <2>2, <3>3
  <2> QED BY <1>7, <2>1, <2>2, OrderOnProcs
<1> QED BY <1>1, <1>2, <1>3, <1>4, <1>5, <1>6, <1>7, Cases

-----------------------------------------------------------------------------
(* Guests and what is reported of them.                                    *)

\* Who loses a chroot in the middle of a run has been robbed of it.
LEMMA RobbedStep ==
  ASSUME TypeOK, [Next]_vars
  PROVE  /\ robbed \subseteq robbed'
         /\ \A r \in Runs : /\ ~Starts(r) /\ pc[r] \notin {"sweep", "unwind", "teardown"} /\ Alive(r) /\ Orders
                            => \/ jail'[r] = jail[r]
                               \/ jail[r] = "image" /\ jail'[r] = "code"
                               \/ r \in robbed'
<1> USE TypeFacts
<1>1. robbed \subseteq robbed'
  <2>1. ASSUME NEW v \in Runs, Quiet(v) PROVE robbed' = robbed
    BY <2>1 DEF Quiet, List, Swept, Judge, SetUpFails, ReadExitCode, AskGuest, Ring, Age, OperatorStop, history
  <2>2. ASSUME NEW v \in Runs, WaitReturns(v) \/ Return(v) \/ ForceGuest(v) \/ GuestEnds(v) \/ SquidDies(v) \/ Crash(v)
        PROVE  robbed' = robbed
    BY <2>2 DEF WaitReturns, Return, ForceGuest, GuestEnds, SquidDies, Crash, history
  <2>3. Reboot => robbed' = robbed
    BY DEF Reboot, history
  <2>4. ASSUME NEW v \in Runs, Starts(v) PROVE robbed' = robbed
    BY <2>4, StartsApart
  <2>5. UNCHANGED vars => robbed' = robbed
    BY VarsKept
  <2>6. ASSUME NEW p \in Procs, Remove(p), NEW v \in Runs PROVE robbed \subseteq robbed'
    BY <2>6, OrderOnDisk
  <2>7. ASSUME NEW p \in Procs, Remove(p) PROVE robbed \subseteq robbed'
    <3>1. Head(todo[p]).run \in Runs
      BY <2>7, OrderKeeps
    <3> QED BY <2>6, <2>7, <3>1
  <2> QED BY <2>1, <2>2, <2>3, <2>4, <2>5, <2>7, Cases
<1>2. ASSUME NEW r \in Runs, ~Starts(r), pc[r] \notin {"sweep", "unwind", "teardown"}, Alive(r), Orders
      PROVE  \/ jail'[r] = jail[r]
             \/ jail[r] = "image" /\ jail'[r] = "code"
             \/ r \in robbed'
  <2>1. CASE DiskKept(r)
    BY <2>1 DEF DiskKept
  <2>2. ASSUME NEW p \in Procs, Remove(p) PROVE jail'[r] = jail[r] \/ r \in robbed'
    <3>1. p # r
      BY <1>2, <2>2, OrderKeeps DEF Orders, OrdersOf
    <3>2. jail'[r] # jail[r] => p = r \/ ~Alive(r) \/ r \in robbed'
      BY <2>2, OrderOnDisk
    <3> QED BY <1>2, <3>1, <3>2
  <2>3. CASE GuestEnds(r)
    <3>1. jail' = jail \/ jail' = [jail EXCEPT ![r] = IF jail[r] = "image" THEN "code" ELSE jail[r]]
      BY <2>3 DEF GuestEnds
    <3>2. CASE jail[r] = "image" /\ jail' = [jail EXCEPT ![r] = "code"]
      BY <3>2
    <3>3. CASE jail[r] # "image" /\ jail' = [jail EXCEPT ![r] = jail[r]]
      BY <3>3
    <3> QED BY <3>1, <3>2, <3>3
  <2>4. CASE Reboot /\ jail'[r] = jail[r]
    BY <2>4
  <2> QED BY <1>2, <2>1, <2>2, <2>3, <2>4, DiskStep
<1> QED BY <1>1, <1>2

\* What becomes of a run's guest, and of its workspace image with it.
VmKept(r) == Has("vm", r) => Has("vm", r)'
GuestMoves(r) ==
  \/ guest'[r] = guest[r] /\ jail'[r] \in {jail[r], "absent"} /\ VmKept(r)
  \/ guest'[r] = "died" /\ jail'[r] = jail[r] /\ Has("vm", r) /\ (Alive(r) => ~Has("vm", r)')
  \/ /\ guest[r] = "running" /\ guest'[r] = "wrote" /\ Has("vm", r) /\ ~Has("vm", r)'
     /\ jail'[r] = IF jail[r] = "image" THEN "code" ELSE jail[r]
  \/ guest'[r] = "died" /\ jail'[r] = jail[r] /\ pc[r] = "unwind" /\ ~Has("vm", r)'
  \/ pc'[r] \in {"over", "dead"} /\ jail'[r] = jail[r]

\* A VM that runs on.
LEMMA VmKeptIf ==
  ASSUME NEW r \in Runs, \A p \in Pids : proc[p] = Vm(r) => proc'[p] = Vm(r)
  PROVE  VmKept(r)
BY DEF VmKept, Has, Vm

\* A VM that ends.
LEMMA VmGoneIf ==
  ASSUME TypeOK, Traced, NEW r \in Runs, Alive(r), NEW s \in Pids, proc[s] = Vm(r), proc'[s] # Vm(r),
         \A p \in Pids : p # s => proc'[p] = proc[p]
  PROVE  Has("vm", r) /\ ~Has("vm", r)'
<1>1. \A p \in Pids : proc[p] = Vm(r) => p = s
  BY DEF Traced, TracedOf
<1>2. Has("vm", r)' => \E p \in Pids : proc'[p] = Vm(r)
  BY DEF Has, Vm
<1> QED BY <1>1, <1>2, HasFacts

\* A signal moves the guest of the VM it ends, and no other.
LEMMA SignalOn ==
  ASSUME TypeOK, Traced, NEW r \in Runs, NEW s \in Pids, jail'[r] = jail[r],
         proc' = [proc EXCEPT ![s] = Ended(proc[s])],
         guest' = IF proc[s].bin = "vm" THEN [guest EXCEPT ![proc[s].run] = "died"] ELSE guest
  PROVE  GuestMoves(r)
<1> USE TypeFacts
<1>1. proc[s] \in Process /\ \A p \in Pids : p # s => proc'[p] = proc[p]
  OBVIOUS
<1>2. CASE proc[s] = Vm(r)
  <2>1. guest'[r] = "died"
    <3>0. Vm(r).bin = "vm" /\ Vm(r).run = r
      BY Kinds
    <3>1. proc[s].bin = "vm" /\ proc[s].run = r
      BY <1>2, <3>0
    <3>2. guest' = [guest EXCEPT ![r] = "died"]
      BY <3>1
    <3> QED BY <3>2
  <2>2. proc'[s] # Vm(r)
    BY <1>1, EndedWanes
  <2>3. Has("vm", r)
    BY <1>2, HasFacts
  <2>4. Alive(r) => ~Has("vm", r)'
    BY <1>1, <1>2, <2>2, VmGoneIf
  <2> QED BY <2>1, <2>3, <2>4 DEF GuestMoves
<1>3. CASE proc[s] # Vm(r)
  <2>1. guest'[r] = guest[r]
    <3>1. CASE proc[s] = NoProc
      BY <3>1, Kinds
    <3>2. ASSUME NEW v \in Runs, proc[s] = Vm(v) PROVE guest'[r] = guest[r]
      <4>1. v # r /\ proc[s].run = v
        BY <1>3, <3>2, Kinds
      <4> QED BY <4>1
    <3>3. ASSUME NEW v \in Runs, proc[s] \in {Squid(v), Zombie(v)} PROVE guest'[r] = guest[r]
      BY <3>3, Kinds
    <3> QED BY <1>1, <3>1, <3>2, <3>3, Kinds
  <2>2. VmKept(r)
    BY <1>1, <1>3, VmKeptIf
  <2> QED BY <2>1, <2>2 DEF GuestMoves
<1> QED BY <1>2, <1>3

\* Guests move in these ways only.
LEMMA GuestStep ==
  ASSUME TypeOK, Orders, Traced, [Next]_vars, NEW r \in Runs, ~Starts(r)
  PROVE  GuestMoves(r)
<1> USE TypeFacts
<1>0. /\ proc' = proc => VmKept(r)
      /\ guest'[r] = guest[r] /\ jail'[r] = jail[r] /\ VmKept(r) => GuestMoves(r)
  <2>1. proc' = proc => VmKept(r)
    BY VmKeptIf
  <2> QED BY <2>1 DEF GuestMoves
<1>1. ASSUME NEW v \in Runs, Quiet(v) PROVE GuestMoves(r)
  BY <1>0, <1>1, QuietKeeps DEF things
<1>2. ASSUME NEW v \in Runs, WaitReturns(v) \/ Return(v) \/ Crash(v) PROVE GuestMoves(r)
  <2>1. jail' = jail /\ Reap(v)
    BY <1>2 DEF WaitReturns, Return, Crash, disk
  <2>2. VmKept(r)
    <3>1. \A p \in Pids : proc[p] = Vm(r) => proc'[p] = Vm(r)
      BY <2>1, ReapType, Distinct
    <3> QED BY <3>1, VmKeptIf
  <2>3. guest'[r] = guest[r] \/ pc'[r] = "over"
    BY <1>2 DEF WaitReturns, Return, Crash, Goto
  <2> QED BY <1>0, <2>1, <2>2, <2>3 DEF GuestMoves
<1>3. ASSUME NEW v \in Runs, ForceGuest(v) PROVE GuestMoves(r)
  <2>1. jail' = jail
    BY <1>3 DEF ForceGuest, disk
  <2>2. CASE NoSignal
    BY <1>0, <2>1, <2>2 DEF NoSignal
  <2>3. CASE own[v].vm \in Pids /\ Signal(own[v].vm)
    BY <2>1, <2>3, SignalOn DEF Signal
  <2> QED BY <1>3, <2>2, <2>3 DEF ForceGuest
<1>4. ASSUME NEW v \in Runs, GuestEnds(v), v # r PROVE GuestMoves(r)
  <2>1. guest'[r] = guest[r] /\ jail'[r] = jail[r]
    <3>1. guest'[r] = guest[r]
      BY <1>4 DEF GuestEnds
    <3>2. jail' = jail \/ jail' = [jail EXCEPT ![v] = IF jail[v] = "image" THEN "code" ELSE jail[v]]
      BY <1>4 DEF GuestEnds
    <3>3. jail'[r] = jail[r]
      BY <1>4, <3>2
    <3> QED BY <3>1, <3>3
  <2>2. VmKept(r)
    <3>1. \A p \in Pids : proc[p] = Vm(r) => proc'[p] = Vm(r)
      BY <1>4, Distinct DEF GuestEnds
    <3> QED BY <3>1, VmKeptIf
  <2> QED BY <1>0, <2>1, <2>2
<1>5. CASE GuestEnds(r)
  <2>1. guest[r] = "running" /\ Has("vm", r)
    BY <1>5 DEF GuestEnds
  <2>2. ~Has("vm", r)'
    <3>1. \A p \in Pids : proc'[p] # Vm(r)
      BY <1>5, EndedWanes DEF GuestEnds
    <3> QED BY <3>1 DEF Has, Vm
  <2>3. CASE /\ guest' = [guest EXCEPT ![r] = "wrote"]
             /\ jail' = [jail EXCEPT ![r] = IF jail[r] = "image" THEN "code" ELSE jail[r]]
    <3>1. guest'[r] = "wrote"
      BY <2>3
    <3>2. jail'[r] = IF jail[r] = "image" THEN "code" ELSE jail[r]
      BY <2>3
    <3> QED BY <2>1, <2>2, <3>1, <3>2 DEF GuestMoves
  <2>4. CASE guest' = [guest EXCEPT ![r] = "died"] /\ jail' = jail
    <3>1. guest'[r] = "died"
      BY <2>4
    <3> QED BY <2>1, <2>2, <2>4, <3>1 DEF GuestMoves
  <2> QED BY <1>5, <2>3, <2>4 DEF GuestEnds
<1>6. ASSUME NEW v \in Runs, SquidDies(v) PROVE GuestMoves(r)
  <2>1. guest' = guest /\ jail' = jail
    BY <1>6 DEF SquidDies, life, disk
  <2>2. VmKept(r)
    <3>1. \A p \in Pids : proc[p] = Vm(r) => proc'[p] = Vm(r)
      BY <1>6, Distinct DEF SquidDies
    <3> QED BY <3>1, VmKeptIf
  <2> QED BY <1>0, <2>1, <2>2
<1>7. CASE Reboot
  <2>1. jail' = jail /\ pc'[r] = IF Alive(r) THEN "dead" ELSE pc[r]
    <3>1. Operator # r
      BY Apart
    <3> QED BY <1>7, <3>1 DEF Reboot, Die, disk
  <2>2. CASE pc[r] = "idle"
    <3>1. ~Has("vm", r)
      BY <2>2, OneVm DEF Early
    <3>2. guest'[r] = guest[r]
      BY <1>7, <3>1 DEF Reboot
    <3> QED BY <1>0, <2>1, <3>1, <3>2 DEF VmKept
  <2>3. CASE pc[r] # "idle"
    <3>1. pc'[r] \in {"over", "dead"}
      BY <2>1, <2>3 DEF Alive
    <3> QED BY <2>1, <3>1 DEF GuestMoves
  <2> QED BY <2>2, <2>3
<1>8. ASSUME NEW v \in Runs, Starts(v) PROVE GuestMoves(r)
  <2>1. v # r
    BY <1>8
  <2>2. guest'[r] = guest[r] /\ jail'[r] = jail[r]
    BY <1>8, <2>1, StartsApart DEF DiskKept
  <2>3. \A p \in Pids : proc'[p] = proc[p] \/ proc[p] = NoProc
    BY <1>8, StartsApart
  <2>4. VmKept(r)
    <3>1. Vm(r) # NoProc
      BY Kinds
    <3>2. \A p \in Pids : proc[p] = Vm(r) => proc'[p] = Vm(r)
      BY <2>3, <3>1
    <3> QED BY <3>2, VmKeptIf
  <2> QED BY <1>0, <2>2, <2>4
<1>9. UNCHANGED vars => GuestMoves(r)
  BY <1>0, VarsKept DEF things
<1>10. ASSUME NEW p \in Procs, Remove(p) PROVE GuestMoves(r)
  <2> DEFINE c == Head(todo[p])
             s == Struck(p, c)
  <2>0. /\ todo[p] # <<>> /\ todo[p] \in Seq(Cmds) /\ c \in Cmds /\ c.run \in Runs
        /\ jail'[r] \in {jail[r], "absent"} /\ (c.what # "jail" => jail'[r] = jail[r])
    BY <1>10, OrderKeeps, OrderOnDisk
  <2>1. CASE UNCHANGED <<proc, guest>>
    BY <1>0, <2>0, <2>1 DEF GuestMoves
  <2>2. CASE /\ s \in Pids /\ c.what \in {"vm", "squid", "pid"} /\ proc' = [proc EXCEPT ![s] = Ended(proc[s])]
             /\ guest' = IF proc[s].bin = "vm" THEN [guest EXCEPT ![proc[s].run] = "died"] ELSE guest
    <3>1. jail'[r] = jail[r]
      BY <2>0, <2>2
    <3> HIDE DEF s
    <3> QED BY <2>2, <3>1, SignalOn
  <2>3. CASE /\ s \in Pids /\ c.what = "child" /\ proc' = [proc EXCEPT ![s] = NoProc]
             /\ guest' = [guest EXCEPT ![c.run] = "died"]
    <3>1. p \in Runs /\ pc[p] = "unwind" /\ c.run = p
      BY <2>0, <2>3, HeadOf DEF Tear, Procs
    <3>2. s = own[p].vm
      BY <2>0, <2>3, <3>1, Apart, StruckPid
    <3>3. Lists(todo[p], Do(p, "child"))
      <4>1. c = Do(p, "child")
        BY <2>0, <2>3, <3>1 DEF Do, Cmds
      <4> QED BY <2>0, <4>1, TailKeeps DEF Lists
    <3>4. Child(p)
      BY <3>1, <3>3 DEF Orders, OrdersOf
    <3>5. proc[s] \in {Vm(p), Zombie(p)}
      BY <3>2, <3>4 DEF Child
    <3>6. jail'[r] = jail[r]
      BY <2>0, <2>3
    <3>7. CASE p = r
      <4>1. guest'[r] = "died"
        BY <2>3, <3>1, <3>7
      <4>2. Alive(r)
        BY <3>1, <3>7 DEF Alive
      <4>3. \A q \in Pids : proc'[q] = Vm(r) => proc[q] = Vm(r)
        BY <1>10, ProcStep DEF ProcWanes
      <4>4. \A q \in Pids : proc[q] = Vm(r) => q = own[r].vm
        BY <4>2 DEF Traced, TracedOf
      <4>5. own[r].vm \in Pids => proc'[own[r].vm] # Vm(r)
        <5>0. s = own[r].vm /\ Vm(r) # NoProc
          BY <3>2, <3>7, Kinds
        <5> HIDE DEF s
        <5>1. proc'[s] = NoProc
          BY <2>3
        <5> QED BY <5>0, <5>1
      <4>6. ~Has("vm", r)'
        <5>1. \A q \in Pids : proc'[q] # Vm(r)
          BY <4>3, <4>4, <4>5
        <5> QED BY <5>1 DEF Has, Vm
      <4> QED BY <3>1, <3>6, <3>7, <4>1, <4>6 DEF GuestMoves
    <3>8. CASE p # r
      <4>1. guest'[r] = guest[r]
        BY <2>3, <3>1, <3>8
      <4>2. proc[s] # Vm(r)
        BY <3>1, <3>5, <3>8, Distinct
      <4> HIDE DEF s
      <4>3. \A q \in Pids : proc[q] = Vm(r) => proc'[q] = Vm(r)
        BY <2>3, <4>2
      <4> QED BY <1>0, <3>6, <4>1, <4>3, VmKeptIf
    <3> QED BY <3>7, <3>8
  <2>4. c.what \notin {"vm", "squid", "pid", "child"} => UNCHANGED <<proc, guest>>
    BY <1>10, OrderOnProcs
  <2> QED BY <1>10, <2>1, <2>2, <2>3, <2>4, OrderOnProcs
<1> QED BY <1>1, <1>2, <1>3, <1>4, <1>5, <1>6, <1>7, <1>8, <1>9, <1>10, Cases

\* What a run's process says of it outside Start.
ReportMoves(r) ==
  \/ report'[r] = report[r] /\ (pc'[r] = pc[r] \/ pc'[r] \in {"sweep", "network"} \/ WaitReturns(r))
  \/ report'[r] = "noListener" /\ pc'[r] = "teardown" /\ SetUpFails(r)
  \/ ReadExitCode(r)
  \/ /\ report'[r] \in {"none", "noChroot"} /\ pc'[r] \in {"over", "dead"}
     /\ report[r] = "noChroot" => report'[r] = "noChroot"

\* What a process that ends unsays.
LEMMA ForgetSays ==
  ASSUME TypeOK, NEW r \in Runs, NEW S, Forget(S), r \in S
  PROVE  report'[r] \in {"none", "noChroot"} /\ (report[r] = "noChroot" => report'[r] = "noChroot")
BY TypeFacts DEF Forget

\* And what it does not.
LEMMA ForgetSpares ==
  ASSUME TypeOK, NEW r \in Runs, NEW S, Forget(S), r \notin S
  PROVE  report'[r] = report[r]
BY TypeFacts DEF Forget

\* Reports change in these ways only.
LEMMA ReportStep ==
  ASSUME TypeOK, [Next]_vars, NEW r \in Runs, ~Starts(r)
  PROVE  ReportMoves(r)
<1> USE TypeFacts
<1>0. report'[r] = report[r] /\ pc'[r] = pc[r] => ReportMoves(r)
  BY DEF ReportMoves
<1>1. ASSUME NEW v \in Runs, Quiet(v) PROVE ReportMoves(r)
  <2>1. CASE List(v) \/ Swept(v)
    BY <2>1 DEF List, Swept, Goto, life, ReportMoves
  <2>2. CASE (\E w \in Runs : Judge(v, w)) \/ AskGuest(v) \/ Ring(v) \/ Age(v) \/ OperatorStop(v)
    BY <1>0, <2>2 DEF Judge, AskGuest, Ring, Age, OperatorStop, life
  <2>3. CASE SetUpFails(v)
    <3>1. /\ report' = [report EXCEPT ![v] = "noListener"] /\ pc' = [pc EXCEPT ![v] = "teardown"]
      BY <2>3 DEF SetUpFails, BeginStop, Goto
    <3>2. CASE v = r
      BY <2>3, <3>1, <3>2 DEF ReportMoves
    <3>3. CASE v # r
      BY <1>0, <3>1, <3>3
    <3> QED BY <3>2, <3>3
  <2>4. CASE ReadExitCode(v)
    <3>1. v # r => report'[r] = report[r] /\ pc'[r] = pc[r]
      BY <2>4 DEF ReadExitCode, BeginStop, Goto
    <3> QED BY <1>0, <2>4, <3>1 DEF ReportMoves
  <2> QED BY <1>1, <2>1, <2>2, <2>3, <2>4 DEF Quiet
<1>2. ASSUME NEW v \in Runs, WaitReturns(v) PROVE ReportMoves(r)
  BY <1>2 DEF WaitReturns, Goto, ReportMoves
<1>3. ASSUME NEW v \in Runs, Return(v) PROVE ReportMoves(r)
  <2>1. Forget({v}) /\ pc' = [pc EXCEPT ![v] = "over"]
    BY <1>3 DEF Return, Goto
  <2>2. CASE v = r
    <3>1. /\ report'[r] \in {"none", "noChroot"} /\ pc'[r] = "over"
          /\ report[r] = "noChroot" => report'[r] = "noChroot"
      BY <2>1, <2>2, ForgetSays
    <3> QED BY <3>1 DEF ReportMoves
  <2>3. CASE v # r
    <3>1. r \notin {v}
      BY <2>3
    <3> QED BY <1>0, <2>1, <2>3, <3>1, ForgetSpares
  <2> QED BY <2>2, <2>3
<1>4. ASSUME NEW v \in Runs, Crash(v) PROVE ReportMoves(r)
  <2>1. Forget({v}) /\ pc'[r] = IF r \in {v} THEN "dead" ELSE pc[r]
    BY <1>4 DEF Crash, Die
  <2>2. CASE r \in {v}
    <3>1. report'[r] \in {"none", "noChroot"} /\ (report[r] = "noChroot" => report'[r] = "noChroot")
      BY <2>1, <2>2, ForgetSays
    <3> QED BY <2>1, <2>2, <3>1 DEF ReportMoves
  <2>3. CASE r \notin {v}
    BY <1>0, <2>1, <2>3, ForgetSpares
  <2> QED BY <2>2, <2>3
<1>5. CASE Reboot
  <2> DEFINE S == {v \in Runs : Alive(v)}
  <2>1. Forget(S) /\ pc'[r] = IF r \in S \union {Operator} THEN "dead" ELSE pc[r]
    BY <1>5 DEF Reboot, Die
  <2>2. r # Operator
    BY Apart
  <2> HIDE DEF S
  <2>3. CASE r \in S
    <3>1. report'[r] \in {"none", "noChroot"} /\ (report[r] = "noChroot" => report'[r] = "noChroot")
      BY <2>1, <2>3, ForgetSays
    <3> QED BY <2>1, <2>3, <3>1 DEF ReportMoves
  <2>4. CASE r \notin S
    <3>1. pc'[r] = pc[r]
      BY <2>1, <2>2, <2>4
    <3> QED BY <1>0, <2>1, <2>4, <3>1, ForgetSpares
  <2> QED BY <2>3, <2>4
<1>6. ASSUME NEW v \in Runs, ForceGuest(v) \/ GuestEnds(v) \/ SquidDies(v) PROVE ReportMoves(r)
  BY <1>0, <1>6 DEF ForceGuest, GuestEnds, SquidDies, life
<1>7. ASSUME NEW p \in Procs, Remove(p) PROVE ReportMoves(r)
  BY <1>0, <1>7, OrderKeeps
<1>8. ASSUME NEW v \in Runs, Starts(v) PROVE ReportMoves(r)
  <2>1. v # r
    BY <1>8
  <2> QED BY <1>0, <1>8, <2>1, StartsApart
<1>9. UNCHANGED vars => ReportMoves(r)
  BY <1>0, VarsKept
<1> QED BY <1>1, <1>2, <1>3, <1>4, <1>5, <1>6, <1>7, <1>8, <1>9, Cases

\* What a guest has done agrees with its image and with what is reported.
LifeOf(r) ==
  /\ report[r] \in {"code", "killed", "lost"} => pc[r] = "teardown"
  /\ Alive(r) /\ Has("vm", r) => guest[r] \in {"none", "running"}
  /\ pc[r] \in Early => guest[r] = "none" /\ jail[r] \in {"absent", "image"}
  /\ pc[r] \in {"state", "record", "wait", "read", "teardown"} => guest[r] # "none"
  /\ pc[r] \in {"state", "record", "wait", "read"} /\ guest[r] = "running" => Has("vm", r)
  /\ pc[r] = "read" => guest[r] # "running"
  /\ Alive(r) /\ jail[r] = "code" => guest[r] = "wrote" \/ pc[r] = "unwind"
  /\ Alive(r) /\ guest[r] = "wrote" => jail[r] # "image"
  /\ pc[r] \in {"launch", "boot", "state", "record", "wait", "read"} => jail[r] \in {"image", "code"} \/ r \in robbed
TrueOf(r) ==
  /\ report[r] = "code" => guest[r] = "wrote"
  /\ report[r] = "killed" => guest[r] = "died" \/ r \in robbed
  /\ report[r] = "lost" => r \in robbed
Life == \A r \in Runs : LifeOf(r) /\ TrueOf(r)

\* A step of Start agrees with its guest.
LEMMA LifeStart ==
  ASSUME TypeOK, Files, Orders, Traced, Life, NEW r \in Runs, Starts(r), [Next]_vars
  PROVE  LifeOf(r)' /\ TrueOf(r)'
<1> USE TypeFacts
<1>0. LifeOf(r) /\ pc[r] \in Steps /\ Alive(r) /\ report[r] \notin {"code", "killed", "lost"} /\ TypeOK' /\ Traced'
  <2>1. LifeOf(r) /\ pc[r] \in Steps
    BY StartsOn DEF Life
  <2>2. TypeOK' /\ Traced'
    BY TypeStep, TracedStep
  <2> QED BY <2>1, <2>2 DEF Steps, Alive, LifeOf
<1>00. robbed' = robbed
  BY StartsApart
<1>01. proc' = proc => (Has("vm", r)' <=> Has("vm", r))
  BY DEF Has
<1>1. CASE Ahead(r)
  <2>1. report'[r] = report[r]
    BY <1>1 DEF Ahead
  <2>2. TrueOf(r)'
    BY <1>0, <2>1 DEF TrueOf
  <2>3. CASE pc[r] \in {"network", "squid", "image", "chroot"}
    <3>1. /\ pc'[r] \in Early /\ pc'[r] \notin {"state", "record", "wait", "read", "teardown", "boot"}
          /\ guest'[r] = guest[r] /\ jail'[r] \in {jail[r], "image"}
          /\ pc'[r] = "launch" => jail'[r] = "image"
      BY <1>1, <2>3 DEF Ahead, Early
    <3>2. ~Has("vm", r)'
      <4>1. \A p \in Pids : proc'[p] # Vm(r)
        BY <1>0, <3>1 DEF Traced, TracedOf
      <4> QED BY <4>1 DEF Has, Vm
    <3>3. guest[r] = "none" /\ jail[r] \in {"absent", "image"}
      BY <1>0, <2>3 DEF LifeOf, Early
    <3> QED BY <1>0, <2>1, <2>2, <3>1, <3>2, <3>3 DEF LifeOf
  <2>4. CASE pc[r] = "launch"
    <3>1. pc'[r] = "boot" /\ guest'[r] = guest[r] /\ jail'[r] = jail[r]
      BY <1>1, <2>4 DEF Ahead
    <3>2. guest[r] = "none" /\ jail[r] \in {"absent", "image"}
      BY <1>0, <2>4 DEF LifeOf, Early
    <3> QED BY <1>0, <1>00, <2>1, <2>2, <2>4, <3>1, <3>2 DEF LifeOf, Early
  <2>5. CASE pc[r] = "boot"
    <3>1. pc'[r] = "state" /\ guest'[r] = "running" /\ jail'[r] = jail[r] /\ Has("vm", r) /\ Has("vm", r)'
      BY <1>01, <1>1, <2>5 DEF Ahead
    <3>2. guest[r] \in {"none", "running"}
      BY <1>0, <3>1 DEF LifeOf
    <3>3. jail[r] # "code"
      BY <1>0, <2>5, <3>2 DEF LifeOf
    <3> QED BY <1>0, <1>00, <2>1, <2>2, <2>5, <3>1, <3>3 DEF LifeOf, Early
  <2>6. CASE pc[r] \in {"state", "record"}
    <3>1. /\ pc'[r] \in {"record", "wait"} /\ guest'[r] = guest[r] /\ jail'[r] = jail[r]
          /\ Has("vm", r)' <=> Has("vm", r)
      BY <1>01, <1>1, <2>6 DEF Ahead
    <3>2. pc'[r] \notin Early /\ pc'[r] \notin {"read", "teardown", "unwind"} /\ Alive(r)'
      BY <3>1 DEF Early, Alive
    <3> QED BY <1>0, <1>00, <2>1, <2>2, <2>6, <3>1, <3>2 DEF LifeOf
  <2> QED BY <1>0, <2>2, <2>3, <2>4, <2>5, <2>6 DEF Steps
<1>2. CASE Back(r)
  <2>1. /\ pc'[r] = "unwind" /\ guest'[r] = guest[r] /\ (Has("vm", r)' <=> Has("vm", r))
        /\ report'[r] \in {"noChroot", "notStarted"} /\ (pc[r] # "chroot" => jail'[r] = jail[r])
    BY <1>01, <1>2 DEF Back
  <2>2. pc[r] = "chroot" => guest[r] = "none"
    BY <1>0 DEF LifeOf, Early
  <2> QED BY <1>0, <2>1, <2>2 DEF LifeOf, TrueOf, Early
<1> QED BY <1>1, <1>2, StartsOn

\* So does every other step.
LEMMA LifeOther ==
  ASSUME TypeOK, Files, Orders, Traced, Life, NEW r \in Runs, ~Starts(r), [Next]_vars
  PROVE  LifeOf(r)' /\ TrueOf(r)'
<1> USE TypeFacts
<1>0. /\ LifeOf(r) /\ TrueOf(r) /\ PcMoves(r) /\ GuestMoves(r) /\ ReportMoves(r)
      /\ Has("vm", r)' => Has("vm", r)
      /\ robbed \subseteq robbed'
  BY PcStep, GuestStep, ReportStep, HasWanes, RobbedStep DEF Life
<1>01. Has("vm", r) => pc[r] \notin Early
  BY OneVm
<1>1. report'[r] \in {"code", "killed", "lost"} => pc'[r] = "teardown"
  <2>1. ReadExitCode(r) => pc'[r] = "teardown"
    BY DEF ReadExitCode, BeginStop, Goto
  <2>2. WaitReturns(r) => pc[r] = "wait"
    BY DEF WaitReturns
  <2> QED BY <1>0, <2>1, <2>2 DEF LifeOf, ReportMoves, PcMoves
<1>2. Alive(r)' => Alive(r) \/ pc[r] = "idle"
  BY <1>0 DEF PcMoves, Alive
<1>3. /\ pc'[r] \in Early => pc[r] \in Early
      /\ pc[r] = "idle" => pc[r] \in Early
  BY <1>0 DEF PcMoves, Early
<1>4. Alive(r)' /\ Has("vm", r)' => guest'[r] \in {"none", "running"}
  <2>1. SUFFICES ASSUME Alive(r)', Has("vm", r)' PROVE guest'[r] \in {"none", "running"}
    OBVIOUS
  <2>2. Has("vm", r) /\ Alive(r) /\ guest[r] \in {"none", "running"}
    BY <1>0, <1>01, <1>2, <1>3, <2>1 DEF LifeOf
  <2>3. pc'[r] \notin {"over", "dead"}
    BY <2>1 DEF Alive
  <2> QED BY <1>0, <2>1, <2>2, <2>3 DEF GuestMoves
<1>5. pc'[r] \in Early => guest'[r] = "none" /\ jail'[r] \in {"absent", "image"}
  <2>1. SUFFICES ASSUME pc'[r] \in Early PROVE guest'[r] = "none" /\ jail'[r] \in {"absent", "image"}
    OBVIOUS
  <2>2. guest[r] = "none" /\ jail[r] \in {"absent", "image"} /\ ~Has("vm", r)
    BY <1>0, <1>01, <1>3, <2>1 DEF LifeOf
  <2>3. pc'[r] \notin {"over", "dead"} /\ pc[r] # "unwind"
    BY <1>3, <2>1 DEF Early
  <2> QED BY <1>0, <2>2, <2>3 DEF GuestMoves
<1>6. pc'[r] \in {"state", "record", "wait", "read", "teardown"} => guest'[r] # "none"
  <2>1. SUFFICES ASSUME pc'[r] \in {"state", "record", "wait", "read", "teardown"} PROVE guest'[r] # "none"
    OBVIOUS
  <2>2. guest[r] # "none"
    BY <1>0, <2>1 DEF LifeOf, PcMoves
  <2> QED BY <1>0, <2>1, <2>2 DEF GuestMoves
<1>7. pc'[r] \in {"state", "record", "wait", "read"} /\ guest'[r] = "running" => Has("vm", r)'
  <2>1. SUFFICES ASSUME pc'[r] \in {"state", "record", "wait", "read"}, guest'[r] = "running" PROVE Has("vm", r)'
    OBVIOUS
  <2>2. guest[r] = "running" /\ VmKept(r)
    BY <1>0, <2>1 DEF GuestMoves
  <2>3. Has("vm", r)
    BY <1>0, <2>1, <2>2 DEF LifeOf, PcMoves
  <2> QED BY <2>2, <2>3 DEF VmKept
<1>8. pc'[r] = "read" => guest'[r] # "running"
  <2>1. SUFFICES ASSUME pc'[r] = "read", guest'[r] = "running" PROVE FALSE
    OBVIOUS
  <2>2. guest[r] = "running"
    BY <1>0, <2>1 DEF GuestMoves
  <2>3. pc[r] = "wait"
    BY <1>0, <2>1, <2>2 DEF LifeOf, PcMoves
  <2>4. WaitReturns(r)
    <3>1. ~ReadExitCode(r)
      BY <2>3 DEF ReadExitCode
    <3> QED BY <1>0, <2>1, <2>3, <3>1 DEF ReportMoves
  <2>5. ~IsVM(own[r].vm, r)
    BY <2>4 DEF WaitReturns
  <2>6. ~Has("vm", r)
    BY <2>3, <2>5, OneVm DEF Alive
  <2> QED BY <1>0, <2>2, <2>3, <2>6 DEF LifeOf
<1>9. Alive(r)' /\ jail'[r] = "code" => guest'[r] = "wrote" \/ pc'[r] = "unwind"
  <2>1. SUFFICES ASSUME Alive(r)', jail'[r] = "code" PROVE guest'[r] = "wrote" \/ pc'[r] = "unwind"
    OBVIOUS
  <2>2. pc'[r] \notin {"over", "dead"}
    BY <2>1 DEF Alive
  <2>3. pc[r] = "unwind" => pc'[r] = "unwind"
    BY <1>0, <2>2 DEF PcMoves
  <2>4. Has("vm", r) /\ Alive(r) => guest[r] \in {"none", "running"}
    BY <1>0 DEF LifeOf
  <2>5. Alive(r)
    <3>1. pc[r] = "idle" => jail'[r] # "code"
      <4>1. SUFFICES ASSUME pc[r] = "idle" PROVE jail'[r] # "code"
        OBVIOUS
      <4>2. guest[r] = "none" /\ jail[r] \in {"absent", "image"}
        BY <1>0, <1>3, <4>1 DEF LifeOf
      <4> QED BY <1>0, <2>2, <4>1, <4>2 DEF GuestMoves
    <3> QED BY <1>2, <2>1, <3>1
  <2>6. jail[r] = "code" => guest[r] = "wrote" \/ pc[r] = "unwind"
    BY <1>0, <2>5 DEF LifeOf
  <2> QED BY <1>0, <2>1, <2>2, <2>3, <2>4, <2>5, <2>6 DEF GuestMoves
<1>10. Alive(r)' /\ guest'[r] = "wrote" => jail'[r] # "image"
  <2>1. SUFFICES ASSUME Alive(r)', guest'[r] = "wrote" PROVE jail'[r] # "image"
    OBVIOUS
  <2>2. pc'[r] \notin {"over", "dead"}
    BY <2>1 DEF Alive
  <2>3. guest[r] = "wrote" => jail[r] # "image"
    <3>1. pc[r] = "idle" => guest[r] = "none"
      BY <1>0, <1>3 DEF LifeOf
    <3> QED BY <1>0, <1>2, <2>1, <3>1 DEF LifeOf
  <2> QED BY <1>0, <2>1, <2>2, <2>3 DEF GuestMoves
<1>11. pc'[r] \in {"launch", "boot", "state", "record", "wait", "read"}
         => jail'[r] \in {"image", "code"} \/ r \in robbed'
  <2>1. SUFFICES ASSUME pc'[r] \in {"launch", "boot", "state", "record", "wait", "read"}
        PROVE  jail'[r] \in {"image", "code"} \/ r \in robbed'
    OBVIOUS
  <2>2. pc[r] \in {"launch", "boot", "state", "record", "wait", "read"}
    BY <1>0, <2>1 DEF PcMoves
  <2>3. jail[r] \in {"image", "code"} \/ r \in robbed
    BY <1>0, <2>2 DEF LifeOf
  <2>4. Alive(r) /\ pc[r] \notin {"sweep", "unwind", "teardown"}
    BY <2>2 DEF Alive
  <2>5. jail'[r] = jail[r] \/ (jail[r] = "image" /\ jail'[r] = "code") \/ r \in robbed'
    BY <2>4, RobbedStep
  <2> QED BY <1>0, <2>3, <2>5
<1>12. TrueOf(r)'
  <2>1. CASE report'[r] = report[r] /\ report[r] \in {"code", "killed", "lost"}
    <3>1. pc[r] = "teardown" /\ pc'[r] = "teardown"
      BY <1>0, <1>1, <2>1 DEF LifeOf
    <3>2. Has("vm", r) => guest[r] \in {"none", "running"}
      BY <1>0, <3>1 DEF LifeOf, Alive
    <3>3. guest[r] \in {"wrote", "died"} => guest'[r] = guest[r]
      BY <1>0, <3>1, <3>2 DEF GuestMoves
    <3> QED BY <1>0, <2>1, <3>3 DEF TrueOf
  <2>2. CASE report'[r] \notin {"code", "killed", "lost"}
    BY <2>2 DEF TrueOf
  <2>3. CASE ReadExitCode(r)
    <3>1. /\ pc[r] = "read" /\ guest'[r] = guest[r]
          /\ jail[r] = "code" => report'[r] = "code"
          /\ jail[r] = "image" => report'[r] = "killed"
          /\ report'[r] = "code" => jail[r] = "code"
      BY <2>3 DEF ReadExitCode
    <3>2. Alive(r)
      BY <3>1 DEF Alive
    <3>3. jail[r] = "code" => guest[r] = "wrote"
      BY <1>0, <3>1, <3>2 DEF LifeOf
    <3>4. jail[r] = "image" => guest[r] = "died"
      BY <1>0, <3>1, <3>2 DEF LifeOf
    <3>5. jail[r] \notin {"code", "image"} => r \in robbed
      BY <1>0, <3>1 DEF LifeOf
    <3> QED BY <1>0, <3>1, <3>3, <3>4, <3>5 DEF TrueOf
  <2> QED BY <1>0, <2>1, <2>2, <2>3 DEF ReportMoves
<1> QED BY <1>1, <1>4, <1>5, <1>6, <1>7, <1>8, <1>9, <1>10, <1>11, <1>12 DEF LifeOf

\* Every step keeps guests, images and reports in agreement.
LEMMA LifeStep ==
  ASSUME TypeOK, Files, Orders, Traced, Life, [Next]_vars
  PROVE  Life'
BY LifeStart, LifeOther DEF Life

-----------------------------------------------------------------------------
(* What a VM needs is there.                                               *)

\* What Start has provided is there while the VM lives.
UpOf(r) ==
  /\ pc[r] \in {"squid", "image", "chroot", "launch"} => host[r] = {"tap", "nft"}
  /\ pc[r] = "launch" => jail[r] = "image"
  /\ pc[r] \in {"boot", "state", "record", "wait"} /\ Has("vm", r) /\ stopRun # r =>
       /\ host[r] = {"tap", "nft"} /\ jail[r] = "image"
       /\ pc[r] \in {"record", "wait"} /\ r \notin slow => "state" \in dir[r]
       /\ pc[r] = "wait" /\ r \notin slow => rec[r] = own[r]
Up == \A r \in Runs : UpOf(r)

\* A step of Start provides.
LEMMA UpStart ==
  ASSUME TypeOK, Up, NEW r \in Runs, Starts(r)
  PROVE  UpOf(r)'
<1> USE TypeFacts
<1>0. UpOf(r) /\ pc[r] \in Steps /\ stopRun' = stopRun /\ slow' = slow
  BY StartsOn, StartsApart DEF Up
<1>1. CASE Ahead(r)
  <2>1. CASE pc[r] = "network"
    <3>1. pc'[r] = "squid" /\ host'[r] = {"tap", "nft"}
      BY <1>1, <2>1 DEF Ahead
    <3> QED BY <3>1 DEF UpOf
  <2>2. CASE pc[r] \in {"squid", "image", "chroot"}
    <3>1. /\ pc'[r] \in {"image", "chroot", "launch"} /\ host'[r] = host[r]
          /\ pc'[r] = "launch" => jail'[r] = "image"
      BY <1>1, <2>2 DEF Ahead
    <3>2. host[r] = {"tap", "nft"}
      BY <1>0, <2>2 DEF UpOf
    <3> QED BY <3>1, <3>2 DEF UpOf
  <2>3. CASE pc[r] = "launch"
    <3>1. pc'[r] = "boot" /\ host'[r] = host[r] /\ jail'[r] = jail[r]
      BY <1>1, <2>3 DEF Ahead
    <3> QED BY <1>0, <2>3, <3>1 DEF UpOf
  <2>4. CASE pc[r] \in {"boot", "state", "record"}
    <3>1. /\ pc'[r] \in {"state", "record", "wait"} /\ host'[r] = host[r] /\ jail'[r] = jail[r]
          /\ proc' = proc /\ own' = own
          /\ pc'[r] = "wait" => rec'[r] = own[r] /\ dir'[r] = dir[r] /\ pc[r] = "record"
          /\ pc'[r] = "record" => "state" \in dir'[r]
      BY <1>1, <2>4 DEF Ahead
    <3>2. Has("vm", r)' <=> Has("vm", r)
      BY <3>1 DEF Has
    <3> QED BY <1>0, <2>4, <3>1, <3>2 DEF UpOf
  <2> QED BY <1>0, <2>1, <2>2, <2>3, <2>4 DEF Steps
<1>2. CASE Back(r)
  <2>1. pc'[r] = "unwind"
    BY <1>2 DEF Back
  <2> QED BY <2>1 DEF UpOf
<1> QED BY <1>1, <1>2, StartsOn

\* A guest that ends takes its VM with it.
LEMMA GuestEndsVm ==
  ASSUME TypeOK, NEW r \in Runs, GuestEnds(r)
  PROVE  Has("vm", r) /\ ~Has("vm", r)'
<1>1. \A p \in Pids : proc'[p] # Vm(r)
  BY TypeFacts, EndedWanes DEF GuestEnds
<1> QED BY <1>1 DEF GuestEnds, Has, Vm

\* No other step takes away what the VM needs.
LEMMA UpOther ==
  ASSUME TypeOK, Orders, Traced, Foreign, Up, NEW r \in Runs, ~Starts(r), [Next]_vars
  PROVE  UpOf(r)'
<1> USE TypeFacts
<1> DEFINE Busy == {"squid", "image", "chroot", "launch", "boot", "state", "record", "wait"}
<1>0. /\ UpOf(r) /\ PcMoves(r) /\ (Has("vm", r)' => Has("vm", r)) /\ slow \subseteq slow'
      /\ stopRun' # r => stopRun # r
  <2>1. stopRun' = stopRun \/ stopRun = NoRun
    <3>1. ASSUME NEW v \in Runs, OperatorStop(v) PROVE stopRun = NoRun
      BY <3>1 DEF OperatorStop
    <3> QED BY <3>1, OperatorStep
  <2>2. NoRun # r
    BY Apart
  <2> QED BY <2>1, <2>2, PcStep, HasWanes, SlowGrows DEF Up
<1>1. pc'[r] \in Busy => pc[r] = pc'[r]
  BY <1>0 DEF PcMoves
<1>2. CASE pc'[r] \notin Busy
  BY <1>2 DEF UpOf
<1>3. CASE pc'[r] \in Busy
  <2>0. pc[r] = pc'[r] /\ own'[r] = own[r] /\ Alive(r) /\ pc'[r] # "dead" /\ todo[r] = <<>>
    <3>1. own'[r] = own[r]
      BY <1>1, <1>3, OwnStep
    <3>2. todo[r] = <<>>
      BY <1>1, <1>3 DEF Orders, OrdersOf
    <3> QED BY <1>1, <1>3, <3>1, <3>2 DEF Alive
  <2>1. CASE DiskKept(r)
    BY <1>0, <2>0, <2>1 DEF UpOf, DiskKept
  <2>2. ASSUME NEW p \in Procs, Remove(p), Head(todo[p]).run = r PROVE UpOf(r)'
    <3>0. p # r /\ todo[p] # <<>> /\ todo[p] \in Seq(Cmds) /\ stopRun' = stopRun
      BY <2>0, <2>2, OrderKeeps
    <3>1. CASE All(todo[p], r, Tear) /\ pc[r] \in Settled /\ (p \in Runs => ~Has("vm", r))
      <4>1. pc[r] = "wait"
        BY <1>3, <2>0, <3>1 DEF Settled
      <4>2. p = Operator => stopRun = r
        BY <2>2, <3>0, HeadOf
      <4> QED BY <1>0, <2>0, <3>0, <3>1, <4>1, <4>2 DEF UpOf, Procs
    <3>2. CASE All(todo[p], r, {"dir"}) /\ (r \in slow \/ pc[r] \in {"over", "dead"})
      <4>1. Head(todo[p]).what = "dir"
        BY <3>0, <3>2, HeadAll
      <4>2. host'[r] = host[r] /\ jail'[r] = jail[r]
        BY <2>2, <4>1, OrderOnDisk
      <4>3. r \in slow'
        BY <1>0, <2>0, <3>2 DEF Alive
      <4> QED BY <1>0, <2>0, <4>2, <4>3 DEF UpOf
    <3> QED BY <2>2, <3>0, <3>1, <3>2 DEF Foreign, ForeignOf
  <2>3. CASE GuestEnds(r)
    <3>1. pc[r] \notin Early /\ ~Has("vm", r)'
      BY <2>3, GuestEndsVm, OneVm
    <3> QED BY <2>0, <3>1 DEF UpOf, Early
  <2>4. ~Reboot
    BY <2>0 DEF Reboot, Die
  <2> QED BY <2>1, <2>2, <2>3, <2>4, DiskStep
<1> QED BY <1>2, <1>3

\* Every step leaves it there.
LEMMA UpStep ==
  ASSUME TypeOK, Orders, Traced, Foreign, Up, [Next]_vars
  PROVE  Up'
BY UpStart, UpOther DEF Up

-----------------------------------------------------------------------------
(* Nothing is left.                                                        *)

\* What is left of a run is on the list of the one who removes it.
Holds(p, v) ==
  /\ host[v] # {} \/ dir[v] # {} => Lists(todo[p], Do(v, "net"))
  /\ Has("vm", v) => Lists(todo[p], Do(v, "vm")) \/ Lists(todo[p], Do(v, "child"))
  /\ Has("squid", v) => Lists(todo[p], Do(v, "squid")) \/ Lists(todo[p], Do(v, "pid"))
HoldsJail(p, v) == jail[v] # "absent" => Lists(todo[p], Do(v, "jail"))
Gone(v) == host[v] = {} /\ dir[v] = {} /\ jail[v] = "absent" /\ ~Has("vm", v) /\ ~Has("squid", v)
Aims(p, v) == \A q \in Pids : /\ proc[q] = Vm(v) => q = aim[p].vm
                              /\ proc[q] = Squid(v) => q = aim[p].squid

\* Nothing is added to a run after its Start, so that a list that was complete
\* remains so.
LEMMA HoldsKept ==
  ASSUME TypeOK, [Next]_vars, NEW p \in Procs, NEW v \in Runs, ~Starts(v),
         todo'[p] = todo[p]
  PROVE  /\ Holds(p, v) => Holds(p, v)'
         /\ HoldsJail(p, v) => HoldsJail(p, v)'
<1>1. /\ host'[v] # {} => host[v] # {}
      /\ dir'[v] # {} => dir[v] # {}
      /\ jail'[v] # "absent" => jail[v] # "absent"
  BY DiskStep DEF DiskWanes
<1>2. (Has("vm", v)' => Has("vm", v)) /\ (Has("squid", v)' => Has("squid", v))
  BY HasWanes
<1> QED BY <1>1, <1>2 DEF Holds, HoldsJail

\* A run that is gone remains so.
LEMMA GoneStays ==
  ASSUME TypeOK, [Next]_vars, NEW v \in Runs, ~Starts(v), Gone(v)
  PROVE  Gone(v)'
<1>1. host'[v] = {} /\ dir'[v] = {} /\ jail'[v] = "absent"
  BY DiskStep DEF DiskWanes, Gone
<1>2. ~Has("vm", v)' /\ ~Has("squid", v)'
  BY HasWanes DEF Gone
<1> QED BY <1>1, <1>2 DEF Gone

\* A removal that succeeds has removed what it was for.
LEMMA HeadDone ==
  ASSUME TypeOK, [Next]_vars, NEW p \in Procs, Remove(p), ~failed'[p], NEW v \in Runs,
         Head(todo[p]).run = v, ~Starts(v),
         Head(todo[p]).what \in {"vm", "squid"} => Aims(p, v),
         Head(todo[p]).what \in {"pid", "child"} =>
           \A q \in Pids : (proc[q] = Vm(v) => q = own[v].vm) /\ (proc[q] = Squid(v) => q = own[v].squid)
  PROVE  LET what == Head(todo[p]).what IN
         /\ what = "net" => host'[v] = {} /\ dir'[v] = {}
         /\ what = "jail" => jail'[v] = "absent"
         /\ what \in {"vm", "child"} => ~Has("vm", v)'
         /\ what \in {"squid", "pid"} => ~Has("squid", v)'
<1> USE TypeFacts
<1> DEFINE c == Head(todo[p])
           s == Struck(p, c)
<1>0. c \in Cmds /\ c.run = v /\ c.what \in Whats
  BY OrderKeeps
<1>1. /\ c.what = "net" => host'[v] = {} /\ dir'[v] = {}
      /\ c.what = "jail" => jail'[v] = "absent"
  BY <1>0, OrderOnDisk
<1>2. ProcWanes(v)
  BY ProcStep
<1>3. ASSUME c.what \in {"vm", "squid", "pid", "child"}, s \in Pids
      PROVE  proc'[s] \in {Ended(proc[s]), NoProc}
  <2>1. s # NoPid
    BY <1>3, Apart
  <2>2. proc' = [proc EXCEPT ![s] = Ended(proc[s])] \/ proc' = [proc EXCEPT ![s] = NoProc]
    BY <1>3, <2>1, OrderOnProcs
  <2> HIDE DEF s
  <2> QED BY <1>3, <2>2
<1>4. ASSUME NEW q \in Pids, q = s, c.what \in {"vm", "squid", "pid", "child"}
      PROVE  proc'[q] # Vm(v) /\ proc'[q] # Squid(v)
  <2>1. proc'[q] \in {Ended(proc[q]), NoProc} /\ proc[q] \in Process
    BY <1>3, <1>4
  <2>2. Ended(proc[q]) # Vm(v) /\ Ended(proc[q]) # Squid(v)
    BY <2>1, EndedWanes
  <2>3. NoProc # Vm(v) /\ NoProc # Squid(v)
    BY Kinds
  <2> QED BY <2>1, <2>2, <2>3
<1>5. ASSUME c.what \in {"vm", "child"} PROVE ~Has("vm", v)'
  <2>1. SUFFICES ASSUME NEW q \in Pids, proc'[q] = Vm(v) PROVE FALSE
    BY DEF Has, Vm
  <2>2. proc[q] = Vm(v)
    BY <1>2, <2>1 DEF ProcWanes
  <2>3. q = s
    <3>1. CASE c.what = "vm"
      <4>1. q = aim[p].vm
        BY <2>2, <3>1 DEF Aims
      <4> QED BY <1>0, <2>2, <3>1, <4>1, StruckPid
    <3>2. CASE c.what = "child"
      <4>1. q = own[v].vm
        BY <2>2, <3>2
      <4> QED BY <1>0, <3>2, <4>1, StruckPid
    <3> QED BY <1>5, <3>1, <3>2
  <2> QED BY <1>4, <1>5, <2>1, <2>3
<1>6. ASSUME c.what \in {"squid", "pid"} PROVE ~Has("squid", v)'
  <2>1. SUFFICES ASSUME NEW q \in Pids, proc'[q] = Squid(v) PROVE FALSE
    BY DEF Has, Squid
  <2>2. proc[q] = Squid(v)
    BY <1>2, <2>1 DEF ProcWanes
  <2>3. q = s
    <3>1. CASE c.what = "squid"
      <4>1. q = aim[p].squid
        BY <2>2, <3>1 DEF Aims
      <4>2. proc[q].bin = "squid"
        <5>1. Squid(v).bin = "squid"
          BY Kinds
        <5> QED BY <2>2, <5>1
      <4> QED BY <1>0, <3>1, <4>1, <4>2, StruckPid
    <3>2. CASE c.what = "pid"
      <4>1. q = own[v].squid
        BY <2>2, <3>2
      <4>2. proc[q] # NoProc
        BY <2>2, Kinds
      <4> QED BY <1>0, <3>2, <4>1, <4>2, StruckPid
    <3> QED BY <1>6, <3>1, <3>2
  <2> QED BY <1>4, <1>6, <2>1, <2>3
<1> QED BY <1>1, <1>5, <1>6

\* What a removal that succeeds takes off the list is not there any more.
LEMMA HoldsAfter ==
  ASSUME TypeOK, [Next]_vars, NEW p \in Procs, Remove(p), ~failed'[p], NEW v \in Runs,
         Head(todo[p]).run = v, ~Starts(v),
         Head(todo[p]).what \in {"vm", "squid"} => Aims(p, v),
         Head(todo[p]).what \in {"pid", "child"} =>
           \A q \in Pids : (proc[q] = Vm(v) => q = own[v].vm) /\ (proc[q] = Squid(v) => q = own[v].squid)
  PROVE  /\ Holds(p, v) => Holds(p, v)'
         /\ HoldsJail(p, v) => HoldsJail(p, v)'
<1> DEFINE c == Head(todo[p])
<1>0. /\ todo[p] # <<>> /\ todo[p] \in Seq(Cmds) /\ c \in Cmds
      /\ todo' = [todo EXCEPT ![p] = Tail(todo[p])]
  BY OrderKeeps
<1>1. todo'[p] = Tail(todo[p])
  BY <1>0, TypeFacts
<1>2. \A d : Lists(todo[p], d) => d = c \/ Lists(todo'[p], d)
  BY <1>0, <1>1, TailKeeps
<1>3. \A what : Do(v, what) = c => c.what = what
  BY DEF Do
<1>4. /\ c.what = "net" => host'[v] = {} /\ dir'[v] = {}
      /\ c.what = "jail" => jail'[v] = "absent"
      /\ c.what \in {"vm", "child"} => ~Has("vm", v)'
      /\ c.what \in {"squid", "pid"} => ~Has("squid", v)'
  BY HeadDone
<1>5. /\ host'[v] # {} => host[v] # {}
      /\ dir'[v] # {} => dir[v] # {}
      /\ jail'[v] # "absent" => jail[v] # "absent"
  BY DiskStep DEF DiskWanes
<1>6. (Has("vm", v)' => Has("vm", v)) /\ (Has("squid", v)' => Has("squid", v))
  BY HasWanes
<1> HIDE DEF c
<1>7. ASSUME Holds(p, v) PROVE Holds(p, v)'
  <2>1. host'[v] # {} \/ dir'[v] # {} => Lists(todo'[p], Do(v, "net"))
    BY <1>2, <1>3, <1>4, <1>5, <1>7 DEF Holds
  <2>2. Has("vm", v)' => Lists(todo'[p], Do(v, "vm")) \/ Lists(todo'[p], Do(v, "child"))
    BY <1>2, <1>3, <1>4, <1>6, <1>7 DEF Holds
  <2>3. Has("squid", v)' => Lists(todo'[p], Do(v, "squid")) \/ Lists(todo'[p], Do(v, "pid"))
    BY <1>2, <1>3, <1>4, <1>6, <1>7 DEF Holds
  <2> QED BY <2>1, <2>2, <2>3 DEF Holds
<1>8. ASSUME HoldsJail(p, v) PROVE HoldsJail(p, v)'
  BY <1>2, <1>3, <1>4, <1>5, <1>8 DEF HoldsJail
<1> QED BY <1>7, <1>8

\* Whatever is left of a run is in hand until a removal fails.
Unboxed == {"idle", "sweep", "network", "squid", "image", "chroot"}
OwnClear(r) ==
  /\ pc[r] \in Unboxed => jail[r] = "absent"
  /\ pc[r] \in {"unwind", "teardown", "over"} /\ ~failed[r] =>
       Holds(r, r) /\ (report[r] = "noChroot" \/ HoldsJail(r, r))
OthersClear(p) ==
  todo[p] # <<>> /\ ~failed[p] /\ Head(todo[p]).run # p =>
    LET v == Head(todo[p]).run IN Holds(p, v) /\ HoldsJail(p, v) /\ Aims(p, v)
Clear ==
  /\ \A r \in Runs : OwnClear(r)
  /\ \A p \in Procs : OthersClear(p)
  /\ \A v \in cleared : pc[v] = "dead" /\ Gone(v)

\* A step of Start that fails lists all there is.
LEMMA OwnClearStart ==
  ASSUME TypeOK, Traced, Clear, NEW r \in Runs, Starts(r)
  PROVE  OwnClear(r)'
<1> USE TypeFacts
<1>1. pc[r] \in Steps /\ (Ahead(r) \/ Back(r)) /\ OwnClear(r)
  BY StartsOn DEF Clear
<1>2. CASE Ahead(r)
  <2>1. pc'[r] \in {"squid", "image", "chroot", "launch", "boot", "state", "record", "wait"}
    BY <1>1, <1>2 DEF Ahead, Steps
  <2>2. pc'[r] \in Unboxed => pc[r] \in Unboxed /\ jail'[r] = jail[r]
    BY <1>1, <1>2 DEF Ahead, Steps, Unboxed
  <2> QED BY <1>1, <2>1, <2>2 DEF OwnClear
<1>3. CASE Back(r)
  <2>1. todo'[r] = Rollback(r, pc[r]) /\ pc'[r] = "unwind" /\ proc' = proc /\ r \in Procs
    <3>1. r \in Procs
      BY Apart
    <3> QED BY <1>3, <3>1 DEF Back
  <2>2. /\ Lists(todo'[r], Do(r, "net"))
        /\ pc[r] \notin {"network", "squid"} => Lists(todo'[r], Do(r, "pid"))
        /\ pc[r] \in {"launch", "boot", "state", "record"} => Lists(todo'[r], Do(r, "jail"))
        /\ pc[r] \in {"boot", "state", "record"} => Lists(todo'[r], Do(r, "child"))
    BY <1>1, <2>1, RollbackFits
  <2>3. Has("vm", r)' => pc[r] \in {"boot", "state", "record"}
    <3>1. Has("vm", r)' <=> Has("vm", r)
      BY <2>1 DEF Has
    <3> QED BY <1>1, <3>1, OneVm DEF Steps, Early
  <2>4. Has("squid", r)' => pc[r] \notin {"network", "squid"}
    <3>1. Has("squid", r)' <=> Has("squid", r)
      BY <2>1 DEF Has
    <3>2. Has("squid", r) => \E p \in Pids : proc[p] = Squid(r)
      BY HasFacts
    <3> QED BY <3>1, <3>2 DEF Traced, TracedOf, NoSquidYet
  <2>5. Holds(r, r)'
    BY <2>2, <2>3, <2>4 DEF Holds
  <2>6. report'[r] = "noChroot" \/ HoldsJail(r, r)'
    <3>1. CASE pc[r] = "chroot"
      BY <1>3, <3>1 DEF Back
    <3>2. CASE pc[r] \in {"network", "squid", "image"}
      BY <1>1, <1>3, <3>2 DEF Back, OwnClear, Unboxed, HoldsJail
    <3>3. CASE pc[r] \in {"launch", "boot", "state", "record"}
      BY <2>2, <3>3 DEF HoldsJail
    <3> QED BY <1>1, <3>1, <3>2, <3>3 DEF Steps
  <2> QED BY <2>1, <2>5, <2>6 DEF OwnClear, Unboxed
<1> QED BY <1>1, <1>2, <1>3

\* Stop lists all there is, and other steps keep the list complete.
LEMMA OwnClearOther ==
  ASSUME TypeOK, Orders, Traced, Clear, NEW r \in Runs, ~Starts(r), [Next]_vars
  PROVE  OwnClear(r)'
<1> USE TypeFacts
<1> DEFINE Ending == {"unwind", "teardown", "over"}
<1>0. OwnClear(r) /\ PcMoves(r) /\ ReportMoves(r) /\ DiskWanes(r) /\ r \in Procs
  BY PcStep, ReportStep, DiskStep, Apart DEF Clear
<1>1. pc'[r] \in Unboxed => jail'[r] = "absent"
  <2>1. pc'[r] \in Unboxed => pc[r] \in Unboxed
    BY <1>0 DEF PcMoves, Unboxed
  <2> QED BY <1>0, <2>1 DEF OwnClear, DiskWanes
<1>2. SUFFICES ASSUME pc'[r] \in Ending, ~failed'[r]
               PROVE  Holds(r, r)' /\ (report'[r] = "noChroot" \/ HoldsJail(r, r)')
  BY <1>1 DEF OwnClear
<1>3. CASE BeginStop(r)
  <2>1. todo'[r] = Teardown(r)
    BY <1>0, <1>3 DEF BeginStop
  <2>2. \A what \in {"vm", "squid", "jail", "net"} : Lists(todo'[r], Do(r, what))
    BY <2>1, TeardownFits
  <2> QED BY <2>2 DEF Holds, HoldsJail
<1>4. ASSUME ~BeginStop(r)
      PROVE  pc[r] \in Ending /\ (report[r] = "noChroot" => report'[r] = "noChroot")
  <2>1. ~SetUpFails(r) /\ ~ReadExitCode(r)
    BY <1>4 DEF SetUpFails, ReadExitCode
  <2>2. \/ report'[r] = report[r] /\ (pc'[r] = pc[r] \/ WaitReturns(r))
        \/ pc'[r] = "over" /\ (report[r] = "noChroot" => report'[r] = "noChroot")
    BY <1>0, <1>2, <2>1 DEF ReportMoves
  <2>3. ~WaitReturns(r)
    <3>1. ASSUME WaitReturns(r) PROVE pc'[r] = "read"
      BY <3>1 DEF WaitReturns, Goto
    <3> QED BY <1>2, <3>1
  <2>4. pc'[r] = "over" => pc[r] \in Ending
    BY <1>0 DEF PcMoves
  <2> QED BY <1>2, <2>2, <2>3, <2>4
<1>5. ASSUME ~BeginStop(r), todo'[r] = todo[r], failed'[r] = failed[r]
      PROVE  Holds(r, r)' /\ (report'[r] = "noChroot" \/ HoldsJail(r, r)')
  <2>1. Holds(r, r) /\ (report[r] = "noChroot" \/ HoldsJail(r, r))
    BY <1>0, <1>2, <1>4, <1>5 DEF OwnClear
  <2>2. /\ Holds(r, r) => Holds(r, r)'
        /\ HoldsJail(r, r) => HoldsJail(r, r)'
    BY <1>0, <1>5, HoldsKept
  <2> QED BY <1>4, <1>5, <2>1, <2>2
<1>6. ASSUME ~BeginStop(r), Remove(r)
      PROVE  Holds(r, r)' /\ (report'[r] = "noChroot" \/ HoldsJail(r, r)')
  <2>1. /\ todo[r] # <<>> /\ pc' = pc
        /\ failed' = failed \/ failed' = [failed EXCEPT ![r] = TRUE]
    BY <1>0, <1>6, OrderKeeps
  <2>2. ~failed[r] /\ pc[r] \in {"unwind", "teardown"}
    BY <1>0, <1>2, <2>1 DEF Orders, OrdersOf
  <2>3. Holds(r, r) /\ (report[r] = "noChroot" \/ HoldsJail(r, r))
    BY <1>0, <2>2 DEF OwnClear
  <2>4. /\ Head(todo[r]).run = r
        /\ Head(todo[r]).what \in {"vm", "squid"} => aim[r] = own[r]
    BY <1>0, <2>1, <2>2, HeadOf DEF Undo
  <2>5. \A q \in Pids : (proc[q] = Vm(r) => q = own[r].vm) /\ (proc[q] = Squid(r) => q = own[r].squid)
    BY <2>2 DEF Traced, TracedOf, Alive
  <2>6. Head(todo[r]).what \in {"vm", "squid"} => Aims(r, r)
    BY <2>4, <2>5 DEF Aims
  <2>7. /\ Holds(r, r) => Holds(r, r)'
        /\ HoldsJail(r, r) => HoldsJail(r, r)'
    BY <1>0, <1>2, <1>6, <2>4, <2>5, <2>6, HoldsAfter
  <2> QED BY <1>4, <1>6, <2>3, <2>7
<1>7. ASSUME NEW v \in Runs, Judge(r, v) PROVE FALSE
  BY <1>2, <1>7 DEF Judge
<1> QED BY <1>2, <1>3, <1>5, <1>6, <1>7, TodoStep

\* A list is about one run.
LEMMA SameRun ==
  ASSUME TypeOK, Orders, NEW p \in Procs, todo[p] # <<>>, Tail(todo[p]) # <<>>
  PROVE  Head(Tail(todo[p])).run = Head(todo[p]).run
<1>0. todo[p] \in Seq(Cmds)
  BY TypeFacts
<1>1. PICK v, W : All(todo[p], v, W)
  <2>1. CASE p = Operator
    BY <2>1 DEF Orders
  <2>2. CASE p \in Runs
    <3>1. pc[p] \in {"sweep", "unwind", "teardown"}
      BY <2>2 DEF Orders, OrdersOf
    <3> QED BY <2>2, <3>1 DEF Orders, OrdersOf
  <2> QED BY <2>1, <2>2 DEF Procs
<1> QED BY <1>0, <1>1, AllTail, HeadAll

\* Who begins to remove another's things goes by what the state file says.
LEMMA Aimed ==
  ASSUME TypeOK, Traced, [Next]_vars, NEW p \in Procs, NEW v \in Runs, ~Unreadable(v),
         todo'[p] = Teardown(v), aim'[p] = rec[v], UNCHANGED things
  PROVE  Head(todo'[p]).run = v /\ Holds(p, v)' /\ HoldsJail(p, v)' /\ Aims(p, v)'
<1>1. /\ Teardown(v) \in Seq(Cmds) /\ Teardown(v) # <<>>
      /\ All(Teardown(v), v, {"vm", "squid", "jail", "net"})
      /\ \A what \in {"vm", "squid", "jail", "net"} : Lists(todo'[p], Do(v, what))
  BY TeardownFits
<1>2. Head(todo'[p]).run = v
  BY <1>1, HeadAll
<1>3. Holds(p, v)' /\ HoldsJail(p, v)'
  BY <1>1 DEF Holds, HoldsJail
<1>4. Aims(p, v)'
  BY DEF Traced, TracedOf, Readable, Aims, things
<1> QED BY <1>2, <1>3, <1>4

\* Those who remove another's things keep theirs complete.
LEMMA OthersClearStep ==
  ASSUME TypeOK, Files, Orders, Traced, Foreign, Clear, NEW p \in Procs, [Next]_vars
  PROVE  OthersClear(p)'
<1> USE TypeFacts
<1> SUFFICES ASSUME NEW v, v = Head(todo'[p]).run, todo'[p] # <<>>, ~failed'[p], v # p
             PROVE  Holds(p, v)' /\ HoldsJail(p, v)' /\ Aims(p, v)'
  BY DEF OthersClear
<1>0. OthersClear(p) /\ Orders' /\ TypeOK' /\ Foreign' /\ (p \in Runs \/ p = Operator)
  BY OrdersStep, TypeStep, ForeignStep DEF Clear, Procs
<1>1. p \in Runs => pc'[p] = "sweep"
  <2>1. ASSUME p \in Runs, pc'[p] # "sweep" PROVE FALSE
    <3>1. PICK W : All(todo'[p], p, W)
      BY <1>0, <2>1 DEF Orders, OrdersOf
    <3>2. todo'[p] \in Seq(Cmds)
      <4>1. todo' \in [Procs -> Seq(Cmds)]
        BY <1>0 DEF TypeOK, Cmds
      <4> QED BY <4>1
    <3> QED BY <3>1, <3>2, HeadAll
  <2> QED BY <2>1
<1>2. p \in Runs => ~Starts(p)
  <2>1. ASSUME p \in Runs, Starts(p) PROVE pc'[p] # "sweep"
    BY <2>1, StartsOn DEF Ahead, Back, Steps
  <2> QED BY <1>1, <2>1
<1>3. ASSUME todo'[p] = todo[p], aim'[p] = aim[p], failed'[p] = failed[p]
      PROVE  Holds(p, v)' /\ HoldsJail(p, v)' /\ Aims(p, v)'
  <2>1. v = Head(todo[p]).run
    BY <1>3
  <2>2. v \in Runs
    <3>1. todo[p] \in Seq(Cmds) /\ todo[p] # <<>>
      BY <1>3
    <3>2. Head(todo[p]) \in Cmds
      BY <3>1, TailKeeps
    <3> QED BY <1>3, <2>1, <3>2 DEF Cmds
  <2>3. pc[v] \in Settled
    BY <1>3, <2>1, <2>2 DEF Foreign, ForeignOf
  <2>4. ~Starts(v)
    BY <2>2, <2>3, SettledStays
  <2>5. Holds(p, v) /\ HoldsJail(p, v) /\ Aims(p, v)
    BY <1>0, <1>3, <2>1, <2>2 DEF OthersClear
  <2>6. Holds(p, v)' /\ HoldsJail(p, v)'
    BY <1>3, <2>2, <2>4, <2>5, HoldsKept
  <2>7. Aims(p, v)'
    BY <1>3, <2>2, <2>4, <2>5, ProcStep DEF ProcWanes, Aims
  <2> QED BY <2>2, <2>6, <2>7
<1>4. ASSUME Remove(p)
      PROVE  Holds(p, v)' /\ HoldsJail(p, v)' /\ Aims(p, v)'
  <2>1. /\ todo[p] # <<>> /\ todo[p] \in Seq(Cmds) /\ Head(todo[p]).run \in Runs
        /\ todo'[p] = Tail(todo[p]) /\ ~failed[p]
        /\ aim'[p] = IF Len(todo[p]) = 1 THEN NoPids ELSE aim[p]
    <3>1. /\ todo[p] # <<>> /\ todo[p] \in Seq(Cmds) /\ Head(todo[p]).run \in Runs
          /\ todo' = [todo EXCEPT ![p] = Tail(todo[p])]
          /\ aim' = [aim EXCEPT ![p] = IF Len(todo[p]) = 1 THEN NoPids ELSE aim[p]]
          /\ failed' = failed \/ failed' = [failed EXCEPT ![p] = TRUE]
      BY <1>4, OrderKeeps
    <3> QED BY <3>1
  <2>2. v = Head(todo[p]).run
    BY <2>1, SameRun
  <2>3. v \in Runs
    BY <2>1, <2>2
  <2>4. pc[v] \in Settled /\ ~Starts(v)
    <3>1. pc[v] \in Settled
      BY <2>1, <2>2, <2>3 DEF Foreign, ForeignOf
    <3> QED BY <2>3, <3>1, SettledStays
  <2>5. Holds(p, v) /\ HoldsJail(p, v) /\ Aims(p, v)
    BY <1>0, <2>1, <2>2, <2>3 DEF OthersClear
  <2>6. Head(todo[p]).what \notin {"pid", "child"}
    BY <1>0, <2>1, <2>2, <2>3, HeadOf DEF Tear
  <2>7. Holds(p, v)' /\ HoldsJail(p, v)'
    BY <1>4, <2>2, <2>3, <2>4, <2>5, <2>6, HoldsAfter
  <2>8. aim'[p] = aim[p]
    <3>1. Len(Tail(todo[p])) = Len(todo[p]) - 1 /\ Len(todo[p]) \in Nat \ {0}
      BY <2>1, TailKeeps
    <3>2. Tail(todo[p]) # <<>> => Len(Tail(todo[p])) # 0
      BY <2>1
    <3> QED BY <2>1, <3>1, <3>2
  <2>9. Aims(p, v)'
    BY <2>3, <2>4, <2>5, <2>8, ProcStep DEF ProcWanes, Aims
  <2> QED BY <2>3, <2>7, <2>9
<1>5. ASSUME NEW w \in Runs, Judge(p, w), p \in Runs
      PROVE  Holds(p, v)' /\ HoldsJail(p, v)' /\ Aims(p, v)'
  <2>1. ~Spared(w)
    BY <1>5 DEF Judge, removal
  <2>2. todo'[p] = Debris(w) /\ aim'[p] = rec[w] /\ failed'[p] = Unreadable(w)
    BY <1>5, <2>1 DEF Judge, Procs
  <2>3. ~Unreadable(w) /\ todo'[p] = Teardown(w)
    BY <2>2 DEF Debris
  <2>4. UNCHANGED things
    BY <1>5, QuietKeeps DEF Quiet
  <2> QED BY <2>2, <2>3, <2>4, Aimed
<1>6. ASSUME NEW w \in Runs, OperatorStop(w), p = Operator
      PROVE  Holds(p, v)' /\ HoldsJail(p, v)' /\ Aims(p, v)'
  <2>1. ~Unreadable(w) /\ todo'[p] = Teardown(w) /\ aim'[p] = rec[w]
    BY <1>6 DEF OperatorStop
  <2>2. UNCHANGED things
    BY <1>6, QuietKeeps DEF Quiet
  <2> QED BY <2>1, <2>2, Aimed
<1>7. CASE p \in Runs
  <2>1. \/ todo'[p] = todo[p] /\ aim'[p] = aim[p] /\ failed'[p] = failed[p]
        \/ \E w \in Runs : Judge(p, w)
        \/ Remove(p)
    <3>1. ~BeginStop(p)
      <4>1. ASSUME BeginStop(p) PROVE pc'[p] = "teardown"
        BY <1>7, <4>1 DEF BeginStop, Goto
      <4> QED BY <1>1, <1>7, <4>1
    <3> QED BY <1>1, <1>2, <1>7, <3>1, TodoStep
  <2> QED BY <1>3, <1>4, <1>5, <1>7, <2>1
<1>8. CASE p = Operator
  BY <1>3, <1>4, <1>6, <1>8, OperatorStep
<1> QED BY <1>0, <1>7, <1>8

\* A dead run is entered as cleared by the last of a list of removals.
LEMMA ClearedMoves ==
  ASSUME TypeOK, [Next]_vars
  PROVE  \/ cleared' = cleared
         \/ \E p \in Procs :
              /\ Remove(p) /\ Len(todo[p]) = 1 /\ ~failed'[p] /\ p # Head(todo[p]).run
              /\ pc[Head(todo[p]).run] = "dead" /\ cleared' = cleared \union {Head(todo[p]).run}
<1>1. ASSUME NEW r \in Runs, Quiet(r) PROVE cleared' = cleared
  BY <1>1 DEF Quiet, List, Swept, Judge, SetUpFails, ReadExitCode, AskGuest, Ring, Age, OperatorStop, history
<1>2. ASSUME NEW r \in Runs, WaitReturns(r) \/ Return(r) \/ ForceGuest(r) \/ GuestEnds(r) \/ SquidDies(r)
      PROVE  cleared' = cleared
  BY <1>2 DEF WaitReturns, Return, ForceGuest, GuestEnds, SquidDies, history
<1>3. ASSUME (\E r \in Runs : Crash(r)) \/ Reboot PROVE cleared' = cleared
  BY <1>3 DEF Crash, Reboot, history
<1>4. ASSUME NEW p \in Procs, Remove(p), cleared' # cleared
      PROVE  /\ Len(todo[p]) = 1 /\ ~failed'[p] /\ p # Head(todo[p]).run
             /\ pc[Head(todo[p]).run] = "dead" /\ cleared' = cleared \union {Head(todo[p]).run}
  BY <1>4 DEF Remove
<1> QED BY <1>1, <1>2, <1>3, <1>4, Cases, StartsApart, VarsKept

\* What is cleared remains so.
LEMMA ClearedStep ==
  ASSUME TypeOK, Orders, Foreign, Clear, NEW v \in cleared', [Next]_vars
  PROVE  pc'[v] = "dead" /\ Gone(v)'
<1> USE TypeFacts
<1>1. ASSUME v \in cleared PROVE pc'[v] = "dead" /\ Gone(v)'
  <2>1. v \in Runs /\ pc[v] = "dead" /\ Gone(v)
    BY <1>1 DEF Clear
  <2>2. ~Starts(v)
    BY <2>1, SettledStays DEF Settled
  <2> QED BY <2>1, <2>2, ForeignStays, GoneStays
<1>2. ASSUME NEW p \in Procs, Remove(p), Len(todo[p]) = 1, ~failed'[p], p # v,
             v = Head(todo[p]).run, pc[v] = "dead"
      PROVE  pc'[v] = "dead" /\ Gone(v)'
  <2>1. /\ todo[p] # <<>> /\ todo[p] \in Seq(Cmds) /\ v \in Runs
        /\ todo'[p] = Tail(todo[p]) /\ ~failed[p] /\ pc' = pc
    <3>1. /\ todo[p] # <<>> /\ todo[p] \in Seq(Cmds) /\ Head(todo[p]).run \in Runs
          /\ todo' = [todo EXCEPT ![p] = Tail(todo[p])] /\ pc' = pc
          /\ failed' = failed \/ failed' = [failed EXCEPT ![p] = TRUE]
      BY <1>2, OrderKeeps
    <3> QED BY <1>2, <3>1
  <2>2. Holds(p, v) /\ HoldsJail(p, v) /\ Aims(p, v)
    BY <1>2, <2>1 DEF Clear, OthersClear
  <2>3. ~Starts(v)
    BY <1>2, <2>1, SettledStays DEF Settled
  <2>4. Head(todo[p]).what \notin {"pid", "child"}
    BY <1>2, <2>1, HeadOf DEF Tear, Procs
  <2>5. Holds(p, v)' /\ HoldsJail(p, v)'
    BY <1>2, <2>1, <2>2, <2>3, <2>4, HoldsAfter
  <2>6. \A c : ~Lists(todo'[p], c)
    <3>1. Len(todo'[p]) = 0
      BY <1>2, <2>1, TailKeeps
    <3> QED BY <3>1 DEF Lists
  <2>7. Gone(v)'
    BY <2>5, <2>6 DEF Holds, HoldsJail, Gone
  <2> QED BY <1>2, <2>1, <2>7
<1> QED BY <1>1, <1>2, ClearedMoves

\* Every step keeps all lists complete.
LEMMA ClearStep ==
  ASSUME TypeOK, Files, Orders, Traced, Foreign, Clear, [Next]_vars
  PROVE  Clear'
<1>1. \A r \in Runs : OwnClear(r)'
  BY OwnClearStart, OwnClearOther
<1>2. \A p \in Procs : OthersClear(p)'
  BY OthersClearStep
<1>3. \A v \in cleared' : pc'[v] = "dead" /\ Gone(v)'
  BY ClearedStep
<1> QED BY <1>1, <1>2, <1>3 DEF Clear

-----------------------------------------------------------------------------
(* The theorems.                                                           *)

IInv == /\ TypeOK /\ Files /\ Orders /\ Traced /\ Foreign /\ strays \subseteq {stopRun}
        /\ Life /\ Up /\ Clear

\* The invariant holds at first.
LEMMA InvInit == Init => IInv
<1> SUFFICES ASSUME Init PROVE IInv
  OBVIOUS
<1>1. TypeOK
  BY TypeInit
<1>2. /\ \A r \in Runs : /\ pc[r] = "idle" /\ pending[r] = {} /\ dir[r] = {} /\ jail[r] = "absent"
                         /\ host[r] = {} /\ guest[r] = "none" /\ report[r] = "none"
      /\ \A p \in Procs : todo[p] = <<>>
      /\ \A p \in Pids : proc[p] = NoProc
      /\ stopRun = NoRun /\ strays = {} /\ cleared = {}
  BY DEF Init
<1>3. \A r \in Runs : /\ \A p \in Pids : proc[p] \notin {Vm(r), Squid(r), Zombie(r)}
                      /\ ~Has("vm", r) /\ ~Has("squid", r)
  <2>1. ASSUME NEW r \in Runs, NEW p \in Pids PROVE proc[p] \notin {Vm(r), Squid(r), Zombie(r)}
    <3>1. NoProc # Vm(r) /\ NoProc # Squid(r) /\ NoProc # Zombie(r)
      BY Kinds
    <3> QED BY <1>2, <3>1
  <2> QED BY <1>1, <2>1, HasFacts
<1>4. Files
  BY <1>2 DEF Files, FilesOf, Early, Readable, Unreadable
<1>5. Orders
  <2>1. All(todo[Operator], stopRun, Tear)
    BY <1>2, NoOrders, Apart
  <2>2. ASSUME NEW r \in Runs PROVE OrdersOf(r)
    <3>1. todo[r] = <<>> /\ pc[r] = "idle"
      BY <1>2, Apart
    <3> QED BY <3>1, NoOrders DEF OrdersOf
  <2> QED BY <2>1, <2>2 DEF Orders
<1>6. Traced
  BY <1>3 DEF Traced, TracedOf
<1>7. Foreign
  BY <1>2 DEF Foreign, ForeignOf
<1>8. Life
  BY <1>2, <1>3 DEF Life, LifeOf, TrueOf
<1>9. Up
  <2>1. \A r \in Runs : pc[r] = "idle"
    BY <1>2
  <2> QED BY <2>1 DEF Up, UpOf
<1>10. Clear
  BY <1>2 DEF Clear, OwnClear, OthersClear
<1> QED BY <1>1, <1>2, <1>4, <1>5, <1>6, <1>7, <1>8, <1>9, <1>10 DEF IInv

\* Every step keeps it.
LEMMA InvStep == IInv /\ [Next]_vars => IInv'
BY TypeStep, FilesStep, OrdersStep, TracedStep, ForeignStep, StraysStep, LifeStep, UpStep, ClearStep
   DEF IInv

\* It holds throughout.
LEMMA Inductive == Spec => []IInv
<1>1. Init => IInv
  BY InvInit
<1>2. IInv /\ [Next]_vars => IInv'
  BY InvStep
<1> QED BY <1>1, <1>2, PTL DEF Spec

\* The variables keep their types.
THEOREM TypeCorrect == Spec => []TypeOK
<1>1. IInv => TypeOK
  BY DEF IInv
<1> QED BY <1>1, Inductive, PTL

\* No teardownFirecrackerRun but its own ends a VM, except that of the run
\* `constle stop` names (fcProcessAlive, cmdlineMatches), though the host gives PIDs
\* out again between the writing of a state file and its use.  The killPID of Start's
\* rollback and of Kill, which look at nothing, are not of its subject.
THEOREM TeardownSparesOthersHolds == Spec => []TeardownSparesOthers
<1>1. IInv => TeardownSparesOthers
  BY DEF IInv, TeardownSparesOthers
<1> QED BY <1>1, Inductive, PTL

\* An exit code that is reported was written by the guest; killed or lost is
\* reported only of a guest that died without one, or of a run whose chroot
\* another process removed (FirecrackerBackend.Wait).
THEOREM ReportIsTrueHolds == Spec => []ReportIsTrue
<1>1. IInv => ReportIsTrue
  BY DEF IInv, Life, TrueOf, ReportIsTrue
<1> QED BY <1>1, Inductive, PTL

\* While a run's VM lives and nobody asked for it to be stopped, no sweep takes its
\* device, its rules or its chroot, and its state file names its VM and its Squid
\* (cleanupAbandonedFirecracker).
THEOREM RunningUndisturbedHolds == Spec => []RunningUndisturbed
<1>1. IInv => RunningUndisturbed
  BY DEF IInv, Up, UpOf, RunningUndisturbed
<1> QED BY <1>1, Inductive, PTL

\* A run whose process has ended, and none of whose removals failed, has left nothing
\* but the chroot of a prepareChroot that failed; a dead run that a sweep or a
\* `constle stop` has gone through without a failure has left nothing at all
\* (Start's rollback, Stop, teardownFirecrackerRun).
THEOREM NothingLeftHolds == Spec => []NothingLeft
<1>1. ASSUME IInv PROVE NothingLeft
  <2>1. ASSUME NEW r \in Runs, pc[r] = "over", ~failed[r]
        PROVE  Left(r) \subseteq (IF report[r] = "noChroot" THEN {"jail"} ELSE {})
    <3>1. todo[r] = <<>> /\ TypeOK
      BY <1>1, <2>1 DEF IInv, Orders, OrdersOf
    <3>2. Holds(r, r) /\ (report[r] = "noChroot" \/ HoldsJail(r, r))
      BY <1>1, <2>1 DEF IInv, Clear, OwnClear
    <3>3. /\ host[r] = {} /\ dir[r] = {} /\ ~Has("vm", r) /\ ~Has("squid", r)
          /\ report[r] = "noChroot" \/ jail[r] = "absent"
      BY <3>1, <3>2, NoOrders DEF Holds, HoldsJail
    <3> QED BY <3>3 DEF Left
  <2>2. ASSUME NEW v \in cleared PROVE Left(v) = {}
    <3>1. Gone(v)
      BY <1>1 DEF IInv, Clear
    <3> QED BY <3>1 DEF Left, Gone
  <2> QED BY <2>1, <2>2 DEF NothingLeft
<1> QED BY <1>1, Inductive, PTL
=============================================================================
