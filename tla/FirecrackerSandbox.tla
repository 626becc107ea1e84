------------------------- MODULE FirecrackerSandbox -------------------------
(***************************************************************************)
(* Firecracker-backed runs (internal/sandbox/firecracker*.go): Start with  *)
(* its rollback, the guest, Wait, Kill, Stop, the sweep at the top of any  *)
(* Start and `constle stop`.  There is no registry like Docker's: a run is *)
(* known to others by its state file, processes by their PIDs, which the   *)
(* host gives out again.  A step is one command, file operation or signal; *)
(* a look at /proc and the signal it leads to are one step.                *)
(*                                                                         *)
(* pc[r]: idle -> sweep -> network -> squid -> image -> chroot -> launch   *)
(*   -> boot -> state -> record -> wait -> read -> teardown -> over.       *)
(* A failure in Start leads to unwind and over, a crash to dead.           *)
(***************************************************************************)
EXTENDS Integers, Sequences, FiniteSets

CONSTANTS
  Runs,
  Operator,     \* a `constle stop` command
  NoRun,
  Pids,         \* process IDs the host gives out; at most all of them are in use
  Limited,      \* runs whose time limit may be reached
  Troubled,     \* runs to which faults and slow commands happen
  MaxTroubles   \* bound on faults, crashes, dying Squids and `constle stop`

ASSUME FirecrackerAssumption ==
  /\ Operator \notin Runs /\ NoRun \notin Runs /\ Pids \subseteq Nat \ {0}
  /\ Limited \union Troubled \subseteq Runs /\ MaxTroubles \in Nat

Procs == Runs \union {Operator}
PCs == {"idle", "sweep", "network", "squid", "image", "chroot", "launch", "boot", "state",
        "record", "wait", "read", "teardown", "unwind", "over", "dead"}

VARIABLES
  pc,
  pending,   \* directories a sweep has listed and not yet judged
  todo,      \* removals each process has still to make
  aim,       \* the PIDs they go by
  failed,    \* one of them failed
  proc,      \* [Pids -> process]
  own,       \* PIDs in each run's RunContext
  host,      \* its TAP device and nftables table
  jail,      \* its chroot: absent, bare, with the workspace image, with an exit code in it
  dir,       \* its run directory and what is in it
  young,     \* the directory changed less than a minute ago
  rec,       \* PIDs in its state file
  guest,     \* what its guest has done: none, running, wrote (its exit code), died;
             \* none again once its process is over
  kill,      \* Kill: none, rung, asked (Ctrl+Alt+Del sent), done
  report,    \* what its process makes of the run, until it has said so
  stopRun,   \* argument of `constle stop`, once given
  troubles,
  robbed,    \* history: runs whose chroot another process removed while theirs lived
  slow,      \* history: runs judged abandoned for an old directory while Start ran
  strays,    \* history: runs whose VM a teardownFirecrackerRun of another process killed
  cleared    \* history: dead runs a teardown of the sweep went through without failure

removal == <<todo, aim, failed>>
disk    == <<jail, dir, young, rec>>
life    == <<guest, kill, report>>
history == <<robbed, slow, strays, cleared>>
vars == <<pc, pending, removal, proc, own, host, disk, life, stopRun, troubles, history>>

NoProc    == [bin |-> "none", run |-> NoRun]
Vm(r)     == [bin |-> "vm", run |-> r]
Squid(r)  == [bin |-> "squid", run |-> r]
Zombie(r) == [bin |-> "zombie", run |-> r]   \* ended, not yet waited for
NoPid     == 0
NoPids    == [vm |-> NoPid, squid |-> NoPid]
Torn      == [vm |-> -1, squid |-> -1]   \* the state file does not parse

Alive(r) == pc[r] \notin {"idle", "over", "dead"}
Has(bin, r) == \E p \in Pids : proc[p] = [bin |-> bin, run |-> r]

Init ==
  /\ pc = [r \in Runs |-> "idle"]
  /\ pending = [r \in Runs |-> {}]
  /\ todo = [p \in Procs |-> <<>>]
  /\ aim = [p \in Procs |-> NoPids]
  /\ failed = [p \in Procs |-> FALSE]
  /\ proc = [p \in Pids |-> NoProc]
  /\ own = [r \in Runs |-> NoPids]
  /\ host = [r \in Runs |-> {}]
  /\ jail = [r \in Runs |-> "absent"]
  /\ dir = [r \in Runs |-> {}]
  /\ young = [r \in Runs |-> FALSE]
  /\ rec = [r \in Runs |-> NoPids]
  /\ guest = [r \in Runs |-> "none"]
  /\ kill = [r \in Runs |-> "none"]
  /\ report = [r \in Runs |-> "none"]
  /\ stopRun = NoRun
  /\ troubles = 0
  /\ robbed = {} /\ slow = {} /\ strays = {} /\ cleared = {}

Trouble(r) == r \in Troubled /\ troubles < MaxTroubles /\ troubles' = troubles + 1
NoTrouble == troubles' = troubles
Goto(r, s) == pc' = [pc EXCEPT ![r] = s]
Do(v, what) == [run |-> v, what |-> what]

---------------------------------------------------------------------------
\* Processes by their PIDs

\* /proc/<pid>/cmdline names firecracker and this run's ID.
MutAnyFirecracker(p, v) == p \in Pids /\ proc[p].bin = "vm"
IsVM(p, v) == p \in Pids /\ proc[p] = Vm(v)
\* A Squid is known by the name of its binary alone.
IsSquid(p) == p \in Pids /\ proc[p].bin = "squid"

\* A child that ends keeps its PID until its parent waits for it; the
\* goroutine behind startHostSquid does so at once.
Ended(x) == IF x.bin = "vm" /\ Alive(x.run) THEN Zombie(x.run)
            ELSE IF x.bin = "zombie" THEN x ELSE NoProc
Signal(p) ==
  /\ proc' = [proc EXCEPT ![p] = Ended(@)]
  /\ guest' = IF proc[p].bin = "vm" THEN [guest EXCEPT ![proc[p].run] = "died"] ELSE guest
NoSignal == UNCHANGED <<proc, guest>>
Reap(r) == proc' = [p \in Pids |-> IF proc[p] = Zombie(r) THEN NoProc ELSE proc[p]]

\* Any PID nothing runs under.  Those nobody remembers are all alike, so the
\* least of them stands for them.
Remembered(p) == \/ \E r \in Runs : p \in {own[r].vm, own[r].squid, rec[r].vm, rec[r].squid}
                 \/ \E q \in Procs : p \in {aim[q].vm, aim[q].squid}
Free == {p \in Pids : proc[p] = NoProc}
Fork(r, bin, field) ==
  \E p \in Free :
    /\ Remembered(p) \/ \A q \in Free : q < p => Remembered(q)
    /\ proc' = [proc EXCEPT ![p] = [bin |-> bin, run |-> r]]
    /\ own' = [own EXCEPT ![r][field] = p]

---------------------------------------------------------------------------
\* Removals

\* teardownFirecrackerRun.  "net" stands for deleteTAP, deleteNFTRules and the
\* removal of the run directory: nobody else looks at the first two, so when
\* they happen makes no difference.
MutLeaveSquid(v) == <<Do(v, "vm"), Do(v, "jail"), Do(v, "net")>>
Teardown(v) == <<Do(v, "vm"), Do(v, "squid"), Do(v, "jail"), Do(v, "net")>>

\* What Start undoes when a step fails.  A failed prepareChroot leaves what
\* it had made of the chroot.
CleanupNet(r) == <<Do(r, "pid"), Do(r, "net")>>
Rollback(r, step) ==
  CASE step \in {"network", "squid"} -> <<Do(r, "net")>>
    [] step \in {"image", "chroot"} -> CleanupNet(r)
    [] step = "launch" -> <<Do(r, "jail")>> \o CleanupNet(r)
    [] step \in {"boot", "state", "record"} -> <<Do(r, "child"), Do(r, "jail")>> \o CleanupNet(r)

\* The signals of a removal.  Teardown looks before it signals, killPID of
\* the rollback does not; killing a child of its own can hit nothing else.
Resists(v, q) == proc[q].bin = "squid" /\ Trouble(v)    \* still there after SIGKILL
Struck(p, c) ==
  LET q == IF c.what = "vm" THEN aim[p].vm
           ELSE IF c.what = "squid" THEN aim[p].squid
           ELSE IF c.what = "pid" THEN own[c.run].squid
           ELSE own[c.run].vm
  IN IF \/ c.what = "vm" /\ IsVM(q, c.run)
        \/ c.what = "squid" /\ IsSquid(q)
        \/ c.what = "pid" /\ q \in Pids /\ proc[q] # NoProc
        \/ c.what = "child" /\ q \in Pids
     THEN q ELSE NoPid

SendSignal(p, c) ==
  LET q == Struck(p, c) IN
  /\ c.what \in {"vm", "squid", "pid", "child"}
  /\ \/ /\ NoTrouble
        /\ failed' = failed
        /\ IF q = NoPid THEN NoSignal
           ELSE IF c.what = "child"
           THEN /\ proc' = [proc EXCEPT ![q] = NoProc]
                /\ guest' = [guest EXCEPT ![c.run] = "died"]
           ELSE Signal(q)
        /\ strays' = IF q # NoPid /\ c.what \in {"vm", "squid"} /\ proc[q].bin = "vm"
                         /\ proc[q].run # p
                     THEN strays \union {proc[q].run} ELSE strays
     \/ /\ c.what = "squid" /\ q # NoPid /\ Resists(c.run, q)
        /\ failed' = [failed EXCEPT ![p] = TRUE]
        /\ NoSignal /\ strays' = strays
  /\ UNCHANGED <<host, jail, dir, rec, robbed>>

\* What is gone already is no error, and a failure of one removal does not
\* keep back the others.
RemoveDir(v) == dir' = [dir EXCEPT ![v] = {}] /\ rec' = [rec EXCEPT ![v] = NoPids]
Delete(p, c) ==
  /\ \/ /\ c.what = "jail"
        /\ \/ /\ jail' = [jail EXCEPT ![c.run] = "absent"] /\ NoTrouble /\ failed' = failed
              /\ robbed' = IF p # c.run /\ Alive(c.run) THEN robbed \union {c.run} ELSE robbed
           \/ /\ jail[c.run] # "absent" /\ Trouble(c.run) /\ failed' = [failed EXCEPT ![p] = TRUE]
              /\ UNCHANGED <<jail, robbed>>
        /\ UNCHANGED <<host, dir, rec>>
     \/ /\ c.what = "net"
        /\ \/ host' = [host EXCEPT ![c.run] = {}] /\ RemoveDir(c.run) /\ NoTrouble /\ failed' = failed
           \/ /\ Trouble(c.run) /\ failed' = [failed EXCEPT ![p] = TRUE]
              /\ \/ /\ \E w \in host[c.run] : host' = [host EXCEPT ![c.run] = {w}]
                    /\ RemoveDir(c.run)
                 \/ /\ dir[c.run] # {} /\ host' = [host EXCEPT ![c.run] = {}]
                    /\ UNCHANGED <<dir, rec>>
        /\ UNCHANGED <<jail, robbed>>
     \/ /\ c.what = "dir"
        /\ RemoveDir(c.run) /\ NoTrouble /\ failed' = failed
        /\ UNCHANGED <<host, jail, robbed>>
  /\ NoSignal /\ strays' = strays

Remove(p) ==
  /\ todo[p] # <<>>
  /\ LET c == Head(todo[p]) IN
     /\ SendSignal(p, c) \/ Delete(p, c)
     /\ cleared' = IF Len(todo[p]) = 1 /\ ~failed'[p] /\ p # c.run /\ pc[c.run] = "dead"
                        /\ aim[p] # Torn
                   THEN cleared \union {c.run} ELSE cleared
  /\ todo' = [todo EXCEPT ![p] = Tail(@)]
  /\ aim' = [aim EXCEPT ![p] = IF Len(todo[p]) = 1 THEN NoPids ELSE @]
  /\ UNCHANGED <<pc, pending, own, young, kill, report, stopRun, slow>>

---------------------------------------------------------------------------
\* cleanupAbandonedFirecracker

List(r) ==
  /\ pc[r] = "idle"
  /\ Goto(r, "sweep")
  /\ pending' = [pending EXCEPT ![r] = {v \in Runs : dir[v] # {}}]
  /\ UNCHANGED <<removal, proc, own, host, disk, life, stopRun, troubles, history>>

Unreadable(v) == "state" \notin dir[v] \/ rec[v] = Torn
\* Not the sweep's to take: the directory is gone or too young to judge, or
\* the run's VMM lives.
Spared(v) == IF Unreadable(v) THEN dir[v] = {} \/ young[v] ELSE IsVM(rec[v].vm, v)

\* What is left of a Start that recorded nothing is its directory alone.
MutFullTeardown(v) == Teardown(v)
Debris(v) == IF Unreadable(v) THEN <<Do(v, "dir")>> ELSE Teardown(v)

Judge(r, v) ==
  /\ pc[r] = "sweep" /\ todo[r] = <<>> /\ v \in pending[r]
  /\ pending' = [pending EXCEPT ![r] = @ \ {v}]
  /\ IF Spared(v) THEN UNCHANGED <<removal, slow>>
     ELSE /\ todo' = [todo EXCEPT ![r] = Debris(v)]
          /\ aim' = [aim EXCEPT ![r] = rec[v]]
          /\ failed' = [failed EXCEPT ![r] = Unreadable(v)]
          /\ slow' = IF Unreadable(v) /\ Alive(v) THEN slow \union {v} ELSE slow
  /\ UNCHANGED <<pc, proc, own, host, disk, life, stopRun, troubles, robbed, strays, cleared>>

Swept(r) ==
  /\ pc[r] = "sweep" /\ todo[r] = <<>> /\ pending[r] = {}
  /\ Goto(r, "network")
  /\ failed' = [failed EXCEPT ![r] = FALSE]
  /\ UNCHANGED <<pending, todo, aim, proc, own, host, disk, life, stopRun, troubles, history>>

---------------------------------------------------------------------------
\* Start

Touch(r, content) == /\ dir' = [dir EXCEPT ![r] = content]
                     /\ young' = [young EXCEPT ![r] = TRUE]

GiveUp(r, step) ==
  /\ Goto(r, "unwind")
  /\ todo' = [todo EXCEPT ![r] = Rollback(r, step)]
  /\ failed' = [failed EXCEPT ![r] = FALSE]
  /\ report' = [report EXCEPT ![r] = IF step = "chroot" THEN "noChroot" ELSE "notStarted"]
Proceed(r, next) == Goto(r, next) /\ UNCHANGED <<todo, failed, report>>

\* A step fails by itself, or because what it needs has been removed.
Fails(r, step, possible) == (IF possible THEN Trouble(r) ELSE NoTrouble) /\ GiveUp(r, step)

\* MkdirAll, createTAP, Bind of both gates, installNFTRules.  Until the state
\* is recorded nobody else looks at the device and the table, so the three
\* are one step, which may fail before or after the device is made.
ProvideNetwork(r) ==
  /\ pc[r] = "network"
  /\ Touch(r, {"dir"})
  /\ \/ NoTrouble /\ Proceed(r, "squid") /\ host' = [host EXCEPT ![r] = {"tap", "nft"}]
     \/ /\ Fails(r, "network", TRUE)
        /\ \E made \in {{}, {"tap"}} : host' = [host EXCEPT ![r] = made]
  /\ UNCHANGED <<pending, aim, proc, own, jail, rec, guest, kill, stopRun, history>>

\* startHostSquid; a Squid that does not come up is killed and waited for.
StartSquid(r) ==
  /\ pc[r] = "squid"
  /\ \/ /\ dir[r] # {} /\ NoTrouble /\ Proceed(r, "image")
        /\ Fork(r, "squid", "squid") /\ Touch(r, dir[r] \union {"log"})
     \/ Fails(r, "squid", dir[r] # {}) /\ UNCHANGED <<proc, own, dir, young>>
  /\ UNCHANGED <<pending, aim, host, jail, rec, guest, kill, stopRun, history>>

\* MkdirAll of the staging directory makes the run directory again if need be.
BuildImage(r) ==
  /\ pc[r] = "image"
  /\ \/ NoTrouble /\ Proceed(r, "chroot") /\ Touch(r, dir[r] \union {"dir", "image"})
     \/ Fails(r, "image", TRUE) /\ UNCHANGED <<dir, young>>
  /\ UNCHANGED <<pending, aim, proc, own, host, jail, rec, guest, kill, stopRun, history>>

PrepareChroot(r) ==
  /\ pc[r] = "chroot"
  /\ \/ /\ "image" \in dir[r] /\ NoTrouble /\ Proceed(r, "launch")
        /\ jail' = [jail EXCEPT ![r] = "image"] /\ Touch(r, dir[r] \ {"image"})
     \/ /\ Fails(r, "chroot", "image" \in dir[r])
        /\ \E made \in {"absent", "bare"} : jail' = [jail EXCEPT ![r] = made]
        /\ UNCHANGED <<dir, young>>
  /\ UNCHANGED <<pending, aim, proc, own, host, rec, guest, kill, stopRun, history>>

\* launchVM opens the console log in the run directory, starts jailer and
\* waits for the API socket; a VMM that does not come up is killed and waited for.
LaunchVM(r) ==
  /\ pc[r] = "launch"
  /\ \/ /\ dir[r] # {} /\ NoTrouble /\ Proceed(r, "boot")
        /\ Fork(r, "vm", "vm") /\ Touch(r, dir[r])
     \/ Fails(r, "launch", dir[r] # {}) /\ UNCHANGED <<proc, own, dir, young>>
  /\ UNCHANGED <<pending, aim, host, jail, rec, guest, kill, stopRun, history>>

BootVM(r) ==
  /\ pc[r] = "boot"
  /\ \/ /\ Has("vm", r) /\ NoTrouble /\ Proceed(r, "state")
        /\ guest' = [guest EXCEPT ![r] = "running"]
     \/ Fails(r, "boot", Has("vm", r)) /\ UNCHANGED guest
  /\ UNCHANGED <<pending, aim, proc, own, host, disk, kill, stopRun, history>>

\* writeFCState makes the file and then fills it.  A file unlinked between
\* the two takes the record with it.
CreateState(r) ==
  /\ pc[r] = "state"
  /\ \/ /\ dir[r] # {} /\ NoTrouble /\ Proceed(r, "record")
        /\ Touch(r, dir[r] \union {"state"}) /\ rec' = [rec EXCEPT ![r] = Torn]
     \/ Fails(r, "state", dir[r] # {}) /\ UNCHANGED <<dir, young, rec>>
  /\ UNCHANGED <<pending, aim, proc, own, host, jail, guest, kill, stopRun, history>>

RecordState(r) ==
  /\ pc[r] = "record"
  /\ \/ NoTrouble /\ Proceed(r, "wait") /\ rec' = [rec EXCEPT ![r] = own[r]]
     \/ Fails(r, "record", TRUE) /\ UNCHANGED rec
  /\ UNCHANGED <<pending, aim, proc, own, host, jail, dir, young, guest, kill, stopRun, history>>

---------------------------------------------------------------------------
\* cmdRun once the VM is up

BeginStop(r) ==
  /\ Goto(r, "teardown")
  /\ todo' = [todo EXCEPT ![r] = Teardown(r)]
  /\ aim' = [aim EXCEPT ![r] = own[r]]
  /\ failed' = [failed EXCEPT ![r] = FALSE]

\* The A2A listener cannot be started.
SetUpFails(r) ==
  /\ pc[r] = "wait" /\ kill[r] = "none"
  /\ Trouble(r) /\ BeginStop(r)
  /\ report' = [report EXCEPT ![r] = "noListener"]
  /\ UNCHANGED <<pending, proc, own, host, disk, guest, kill, stopRun, history>>

MutWaitReturns(r) ==
  /\ pc[r] = "wait"
  /\ Goto(r, "read")
  /\ UNCHANGED <<pending, removal, proc, own, host, disk, life, stopRun, troubles, history>>
\* A Kill that has still to look at the VM will find it gone.  One that has looked
\* may be slow enough (a trouble) to send its signal after Wait has reaped the VM.
WaitReturns(r) ==
  /\ pc[r] = "wait" /\ ~IsVM(own[r].vm, r)
  /\ Goto(r, "read") /\ Reap(r)
  /\ \/ kill' = [kill EXCEPT ![r] = "none"] /\ NoTrouble
     \/ kill[r] = "asked" /\ Trouble(r) /\ UNCHANGED kill
  /\ UNCHANGED <<pending, removal, own, host, disk, guest, report, stopRun, history>>

\* debugfs reads the exit code from the image.  None there: killed (137);
\* no image there: an error, or nothing read, which is 137 too.
ReadExitCode(r) ==
  /\ pc[r] = "read"
  /\ \E found \in CASE jail[r] = "code"  -> {"code"}
                    [] jail[r] = "image" -> {"killed"}
                    [] OTHER             -> {"lost", "killed"} :
       report' = [report EXCEPT ![r] = found]
  /\ BeginStop(r)
  /\ UNCHANGED <<pending, proc, own, host, disk, guest, kill, stopRun, troubles, history>>

Forget(S) ==
  /\ own' = [r \in Runs |-> IF r \in S THEN NoPids ELSE own[r]]
  /\ kill' = [r \in Runs |-> IF r \in S THEN "none" ELSE kill[r]]
  /\ report' = [r \in Runs |-> IF r \in S /\ report[r] # "noChroot" THEN "none" ELSE report[r]]

Return(r) ==
  /\ pc[r] \in {"unwind", "teardown"} /\ todo[r] = <<>>
  /\ Goto(r, "over") /\ Reap(r) /\ Forget({r})
  /\ guest' = [guest EXCEPT ![r] = "none"]
  /\ UNCHANGED <<pending, removal, host, disk, stopRun, troubles, history>>

\* killAgent and FirecrackerBackend.Kill, in a goroutine of the run.
Ring(r) ==
  /\ pc[r] = "wait" /\ r \in Limited /\ kill[r] = "none"
  /\ kill' = [kill EXCEPT ![r] = "rung"]
  /\ UNCHANGED <<pc, pending, removal, proc, own, host, disk, guest, report, stopRun, troubles, history>>

AskGuest(r) ==
  /\ Alive(r) /\ kill[r] = "rung"
  /\ kill' = [kill EXCEPT ![r] = IF IsVM(own[r].vm, r) THEN "asked" ELSE "done"]
  /\ UNCHANGED <<pc, pending, removal, proc, own, host, disk, guest, report, stopRun, troubles, history>>

\* Kill sees the VM gone, or signals its PID: five seconds later, or once the API
\* has not answered.  It does not look again before it does, and by then the VM may
\* have been waited for and its PID be another's.
MutOnlyAsk(r) ==
  /\ Alive(r) /\ kill[r] = "asked"
  /\ kill' = [kill EXCEPT ![r] = "done"]
  /\ UNCHANGED <<pc, pending, removal, proc, own, host, disk, guest, report, stopRun, troubles, history>>
ForceGuest(r) ==
  /\ Alive(r) /\ kill[r] = "asked"
  /\ kill' = [kill EXCEPT ![r] = IF pc[r] = "wait" THEN "done" ELSE "none"]
  /\ \/ ~IsVM(own[r].vm, r) /\ NoSignal
     \/ own[r].vm \in Pids /\ Signal(own[r].vm)
  /\ UNCHANGED <<pc, pending, removal, own, host, disk, report, stopRun, troubles, history>>

---------------------------------------------------------------------------
\* The world around

\* The guest reboots: its init has written the agent's exit code (130 after
\* Ctrl+Alt+Del), or could not.
GuestEnds(r) ==
  /\ guest[r] = "running" /\ Has("vm", r)
  /\ \/ guest' = [guest EXCEPT ![r] = "wrote"]
        /\ jail' = [jail EXCEPT ![r] = IF @ = "image" THEN "code" ELSE @]
     \/ guest' = [guest EXCEPT ![r] = "died"] /\ UNCHANGED jail
  /\ proc' = [p \in Pids |-> IF proc[p] = Vm(r) THEN Ended(proc[p]) ELSE proc[p]]
  /\ UNCHANGED <<pc, pending, removal, own, host, dir, young, rec, kill, report, stopRun, troubles, history>>

SquidDies(r) ==
  /\ Trouble(r) /\ Has("squid", r)
  /\ proc' = [p \in Pids |-> IF proc[p] = Squid(r) THEN NoProc ELSE proc[p]]
  /\ UNCHANGED <<pc, pending, removal, own, host, disk, life, stopRun, history>>

\* No command of Start has a time limit, so a minute may pass in any of them.
Age(r) ==
  /\ r \in Troubled /\ dir[r] # {} /\ young[r] /\ Unreadable(r)   \* nobody asks otherwise
  /\ young' = [young EXCEPT ![r] = FALSE]
  /\ UNCHANGED <<pc, pending, removal, proc, own, host, jail, dir, rec, life, stopRun, troubles, history>>

Die(S) ==
  /\ \E r \in Troubled : Trouble(r)
  /\ pc' = [r \in Runs |-> IF r \in S THEN "dead" ELSE pc[r]]
  /\ pending' = [r \in Runs |-> IF r \in S THEN {} ELSE pending[r]]
  /\ todo' = [p \in Procs |-> IF p \in S THEN <<>> ELSE todo[p]]

\* The VM and the Squid outlive a constle that dies.
Crash(r) ==
  /\ Alive(r) /\ r \in Troubled /\ Die({r}) /\ Reap(r) /\ Forget({r})
  /\ UNCHANGED <<aim, failed, host, disk, guest, stopRun, history>>

\* Processes, devices and tables go with the host; files stay.
Reboot ==
  /\ Die({r \in Runs : Alive(r)} \union {Operator})
  /\ proc' = [p \in Pids |-> NoProc]
  /\ host' = [r \in Runs |-> {}]
  /\ guest' = [r \in Runs |-> IF Has("vm", r) THEN "died" ELSE guest[r]]
  /\ Forget({r \in Runs : Alive(r)})
  /\ UNCHANGED <<aim, failed, disk, stopRun, history>>

\* `constle stop v`: StopFirecrackerRun if a state file exists and parses.
\* The three seconds it gives the guest are GuestEnds.
OperatorStop(v) ==
  /\ stopRun = NoRun /\ ~Unreadable(v) /\ Trouble(v)
  /\ stopRun' = v
  /\ todo' = [todo EXCEPT ![Operator] = Teardown(v)]
  /\ aim' = [aim EXCEPT ![Operator] = rec[v]]
  /\ UNCHANGED <<pc, pending, failed, proc, own, host, disk, life, history>>

Owner(r) ==
  \/ List(r) \/ Swept(r) \/ ProvideNetwork(r) \/ StartSquid(r)
  \/ BuildImage(r) \/ PrepareChroot(r) \/ LaunchVM(r) \/ BootVM(r) \/ CreateState(r)
  \/ RecordState(r) \/ SetUpFails(r) \/ WaitReturns(r) \/ ReadExitCode(r) \/ Return(r) \/ Remove(r)
  \/ \E v \in Runs : Judge(r, v)
Killer(r) == AskGuest(r) \/ ForceGuest(r)

AllOver ==
  /\ \A r \in Runs : ~Alive(r) /\ pc[r] # "idle"
  /\ \A p \in Procs : todo[p] = <<>>
  /\ UNCHANGED vars

Next ==
  \/ \E r \in Runs : Owner(r) \/ Killer(r) \/ Ring(r) \/ GuestEnds(r) \/ SquidDies(r) \/ Age(r)
                       \/ Crash(r) \/ OperatorStop(r)
  \/ Remove(Operator) \/ Reboot
  \/ AllOver

\* Each process runs on, and so does the goroutine that kills; nothing is
\* assumed of guests, of time or of the operator.
Fairness == \A r \in Runs : WF_vars(Owner(r)) /\ WF_vars(Killer(r))
Spec == Init /\ [][Next]_vars /\ Fairness

---------------------------------------------------------------------------
\* Properties

Whats == {"vm", "squid", "pid", "child", "net", "jail", "dir"}
PidPairs == [vm : Pids \union {NoPid}, squid : Pids \union {NoPid}]
\* Every variable has its type; PIDs are kept wherever the code keeps them.
TypeOK ==
  /\ pc \in [Runs -> PCs]
  /\ pending \in [Runs -> SUBSET Runs]
  /\ todo \in [Procs -> Seq([run : Runs, what : Whats])]
  /\ aim \in [Procs -> PidPairs \union {Torn}]
  /\ failed \in [Procs -> BOOLEAN]
  /\ proc \in [Pids -> [bin : {"vm", "squid", "zombie"}, run : Runs] \union {NoProc}]
  /\ own \in [Runs -> PidPairs]
  /\ host \in [Runs -> SUBSET {"tap", "nft"}]
  /\ jail \in [Runs -> {"absent", "bare", "image", "code"}]
  /\ dir \in [Runs -> SUBSET {"dir", "log", "image", "state"}]
  /\ young \in [Runs -> BOOLEAN]
  /\ rec \in [Runs -> PidPairs \union {Torn}]
  /\ guest \in [Runs -> {"none", "running", "wrote", "died"}]
  /\ kill \in [Runs -> {"none", "rung", "asked", "done"}]
  /\ report \in [Runs -> {"none", "notStarted", "noChroot", "noListener", "code", "killed", "lost"}]
  /\ stopRun \in Runs \union {NoRun}
  /\ troubles \in 0 .. MaxTroubles
  /\ robbed \union slow \union strays \union cleared \subseteq Runs

\* What is on the host under a run's name.
Left(r) ==
  host[r] \union {bin \in {"vm", "squid"} : Has(bin, r)}
          \union (IF jail[r] = "absent" THEN {} ELSE {"jail"})
          \union (IF dir[r] = {} THEN {} ELSE {"dir"})

\* A run whose process has ended, and none of whose removals failed, has left
\* nothing, whoever else was removing it at the time; the one exception is
\* the chroot of a prepareChroot that failed (Start, Stop).  Nor has a dead
\* run that had recorded its state, once a sweep or a `constle stop` has gone
\* through it without a failure, though the PIDs in its state file may have
\* been given to others since (teardownFirecrackerRun).
NothingLeft ==
  /\ \A r \in Runs :
       pc[r] = "over" /\ ~failed[r] =>
         Left(r) \subseteq (IF report[r] = "noChroot" THEN {"jail"} ELSE {})
  /\ \A v \in cleared : Left(v) = {}

\* No teardownFirecrackerRun but its own ends a VM, except that of the run
\* `constle stop` names: neither a sweep that misjudges a live run, nor one that
\* follows the PID of a VM or of a Squid which the host has given out again
\* (fcProcessAlive, cmdlineMatches).  It is about these looks alone.  The two
\* signals that are sent without one, the killPID of Start's rollback and that of
\* Kill, are in the model and may end another run's VM; `strays` leaves them out.
TeardownSparesOthers == strays \subseteq {stopRun}

\* While a run's VM and its process live and nobody asked for it to be
\* stopped, no sweep of another run takes its device, its rules or its
\* chroot; and unless Start took longer than a minute its state file is there
\* and names the VM and the Squid its own Stop goes by, so that `constle stop`
\* and later sweeps judge the run as it would itself.
RunningUndisturbed ==
  \A r \in Runs :
    pc[r] = "wait" /\ Has("vm", r) /\ stopRun # r =>
      /\ host[r] = {"tap", "nft"}
      /\ jail[r] = "image"
      /\ r \notin slow => "state" \in dir[r] /\ rec[r] = own[r]

\* An exit code that is reported was written by the guest; a run is reported
\* killed only if its guest died without one, and the code is lost only to a
\* process that removed the chroot of a run whose VM had just ended.
ReportIsTrue ==
  \A r \in Runs :
    /\ report[r] = "code" => guest[r] = "wrote"
    /\ report[r] = "killed" => guest[r] = "died" \/ r \in robbed
    /\ report[r] = "lost" => r \in robbed

\* A run that is told to stop comes to its end though its guest ignores
\* Ctrl+Alt+Del: Kill forces it, Wait returns and the host is cleaned up.
KillEndsRun == \A r \in Limited : kill[r] = "rung" ~> pc[r] \in {"over", "dead"}
=============================================================================
