--------------------------- MODULE DockerSandbox ---------------------------
(***************************************************************************)
(* Docker-backed runs (internal/sandbox/docker.go) and what cmdRun and     *)
(* `constle stop` do around them: Start with its rollback, the kill paths, *)
(* Wait, the outcome, the flush of the Squid log, Stop, and the sweep of   *)
(* abandoned runs at the top of every Start. Runs are processes of their   *)
(* own and meet only in the Docker daemon; each docker command is a step.  *)
(*                                                                         *)
(* pc[r]: idle -> sweep -> extNet -> intNet -> bind -> createProxy         *)
(*   -> startProxy -> connect -> await -> createAgent -> startAgent -> up  *)
(*   -> wait -> judge -> flush -> teardown -> over                         *)
(* A failure in Start leads to unwind and over, a crash to dead.           *)
(***************************************************************************)
EXTENDS Integers, Sequences, FiniteSets, SequencesExt

CONSTANTS
  Runs,
  Operator,     \* a `constle stop` command
  NoRun,
  Alarms,       \* [Runs -> SUBSET Causes]: what may end each run early
  MaxTroubles   \* bound on faults, crashes and `constle stop` together, not
                \* counting a fault that `constle stop` meets

Causes     == {"limit", "spend", "gate", "user"}
Containers == {"agent", "proxy"}
Networks   == {"int", "ext"}
Procs      == Runs \union {Operator}

ASSUME SandboxAssumption == /\ Operator \notin Runs /\ NoRun \notin Runs
                            /\ Alarms \in [Runs -> SUBSET Causes]
                            /\ MaxTroubles \in Nat

PCs == {"idle", "sweep", "extNet", "intNet", "bind", "createProxy", "startProxy",
        "connect", "await", "createAgent", "startAgent", "unwind", "up", "wait",
        "judge", "flush", "teardown", "over", "dead"}
Outcomes == {"none", "notStarted", "noListener", "failed", "incomplete", "finished"} \union Causes
\* A docker command, or the removal of the Squid config, for the run named.
Commands == [run : Runs, op : {"stop", "rm"}, what : Containers]
              \union [run : Runs, op : {"net"}, what : Networks]
              \union [run : Runs, op : {"conf"}, what : {"conf"}]

VARIABLES
  pc,
  listed,     \* runs a sweep has found and not yet begun to remove
  todo,       \* removals each process has still to run
  failed,     \* errs of Stop and of cmdStop
  ctr,        \* [Runs -> [Containers -> docker's status]]
  net,        \* networks of each run that exist
  joined,     \* its proxy is connected to the internal network
  conf,       \* its Squid config file exists
  exit,       \* exit code of its agent
  rung,       \* causes announced: limitReached, spendExceeded, ... closed
  killing,    \* killAgent calls outstanding
  outcome,    \* what cmdRun reports
  netLogged,  \* the Squid log has become audit events
  stopRun,    \* argument of `constle stop`, once given
  faults,     \* failures of docker, a proxy or the audit log
  crashes,    \* crashes and reboots
  caught,     \* history: runs a sweep saw with a container not running, owner alive
  corpses,    \* history: dead runs with such a container when r listed them
  felled,     \* history: a kill path's docker stop ended the agent
  stopUp      \* history: Start had ended when `constle stop` began

docker  == <<ctr, net, joined, conf, exit>>
alarms  == <<rung, killing, felled>>
bounds  == <<faults, crashes>>
stopCmd == <<stopRun, stopUp>>
history == <<caught, corpses>>
vars == <<pc, listed, todo, failed, docker, alarms, outcome, netLogged, stopCmd, bounds, history>>

Alive(r) == pc[r] \notin {"idle", "over", "dead"}
Faltering(r) == \E k \in Containers : ctr[r][k] \in {"created", "exited"}

Init ==
  /\ pc = [r \in Runs |-> "idle"]
  /\ listed = [r \in Runs |-> {}]
  /\ todo = [p \in Procs |-> <<>>]
  /\ failed = [p \in Procs |-> FALSE]
  /\ ctr = [r \in Runs |-> [k \in Containers |-> "absent"]]
  /\ net = [r \in Runs |-> {}]
  /\ joined = [r \in Runs |-> FALSE]
  /\ conf = [r \in Runs |-> FALSE]
  /\ exit = [r \in Runs |-> 0]
  /\ rung = [r \in Runs |-> {}]
  /\ killing = [r \in Runs |-> {}]
  /\ outcome = [r \in Runs |-> "none"]
  /\ netLogged = [r \in Runs |-> FALSE]
  /\ stopRun = NoRun
  /\ stopUp = FALSE
  /\ faults = 0 /\ crashes = 0
  /\ caught = {}
  /\ corpses = [r \in Runs |-> {}]
  /\ felled = [r \in Runs |-> FALSE]

Quiet == faults + crashes + (IF stopRun = NoRun THEN 0 ELSE 1) < MaxTroubles

\* A command fails although nothing stands in its way.
Fault == Quiet /\ faults' = faults + 1
FaultOf(p) == IF p = Operator THEN faults < MaxTroubles /\ faults' = faults + 1 ELSE Fault
NoFault == faults' = faults

Status(r, k, s) == ctr' = [ctr EXCEPT ![r][k] = s]
Goto(r, s) == pc' = [pc EXCEPT ![r] = s]

---------------------------------------------------------------------------
\* Removals

Cmd(v, op, what) == [run |-> v, op |-> op, what |-> what]
Nets(v, first, second) == <<Cmd(v, "net", first), Cmd(v, "net", second)>>
StopAndRm(v, k) == <<Cmd(v, "stop", k), Cmd(v, "rm", k)>>
Config(v) == <<Cmd(v, "conf", "conf")>>

\* cleanupAbandoned and `constle stop` know a run by its ID alone.
MutNetsFirst(v) == Nets(v, "int", "ext") \o <<Cmd(v, "rm", "agent"), Cmd(v, "rm", "proxy")>>
RemoveByName(v) ==
  <<Cmd(v, "rm", "agent"), Cmd(v, "rm", "proxy")>> \o Nets(v, "int", "ext")

\* DockerBackend.Stop. The mutant takes the networks first.
MutStopNetsFirst(v) == Nets(v, "int", "ext") \o StopAndRm(v, "agent") \o StopAndRm(v, "proxy") \o Config(v)
StopList(v) == StopAndRm(v, "agent") \o StopAndRm(v, "proxy")
                 \o Nets(v, "int", "ext") \o Config(v)

\* What Start undoes when the given step fails; "startProxy" stands for the
\* whole of startProxyContainer.
Rollback(v, step) ==
  CASE step = "extNet" -> <<>>
    [] step = "intNet" -> <<Cmd(v, "net", "ext")>>
    [] step = "bind"   -> Nets(v, "ext", "int")
    [] step = "startProxy" -> Nets(v, "ext", "int") \o Config(v)
    [] step = "startAgent" -> StopAndRm(v, "proxy") \o Nets(v, "ext", "int") \o Config(v)

Exists(c) == CASE c.op = "conf" -> conf[c.run]
               [] c.op = "net"  -> c.what \in net[c.run]
               [] OTHER         -> ctr[c.run][c.what] # "absent"

\* A network with an active endpoint cannot be removed.
InUse(v, n) ==
  \/ n = "int" /\ ctr[v]["agent"] = "running"
  \/ ctr[v]["proxy"] = "running" /\ (n = "ext" \/ joined[v])

CanDo(c) == Exists(c) /\ (c.op = "net" => ~InUse(c.run, c.what))

\* docker stop lets the agent choose its exit code, rm -f does not.
Ends(c) ==
  IF c.op \in {"stop", "rm"} /\ c.what = "agent" /\ ctr[c.run]["agent"] = "running"
  THEN \E code \in IF c.op = "stop" THEN {0, 1} ELSE {1} : exit' = [exit EXCEPT ![c.run] = code]
  ELSE exit' = exit

Do(c) ==
  /\ ctr' = IF c.op \notin {"stop", "rm"} THEN ctr
            ELSE [ctr EXCEPT ![c.run][c.what] =
                    IF c.op = "rm" THEN "absent" ELSE IF @ = "running" THEN "exited" ELSE @]
  /\ net'  = IF c.op = "net" THEN [net EXCEPT ![c.run] = @ \ {c.what}] ELSE net
  /\ conf' = IF c.op = "conf" THEN [conf EXCEPT ![c.run] = FALSE] ELSE conf
  /\ Ends(c)
  /\ UNCHANGED joined

\* What counts as an error: the sweep, the rollback and the config file
\* ignore every failure, cmdStop what is gone already.
Counts(p, c) ==
  IF p = Operator THEN Exists(c) ELSE pc[p] = "teardown" /\ c.op # "conf"

RunRemoval(p) ==
  /\ todo[p] # <<>>
  /\ LET c == Head(todo[p]) IN
     \/ /\ CanDo(c) /\ Do(c) /\ NoFault
        /\ UNCHANGED failed
     \/ /\ IF CanDo(c) THEN c.op # "conf" /\ FaultOf(p) ELSE NoFault
        /\ failed' = [failed EXCEPT ![p] = @ \/ Counts(p, c)]
        /\ UNCHANGED docker
  /\ todo' = [todo EXCEPT ![p] = Tail(@)]
  /\ UNCHANGED <<pc, listed, alarms, outcome, netLogged, stopCmd, crashes, history>>

---------------------------------------------------------------------------
\* Start

\* The runs cleanupAbandoned finds in docker ps: those with a container
\* created or exited.
MutListRunning(v) == \E k \in Containers : ctr[v][k] # "absent"
Abandoned(v) == Faltering(v)

\* cleanupAbandoned's listing; when it fails nothing is swept.
List(r) ==
  /\ pc[r] = "idle"
  /\ Goto(r, "sweep")
  /\ \/ /\ NoFault
        /\ listed' = [listed EXCEPT ![r] = {v \in Runs : Abandoned(v)}]
        /\ caught' = caught \union {v \in Runs : Alive(v) /\ Faltering(v)}
        /\ corpses' = [corpses EXCEPT ![r] = {v \in Runs : ~Alive(v) /\ Faltering(v)}]
     \/ Fault /\ UNCHANGED <<listed, history>>
  /\ UNCHANGED <<todo, failed, docker, alarms, outcome, netLogged, stopCmd, crashes>>

\* One run after the other, in the order of the listing.
Sweep(r, v) ==
  /\ pc[r] = "sweep" /\ todo[r] = <<>> /\ v \in listed[r]
  /\ listed' = [listed EXCEPT ![r] = @ \ {v}]
  /\ todo' = [todo EXCEPT ![r] = RemoveByName(v)]
  /\ UNCHANGED <<pc, failed, docker, alarms, outcome, netLogged, stopCmd, bounds, history>>

Swept(r) ==
  /\ pc[r] = "sweep" /\ todo[r] = <<>> /\ listed[r] = {}
  /\ Goto(r, "extNet")
  /\ UNCHANGED <<listed, todo, failed, docker, alarms, outcome, netLogged, stopCmd, bounds, history>>

\* Start returns its error once the rollback is through.
GiveUp(r, step) ==
  /\ Goto(r, "unwind")
  /\ todo' = [todo EXCEPT ![r] = Rollback(r, step)]
  /\ outcome' = [outcome EXCEPT ![r] = "notStarted"]

\* The refusals before the first resource (gates not attached, credentials
\* not to be had) end like a failure to create it.
CreateExtNet(r) ==
  /\ pc[r] = "extNet"
  /\ \/ /\ NoFault /\ Goto(r, "intNet")
        /\ net' = [net EXCEPT ![r] = @ \union {"ext"}]
        /\ UNCHANGED <<todo, outcome>>
     \/ Fault /\ GiveUp(r, "extNet") /\ UNCHANGED net
  /\ UNCHANGED <<listed, failed, ctr, joined, conf, exit, alarms, netLogged, stopCmd, crashes, history>>

CreateIntNet(r) ==
  /\ pc[r] = "intNet"
  /\ \/ /\ NoFault /\ Goto(r, "bind")
        /\ net' = [net EXCEPT ![r] = @ \union {"int"}]
        /\ UNCHANGED <<todo, outcome>>
     \/ Fault /\ GiveUp(r, "intNet") /\ UNCHANGED net
  /\ UNCHANGED <<listed, failed, ctr, joined, conf, exit, alarms, netLogged, stopCmd, crashes, history>>

\* Bind of both gates and writeSquidConfig.
BindAndConfigure(r) ==
  /\ pc[r] = "bind"
  /\ \/ /\ NoFault /\ Goto(r, "createProxy")
        /\ conf' = [conf EXCEPT ![r] = TRUE]
        /\ UNCHANGED <<todo, outcome>>
     \/ Fault /\ GiveUp(r, "bind") /\ UNCHANGED conf
  /\ UNCHANGED <<listed, failed, ctr, net, joined, exit, alarms, netLogged, stopCmd, crashes, history>>

\* docker run -d makes the container, status created, and then starts it.
\* It cannot start what was removed or whose network is gone; a container it
\* made and could not start stays.
CreateContainer(r, k, at, next, step) ==
  /\ pc[r] = at
  /\ \/ NoFault /\ Goto(r, next) /\ Status(r, k, "created") /\ UNCHANGED <<todo, outcome>>
     \/ Fault /\ GiveUp(r, step) /\ UNCHANGED ctr
  /\ UNCHANGED <<listed, failed, net, joined, conf, exit, alarms, netLogged, stopCmd, crashes, history>>

StartContainer(r, k, on, at, next, step) ==
  /\ pc[r] = at
  /\ \/ /\ ctr[r][k] = "created" /\ on \in net[r] /\ NoFault
        /\ Goto(r, next) /\ Status(r, k, "running")
        /\ UNCHANGED <<todo, outcome>>
     \/ /\ IF ctr[r][k] = "created" /\ on \in net[r] THEN Fault ELSE NoFault
        /\ GiveUp(r, step) /\ UNCHANGED ctr
  /\ UNCHANGED <<listed, failed, net, joined, conf, exit, alarms, netLogged, stopCmd, crashes, history>>

CreateProxy(r) == CreateContainer(r, "proxy", "createProxy", "startProxy", "startProxy")
StartProxy(r)  == StartContainer(r, "proxy", "ext", "startProxy", "connect", "startProxy")
CreateAgent(r) == CreateContainer(r, "agent", "createAgent", "startAgent", "startAgent")
StartAgent(r)  == StartContainer(r, "agent", "int", "startAgent", "up", "startAgent")

\* docker network connect; on failure startProxyContainer removes the proxy.
Connect(r) ==
  LET possible == ctr[r]["proxy"] # "absent" /\ "int" \in net[r] IN
  /\ pc[r] = "connect"
  /\ \/ /\ possible /\ NoFault /\ Goto(r, "await")
        /\ joined' = [joined EXCEPT ![r] = TRUE]
        /\ UNCHANGED <<todo, outcome>>
     \/ /\ IF possible THEN Fault ELSE NoFault
        /\ Goto(r, "unwind")
        /\ todo' = [todo EXCEPT ![r] = <<Cmd(r, "rm", "proxy")>> \o Rollback(r, "startProxy")]
        /\ outcome' = [outcome EXCEPT ![r] = "notStarted"]
        /\ UNCHANGED joined
  /\ UNCHANGED <<listed, failed, ctr, net, conf, exit, alarms, netLogged, stopCmd, crashes, history>>

\* waitForSquid: the listener comes up, or fifteen seconds pass.
AwaitSquid(r) ==
  /\ pc[r] = "await"
  /\ \/ /\ ctr[r]["proxy"] = "running" /\ NoFault /\ Goto(r, "createAgent")
        /\ UNCHANGED <<todo, outcome>>
     \/ /\ IF ctr[r]["proxy"] = "running" THEN Fault ELSE NoFault
        /\ GiveUp(r, "startAgent")
  /\ UNCHANGED <<listed, failed, docker, alarms, netLogged, stopCmd, crashes, history>>

---------------------------------------------------------------------------
\* cmdRun once the sandbox is up

\* The A2A listener, the gates' callbacks, the signal handler and the timer.
SetUp(r) ==
  /\ pc[r] = "up"
  /\ \/ NoFault /\ Goto(r, "wait") /\ UNCHANGED outcome
     \/ Fault /\ Goto(r, "flush") /\ outcome' = [outcome EXCEPT ![r] = "noListener"]
  /\ UNCHANGED <<listed, todo, failed, docker, alarms, netLogged, stopCmd, crashes, history>>

\* A kill path closes its channel, and then stops the agent.
Alarm(r, a) ==
  /\ pc[r] \in {"wait", "judge"} /\ a \in Alarms[r] \ rung[r]
  /\ rung' = [rung EXCEPT ![r] = @ \union {a}]
  /\ killing' = [killing EXCEPT ![r] = @ \union {a}]
  /\ UNCHANGED <<pc, listed, todo, failed, docker, felled, outcome, netLogged, stopCmd, bounds, history>>

\* killAgent; what fails is a warning, nothing tries again.
Kill(r, a) ==
  /\ Alive(r) /\ a \in killing[r]
  /\ killing' = [killing EXCEPT ![r] = @ \ {a}]
  /\ \/ /\ ctr[r]["agent"] = "running" /\ NoFault
        /\ felled' = [felled EXCEPT ![r] = TRUE]
        /\ Do(Cmd(r, "stop", "agent"))
     \/ /\ IF ctr[r]["agent"] = "running" THEN Fault ELSE NoFault
        /\ UNCHANGED <<felled, docker>>
  /\ UNCHANGED <<pc, listed, todo, failed, rung, outcome, netLogged, stopCmd, crashes, history>>

\* docker wait returns; for an agent already removed it is an error or 137.
WaitReturns(r) ==
  /\ pc[r] = "wait" /\ ctr[r]["agent"] # "running"
  /\ Goto(r, "judge")
  /\ \E code \in {exit[r]} \union {x \in {1} : ctr[r]["agent"] = "absent"} :
       exit' = [exit EXCEPT ![r] = code]
  /\ UNCHANGED <<listed, todo, failed, ctr, net, joined, conf, alarms, outcome, netLogged, stopCmd, bounds, history>>

\* The order in which cmdRun looks at the channels and the exit code.
Priority == <<"limit", "spend", "gate", "user">>

MutExitFirst(r) == IF exit[r] # 0 THEN 0 ELSE SelectInSeq(Priority, LAMBDA a : a \in rung[r])
Verdict(r) == SelectInSeq(Priority, LAMBDA a : a \in rung[r])   \* 0: none rung

Judge(r) ==
  /\ pc[r] = "judge"
  /\ Goto(r, "flush")
  /\ \/ /\ NoFault
        /\ outcome' = [outcome EXCEPT ![r] =
             IF Verdict(r) # 0 THEN Priority[Verdict(r)]
             ELSE IF exit[r] # 0 THEN "failed" ELSE "finished"]
     \/ /\ Verdict(r) = 0 /\ exit[r] = 0   \* logger.Err() is set
        /\ Fault
        /\ outcome' = [outcome EXCEPT ![r] = "incomplete"]
  /\ UNCHANGED <<listed, todo, failed, docker, alarms, netLogged, stopCmd, crashes, history>>

\* The deferred teardown: docker exec reads the log of a proxy that runs,
\* then Stop removes everything.
MutStopFirst(r) ==
  /\ pc[r] = "flush"
  /\ Goto(r, "teardown")
  /\ todo' = [todo EXCEPT ![r] = StopList(r)]
  /\ UNCHANGED <<listed, failed, docker, alarms, outcome, netLogged, stopCmd, bounds, history>>
Flush(r) ==
  /\ pc[r] = "flush"
  /\ Goto(r, "teardown")
  /\ todo' = [todo EXCEPT ![r] = StopList(r)]
  /\ \/ /\ ctr[r]["proxy"] = "running" /\ NoFault
        /\ netLogged' = [netLogged EXCEPT ![r] = TRUE]
     \/ /\ IF ctr[r]["proxy"] = "running" THEN Fault ELSE NoFault
        /\ UNCHANGED netLogged
  /\ UNCHANGED <<listed, failed, docker, alarms, outcome, stopCmd, crashes, history>>

\* cmdRun returns; the process ends, its goroutines with it.
Return(r) ==
  /\ pc[r] \in {"unwind", "teardown"} /\ todo[r] = <<>>
  /\ Goto(r, "over")
  /\ killing' = [killing EXCEPT ![r] = {}]
  /\ UNCHANGED <<listed, todo, failed, docker, rung, felled, outcome, netLogged, stopCmd, bounds, history>>

---------------------------------------------------------------------------
\* The world around

AgentExits(r) ==
  /\ ctr[r]["agent"] = "running"
  /\ Status(r, "agent", "exited")
  /\ \E code \in {0, 1} : exit' = [exit EXCEPT ![r] = code]
  /\ UNCHANGED <<pc, listed, todo, failed, net, joined, conf, alarms, outcome, netLogged, stopCmd, bounds, history>>

ProxyExits(r) ==
  /\ ctr[r]["proxy"] = "running" /\ Fault
  /\ Status(r, "proxy", "exited")
  /\ UNCHANGED <<pc, listed, todo, failed, net, joined, conf, exit, alarms, outcome, netLogged, stopCmd, crashes, history>>

Die(S) ==
  /\ Quiet /\ crashes' = crashes + 1
  /\ pc' = [r \in Runs |-> IF r \in S THEN "dead" ELSE pc[r]]
  /\ listed' = [r \in Runs |-> IF r \in S THEN {} ELSE listed[r]]
  /\ todo' = [p \in Procs |-> IF p \in S THEN <<>> ELSE todo[p]]
  /\ killing' = [r \in Runs |-> IF r \in S THEN {} ELSE killing[r]]

\* SIGKILL, or a signal before signal.Notify or after signal.Stop.
Crash(r) ==
  /\ Alive(r) /\ Die({r})
  /\ UNCHANGED <<failed, docker, rung, felled, outcome, netLogged, stopCmd, faults, history>>

\* The host goes down: containers come back exited, networks and files stay.
Reboot ==
  /\ Die({r \in Runs : Alive(r)} \union {Operator})
  /\ ctr' = [r \in Runs |-> [k \in Containers |->
               IF ctr[r][k] = "running" THEN "exited" ELSE ctr[r][k]]]
  /\ failed' = [failed EXCEPT ![Operator] = @ \/ todo[Operator] # <<>>]
  /\ UNCHANGED <<net, joined, conf, exit, rung, felled, outcome, netLogged, stopCmd, faults, history>>

\* `constle stop v`, in another terminal.
OperatorStop(v) ==
  /\ stopRun = NoRun /\ Quiet /\ pc[v] \notin {"idle", "sweep", "extNet"}
  /\ stopRun' = v
  /\ stopUp' = (pc[v] \notin {"intNet", "bind", "createProxy", "startProxy", "connect",
                             "await", "createAgent", "startAgent"})
  /\ todo' = [todo EXCEPT ![Operator] = RemoveByName(v)]
  /\ UNCHANGED <<pc, listed, failed, docker, alarms, outcome, netLogged, bounds, history>>

Owner(r) ==
  \/ List(r) \/ Swept(r) \/ CreateExtNet(r) \/ CreateIntNet(r) \/ BindAndConfigure(r)
  \/ CreateProxy(r) \/ StartProxy(r) \/ Connect(r) \/ AwaitSquid(r)
  \/ CreateAgent(r) \/ StartAgent(r) \/ SetUp(r) \/ WaitReturns(r) \/ Judge(r)
  \/ Flush(r) \/ Return(r) \/ RunRemoval(r)
  \/ \E v \in Runs : Sweep(r, v)

AllOver ==
  /\ \A r \in Runs : ~Alive(r) /\ pc[r] # "idle"
  /\ \A p \in Procs : todo[p] = <<>>
  /\ UNCHANGED vars

Next ==
  \/ \E r \in Runs : Owner(r) \/ AgentExits(r) \/ ProxyExits(r) \/ Crash(r) \/ OperatorStop(r)
  \/ \E r \in Runs, a \in Causes : Alarm(r, a) \/ Kill(r, a)
  \/ RunRemoval(Operator) \/ Reboot
  \/ AllOver

Spec == Init /\ [][Next]_vars

---------------------------------------------------------------------------
\* Properties

TypeOK ==
  /\ pc \in [Runs -> PCs]
  /\ listed \in [Runs -> SUBSET Runs]
  /\ todo \in [Procs -> Seq(Commands)]
  /\ failed \in [Procs -> BOOLEAN]
  /\ ctr \in [Runs -> [Containers -> {"absent", "created", "running", "exited"}]]
  /\ net \in [Runs -> SUBSET Networks]
  /\ joined \in [Runs -> BOOLEAN] /\ conf \in [Runs -> BOOLEAN]
  /\ exit \in [Runs -> {0, 1}]
  /\ rung \in [Runs -> SUBSET Causes] /\ killing \in [Runs -> SUBSET Causes]
  /\ outcome \in [Runs -> Outcomes]
  /\ netLogged \in [Runs -> BOOLEAN]
  /\ stopRun \in Runs \union {NoRun} /\ stopUp \in BOOLEAN
  /\ faults \in 0..MaxTroubles /\ crashes \in 0..MaxTroubles
  /\ caught \in SUBSET Runs /\ corpses \in [Runs -> SUBSET Runs]
  /\ felled \in [Runs -> BOOLEAN]
  /\ \A r \in Runs : killing[r] \subseteq rung[r]

Gone(v) == net[v] = {} /\ \A k \in Containers : ctr[v][k] = "absent"

\* Start keeps its promise about what a failed step leaves behind, whatever
\* other runs sweep and an operator stops meanwhile: unless docker itself
\* fails, a run that could not start leaves at most a container that never
\* ran, which the next sweep finds, and one that did start leaves nothing.  And
\* whoever reports a run removed has removed it, even when commands fail and
\* somebody else removes the same run: Stop, and `constle stop` of a run whose
\* Start had ended.
NothingLeft ==
  /\ \A r \in Runs : pc[r] = "over" /\ faults = 0 =>
       /\ ~conf[r] /\ net[r] = {}
       /\ \A k \in Containers :
            ctr[r][k] = "absent" \/ (ctr[r][k] = "created" /\ outcome[r] = "notStarted")
  /\ \A r \in Runs : pc[r] = "over" /\ outcome[r] # "notStarted" /\ ~failed[r] => Gone(r)
  /\ stopRun # NoRun /\ stopUp /\ todo[Operator] = <<>> /\ ~failed[Operator] => Gone(stopRun)

\* A sweep is thorough: of a dead run with a container created or exited when
\* it was listed, nothing is left when the sweep is through, be its other
\* container running or gone; no container, no network.
SweepIsThorough ==
  \A r \in Runs : faults = 0 /\ pc[r] \notin {"idle", "sweep", "dead"} =>
    \A v \in corpses[r] : Gone(v)

\* A sweep spares other agents' runs while they run: a live run loses its
\* proxy or its networks only to an operator, or to a sweep whose listing
\* fell between the creation and the start of one of its containers.
SweepSparesRunning ==
  \A r \in Runs :
    pc[r] = "wait" /\ ctr[r]["agent"] = "running" /\ r \notin caught /\ stopRun # r /\ faults = 0 =>
      ctr[r]["proxy"] = "running" /\ net[r] = Networks /\ joined[r]

\* An agent that a kill path stopped is never reported as one that ended by
\* itself, whatever code it chose to exit with on SIGTERM.
KilledIsReported ==
  \A r \in Runs : felled[r] => outcome[r] \notin {"finished", "incomplete", "failed"}

\* The network log is read while it is there: a run that nobody else removed
\* ends with its network events logged.
LogsBeforeRemoval ==
  \A r \in Runs :
    /\ pc[r] = "over" /\ outcome[r] # "notStarted"
    /\ faults = 0 /\ r \notin caught /\ stopRun # r
    => netLogged[r]
=============================================================================
