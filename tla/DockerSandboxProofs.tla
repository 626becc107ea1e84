------------------------ MODULE DockerSandboxProofs ------------------------
(***************************************************************************)
(* Proofs about DockerSandbox, for every set of runs and causes of ends    *)
(* and every number of faults and crashes: outcomes are told truthfully,   *)
(* runs keep what they need while they need it, and cleanups leave nothing *)
(* behind.                                                                 *)
(*                                                                         *)
(* The removals of a run end with its networks (NetsLast).  Nothing makes  *)
(* anything for a run once its Start has ended, so that a network is free  *)
(* by the time it is removed, and a list that was complete when it was     *)
(* drawn up remains so (Takes).                                            *)
(***************************************************************************)
EXTENDS DockerSandbox, TLAPS

(***************************************************************************)
(* Removal lists                                                           *)
(***************************************************************************)
Has(s, c) == \E i \in 1 .. Len(s) : s[i] = c
Concerns(s, S) == \A i \in 1 .. Len(s) : s[i].run \in S
Only(s, ops) == \A i \in 1 .. Len(s) : s[i].op \in ops
NetsLast(s) == \A i, j \in 1 .. Len(s) : i < j /\ s[i].op = "net" => s[j].op \in {"net", "conf"}
\* A list that removes of v what it has, its networks last.
Proper(s, v) == s \in Seq(Commands) /\ NetsLast(s) /\ Concerns(s, {v})
Thorough(s, v) == /\ \A k \in Containers : Has(s, Cmd(v, "rm", k))
                  /\ \A n \in Networks : Has(s, Cmd(v, "net", n))

\* Lists of one run's removals are joined in an order that keeps its networks last.
LEMMA Joining ==
  ASSUME NEW v \in Runs, NEW s, NEW t, Proper(s, v), Proper(t, v),
         Only(s, {"stop", "rm"}) \/ Only(t, {"net", "conf"})
  PROVE  /\ Proper(s \o t, v)
         /\ \A c : Has(s, c) \/ Has(t, c) => Has(s \o t, c)
<1>1. /\ s \in Seq(Commands) /\ t \in Seq(Commands)
      /\ s \o t \in Seq(Commands) /\ Len(s \o t) = Len(s) + Len(t)
      /\ Len(s) \in Nat /\ Len(t) \in Nat
  BY DEF Proper
<1>2. \A i \in 1 .. Len(s) : (s \o t)[i] = s[i]
  BY <1>1
<1>3. \A i \in 1 .. Len(t) : (s \o t)[i + Len(s)] = t[i]
  BY <1>1
<1>4. \A i \in 1 .. Len(s \o t) : \/ i \in 1 .. Len(s) /\ (s \o t)[i] = s[i]
                                  \/ i - Len(s) \in 1 .. Len(t) /\ (s \o t)[i] = t[i - Len(s)]
  BY <1>1
<1>5. ASSUME NEW c, Has(s, c) \/ Has(t, c) PROVE Has(s \o t, c)
  <2>1. CASE Has(s, c)
    BY <2>1, <1>1, <1>2 DEF Has
  <2>2. CASE Has(t, c)
    <3>1. PICK i \in 1 .. Len(t) : t[i] = c
      BY <2>2 DEF Has
    <3>2. i + Len(s) \in 1 .. Len(s \o t)
      BY <1>1
    <3> QED BY <3>1, <3>2, <1>3 DEF Has
  <2> QED BY <1>5, <2>1, <2>2
<1>6. Concerns(s \o t, {v})
  BY <1>4 DEF Concerns, Proper
<1>7. NetsLast(s \o t)
  <2> SUFFICES ASSUME NEW i \in 1 .. Len(s \o t), NEW j \in 1 .. Len(s \o t),
                      i < j, (s \o t)[i].op = "net"
               PROVE  (s \o t)[j].op \in {"net", "conf"}
    BY DEF NetsLast
  <2>1. CASE j \in 1 .. Len(s) /\ (s \o t)[j] = s[j]
    <3>1. i \in 1 .. Len(s) /\ s[i].op = "net"
      BY <2>1, <1>1, <1>2
    <3> QED BY <2>1, <3>1 DEF Proper, NetsLast
  <2>2. CASE j - Len(s) \in 1 .. Len(t) /\ (s \o t)[j] = t[j - Len(s)]
    <3>1. CASE Only(t, {"net", "conf"})
      BY <2>2, <3>1 DEF Only
    <3>2. CASE Only(s, {"stop", "rm"})
      <4>1. i - Len(s) \in 1 .. Len(t) /\ t[i - Len(s)].op = "net"
        BY <3>2, <1>4 DEF Only
      <4>2. i - Len(s) < j - Len(s)
        BY <1>1
      <4> QED BY <2>2, <4>1, <4>2 DEF Proper, NetsLast
    <3> QED BY <3>1, <3>2
  <2> QED BY <1>4, <2>1, <2>2
<1> QED BY <1>1, <1>5, <1>6, <1>7 DEF Proper

\* A joined list has the operations of its two parts.
LEMMA OnlyJoined ==
  ASSUME NEW v \in Runs, NEW s, NEW t, Proper(s, v), Proper(t, v), NEW ops,
         Only(s, ops), Only(t, ops)
  PROVE  Only(s \o t, ops)
<1>1. /\ s \in Seq(Commands) /\ t \in Seq(Commands)
  BY DEF Proper
<1>2. \A i \in 1 .. Len(s \o t) : \/ i \in 1 .. Len(s) /\ (s \o t)[i] = s[i]
                                  \/ i - Len(s) \in 1 .. Len(t) /\ (s \o t)[i] = t[i - Len(s)]
  BY <1>1
<1> QED BY <1>2 DEF Only

\* The pieces the lists are made of.
LEMMA Pairs ==
  ASSUME NEW v \in Runs
  PROVE  /\ Proper(<<>>, v)
         /\ \A k \in Containers :
              /\ Proper(<<Cmd(v, "rm", k)>>, v) /\ Only(<<Cmd(v, "rm", k)>>, {"stop", "rm"})
              /\ Has(<<Cmd(v, "rm", k)>>, Cmd(v, "rm", k))
              /\ Proper(StopAndRm(v, k), v) /\ Only(StopAndRm(v, k), {"stop", "rm"})
              /\ Has(StopAndRm(v, k), Cmd(v, "rm", k))
         /\ \A m, n \in Networks :
              /\ Proper(Nets(v, m, n), v) /\ Only(Nets(v, m, n), {"net", "conf"})
              /\ Has(Nets(v, m, n), Cmd(v, "net", m)) /\ Has(Nets(v, m, n), Cmd(v, "net", n))
              /\ Proper(<<Cmd(v, "net", n)>>, v)
         /\ Proper(Config(v), v) /\ Only(Config(v), {"net", "conf"})
         /\ Has(Config(v), Cmd(v, "conf", "conf"))
         /\ Proper(<<Cmd(v, "rm", "agent"), Cmd(v, "rm", "proxy")>>, v)
         /\ Only(<<Cmd(v, "rm", "agent"), Cmd(v, "rm", "proxy")>>, {"stop", "rm"})
         /\ \A k \in Containers : Has(<<Cmd(v, "rm", "agent"), Cmd(v, "rm", "proxy")>>, Cmd(v, "rm", k))
<1>1. \A k \in Containers : Cmd(v, "rm", k) \in Commands /\ Cmd(v, "stop", k) \in Commands
  BY DEF Cmd, Commands
<1>2. \A n \in Networks : Cmd(v, "net", n) \in Commands
  BY DEF Cmd, Commands
<1>3. Cmd(v, "conf", "conf") \in Commands
  BY DEF Cmd, Commands
<1>4. \A op, what : Cmd(v, op, what).run = v /\ Cmd(v, op, what).op = op
  BY DEF Cmd
<1>5. ASSUME NEW c \in Commands, c.run = v
      PROVE  Proper(<<c>>, v) /\ Has(<<c>>, c) /\ \A ops : c.op \in ops => Only(<<c>>, ops)
  <2>1. <<c>> \in Seq(Commands) /\ Len(<<c>>) = 1 /\ <<c>>[1] = c
    OBVIOUS
  <2> HIDE DEF Commands
  <2> DEFINE s == <<c>>
  <2> HIDE DEF s
  <2>2. s \in Seq(Commands) /\ Len(s) = 1 /\ s[1] = c
    BY <2>1 DEF s
  <2>3. Proper(s, v) /\ Has(s, c) /\ \A ops : c.op \in ops => Only(s, ops)
    BY <2>2, <1>5 DEF Proper, Has, Only, NetsLast, Concerns
  <2> QED BY <2>3 DEF s
<1>6. ASSUME NEW c \in Commands, NEW d \in Commands, c.run = v, d.run = v,
             c.op = "net" => d.op = "net"
      PROVE  Proper(<<c, d>>, v) /\ Has(<<c, d>>, c) /\ Has(<<c, d>>, d)
             /\ \A ops : c.op \in ops /\ d.op \in ops => Only(<<c, d>>, ops)
  <2>1. <<c, d>> \in Seq(Commands) /\ Len(<<c, d>>) = 2 /\ <<c, d>>[1] = c /\ <<c, d>>[2] = d
    OBVIOUS
  <2> DEFINE s == <<c, d>>
  <2> HIDE DEF s
  <2>2. s \in Seq(Commands) /\ Len(s) = 2 /\ s[1] = c /\ s[2] = d
    BY <2>1 DEF s
  <2>3. Proper(s, v) /\ Has(s, c) /\ Has(s, d) /\ \A ops : c.op \in ops /\ d.op \in ops => Only(s, ops)
    BY <2>2, <1>6 DEF Proper, Has, Only, NetsLast, Concerns
  <2> QED BY <2>3 DEF s
<1>7. Proper(<<>>, v)
  BY DEF Proper, NetsLast, Concerns
<1>8. ASSUME NEW k \in Containers
      PROVE  /\ Proper(<<Cmd(v, "rm", k)>>, v) /\ Only(<<Cmd(v, "rm", k)>>, {"stop", "rm"})
             /\ Has(<<Cmd(v, "rm", k)>>, Cmd(v, "rm", k))
  BY <1>1, <1>4, <1>5
<1>9. ASSUME NEW k \in Containers
      PROVE  /\ Proper(StopAndRm(v, k), v) /\ Only(StopAndRm(v, k), {"stop", "rm"})
             /\ Has(StopAndRm(v, k), Cmd(v, "rm", k))
  BY <1>1, <1>4, <1>6 DEF StopAndRm
<1>10. ASSUME NEW m \in Networks, NEW n \in Networks
       PROVE  /\ Proper(Nets(v, m, n), v) /\ Only(Nets(v, m, n), {"net", "conf"})
              /\ Has(Nets(v, m, n), Cmd(v, "net", m)) /\ Has(Nets(v, m, n), Cmd(v, "net", n))
              /\ Proper(<<Cmd(v, "net", n)>>, v)
  BY <1>2, <1>4, <1>5, <1>6 DEF Nets
<1>11. /\ Proper(Config(v), v) /\ Only(Config(v), {"net", "conf"})
       /\ Has(Config(v), Cmd(v, "conf", "conf"))
  BY <1>3, <1>4, <1>5 DEF Config
<1>12. /\ Proper(<<Cmd(v, "rm", "agent"), Cmd(v, "rm", "proxy")>>, v)
       /\ Only(<<Cmd(v, "rm", "agent"), Cmd(v, "rm", "proxy")>>, {"stop", "rm"})
       /\ \A k \in Containers : Has(<<Cmd(v, "rm", "agent"), Cmd(v, "rm", "proxy")>>, Cmd(v, "rm", k))
  BY <1>1, <1>4, <1>6 DEF Containers
<1> QED BY <1>7, <1>8, <1>9, <1>10, <1>11, <1>12

\* RemoveByName removes all of a run (removeDockerResourcesByName).
LEMMA NameList ==
  ASSUME NEW v \in Runs
  PROVE  Proper(RemoveByName(v), v) /\ Thorough(RemoveByName(v), v)
<1> DEFINE a == <<Cmd(v, "rm", "agent"), Cmd(v, "rm", "proxy")>>
           b == Nets(v, "int", "ext")
<1>1. Proper(a, v) /\ Only(a, {"stop", "rm"}) /\ \A k \in Containers : Has(a, Cmd(v, "rm", k))
  BY Pairs
<1>2. Proper(b, v) /\ \A n \in Networks : Has(b, Cmd(v, "net", n))
  BY Pairs DEF Networks
<1> HIDE DEF a, b
<1>3. Proper(a \o b, v) /\ Thorough(a \o b, v)
  BY <1>1, <1>2, Joining DEF Thorough
<1> QED BY <1>3 DEF a, b, RemoveByName

\* So does Stop, and the Squid file with it.
LEMMA StopListFits ==
  ASSUME NEW v \in Runs
  PROVE  /\ Proper(StopList(v), v) /\ Thorough(StopList(v), v)
         /\ Has(StopList(v), Cmd(v, "conf", "conf"))
<1> DEFINE a == StopAndRm(v, "agent")
           b == StopAndRm(v, "proxy")
           c == Nets(v, "int", "ext")
           d == Config(v)
<1>1. /\ Proper(a, v) /\ Only(a, {"stop", "rm"}) /\ Has(a, Cmd(v, "rm", "agent"))
      /\ Proper(b, v) /\ Only(b, {"stop", "rm"}) /\ Has(b, Cmd(v, "rm", "proxy"))
  BY Pairs DEF Containers
<1>2. Proper(c, v) /\ Only(c, {"net", "conf"}) /\ \A n \in Networks : Has(c, Cmd(v, "net", n))
  BY Pairs DEF Networks
<1>3. Proper(d, v) /\ Only(d, {"net", "conf"}) /\ Has(d, Cmd(v, "conf", "conf"))
  BY Pairs
<1> HIDE DEF a, b, c, d
<1>4. Proper(a \o b, v) /\ \A k \in Containers : Has(a \o b, Cmd(v, "rm", k))
  BY <1>1, Joining DEF Containers
<1>5. Proper((a \o b) \o c, v) /\ Thorough((a \o b) \o c, v)
  BY <1>2, <1>4, Joining DEF Thorough
<1>6. /\ Proper(((a \o b) \o c) \o d, v) /\ Thorough(((a \o b) \o c) \o d, v)
      /\ Has(((a \o b) \o c) \o d, Cmd(v, "conf", "conf"))
  BY <1>3, <1>5, Joining DEF Thorough
<1> QED BY <1>6 DEF a, b, c, d, StopList

Steps == {"extNet", "intNet", "bind", "startProxy", "startAgent"}

\* What each failure of Start removes of the run.
LEMMA RollbackFits ==
  ASSUME NEW v \in Runs, NEW step \in Steps
  PROVE  /\ Proper(Rollback(v, step), v)
         /\ step \in {"startProxy", "startAgent"} =>
              /\ \A n \in Networks : Has(Rollback(v, step), Cmd(v, "net", n))
              /\ Has(Rollback(v, step), Cmd(v, "conf", "conf"))
              /\ Proper(<<Cmd(v, "rm", "proxy")>> \o Rollback(v, step), v)
              /\ \A n \in Networks : Has(<<Cmd(v, "rm", "proxy")>> \o Rollback(v, step), Cmd(v, "net", n))
              /\ Has(<<Cmd(v, "rm", "proxy")>> \o Rollback(v, step), Cmd(v, "conf", "conf"))
              /\ Has(<<Cmd(v, "rm", "proxy")>> \o Rollback(v, step), Cmd(v, "rm", "proxy"))
         /\ step = "startAgent" => Has(Rollback(v, step), Cmd(v, "rm", "proxy"))
<1> DEFINE a == StopAndRm(v, "proxy")
           c == Nets(v, "ext", "int")
           d == Config(v)
           e == <<Cmd(v, "rm", "proxy")>>
<1>1. /\ Proper(a, v) /\ Only(a, {"stop", "rm"}) /\ Has(a, Cmd(v, "rm", "proxy"))
      /\ Proper(e, v) /\ Only(e, {"stop", "rm"}) /\ Has(e, Cmd(v, "rm", "proxy"))
  BY Pairs DEF Containers
<1>2. Proper(c, v) /\ Only(c, {"net", "conf"}) /\ \A n \in Networks : Has(c, Cmd(v, "net", n))
  BY Pairs DEF Networks
<1>3. Proper(d, v) /\ Only(d, {"net", "conf"}) /\ Has(d, Cmd(v, "conf", "conf"))
  BY Pairs
<1>4. Proper(<<>>, v) /\ Proper(<<Cmd(v, "net", "ext")>>, v)
  BY Pairs DEF Networks
<1>5. /\ Rollback(v, "extNet") = <<>> /\ Rollback(v, "intNet") = <<Cmd(v, "net", "ext")>>
      /\ Rollback(v, "bind") = c /\ Rollback(v, "startProxy") = c \o d
      /\ Rollback(v, "startAgent") = (a \o c) \o d
  BY DEF Rollback
<1> HIDE DEF a, c, d, e
<1>6. /\ Proper(c \o d, v) /\ (\A n \in Networks : Has(c \o d, Cmd(v, "net", n)))
      /\ Has(c \o d, Cmd(v, "conf", "conf"))
  BY <1>2, <1>3, Joining
<1>7. /\ Proper(a \o c, v) /\ (\A n \in Networks : Has(a \o c, Cmd(v, "net", n)))
      /\ Has(a \o c, Cmd(v, "rm", "proxy"))
  BY <1>1, <1>2, Joining
<1>8. /\ Proper((a \o c) \o d, v) /\ (\A n \in Networks : Has((a \o c) \o d, Cmd(v, "net", n)))
      /\ Has((a \o c) \o d, Cmd(v, "rm", "proxy")) /\ Has((a \o c) \o d, Cmd(v, "conf", "conf"))
  BY <1>7, <1>3, Joining
<1>12. ASSUME NEW s, Proper(s, v), \A n \in Networks : Has(s, Cmd(v, "net", n)), Has(s, Cmd(v, "conf", "conf"))
       PROVE  /\ Proper(e \o s, v) /\ (\A n \in Networks : Has(e \o s, Cmd(v, "net", n)))
              /\ Has(e \o s, Cmd(v, "conf", "conf")) /\ Has(e \o s, Cmd(v, "rm", "proxy"))
  BY <1>1, <1>12, Joining
<1>9. CASE step = "startProxy"
  BY <1>9, <1>12, <1>5, <1>6 DEF e
<1>10. CASE step = "startAgent"
  BY <1>10, <1>12, <1>5, <1>8 DEF e
<1>11. CASE step \in {"extNet", "intNet", "bind"}
  BY <1>11, <1>2, <1>4, <1>5
<1> QED BY <1>9, <1>10, <1>11 DEF Steps

\* A list without its head.
LEMMA TailKeeps ==
  ASSUME NEW s \in Seq(Commands), s # <<>>
  PROVE  /\ Head(s) \in Commands /\ Tail(s) \in Seq(Commands)
         /\ \A c : Has(s, c) => c = Head(s) \/ Has(Tail(s), c)
         /\ \A c : Has(Tail(s), c) => Has(s, c)
         /\ \A S : Concerns(s, S) => Concerns(Tail(s), S) /\ Head(s).run \in S
         /\ NetsLast(s) => /\ NetsLast(Tail(s))
                           /\ \A c : Head(s).op = "net" /\ Has(Tail(s), c) => c.op \in {"net", "conf"}
<1>1. /\ Len(s) \in Nat \ {0} /\ Head(s) = s[1] /\ Tail(s) \in Seq(Commands)
      /\ Len(Tail(s)) = Len(s) - 1 /\ \A i \in 1 .. Len(s) - 1 : Tail(s)[i] = s[i + 1]
  OBVIOUS
<1>2. \A i \in 1 .. Len(s) : i = 1 \/ (i - 1 \in 1 .. Len(Tail(s)) /\ s[i] = Tail(s)[i - 1])
  BY <1>1
<1>3. \A i \in 1 .. Len(Tail(s)) : i + 1 \in 1 .. Len(s) /\ Tail(s)[i] = s[i + 1] /\ 1 < i + 1
  BY <1>1
<1>4. 1 \in 1 .. Len(s)
  BY <1>1
<1>5. Head(s) \in Commands
  BY <1>1, <1>4
<1>6. ASSUME NEW c, Has(s, c) PROVE c = Head(s) \/ Has(Tail(s), c)
  BY <1>1, <1>2, <1>6 DEF Has
<1>7. ASSUME NEW c, Has(Tail(s), c) PROVE Has(s, c)
  BY <1>3, <1>7 DEF Has
<1>8. ASSUME NEW S, Concerns(s, S) PROVE Concerns(Tail(s), S) /\ Head(s).run \in S
  BY <1>1, <1>3, <1>4, <1>8 DEF Concerns
<1>9. ASSUME NetsLast(s) PROVE NetsLast(Tail(s))
  <2> SUFFICES ASSUME NEW i \in 1 .. Len(Tail(s)), NEW j \in 1 .. Len(Tail(s)),
                      i < j, Tail(s)[i].op = "net"
               PROVE  Tail(s)[j].op \in {"net", "conf"}
    BY DEF NetsLast
  <2>1. i + 1 < j + 1
    BY <1>1
  <2> QED BY <1>3, <1>9, <2>1 DEF NetsLast
<1>10. ASSUME NetsLast(s), NEW c, Head(s).op = "net", Has(Tail(s), c) PROVE c.op \in {"net", "conf"}
  <2>1. PICK i \in 1 .. Len(Tail(s)) : Tail(s)[i] = c
    BY <1>10 DEF Has
  <2> QED BY <1>1, <1>3, <1>4, <1>10, <2>1 DEF NetsLast
<1> QED BY <1>1, <1>5, <1>6, <1>7, <1>8, <1>9, <1>10

\* An empty list.
LEMMA NothingListed ==
  /\ <<>> \in Seq(Commands) /\ NetsLast(<<>>)
  /\ \A S : Concerns(<<>>, S)
  /\ \A c : ~Has(<<>>, c)
BY DEF NetsLast, Concerns, Has

---------------------------------------------------------------------------
(***************************************************************************)
(* Types                                                                   *)
(***************************************************************************)
Statuses == {"absent", "created", "running", "exited"}

\* What a removal is.
LEMMA CommandShape ==
  ASSUME NEW c \in Commands
  PROVE  /\ c.run \in Runs /\ c.op \in {"stop", "rm", "net", "conf"}
         /\ c.op \in {"stop", "rm"} => c.what \in Containers
         /\ c.op = "net" => c.what \in Networks
         /\ c = Cmd(c.run, c.op, c.what)
         /\ c.op = "conf" => c.what = "conf"
BY DEF Commands, Cmd

\* A step that sets the status of one container.
LEMMA StatusSet ==
  ASSUME TypeOK, NEW r \in Runs, NEW k \in Containers, NEW s \in Statuses, Status(r, k, s)
  PROVE  /\ ctr' \in [Runs -> [Containers -> Statuses]]
         /\ \A v \in Runs : \A l \in Containers :
              ctr'[v][l] = IF v = r /\ l = k THEN s ELSE ctr[v][l]
<1>1. ctr \in [Runs -> [Containers -> Statuses]]
  BY DEF TypeOK, Statuses
<1>2. ctr' = [ctr EXCEPT ![r] = [ctr[r] EXCEPT ![k] = s]]
  BY DEF Status
<1> QED BY <1>1, <1>2

\* A removal that is carried out.
LEMMA DoTypes ==
  ASSUME TypeOK, NEW c \in Commands, Do(c)
  PROVE  /\ ctr' \in [Runs -> [Containers -> Statuses]] /\ net' \in [Runs -> SUBSET Networks]
         /\ conf' \in [Runs -> BOOLEAN] /\ joined' = joined /\ exit' \in [Runs -> {0, 1}]
<1> USE CommandShape
<1>1. ctr' \in [Runs -> [Containers -> Statuses]]
  <2>1. CASE c.op \notin {"stop", "rm"}
    BY <2>1 DEF Do, TypeOK, Statuses
  <2>2. CASE c.op = "rm"
    BY <2>2 DEF Do, TypeOK, Statuses
  <2>3. CASE c.op = "stop"
    BY <2>3 DEF Do, TypeOK, Statuses
  <2> QED BY <2>1, <2>2, <2>3
<1>2. net' \in [Runs -> SUBSET Networks]
  BY DEF Do, TypeOK
<1>3. conf' \in [Runs -> BOOLEAN] /\ joined' = joined
  BY DEF Do, TypeOK
<1>4. exit' \in [Runs -> {0, 1}]
  <2>1. exit' = exit \/ \E code \in {0, 1} : exit' = [exit EXCEPT ![c.run] = code]
    BY DEF Do, Ends
  <2> QED BY <2>1 DEF TypeOK
<1> QED BY <1>1, <1>2, <1>3, <1>4

\* The outcome is an announced cause, or there is none.
LEMMA VerdictType ==
  ASSUME NEW r \in Runs
  PROVE  /\ Verdict(r) = 0 \/ Priority[Verdict(r)] \in Causes
         /\ TypeOK /\ Verdict(r) = 0 => rung[r] = {}
<1> DEFINE I == {i \in 1 .. Len(Priority) : Priority[i] \in rung[r]}
<1>1. /\ Len(Priority) = 4 /\ Priority[1] = "limit" /\ Priority[2] = "spend"
      /\ Priority[3] = "gate" /\ Priority[4] = "user"
  BY DEF Priority
<1>2. Verdict(r) = IF I # {} THEN Min(I) ELSE 0
  BY DEF Verdict, SelectInSeq
<1>3. CASE I = {}
  <2>1. \A i \in 1 .. 4 : Priority[i] \notin rung[r]
    BY <1>1, <1>3
  <2>2. TypeOK => rung[r] \subseteq Causes
    BY DEF TypeOK
  <2> QED BY <1>1, <1>2, <1>3, <2>1, <2>2 DEF Causes
<1>4. CASE I # {}
  <2>1. \E i \in I : \A j \in I : i <= j
    BY <1>1, <1>4
  <2>2. Min(I) \in I
    BY <2>1 DEF Min
  <2>3. Min(I) \in 1 .. 4 /\ Priority[Min(I)] \in Causes
    BY <2>2, <1>1 DEF Causes
  <2> QED BY <1>2, <1>4, <2>3
<1> QED BY <1>3, <1>4

\* A step that sets the stage, the outcome and the removals of one run.
LEMMA BoundsKept ==
  ASSUME TypeOK
  PROVE  /\ Fault => faults' \in 0 .. MaxTroubles
         /\ NoFault => faults' \in 0 .. MaxTroubles
         /\ \A p \in Procs : FaultOf(p) => faults' \in 0 .. MaxTroubles
         /\ Quiet /\ crashes' = crashes + 1 => crashes' \in 0 .. MaxTroubles
<1>1. faults \in 0 .. MaxTroubles /\ crashes \in 0 .. MaxTroubles /\ MaxTroubles \in Nat
  BY SandboxAssumption DEF TypeOK
<1>2. Quiet => faults < MaxTroubles /\ crashes < MaxTroubles
  BY <1>1 DEF Quiet
<1> QED BY <1>1, <1>2 DEF Fault, NoFault, FaultOf

\* A failure of Start.
LEMMA GiveUpTypes ==
  ASSUME TypeOK, NEW r \in Runs, NEW step \in Steps, GiveUp(r, step)
  PROVE  /\ pc' \in [Runs -> PCs] /\ todo' \in [Procs -> Seq(Commands)]
         /\ outcome' \in [Runs -> Outcomes]
<1>1. Rollback(r, step) \in Seq(Commands)
  BY RollbackFits DEF Proper
<1>2. pc' \in [Runs -> PCs] /\ outcome' \in [Runs -> Outcomes]
  BY DEF GiveUp, Goto, TypeOK, PCs, Outcomes
<1>3. todo' \in [Procs -> Seq(Commands)]
  BY <1>1 DEF GiveUp, TypeOK, Procs
<1> QED BY <1>2, <1>3

\* A step to another stage.
LEMMA GotoTypes ==
  ASSUME TypeOK, NEW r \in Runs, NEW s \in PCs, Goto(r, s)
  PROVE  pc' \in [Runs -> PCs]
BY DEF Goto, TypeOK

\* What the steps of Start leave alone.
StartRest == <<listed, failed, exit, alarms, netLogged, stopCmd, crashes, history>>

\* Whatever a step of Start does keeps the types.
LEMMA StartTypes ==
  ASSUME TypeOK, NEW r \in Runs, UNCHANGED StartRest,
         faults' \in 0 .. MaxTroubles,
         \/ \E s \in PCs : Goto(r, s) /\ UNCHANGED <<todo, outcome>>
         \/ \E step \in Steps : GiveUp(r, step),
         ctr' \in [Runs -> [Containers -> Statuses]], net' \in [Runs -> SUBSET Networks],
         joined' \in [Runs -> BOOLEAN], conf' \in [Runs -> BOOLEAN]
  PROVE  TypeOK'
<1>1. /\ pc' \in [Runs -> PCs] /\ todo' \in [Procs -> Seq(Commands)]
      /\ outcome' \in [Runs -> Outcomes]
  <2>1. CASE \E s \in PCs : Goto(r, s) /\ UNCHANGED <<todo, outcome>>
    BY <2>1, GotoTypes DEF TypeOK
  <2>2. CASE \E step \in Steps : GiveUp(r, step)
    BY <2>2, GiveUpTypes
  <2> QED BY <2>1, <2>2
<1> QED BY <1>1 DEF StartRest, alarms, stopCmd, history, TypeOK, Statuses

\* Every step keeps the types.
LEMMA TypeStep ==
  ASSUME TypeOK, [Next]_vars
  PROVE  TypeOK'
<1> USE DEF PCs
<1>0. Operator \notin Runs /\ NoRun \notin Runs
  BY SandboxAssumption
<1>1. ASSUME NEW r \in Runs, List(r) PROVE TypeOK'
  BY <1>1, BoundsKept DEF List, Goto, TypeOK, docker, alarms, stopCmd, history
<1>2. ASSUME NEW r \in Runs, NEW v \in Runs, Sweep(r, v) PROVE TypeOK'
  <2>1. RemoveByName(v) \in Seq(Commands)
    BY NameList DEF Proper
  <2> QED BY <1>2, <2>1 DEF Sweep, TypeOK, docker, alarms, stopCmd, bounds, history, Procs
<1>3. ASSUME NEW r \in Runs, Swept(r) PROVE TypeOK'
  BY <1>3 DEF Swept, Goto, TypeOK, docker, alarms, stopCmd, bounds, history
<1>4. ASSUME NEW r \in Runs, CreateExtNet(r) PROVE TypeOK'
  <2>1. net' \in [Runs -> SUBSET Networks] /\ ctr' = ctr /\ joined' = joined /\ conf' = conf
    <3>1. net' = net \/ net' = [net EXCEPT ![r] = @ \union {"ext"}]
      BY <1>4 DEF CreateExtNet
    <3>2. net' \in [Runs -> SUBSET Networks]
      BY <3>1 DEF TypeOK, Networks
    <3> QED BY <1>4, <3>2 DEF CreateExtNet
  <2>2. UNCHANGED StartRest /\ faults' \in 0 .. MaxTroubles
    BY <1>4, BoundsKept DEF CreateExtNet, StartRest
  <2>3. \/ \E s \in PCs : Goto(r, s) /\ UNCHANGED <<todo, outcome>>
        \/ \E step \in Steps : GiveUp(r, step)
    BY <1>4 DEF CreateExtNet, Steps
  <2> QED BY <2>1, <2>2, <2>3, StartTypes DEF TypeOK, Statuses
<1>5. ASSUME NEW r \in Runs, CreateIntNet(r) PROVE TypeOK'
  <2>1. net' \in [Runs -> SUBSET Networks] /\ ctr' = ctr /\ joined' = joined /\ conf' = conf
    <3>1. net' = net \/ net' = [net EXCEPT ![r] = @ \union {"int"}]
      BY <1>5 DEF CreateIntNet
    <3>2. net' \in [Runs -> SUBSET Networks]
      BY <3>1 DEF TypeOK, Networks
    <3> QED BY <1>5, <3>2 DEF CreateIntNet
  <2>2. UNCHANGED StartRest /\ faults' \in 0 .. MaxTroubles
    BY <1>5, BoundsKept DEF CreateIntNet, StartRest
  <2>3. \/ \E s \in PCs : Goto(r, s) /\ UNCHANGED <<todo, outcome>>
        \/ \E step \in Steps : GiveUp(r, step)
    BY <1>5 DEF CreateIntNet, Steps
  <2> QED BY <2>1, <2>2, <2>3, StartTypes DEF TypeOK, Statuses
<1>6. ASSUME NEW r \in Runs, BindAndConfigure(r) PROVE TypeOK'
  <2>1. conf' \in [Runs -> BOOLEAN] /\ ctr' = ctr /\ joined' = joined /\ net' = net
    BY <1>6 DEF BindAndConfigure, TypeOK
  <2>2. UNCHANGED StartRest /\ faults' \in 0 .. MaxTroubles
    BY <1>6, BoundsKept DEF BindAndConfigure, StartRest
  <2>3. \/ \E s \in PCs : Goto(r, s) /\ UNCHANGED <<todo, outcome>>
        \/ \E step \in Steps : GiveUp(r, step)
    BY <1>6 DEF BindAndConfigure, Steps
  <2> QED BY <2>1, <2>2, <2>3, StartTypes DEF TypeOK, Statuses
<1>7. ASSUME NEW r \in Runs, NEW k \in Containers, NEW at, NEW next \in PCs, NEW step \in Steps,
             CreateContainer(r, k, at, next, step)
      PROVE  TypeOK'
  <2>1. ctr' \in [Runs -> [Containers -> Statuses]] /\ net' = net /\ joined' = joined /\ conf' = conf
    <3>1. ctr' = ctr \/ Status(r, k, "created")
      BY <1>7 DEF CreateContainer
    <3>2. ctr' \in [Runs -> [Containers -> Statuses]]
      BY <3>1, StatusSet DEF TypeOK, Statuses
    <3> QED BY <1>7, <3>2 DEF CreateContainer
  <2>2. UNCHANGED StartRest /\ faults' \in 0 .. MaxTroubles
    BY <1>7, BoundsKept DEF CreateContainer, StartRest
  <2>3. \/ \E s \in PCs : Goto(r, s) /\ UNCHANGED <<todo, outcome>>
        \/ \E s \in Steps : GiveUp(r, s)
    BY <1>7 DEF CreateContainer
  <2> QED BY <2>1, <2>2, <2>3, StartTypes DEF TypeOK
<1>8. ASSUME NEW r \in Runs, NEW k \in Containers, NEW on, NEW at, NEW next \in PCs, NEW step \in Steps,
             StartContainer(r, k, on, at, next, step)
      PROVE  TypeOK'
  <2>1. ctr' \in [Runs -> [Containers -> Statuses]] /\ net' = net /\ joined' = joined /\ conf' = conf
    <3>1. ctr' = ctr \/ Status(r, k, "running")
      BY <1>8 DEF StartContainer
    <3>2. ctr' \in [Runs -> [Containers -> Statuses]]
      BY <3>1, StatusSet DEF TypeOK, Statuses
    <3> QED BY <1>8, <3>2 DEF StartContainer
  <2>2. UNCHANGED StartRest /\ faults' \in 0 .. MaxTroubles
    BY <1>8, BoundsKept DEF StartContainer, StartRest
  <2>3. \/ \E s \in PCs : Goto(r, s) /\ UNCHANGED <<todo, outcome>>
        \/ \E s \in Steps : GiveUp(r, s)
    BY <1>8 DEF StartContainer
  <2> QED BY <2>1, <2>2, <2>3, StartTypes DEF TypeOK
<1>9. ASSUME NEW r \in Runs, Connect(r) PROVE TypeOK'
  <2>1. <<Cmd(r, "rm", "proxy")>> \o Rollback(r, "startProxy") \in Seq(Commands)
    BY RollbackFits DEF Steps, Proper
  <2>2. faults' \in 0 .. MaxTroubles
    BY <1>9, BoundsKept DEF Connect
  <2>3. joined' \in [Runs -> BOOLEAN] /\ pc' \in [Runs -> PCs]
    BY <1>9 DEF Connect, Goto, TypeOK
  <2>4. outcome' \in [Runs -> Outcomes] /\ todo' \in [Procs -> Seq(Commands)]
    <3>1. outcome' = outcome \/ outcome' = [outcome EXCEPT ![r] = "notStarted"]
      BY <1>9 DEF Connect
    <3>2. \/ todo' = todo
          \/ todo' = [todo EXCEPT ![r] = <<Cmd(r, "rm", "proxy")>> \o Rollback(r, "startProxy")]
      BY <1>9 DEF Connect
    <3>3. outcome' \in [Runs -> Outcomes]
      BY <3>1 DEF TypeOK, Outcomes
    <3>4. todo' \in [Procs -> Seq(Commands)]
      BY <2>1, <3>2 DEF TypeOK, Procs
    <3> QED BY <3>3, <3>4
  <2> QED BY <1>9, <2>2, <2>3, <2>4 DEF Connect, TypeOK, alarms, stopCmd, history
<1>10. ASSUME NEW r \in Runs, AwaitSquid(r) PROVE TypeOK'
  <2>1. UNCHANGED docker
    BY <1>10 DEF AwaitSquid
  <2>2. UNCHANGED StartRest /\ faults' \in 0 .. MaxTroubles
    BY <1>10, BoundsKept DEF AwaitSquid, StartRest, docker
  <2>3. \/ \E s \in PCs : Goto(r, s) /\ UNCHANGED <<todo, outcome>>
        \/ \E step \in Steps : GiveUp(r, step)
    BY <1>10 DEF AwaitSquid, Steps
  <2> QED BY <2>1, <2>2, <2>3, StartTypes DEF TypeOK, Statuses, docker
<1>11. ASSUME NEW r \in Runs, SetUp(r) PROVE TypeOK'
  BY <1>11, BoundsKept DEF SetUp, Goto, TypeOK, docker, alarms, stopCmd, history, Outcomes
<1>12. ASSUME NEW r \in Runs, NEW a \in Causes, Alarm(r, a) PROVE TypeOK'
  BY <1>12 DEF Alarm, TypeOK, docker, stopCmd, bounds, history
<1>13. ASSUME NEW r \in Runs, NEW a \in Causes, Kill(r, a) PROVE TypeOK'
  <2>1. Cmd(r, "stop", "agent") \in Commands
    BY DEF Cmd, Commands, Containers
  <2>2. /\ ctr' \in [Runs -> [Containers -> Statuses]] /\ net' \in [Runs -> SUBSET Networks]
        /\ conf' \in [Runs -> BOOLEAN] /\ joined' = joined /\ exit' \in [Runs -> {0, 1}]
    BY <1>13, <2>1, DoTypes DEF Kill, docker, TypeOK, Statuses
  <2>3. faults' \in 0 .. MaxTroubles
    BY <1>13, BoundsKept DEF Kill
  <2> QED BY <1>13, <2>2, <2>3 DEF Kill, TypeOK, stopCmd, history, Statuses
<1>14. ASSUME NEW r \in Runs, WaitReturns(r) PROVE TypeOK'
  <2>1. exit' \in [Runs -> {0, 1}]
    BY <1>14 DEF WaitReturns, TypeOK
  <2> QED BY <1>14, <2>1 DEF WaitReturns, Goto, TypeOK, alarms, stopCmd, bounds, history
<1>15. ASSUME NEW r \in Runs, Judge(r) PROVE TypeOK'
  <2>1. outcome' \in [Runs -> Outcomes]
    BY <1>15, VerdictType DEF Judge, TypeOK, Outcomes
  <2> QED BY <1>15, <2>1, BoundsKept DEF Judge, Goto, TypeOK, docker, alarms, stopCmd, history
<1>16. ASSUME NEW r \in Runs, Flush(r) PROVE TypeOK'
  <2>1. StopList(r) \in Seq(Commands)
    BY StopListFits DEF Proper
  <2>2. todo' \in [Procs -> Seq(Commands)] /\ faults' \in 0 .. MaxTroubles
    BY <1>16, <2>1, BoundsKept DEF Flush, TypeOK, Procs
  <2>3. netLogged' \in [Runs -> BOOLEAN]
    BY <1>16 DEF Flush, TypeOK
  <2> QED BY <1>16, <2>2, <2>3 DEF Flush, Goto, TypeOK, docker, alarms, stopCmd, history
<1>17. ASSUME NEW r \in Runs, Return(r) PROVE TypeOK'
  BY <1>17 DEF Return, Goto, TypeOK, docker, stopCmd, bounds, history
<1>18. ASSUME NEW p \in Procs, RunRemoval(p) PROVE TypeOK'
  <2>1. Head(todo[p]) \in Commands /\ Tail(todo[p]) \in Seq(Commands)
    BY <1>18, TailKeeps DEF RunRemoval, TypeOK
  <2>2. /\ ctr' \in [Runs -> [Containers -> Statuses]] /\ net' \in [Runs -> SUBSET Networks]
        /\ conf' \in [Runs -> BOOLEAN] /\ joined' = joined /\ exit' \in [Runs -> {0, 1}]
    BY <1>18, <2>1, DoTypes DEF RunRemoval, docker, TypeOK, Statuses
  <2>3. faults' \in 0 .. MaxTroubles /\ failed' \in [Procs -> BOOLEAN]
    <3>1. \/ failed' = failed
          \/ failed' = [failed EXCEPT ![p] = @ \/ Counts(p, Head(todo[p]))]
      BY <1>18 DEF RunRemoval
    <3>2. failed' \in [Procs -> BOOLEAN]
      BY <3>1 DEF TypeOK
    <3> QED BY <1>18, <3>2, BoundsKept DEF RunRemoval
  <2>4. todo' \in [Procs -> Seq(Commands)]
    BY <1>18, <2>1 DEF RunRemoval, TypeOK
  <2> QED BY <1>18, <2>2, <2>3, <2>4 DEF RunRemoval, TypeOK, alarms, stopCmd, history, Statuses
<1>19. ASSUME NEW r \in Runs, AgentExits(r) PROVE TypeOK'
  <2>1. ctr' \in [Runs -> [Containers -> Statuses]] /\ exit' \in [Runs -> {0, 1}]
    BY <1>19 DEF AgentExits, Status, TypeOK, Statuses, Containers
  <2> QED BY <1>19, <2>1 DEF AgentExits, TypeOK, alarms, stopCmd, bounds, history, Statuses
<1>20. ASSUME NEW r \in Runs, ProxyExits(r) PROVE TypeOK'
  <2>1. ctr' \in [Runs -> [Containers -> Statuses]]
    BY <1>20 DEF ProxyExits, Status, TypeOK, Statuses, Containers
  <2> QED BY <1>20, <2>1, BoundsKept DEF ProxyExits, TypeOK, alarms, stopCmd, history, Statuses
<1>21. ASSUME NEW S, Die(S)
       PROVE  /\ pc' \in [Runs -> PCs] /\ listed' \in [Runs -> SUBSET Runs]
              /\ todo' \in [Procs -> Seq(Commands)] /\ killing' \in [Runs -> SUBSET Causes]
              /\ crashes' \in 0 .. MaxTroubles /\ \A r \in Runs : killing'[r] \subseteq rung[r]
  BY <1>21, BoundsKept, NothingListed DEF Die, TypeOK
<1>22. ASSUME NEW r \in Runs, Crash(r) PROVE TypeOK'
  <2>1. Die({r})
    BY <1>22 DEF Crash
  <2> QED BY <1>22, <2>1, <1>21 DEF Crash, TypeOK, docker, stopCmd, history
<1>23. ASSUME Reboot PROVE TypeOK'
  <2>1. Die({r \in Runs : Alive(r)} \union {Operator})
    BY <1>23 DEF Reboot
  <2>2. ctr' \in [Runs -> [Containers -> Statuses]]
    BY <1>23 DEF Reboot, TypeOK, Statuses
  <2>3. failed' \in [Procs -> BOOLEAN]
    BY <1>23 DEF Reboot, TypeOK, Procs
  <2> QED BY <1>23, <2>1, <2>2, <2>3, <1>21 DEF Reboot, TypeOK, stopCmd, history, Statuses
<1>24. ASSUME NEW v \in Runs, OperatorStop(v) PROVE TypeOK'
  <2>1. RemoveByName(v) \in Seq(Commands)
    BY NameList DEF Proper
  <2>2. todo' \in [Procs -> Seq(Commands)] /\ stopRun' \in Runs \union {NoRun} /\ stopUp' \in BOOLEAN
    BY <1>24, <2>1 DEF OperatorStop, TypeOK, Procs
  <2> QED BY <1>24, <2>2 DEF OperatorStop, TypeOK, docker, alarms, bounds, history
<1>25. ASSUME UNCHANGED vars PROVE TypeOK'
  BY <1>25 DEF vars, TypeOK, docker, alarms, stopCmd, bounds, history
<1>26. ASSUME NEW r \in Runs, Owner(r) PROVE TypeOK'
  <2> USE DEF Containers, Steps
  <2>1. CASE CreateProxy(r) \/ CreateAgent(r)
    BY <2>1, <1>7 DEF CreateProxy, CreateAgent
  <2>2. CASE StartProxy(r) \/ StartAgent(r)
    BY <2>2, <1>8 DEF StartProxy, StartAgent
  <2>3. CASE RunRemoval(r)
    BY <2>3, <1>18 DEF Procs
  <2> QED BY <1>26, <2>1, <2>2, <2>3, <1>1, <1>2, <1>3, <1>4, <1>5, <1>6, <1>9, <1>10, <1>11,
             <1>14, <1>15, <1>16, <1>17 DEF Owner
<1>27. CASE Next
  <2>1. Operator \in Procs
    BY DEF Procs
  <2> QED BY <1>27, <2>1, <1>12, <1>13, <1>18, <1>19, <1>20, <1>22, <1>23, <1>24, <1>25, <1>26
             DEF Next, AllOver
<1> QED BY <1>25, <1>27

\* The types hold at first.
LEMMA TypeInit == Init => TypeOK
<1> SUFFICES ASSUME Init PROVE TypeOK
  OBVIOUS
<1>1. todo \in [Procs -> Seq(Commands)]
  BY NothingListed DEF Init
<1>2. faults \in 0 .. MaxTroubles /\ crashes \in 0 .. MaxTroubles
  BY SandboxAssumption DEF Init
<1>3. ctr \in [Runs -> [Containers -> {"absent", "created", "running", "exited"}]]
  BY DEF Init
<1>4. pc \in [Runs -> PCs] /\ outcome \in [Runs -> Outcomes]
  BY DEF Init, PCs, Outcomes
<1> QED BY <1>1, <1>2, <1>3, <1>4 DEF Init, TypeOK

---------------------------------------------------------------------------
(***************************************************************************)
(* What is reported of a run that was killed                               *)
(***************************************************************************)
Reported == {"unwind", "flush", "teardown", "over", "dead"}
\* A run is reported to have ended by itself only once no cause has been
\* announced and none can be any more; whoever fells it announces a cause first.
Killed ==
  \A r \in Runs :
    /\ felled[r] => rung[r] # {}
    /\ outcome[r] # "none" => pc[r] \in Reported
    /\ outcome[r] \in {"finished", "incomplete", "failed"} => rung[r] = {}

\* A step of Start or of cmdRun that ends no run and fells none.
LEMMA KilledGoto ==
  ASSUME TypeOK, Killed, NEW r \in Runs, NEW s \in PCs, Goto(r, s),
         pc[r] \in Reported => s \in Reported, UNCHANGED <<outcome, rung, felled>>
  PROVE  Killed'
BY DEF Killed, Goto, TypeOK

\* A run that gives up starting has its outcome with that.
LEMMA KilledGiveUp ==
  ASSUME TypeOK, Killed, NEW r \in Runs, NEW step, GiveUp(r, step), UNCHANGED <<rung, felled>>
  PROVE  Killed'
BY DEF Killed, GiveUp, Goto, TypeOK, Reported

\* Every step of Start.
LEMMA KilledStart ==
  ASSUME TypeOK, Killed, NEW r \in Runs, pc[r] \notin Reported, UNCHANGED alarms,
         \/ \E s \in PCs : Goto(r, s) /\ UNCHANGED outcome
         \/ \E step : GiveUp(r, step)
  PROVE  Killed'
BY KilledGoto, KilledGiveUp DEF alarms

\* A run that is felled is reported so, after every step.
LEMMA KilledStep ==
  ASSUME TypeOK, Killed, [Next]_vars
  PROVE  Killed'
<1> USE DEF PCs
<1>1. ASSUME NEW r \in Runs, List(r) PROVE Killed'
  BY <1>1, KilledGoto DEF List, Reported, alarms
<1>2. ASSUME NEW r \in Runs, NEW v \in Runs, Sweep(r, v) PROVE Killed'
  BY <1>2 DEF Sweep, Killed, alarms
<1>3. ASSUME NEW r \in Runs, Swept(r) PROVE Killed'
  BY <1>3, KilledGoto DEF Swept, Reported, alarms
<1>4. ASSUME NEW r \in Runs, CreateExtNet(r) PROVE Killed'
  BY <1>4, KilledStart DEF CreateExtNet, Reported
<1>5. ASSUME NEW r \in Runs, CreateIntNet(r) PROVE Killed'
  BY <1>5, KilledStart DEF CreateIntNet, Reported
<1>6. ASSUME NEW r \in Runs, BindAndConfigure(r) PROVE Killed'
  BY <1>6, KilledStart DEF BindAndConfigure, Reported
<1>7. ASSUME NEW r \in Runs, CreateProxy(r) \/ CreateAgent(r) PROVE Killed'
  BY <1>7, KilledStart DEF CreateProxy, CreateAgent, CreateContainer, Reported
<1>8. ASSUME NEW r \in Runs, StartProxy(r) \/ StartAgent(r) PROVE Killed'
  BY <1>8, KilledStart DEF StartProxy, StartAgent, StartContainer, Reported
<1>9. ASSUME NEW r \in Runs, Connect(r) PROVE Killed'
  <2>1. pc[r] \notin Reported /\ UNCHANGED alarms
    BY <1>9 DEF Connect, Reported
  <2>2. \/ Goto(r, "await") /\ UNCHANGED outcome
        \/ Goto(r, "unwind") /\ outcome' = [outcome EXCEPT ![r] = "notStarted"]
    BY <1>9 DEF Connect
  <2>3. CASE Goto(r, "await") /\ UNCHANGED outcome
    BY <2>1, <2>3, KilledStart
  <2>4. CASE Goto(r, "unwind") /\ outcome' = [outcome EXCEPT ![r] = "notStarted"]
    BY <2>1, <2>4 DEF Killed, Goto, TypeOK, Reported, alarms
  <2> QED BY <2>2, <2>3, <2>4
<1>10. ASSUME NEW r \in Runs, AwaitSquid(r) PROVE Killed'
  BY <1>10, KilledStart DEF AwaitSquid, Reported
<1>11. ASSUME NEW r \in Runs, SetUp(r) PROVE Killed'
  <2>1. pc[r] \notin Reported /\ UNCHANGED alarms
    BY <1>11 DEF SetUp, Reported
  <2>2. \/ Goto(r, "wait") /\ UNCHANGED outcome
        \/ Goto(r, "flush") /\ outcome' = [outcome EXCEPT ![r] = "noListener"]
    BY <1>11 DEF SetUp
  <2>3. CASE Goto(r, "wait") /\ UNCHANGED outcome
    BY <2>1, <2>3, KilledStart
  <2>4. CASE Goto(r, "flush") /\ outcome' = [outcome EXCEPT ![r] = "noListener"]
    BY <2>1, <2>4 DEF Killed, Goto, TypeOK, Reported, alarms
  <2> QED BY <2>2, <2>3, <2>4
<1>12. ASSUME NEW r \in Runs, NEW a \in Causes, Alarm(r, a) PROVE Killed'
  <2>1. rung' = [rung EXCEPT ![r] = @ \union {a}] /\ UNCHANGED <<pc, outcome, felled>>
    BY <1>12 DEF Alarm
  <2>2. outcome[r] = "none"
    BY <1>12 DEF Alarm, Killed, Reported
  <2> QED BY <2>1, <2>2 DEF Killed, TypeOK
<1>13. ASSUME NEW r \in Runs, NEW a \in Causes, Kill(r, a) PROVE Killed'
  <2>1. a \in rung[r]
    BY <1>13 DEF Kill, TypeOK
  <2>2. UNCHANGED <<pc, rung, outcome>> /\ (felled' = felled \/ felled' = [felled EXCEPT ![r] = TRUE])
    BY <1>13 DEF Kill
  <2> QED BY <2>1, <2>2 DEF Killed, TypeOK
<1>14. ASSUME NEW r \in Runs, WaitReturns(r) PROVE Killed'
  BY <1>14, KilledGoto DEF WaitReturns, Reported, alarms
<1>15. ASSUME NEW r \in Runs, Judge(r) PROVE Killed'
  <2>1. /\ pc' = [pc EXCEPT ![r] = "flush"] /\ UNCHANGED <<rung, felled>>
    BY <1>15 DEF Judge, Goto, alarms
  <2>2. \E o \in Outcomes : /\ outcome' = [outcome EXCEPT ![r] = o]
                            /\ o \in {"finished", "incomplete", "failed"} => rung[r] = {}
    <3>1. CASE Verdict(r) = 0
      BY <1>15, <3>1, VerdictType DEF Judge, Outcomes
    <3>2. CASE Verdict(r) # 0
      BY <1>15, <3>2, VerdictType DEF Judge, Outcomes, Causes
    <3> QED BY <3>1, <3>2
  <2> QED BY <2>1, <2>2 DEF Killed, TypeOK, Reported
<1>16. ASSUME NEW r \in Runs, Flush(r) PROVE Killed'
  BY <1>16, KilledGoto DEF Flush, Reported, alarms
<1>17. ASSUME NEW r \in Runs, Return(r) PROVE Killed'
  BY <1>17, KilledGoto DEF Return, Reported
<1>18. ASSUME NEW p \in Procs, RunRemoval(p) PROVE Killed'
  BY <1>18 DEF RunRemoval, Killed, alarms
<1>19. ASSUME NEW r \in Runs, AgentExits(r) \/ ProxyExits(r) PROVE Killed'
  BY <1>19 DEF AgentExits, ProxyExits, Killed, alarms
<1>20. ASSUME NEW r \in Runs, Crash(r) PROVE Killed'
  BY <1>20 DEF Crash, Die, Killed, Reported
<1>21. ASSUME Reboot PROVE Killed'
  BY <1>21 DEF Reboot, Die, Killed, Reported
<1>22. ASSUME NEW v \in Runs, OperatorStop(v) PROVE Killed'
  BY <1>22 DEF OperatorStop, Killed, alarms
<1>23. ASSUME UNCHANGED vars PROVE Killed'
  BY <1>23 DEF vars, Killed, alarms
<1>24. ASSUME NEW r \in Runs, Owner(r) PROVE Killed'
  BY <1>24, <1>1, <1>2, <1>3, <1>4, <1>5, <1>6, <1>7, <1>8, <1>9, <1>10, <1>11, <1>14, <1>15,
     <1>16, <1>17, <1>18 DEF Owner, Procs
<1>25. CASE Next
  BY <1>25, <1>12, <1>13, <1>18, <1>19, <1>20, <1>21, <1>22, <1>23, <1>24 DEF Next, AllOver, Procs
<1> QED BY <1>23, <1>25

---------------------------------------------------------------------------
(***************************************************************************)
(* Who removes what, and when                                              *)
(***************************************************************************)
Removing == {"sweep", "unwind", "teardown"}
Ended    == {"over", "dead"}
\* Start has not ended.
Starting == {"extNet", "intNet", "bind", "createProxy", "startProxy", "connect", "await",
             "createAgent", "startAgent"}

\* Removals are under way only at three stages; those of a sweep are of runs
\* that were caught starting or had ended, all others of the process's own run.
OrdersOf(r) ==
  /\ todo[r] # <<>> => pc[r] \in Removing
  /\ listed[r] # {} => pc[r] = "sweep"
  /\ listed[r] \subseteq caught \union corpses[r]
  /\ pc[r] = "sweep" => Concerns(todo[r], caught \union corpses[r])
  /\ pc[r] # "sweep" => Concerns(todo[r], {r})
Orders ==
  /\ \A p \in Procs : NetsLast(todo[p])
  /\ \A r \in Runs : OrdersOf(r)
  /\ Concerns(todo[Operator], {stopRun})

\* Runs that were dead when they were listed stay so.
Buried ==
  \A r \in Runs :
    /\ pc[r] = "idle" => corpses[r] = {}
    /\ r \notin corpses[r]
    /\ \A v \in corpses[r] : pc[v] \in Ended

\* `constle stop` comes after the first network, and after Start if it found it ended.
StopLate ==
  stopRun # NoRun => /\ pc[stopRun] \notin {"idle", "sweep", "extNet"}
                     /\ stopUp => pc[stopRun] \notin Starting

\* What a run has made at each stage of Start.
MadeAt(stage, proxy, agent, result) ==
  /\ stage \in {"idle", "sweep", "extNet", "intNet", "bind", "createProxy"} => proxy = "absent"
  /\ stage = "startProxy" => proxy \in {"absent", "created"}
  /\ stage \in {"idle", "sweep"} \union (Starting \ {"startAgent"}) => agent = "absent"
  /\ stage \in {"startAgent", "unwind"} => agent \in {"absent", "created"}
  /\ stage = "unwind" => result = "notStarted"
Made == \A r \in Runs : MadeAt(pc[r], ctr[r]["proxy"], ctr[r]["agent"], outcome[r])

Course == TypeOK /\ Orders /\ Buried /\ StopLate /\ Made

\* A list concerns more runs than it has to.
LEMMA ConcernsMore ==
  ASSUME NEW s, NEW S, NEW T, Concerns(s, S), S \subseteq T
  PROVE  Concerns(s, T)
BY DEF Concerns

\* The operator is no run, and NoRun is none.
LEMMA Apart == Operator \notin Runs /\ NoRun \notin Runs /\ Operator \in Procs /\ Runs \subseteq Procs
BY SandboxAssumption DEF Procs

\* The removal at the head of a list, done or failed.
LEMMA RemovalDone ==
  ASSUME TypeOK, NEW p \in Procs, RunRemoval(p)
  PROVE  \E c \in Commands :
           /\ todo[p] # <<>> /\ c = Head(todo[p])
           /\ todo' = [todo EXCEPT ![p] = Tail(@)]
           /\ \A v \in Runs, k \in Containers :
                \/ ctr'[v][k] = ctr[v][k]
                \/ /\ v = c.run /\ k = c.what
                   /\ \/ ctr'[v][k] = "absent"
                      \/ ctr[v][k] = "running" /\ ctr'[v][k] = "exited"
           /\ \A v \in Runs : /\ net'[v] \subseteq net[v]
                              /\ v # c.run => net'[v] = net[v]
                              /\ conf'[v] => conf[v]
           /\ joined' = joined
           /\ faults' = 0 => faults = 0
           /\ \/ faults' = 0 \/ (p \in Runs /\ pc[p] = "teardown" /\ ~failed'[p]) \/ (p = Operator /\ ~failed'[p])
              => /\ c.op = "rm" => ctr'[c.run][c.what] = "absent"
                 /\ c.op = "net" /\ ~InUse(c.run, c.what) => c.what \notin net'[c.run]
           /\ c.op = "conf" => ~conf'[c.run]
           /\ \A q \in Procs : ~failed'[q] => ~failed[q]
<1> DEFINE c == Head(todo[p])
<1>1. todo[p] # <<>> /\ todo' = [todo EXCEPT ![p] = Tail(@)]
  BY DEF RunRemoval
<1>2. c \in Commands
  BY <1>1, TailKeeps DEF TypeOK
<1>3. \/ CanDo(c) /\ Do(c) /\ NoFault /\ failed' = failed
      \/ /\ IF CanDo(c) THEN c.op # "conf" /\ FaultOf(p) ELSE NoFault
         /\ failed' = [failed EXCEPT ![p] = @ \/ Counts(p, c)]
         /\ UNCHANGED docker
  BY DEF RunRemoval
<1> HIDE DEF c
<1>4. faults \in Nat /\ ctr \in [Runs -> [Containers -> Statuses]] /\ failed \in [Procs -> BOOLEAN]
      /\ net \in [Runs -> SUBSET Networks] /\ conf \in [Runs -> BOOLEAN]
  BY SandboxAssumption DEF TypeOK, Statuses
<1>5. faults' = 0 => faults = 0
  <2>1. faults' = faults \/ faults' = faults + 1
    BY <1>3 DEF NoFault, FaultOf, Fault
  <2> QED BY <2>1, <1>4
<1>6. CASE CanDo(c) /\ Do(c) /\ NoFault /\ failed' = failed
  <2>1. ctr' = IF c.op \notin {"stop", "rm"} THEN ctr
            ELSE [ctr EXCEPT ![c.run][c.what] =
                    IF c.op = "rm" THEN "absent" ELSE IF @ = "running" THEN "exited" ELSE @]
    BY <1>6 DEF Do
  <2>2. \A v \in Runs, k \in Containers :
                \/ ctr'[v][k] = ctr[v][k]
                \/ /\ v = c.run /\ k = c.what
                   /\ \/ ctr'[v][k] = "absent"
                      \/ ctr[v][k] = "running" /\ ctr'[v][k] = "exited"
    <3>1. CASE c.op \notin {"stop", "rm"}
      BY <2>1, <3>1
    <3>2. CASE c.op = "rm"
      BY <2>1, <3>2, <1>4
    <3>3. CASE c.op = "stop"
      BY <2>1, <3>3, <1>4
    <3> QED BY <3>1, <3>2, <3>3
  <2>3. c.op = "rm" => ctr'[c.run][c.what] = "absent"
    BY <2>1, <1>2, <1>4, CommandShape
  <2>4. net' = IF c.op = "net" THEN [net EXCEPT ![c.run] = @ \ {c.what}] ELSE net
    BY <1>6 DEF Do
  <2>5. \A v \in Runs : net'[v] \subseteq net[v] /\ (v # c.run => net'[v] = net[v])
    BY <2>4, <1>4
  <2>6. c.op = "net" => c.what \notin net'[c.run]
    BY <2>4, <1>2, <1>4, CommandShape
  <2>7. conf' = IF c.op = "conf" THEN [conf EXCEPT ![c.run] = FALSE] ELSE conf
    BY <1>6 DEF Do
  <2>8. (\A v \in Runs : conf'[v] => conf[v]) /\ (c.op = "conf" => ~conf'[c.run])
    BY <2>7, <1>2, <1>4, CommandShape
  <2>9. joined' = joined /\ \A q \in Procs : ~failed'[q] => ~failed[q]
    BY <1>6 DEF Do
  <2> QED BY <1>1, <1>2, <1>5, <2>2, <2>3, <2>5, <2>6, <2>8, <2>9 DEF c
<1>7. CASE /\ IF CanDo(c) THEN c.op # "conf" /\ FaultOf(p) ELSE NoFault
           /\ failed' = [failed EXCEPT ![p] = @ \/ Counts(p, c)]
           /\ UNCHANGED docker
  <2>1. ctr' = ctr /\ net' = net /\ conf' = conf /\ joined' = joined
    BY <1>7 DEF docker
  <2>2. faults' = 0 => ~CanDo(c)
    <3>1. FaultOf(p) => faults' = faults + 1
      BY DEF FaultOf, Fault
    <3> QED BY <1>7, <3>1, <1>4
  <2>3. ~failed'[p] => ~Counts(p, c)
    BY <1>7, <1>4
  <2>4. \A q \in Procs : ~failed'[q] => ~failed[q]
    BY <1>7, <1>4
  <2>5. c.op = "conf" => ~conf'[c.run]
    BY <1>7, <2>1 DEF CanDo, Exists
  <2>6. ~CanDo(c) => /\ c.op = "rm" => ctr[c.run][c.what] = "absent"
                     /\ c.op = "net" /\ ~InUse(c.run, c.what) => c.what \notin net[c.run]
    BY DEF CanDo, Exists
  <2>7. p \in Runs /\ pc[p] = "teardown" /\ ~failed'[p] => c.op = "conf"
    BY <2>3, Apart DEF Counts
  <2>8. p = Operator /\ ~failed'[p] => ~CanDo(c)
    BY <2>3 DEF Counts, CanDo
  <2> QED BY <1>1, <1>2, <1>5, <2>1, <2>2, <2>4, <2>5, <2>6, <2>7, <2>8 DEF c
<1> QED BY <1>3, <1>6, <1>7

\* A stage of a run's own: on to the next with nothing left to remove, or to a
\* removal of what it made.
OwnStep(r, s) ==
  /\ pc' = [pc EXCEPT ![r] = s] /\ s \in PCs \ {"idle", "sweep", "dead"}
  /\ pc[r] \notin Ended \union {"idle"}
  /\ s = "extNet" => pc[r] = "sweep"
  /\ s \in Starting => pc[r] \in Starting \union {"sweep"}
  /\ UNCHANGED <<listed, stopCmd, history>>
  /\ \/ todo[r] = <<>> /\ listed[r] = {} /\ todo' = todo
     \/ /\ s \in {"unwind", "teardown"} /\ pc[r] # "sweep"
        /\ \E list : Proper(list, r) /\ todo' = [todo EXCEPT ![r] = list]

\* Such a step keeps what is said of removals.
LEMMA OwnStepKeeps ==
  ASSUME Course, NEW r \in Runs, NEW s, OwnStep(r, s)
  PROVE  Orders' /\ Buried' /\ StopLate'
<1> USE Apart
<1>1. /\ pc' = [pc EXCEPT ![r] = s] /\ s \in PCs \ {"idle", "sweep", "dead"}
      /\ pc[r] \notin Ended \union {"idle"} /\ UNCHANGED <<listed, stopCmd, history>>
      /\ s = "extNet" => pc[r] = "sweep"
      /\ s \in Starting => pc[r] \in Starting \union {"sweep"}
      /\ pc \in [Runs -> PCs] /\ todo \in [Procs -> Seq(Commands)]
  BY DEF OwnStep, Course, TypeOK
<1>2. Buried'
  BY <1>1 DEF Course, Buried, history, Ended
<1>3. StopLate'
  BY <1>1 DEF Course, StopLate, stopCmd, Starting
<1>4. listed[r] = {} /\ caught' = caught /\ corpses' = corpses /\ stopRun' = stopRun /\ listed' = listed
  BY <1>1 DEF OwnStep, Course, Orders, OrdersOf, history, stopCmd
<1>5. CASE todo[r] = <<>> /\ todo' = todo
  <2>1. \A v \in Runs : v # r => OrdersOf(v)'
    BY <1>1, <1>4, <1>5 DEF Course, Orders, OrdersOf
  <2>2. OrdersOf(r)'
    BY <1>1, <1>4, <1>5, NothingListed DEF OrdersOf
  <2>3. \A v \in Runs : OrdersOf(v)'
    BY <2>1, <2>2
  <2> QED BY <1>2, <1>3, <1>4, <1>5, <2>3 DEF Course, Orders
<1>6. CASE /\ s \in {"unwind", "teardown"} /\ pc[r] # "sweep"
           /\ \E list : Proper(list, r) /\ todo' = [todo EXCEPT ![r] = list]
  <2>1. PICK list : Proper(list, r) /\ todo' = [todo EXCEPT ![r] = list]
    BY <1>6
  <2>2. todo'[r] = list /\ \A p \in Procs : p # r => todo'[p] = todo[p]
    BY <1>1, <2>1
  <2>3. \A v \in Runs : v # r => OrdersOf(v)'
    BY <1>1, <1>4, <2>2 DEF Course, Orders, OrdersOf
  <2>4. OrdersOf(r)'
    BY <1>1, <1>4, <1>6, <2>1, <2>2 DEF OrdersOf, Proper, Removing
  <2>5. \A p \in Procs : NetsLast(todo'[p])
    BY <2>1, <2>2 DEF Course, Orders, Proper
  <2>6. \A v \in Runs : OrdersOf(v)'
    BY <2>3, <2>4
  <2>7. Concerns(todo[Operator], {stopRun})'
    BY <1>4, <2>2 DEF Course, Orders
  <2> QED BY <1>2, <1>3, <2>5, <2>6, <2>7 DEF Orders
<1> QED BY <1>2, <1>3, <1>5, <1>6 DEF OwnStep

\* The removals of the given run are none of another's.
LEMMA MadeElsewhere ==
  ASSUME Course, NEW r \in Runs,
         \A v \in Runs : v # r => /\ pc'[v] = pc[v] /\ outcome'[v] = outcome[v]
                                  /\ ctr'[v] = ctr[v],
         MadeAt(pc'[r], ctr'[r]["proxy"], ctr'[r]["agent"], outcome'[r])
  PROVE  Made'
BY DEF Course, Made

\* Containers end or disappear.
Declines == \A v \in Runs, k \in Containers :
              \/ ctr'[v][k] = ctr[v][k] \/ ctr'[v][k] = "absent"
              \/ ctr[v][k] = "running" /\ ctr'[v][k] = "exited"

\* When containers only end or disappear, no stage has made too much.
LEMMA MadeDeclines ==
  ASSUME Course, Declines, UNCHANGED <<pc, outcome>>
  PROVE  Made'
<1> SUFFICES ASSUME NEW r \in Runs PROVE MadeAt(pc[r], ctr'[r]["proxy"], ctr'[r]["agent"], outcome[r])
  BY DEF Made
<1>1. MadeAt(pc[r], ctr[r]["proxy"], ctr[r]["agent"], outcome[r])
  BY DEF Course, Made
<1>2. \A k \in Containers : \/ ctr'[r][k] = ctr[r][k] \/ ctr'[r][k] = "absent"
                            \/ ctr[r][k] = "running" /\ ctr'[r][k] = "exited"
  BY DEF Declines
<1> QED BY <1>1, <1>2 DEF MadeAt, Containers

\* Every step of Start leaves a run at its next stage or unwinding.
LEMMA StartSteps ==
  ASSUME Course, NEW r \in Runs, pc[r] \in Starting, UNCHANGED StartRest,
         \/ \E s \in PCs \ {"idle", "sweep", "dead", "extNet"} : Goto(r, s) /\ UNCHANGED todo
         \/ \E step \in Steps : GiveUp(r, step)
  PROVE  Orders' /\ Buried' /\ StopLate'
<1>1. UNCHANGED <<listed, stopCmd, history>> /\ pc[r] \notin Ended \union {"idle", "sweep"}
  BY DEF StartRest, Starting, Ended
<1>2. todo[r] = <<>> /\ listed[r] = {}
  BY DEF Course, Orders, OrdersOf, Starting, Removing
<1>3. CASE \E s \in PCs \ {"idle", "sweep", "dead", "extNet"} : Goto(r, s) /\ UNCHANGED todo
  <2>1. PICK s \in PCs \ {"idle", "sweep", "dead", "extNet"} : Goto(r, s) /\ UNCHANGED todo
    BY <1>3
  <2>2. OwnStep(r, s)
    BY <1>1, <1>2, <2>1 DEF OwnStep, Goto
  <2> QED BY <2>2, OwnStepKeeps
<1>4. CASE \E step \in Steps : GiveUp(r, step)
  <2>1. OwnStep(r, "unwind")
    BY <1>1, <1>2, <1>4, RollbackFits DEF OwnStep, GiveUp, Goto, PCs, Starting
  <2> QED BY <2>1, OwnStepKeeps
<1> QED BY <1>3, <1>4

\* A removal makes nothing.
LEMMA DoDeclines ==
  ASSUME TypeOK, NEW c \in Commands, Do(c)
  PROVE  Declines
<1>1. ctr \in [Runs -> [Containers -> Statuses]]
  BY DEF TypeOK, Statuses
<1>2. ctr' = IF c.op \notin {"stop", "rm"} THEN ctr
            ELSE [ctr EXCEPT ![c.run][c.what] =
                    IF c.op = "rm" THEN "absent" ELSE IF @ = "running" THEN "exited" ELSE @]
  BY DEF Do
<1>3. CASE c.op \notin {"stop", "rm"}
  BY <1>2, <1>3 DEF Declines
<1>4. CASE c.op = "rm"
  BY <1>1, <1>2, <1>4 DEF Declines
<1>5. CASE c.op = "stop"
  BY <1>1, <1>2, <1>5 DEF Declines
<1> QED BY <1>3, <1>4, <1>5

\* Steps that leave stages and lists alone.
LEMMA OrdersSame ==
  ASSUME Course, UNCHANGED <<pc, todo, listed, stopCmd, history>>
  PROVE  Orders' /\ Buried' /\ StopLate'
BY DEF Course, Orders, OrdersOf, Buried, StopLate, stopCmd, history

\* A step to the next stage that makes nothing.
LEMMA MadeGoto ==
  ASSUME Course, NEW r \in Runs, NEW s \in PCs, Goto(r, s), UNCHANGED <<ctr, outcome>>,
         MadeAt(pc[r], ctr[r]["proxy"], ctr[r]["agent"], outcome[r])
           => MadeAt(s, ctr[r]["proxy"], ctr[r]["agent"], outcome[r])
  PROVE  Made'
BY DEF Course, Made, Goto, TypeOK

\* A failure of Start that makes nothing.
LEMMA MadeGiveUp ==
  ASSUME Course, NEW r \in Runs, NEW step \in Steps, GiveUp(r, step), UNCHANGED ctr,
         ctr[r]["agent"] \in {"absent", "created"}
  PROVE  Made'
<1>1. /\ pc' = [pc EXCEPT ![r] = "unwind"] /\ outcome' = [outcome EXCEPT ![r] = "notStarted"]
      /\ pc \in [Runs -> PCs] /\ outcome \in [Runs -> Outcomes]
  BY DEF GiveUp, Goto, Course, TypeOK
<1>2. MadeAt("unwind", ctr[r]["proxy"], ctr[r]["agent"], "notStarted")
  BY DEF MadeAt, Starting
<1> QED BY <1>1, <1>2, MadeElsewhere

\* While Start goes on, its agent has not run.
LEMMA NoAgentYet ==
  ASSUME Course, NEW r \in Runs, pc[r] \in Starting
  PROVE  /\ ctr[r]["agent"] \in {"absent", "created"}
         /\ pc[r] # "startAgent" => ctr[r]["agent"] = "absent"
BY DEF Course, Made, MadeAt, Starting

\* The steps of Start that make no container.
LEMMA CourseCreate ==
  ASSUME Course, NEW r \in Runs,
         CreateExtNet(r) \/ CreateIntNet(r) \/ BindAndConfigure(r) \/ AwaitSquid(r)
  PROVE  Orders' /\ Buried' /\ StopLate' /\ Made'
<1>1. \E s \in {"intNet", "bind", "createProxy", "createAgent"}, step \in Steps :
        /\ pc[r] \in {"extNet", "intNet", "bind", "await"}
        /\ s = "intNet" => pc[r] = "extNet"
        /\ s = "bind" => pc[r] = "intNet"
        /\ s = "createProxy" => pc[r] = "bind"
        /\ s = "createAgent" => pc[r] = "await"
        /\ UNCHANGED StartRest /\ UNCHANGED ctr
        /\ (Goto(r, s) /\ UNCHANGED <<todo, outcome>>) \/ GiveUp(r, step)
  <2>1. CASE CreateExtNet(r)
    BY <2>1 DEF CreateExtNet, StartRest, Steps
  <2>2. CASE CreateIntNet(r)
    BY <2>2 DEF CreateIntNet, StartRest, Steps
  <2>3. CASE BindAndConfigure(r)
    BY <2>3 DEF BindAndConfigure, StartRest, Steps
  <2>4. CASE AwaitSquid(r)
    BY <2>4 DEF AwaitSquid, StartRest, Steps, docker
  <2> QED BY <2>1, <2>2, <2>3, <2>4
<1>2. PICK s \in {"intNet", "bind", "createProxy", "createAgent"}, step \in Steps :
        /\ pc[r] \in {"extNet", "intNet", "bind", "await"}
        /\ s = "intNet" => pc[r] = "extNet"
        /\ s = "bind" => pc[r] = "intNet"
        /\ s = "createProxy" => pc[r] = "bind"
        /\ s = "createAgent" => pc[r] = "await"
        /\ UNCHANGED StartRest /\ UNCHANGED ctr
        /\ (Goto(r, s) /\ UNCHANGED <<todo, outcome>>) \/ GiveUp(r, step)
  BY <1>1
<1>3. pc[r] \in Starting /\ s \in PCs \ {"idle", "sweep", "dead", "extNet"}
  BY <1>2 DEF Starting, PCs
<1>4. Orders' /\ Buried' /\ StopLate'
  BY <1>2, <1>3, StartSteps
<1>5. Made'
  <2>1. CASE GiveUp(r, step)
    BY <1>2, <1>3, <2>1, NoAgentYet, MadeGiveUp
  <2>2. CASE Goto(r, s) /\ UNCHANGED <<todo, outcome>>
    <3>1. MadeAt(pc[r], ctr[r]["proxy"], ctr[r]["agent"], outcome[r])
           => MadeAt(s, ctr[r]["proxy"], ctr[r]["agent"], outcome[r])
      BY <1>2 DEF MadeAt, Starting
    <3> QED BY <1>2, <1>3, <2>2, <3>1, MadeGoto
  <2> QED BY <1>2, <2>1, <2>2
<1> QED BY <1>4, <1>5

\* The steps that create and start the containers.
LEMMA CourseContainer ==
  ASSUME Course, NEW r \in Runs,
         CreateProxy(r) \/ CreateAgent(r) \/ StartProxy(r) \/ StartAgent(r)
  PROVE  Orders' /\ Buried' /\ StopLate' /\ Made'
<1> DEFINE Moves(at, next, step, k, s) ==
        /\ pc[r] = at
        /\ UNCHANGED StartRest
        /\ \/ Goto(r, next) /\ Status(r, k, s) /\ UNCHANGED <<todo, outcome>>
           \/ GiveUp(r, step) /\ UNCHANGED ctr
<1>1. \/ Moves("createProxy", "startProxy", "startProxy", "proxy", "created")
      \/ Moves("createAgent", "startAgent", "startAgent", "agent", "created")
      \/ Moves("startProxy", "connect", "startProxy", "proxy", "running")
      \/ Moves("startAgent", "up", "startAgent", "agent", "running")
  BY DEF CreateProxy, CreateAgent, StartProxy, StartAgent, CreateContainer, StartContainer, StartRest
<1>2. ASSUME NEW at \in Starting, NEW next \in PCs \ {"idle", "sweep", "dead", "extNet"},
             NEW step \in Steps, NEW k \in Containers, NEW s \in Statuses,
             Moves(at, next, step, k, s),
             MadeAt(at, ctr[r]["proxy"], ctr[r]["agent"], outcome[r])
               => MadeAt(next, IF k = "proxy" THEN s ELSE ctr[r]["proxy"],
                               IF k = "agent" THEN s ELSE ctr[r]["agent"], outcome[r])
      PROVE  Orders' /\ Buried' /\ StopLate' /\ Made'
  <2>1. Orders' /\ Buried' /\ StopLate'
    BY <1>2, StartSteps
  <2>2. CASE GiveUp(r, step) /\ UNCHANGED ctr
    BY <1>2, <2>1, <2>2, NoAgentYet, MadeGiveUp
  <2>3. CASE Goto(r, next) /\ Status(r, k, s) /\ UNCHANGED <<todo, outcome>>
    <3>1. \A v \in Runs : \A l \in Containers :
            ctr'[v][l] = IF v = r /\ l = k THEN s ELSE ctr[v][l]
      BY <1>2, <2>3, StatusSet DEF Course
    <3>2. \A v \in Runs : v # r => ctr'[v] = ctr[v]
      BY <2>3 DEF Status, Course, TypeOK
    <3>3. MadeAt(at, ctr[r]["proxy"], ctr[r]["agent"], outcome[r])
      BY <1>2 DEF Course, Made
    <3>4. /\ ctr'[r]["proxy"] = IF k = "proxy" THEN s ELSE ctr[r]["proxy"]
          /\ ctr'[r]["agent"] = IF k = "agent" THEN s ELSE ctr[r]["agent"]
      BY <3>1 DEF Containers
    <3>5. pc' = [pc EXCEPT ![r] = next] /\ outcome' = outcome /\ pc \in [Runs -> PCs]
      BY <2>3 DEF Goto, Course, TypeOK
    <3>6. MadeAt(next, ctr'[r]["proxy"], ctr'[r]["agent"], outcome[r])
      BY <1>2, <3>3, <3>4
    <3>7. Made'
      BY <3>2, <3>5, <3>6, MadeElsewhere
    <3> QED BY <2>1, <3>7
  <2> QED BY <1>2, <2>2, <2>3
<1> HIDE DEF Moves
<1>3. CASE Moves("createProxy", "startProxy", "startProxy", "proxy", "created")
  BY <1>2, <1>3 DEF Starting, PCs, Steps, Containers, Statuses, MadeAt
<1>4. CASE Moves("createAgent", "startAgent", "startAgent", "agent", "created")
  BY <1>2, <1>4 DEF Starting, PCs, Steps, Containers, Statuses, MadeAt
<1>5. CASE Moves("startProxy", "connect", "startProxy", "proxy", "running")
  BY <1>2, <1>5 DEF Starting, PCs, Steps, Containers, Statuses, MadeAt
<1>6. CASE Moves("startAgent", "up", "startAgent", "agent", "running")
  BY <1>2, <1>6 DEF Starting, PCs, Steps, Containers, Statuses, MadeAt
<1> QED BY <1>1, <1>3, <1>4, <1>5, <1>6

\* The step that joins the proxy to the internal network.
LEMMA CourseConnect ==
  ASSUME Course, NEW r \in Runs, Connect(r)
  PROVE  Orders' /\ Buried' /\ StopLate' /\ Made'
<1> DEFINE list == <<Cmd(r, "rm", "proxy")>> \o Rollback(r, "startProxy")
<1>1. /\ pc[r] = "connect" /\ UNCHANGED <<listed, stopCmd, history, ctr>>
      /\ \/ Goto(r, "await") /\ UNCHANGED <<todo, outcome>>
         \/ /\ Goto(r, "unwind") /\ todo' = [todo EXCEPT ![r] = list]
            /\ outcome' = [outcome EXCEPT ![r] = "notStarted"]
  BY DEF Connect
<1>2. Proper(list, r)
  BY RollbackFits DEF Steps
<1>3. todo[r] = <<>> /\ listed[r] = {} /\ ctr[r]["agent"] = "absent"
  BY <1>1, NoAgentYet DEF Course, Orders, OrdersOf, Starting, Removing
<1> HIDE DEF list
<1>4. CASE Goto(r, "await") /\ UNCHANGED <<todo, outcome>>
  <2>1. OwnStep(r, "await")
    BY <1>1, <1>3, <1>4 DEF OwnStep, Goto, PCs, Ended, Starting
  <2>2. Made'
    BY <1>1, <1>4, MadeGoto DEF PCs, MadeAt, Starting
  <2> QED BY <2>1, <2>2, OwnStepKeeps
<1>5. CASE /\ Goto(r, "unwind") /\ todo' = [todo EXCEPT ![r] = list]
           /\ outcome' = [outcome EXCEPT ![r] = "notStarted"]
  <2>1. OwnStep(r, "unwind")
    BY <1>1, <1>2, <1>5 DEF OwnStep, Goto, PCs, Ended, Starting
  <2>2. MadeAt("unwind", ctr[r]["proxy"], ctr[r]["agent"], "notStarted")
    BY <1>3 DEF MadeAt, Starting
  <2>3. /\ pc' = [pc EXCEPT ![r] = "unwind"] /\ pc \in [Runs -> PCs] /\ outcome \in [Runs -> Outcomes]
    BY <1>5 DEF Goto, Course, TypeOK
  <2>4. Made'
    BY <1>1, <1>5, <2>2, <2>3, MadeElsewhere
  <2> QED BY <2>1, <2>4, OwnStepKeeps
<1> QED BY <1>1, <1>4, <1>5

\* The stages after Start, and the end of a sweep.
LEMMA CourseRun ==
  ASSUME Course, NEW r \in Runs,
         Swept(r) \/ SetUp(r) \/ WaitReturns(r) \/ Judge(r) \/ Flush(r) \/ Return(r)
  PROVE  Orders' /\ Buried' /\ StopLate' /\ Made'
<1> DEFINE next == {"extNet", "wait", "flush", "judge", "teardown", "over"}
<1>1. \E s \in next :
        /\ Goto(r, s) /\ UNCHANGED <<listed, stopCmd, history, ctr>>
        /\ s = "extNet" => pc[r] = "sweep" /\ listed[r] = {} /\ todo[r] = <<>>
        /\ s \in {"wait", "judge"} => pc[r] \in {"up", "wait"}
        /\ s = "flush" => pc[r] \in {"up", "judge"}
        /\ s = "teardown" => pc[r] = "flush"
        /\ s = "over" => pc[r] \in {"unwind", "teardown"} /\ todo[r] = <<>>
        /\ IF s = "teardown" THEN todo' = [todo EXCEPT ![r] = StopList(r)] ELSE todo' = todo
        /\ \A v \in Runs : v # r => outcome'[v] = outcome[v]
  <2>1. CASE Swept(r)
    BY <2>1 DEF Swept, docker
  <2>2. CASE SetUp(r)
    BY <2>2 DEF SetUp, docker, Course, TypeOK
  <2>3. CASE WaitReturns(r)
    BY <2>3 DEF WaitReturns
  <2>4. CASE Judge(r)
    BY <2>4 DEF Judge, docker, Course, TypeOK
  <2>5. CASE Flush(r)
    BY <2>5 DEF Flush, docker
  <2>6. CASE Return(r)
    BY <2>6 DEF Return, docker
  <2> QED BY <2>1, <2>2, <2>3, <2>4, <2>5, <2>6
<1>2. PICK s \in next :
        /\ Goto(r, s) /\ UNCHANGED <<listed, stopCmd, history, ctr>>
        /\ s = "extNet" => pc[r] = "sweep" /\ listed[r] = {} /\ todo[r] = <<>>
        /\ s \in {"wait", "judge"} => pc[r] \in {"up", "wait"}
        /\ s = "flush" => pc[r] \in {"up", "judge"}
        /\ s = "teardown" => pc[r] = "flush"
        /\ s = "over" => pc[r] \in {"unwind", "teardown"} /\ todo[r] = <<>>
        /\ IF s = "teardown" THEN todo' = [todo EXCEPT ![r] = StopList(r)] ELSE todo' = todo
        /\ \A v \in Runs : v # r => outcome'[v] = outcome[v]
  BY <1>1
<1>3. s \in PCs \ {"idle", "sweep", "dead"}
  BY <1>2 DEF PCs
<1>4. OwnStep(r, s)
  <2>1. CASE s = "teardown"
    BY <1>2, <1>3, <2>1, StopListFits DEF OwnStep, Goto, Ended, Starting
  <2>2. CASE s = "extNet"
    BY <1>2, <1>3, <2>2 DEF OwnStep, Goto, Ended, Starting
  <2>3. CASE s \notin {"teardown", "extNet"}
    <3>1. pc[r] \in {"up", "wait", "judge", "unwind", "teardown"}
      BY <1>2, <2>3
    <3>2. todo[r] = <<>> /\ listed[r] = {}
      BY <1>2, <2>3, <3>1 DEF Course, Orders, OrdersOf, Removing
    <3>3. s \notin Starting
      BY <1>2, <2>3 DEF Starting
    <3> QED BY <1>2, <1>3, <2>3, <3>1, <3>2, <3>3 DEF OwnStep, Goto, Ended, Starting
  <2> QED BY <2>1, <2>2, <2>3
<1>5. Made'
  <2>1. pc'[r] = s /\ \A v \in Runs : v # r => pc'[v] = pc[v]
    BY <1>2 DEF Goto, Course, TypeOK
  <2>2. MadeAt(pc[r], ctr[r]["proxy"], ctr[r]["agent"], outcome[r])
    BY DEF Course, Made
  <2>3. MadeAt(s, ctr[r]["proxy"], ctr[r]["agent"], outcome'[r])
    BY <1>2, <2>2 DEF MadeAt, Starting
  <2> QED BY <1>2, <2>1, <2>3, MadeElsewhere
<1> QED BY <1>4, <1>5, OwnStepKeeps

\* The listing of a sweep.
LEMMA CourseList ==
  ASSUME Course, NEW r \in Runs, List(r)
  PROVE  Orders' /\ Buried' /\ StopLate' /\ Made'
<1> USE Apart
<1>1. /\ pc[r] = "idle" /\ pc' = [pc EXCEPT ![r] = "sweep"] /\ pc \in [Runs -> PCs]
      /\ UNCHANGED <<todo, stopCmd, ctr, outcome>>
      /\ listed \in [Runs -> SUBSET Runs] /\ corpses \in [Runs -> SUBSET Runs]
  BY DEF List, Goto, docker, Course, TypeOK
<1>2. todo[r] = <<>> /\ listed[r] = {} /\ corpses[r] = {}
  BY <1>1 DEF Course, Orders, OrdersOf, Buried, Removing
<1>3. \/ UNCHANGED <<listed, caught, corpses>>
      \/ /\ listed' = [listed EXCEPT ![r] = {v \in Runs : Abandoned(v)}]
         /\ caught' = caught \union {v \in Runs : Alive(v) /\ Faltering(v)}
         /\ corpses' = [corpses EXCEPT ![r] = {v \in Runs : ~Alive(v) /\ Faltering(v)}]
  BY DEF List, history
<1>4. \A v \in Runs : Faltering(v) => pc[v] # "idle"
  <2>1. \A v \in Runs : pc[v] = "idle" => ctr[v]["proxy"] = "absent" /\ ctr[v]["agent"] = "absent"
    BY DEF Course, Made, MadeAt
  <2> QED BY <2>1 DEF Faltering, Containers
<1>5. /\ listed'[r] \subseteq caught' \union corpses'[r]
      /\ \A v \in corpses'[r] : v \in Runs /\ v # r /\ pc[v] \in Ended
      /\ \A v \in Runs : v # r => listed'[v] = listed[v] /\ corpses'[v] = corpses[v]
      /\ caught \subseteq caught'
  <2>1. CASE UNCHANGED <<listed, caught, corpses>>
    BY <1>2, <2>1
  <2>2. CASE /\ listed' = [listed EXCEPT ![r] = {v \in Runs : Abandoned(v)}]
             /\ caught' = caught \union {v \in Runs : Alive(v) /\ Faltering(v)}
             /\ corpses' = [corpses EXCEPT ![r] = {v \in Runs : ~Alive(v) /\ Faltering(v)}]
    <3>1. /\ listed'[r] = {v \in Runs : Abandoned(v)}
          /\ corpses'[r] = {v \in Runs : ~Alive(v) /\ Faltering(v)}
      BY <1>1, <2>2
    <3>2. \A v \in Runs : Abandoned(v) => v \in caught' \union corpses'[r]
      BY <2>2, <3>1 DEF Abandoned
    <3>3. \A v \in corpses'[r] : v \in Runs /\ v # r /\ pc[v] \in Ended
      BY <1>1, <1>4, <3>1 DEF Alive, Ended
    <3> QED BY <1>1, <2>2, <3>1, <3>2, <3>3
  <2> QED BY <1>3, <2>1, <2>2
<1>6. \A v \in Runs : OrdersOf(v)'
  <2>1. OrdersOf(r)'
    BY <1>1, <1>2, <1>5, NothingListed DEF OrdersOf, Removing
  <2>2. ASSUME NEW v \in Runs, v # r PROVE OrdersOf(v)'
    <3>1. OrdersOf(v)
      BY DEF Course, Orders
    <3>2. caught \union corpses[v] \subseteq caught' \union corpses'[v]
      BY <1>5, <2>2
    <3>3. /\ pc'[v] = pc[v] /\ todo'[v] = todo[v] /\ listed'[v] = listed[v]
      BY <1>1, <1>5, <2>2
    <3> QED BY <3>1, <3>2, <3>3, ConcernsMore DEF OrdersOf
  <2> QED BY <2>1, <2>2
<1>7. Orders'
  BY <1>1, <1>6 DEF Course, Orders, stopCmd
<1>8. Buried'
  BY <1>1, <1>5 DEF Course, Buried, Ended
<1>9. StopLate'
  BY <1>1 DEF Course, StopLate, stopCmd, Starting
<1>10. Made'
  <2>1. MadeAt(pc[r], ctr[r]["proxy"], ctr[r]["agent"], outcome[r])
    BY DEF Course, Made
  <2> QED BY <1>1, <2>1, MadeGoto DEF MadeAt, Starting, Goto, PCs
<1> QED BY <1>7, <1>8, <1>9, <1>10

\* A sweep that takes up the next run it listed.
LEMMA CourseSweep ==
  ASSUME Course, NEW r \in Runs, NEW v \in Runs, Sweep(r, v)
  PROVE  Orders' /\ Buried' /\ StopLate' /\ Made'
<1> USE Apart
<1>1. /\ pc[r] = "sweep" /\ v \in listed[r] /\ listed' = [listed EXCEPT ![r] = @ \ {v}]
      /\ todo' = [todo EXCEPT ![r] = RemoveByName(v)]
      /\ UNCHANGED <<pc, stopRun, stopUp, ctr, outcome, caught, corpses>>
      /\ todo \in [Procs -> Seq(Commands)] /\ listed \in [Runs -> SUBSET Runs]
  BY DEF Sweep, docker, Course, TypeOK, stopCmd, history
<1>2. v \in caught \union corpses[r]
  BY <1>1 DEF Course, Orders, OrdersOf
<1>3. NetsLast(RemoveByName(v)) /\ Concerns(RemoveByName(v), caught \union corpses[r])
  <2>1. Proper(RemoveByName(v), v)
    BY NameList
  <2> QED BY <2>1, <1>2, ConcernsMore DEF Proper
<1>4. \A p \in Procs : todo'[p] = IF p = r THEN RemoveByName(v) ELSE todo[p]
  BY <1>1
<1>5. \A u \in Runs : OrdersOf(u)'
  <2>1. OrdersOf(r)'
    <3>1. listed'[r] \subseteq caught \union corpses[r]
      <4>1. OrdersOf(r)
        BY DEF Course, Orders
      <4>2. listed'[r] = listed[r] \ {v}
        BY <1>1
      <4> QED BY <4>1, <4>2 DEF OrdersOf
    <3> QED BY <1>1, <1>3, <1>4, <3>1 DEF OrdersOf, Removing
  <2>2. ASSUME NEW u \in Runs, u # r PROVE OrdersOf(u)'
    <3>1. OrdersOf(u)
      BY DEF Course, Orders
    <3>2. todo'[u] = todo[u] /\ listed'[u] = listed[u] /\ pc' = pc /\ caught' = caught /\ corpses' = corpses
      BY <1>1, <1>4, <2>2
    <3> QED BY <3>1, <3>2 DEF OrdersOf
  <2> QED BY <2>1, <2>2
<1>6. Orders'
  BY <1>1, <1>3, <1>4, <1>5 DEF Course, Orders
<1> QED BY <1>1, <1>6 DEF Course, Buried, StopLate, Made

\* A removal.
LEMMA CourseRemoval ==
  ASSUME Course, NEW p \in Procs, RunRemoval(p)
  PROVE  Orders' /\ Buried' /\ StopLate' /\ Made'
<1> USE Apart
<1>1. UNCHANGED <<pc, listed, outcome, stopRun, stopUp, caught, corpses>>
  BY DEF RunRemoval, stopCmd, history
<1>2. todo[p] # <<>> /\ todo' = [todo EXCEPT ![p] = Tail(@)] /\ todo \in [Procs -> Seq(Commands)]
  BY DEF RunRemoval, Course, TypeOK
<1>3. \A q \in Procs : todo'[q] = IF q = p THEN Tail(todo[p]) ELSE todo[q]
  BY <1>2
<1>4. /\ NetsLast(Tail(todo[p])) /\ \A S : Concerns(todo[p], S) => Concerns(Tail(todo[p]), S)
  BY <1>2, TailKeeps DEF Course, Orders
<1>5. \A r \in Runs : OrdersOf(r)'
  <2>1. ASSUME NEW r \in Runs PROVE OrdersOf(r)'
    <3>1. OrdersOf(r)
      BY DEF Course, Orders
    <3>2. CASE r = p
      <4>1. pc[r] \in Removing
        BY <1>2, <3>1, <3>2 DEF OrdersOf
      <4> QED BY <1>1, <1>3, <1>4, <3>1, <3>2, <4>1 DEF OrdersOf
    <3>3. CASE r # p
      BY <1>1, <1>3, <3>1, <3>3 DEF OrdersOf
    <3> QED BY <3>2, <3>3
  <2> QED BY <2>1
<1>6. Orders'
  <2>1. Concerns(todo'[Operator], {stopRun})
    BY <1>3, <1>4 DEF Course, Orders
  <2>2. \A q \in Procs : NetsLast(todo'[q])
    BY <1>3, <1>4 DEF Course, Orders
  <2> QED BY <1>1, <1>5, <2>1, <2>2 DEF Orders
<1>7. Buried' /\ StopLate'
  BY <1>1 DEF Course, Buried, StopLate
<1>8. Declines
  BY RemovalDone DEF Declines, Course
<1>9. Made'
  BY <1>1, <1>8, MadeDeclines
<1> QED BY <1>6, <1>7, <1>9

\* Kill paths, and containers that end by themselves.
LEMMA CourseWorld ==
  ASSUME Course, NEW r \in Runs,
         (\E a \in Causes : Alarm(r, a) \/ Kill(r, a)) \/ AgentExits(r) \/ ProxyExits(r)
  PROVE  Orders' /\ Buried' /\ StopLate' /\ Made'
<1> DEFINE Same == UNCHANGED <<pc, todo, listed, stopCmd, history, outcome>>
           Stops(k) == Status(r, k, "exited") /\ ctr[r][k] = "running"
<1>1. Same /\ (UNCHANGED ctr \/ Stops("agent") \/ Stops("proxy") \/ Do(Cmd(r, "stop", "agent")))
  <2>1. ASSUME NEW a \in Causes, Alarm(r, a) PROVE Same /\ UNCHANGED ctr
    BY <2>1 DEF Alarm, docker
  <2>2. ASSUME NEW a \in Causes, Kill(r, a)
        PROVE  Same /\ (UNCHANGED ctr \/ Do(Cmd(r, "stop", "agent")))
    BY <2>2 DEF Kill, docker
  <2>3. ASSUME AgentExits(r) PROVE Same /\ Stops("agent")
    BY <2>3 DEF AgentExits
  <2>4. ASSUME ProxyExits(r) PROVE Same /\ Stops("proxy")
    BY <2>4 DEF ProxyExits
  <2> HIDE DEF Same, Stops
  <2> QED BY <2>1, <2>2, <2>3, <2>4
<1>2. Cmd(r, "stop", "agent") \in Commands
  BY DEF Cmd, Commands, Containers
<1>3. Declines
  <2>1. CASE UNCHANGED ctr
    BY <2>1 DEF Declines
  <2>2. CASE Stops("agent")
    BY <2>2, StatusSet DEF Declines, Course, Containers, Statuses
  <2>3. CASE Stops("proxy")
    BY <2>3, StatusSet DEF Declines, Course, Containers, Statuses
  <2>4. CASE Do(Cmd(r, "stop", "agent"))
    BY <2>4, <1>2, DoDeclines DEF Course
  <2> QED BY <1>1, <2>1, <2>2, <2>3, <2>4
<1> QED BY <1>1, <1>3, OrdersSame, MadeDeclines

\* A process dies, or all of them do with the host.
LEMMA CourseDie ==
  ASSUME Course, NEW S, Die(S), Declines, UNCHANGED <<stopCmd, history, outcome>>
  PROVE  Orders' /\ Buried' /\ StopLate' /\ Made'
<1> USE Apart
<1>1. /\ pc' = [r \in Runs |-> IF r \in S THEN "dead" ELSE pc[r]]
      /\ listed' = [r \in Runs |-> IF r \in S THEN {} ELSE listed[r]]
      /\ todo' = [p \in Procs |-> IF p \in S THEN <<>> ELSE todo[p]]
      /\ UNCHANGED <<stopRun, stopUp, caught, corpses, outcome>>
  BY DEF Die, stopCmd, history
<1>2. \A r \in Runs : OrdersOf(r)'
  <2>1. ASSUME NEW r \in Runs PROVE OrdersOf(r)'
    <3>1. OrdersOf(r)
      BY DEF Course, Orders
    <3>2. CASE r \in S
      BY <1>1, <3>2, NothingListed DEF OrdersOf
    <3>3. CASE r \notin S
      BY <1>1, <3>1, <3>3 DEF OrdersOf
    <3> QED BY <3>2, <3>3
  <2> QED BY <2>1
<1>3. Orders'
  <2>1. \A p \in Procs : NetsLast(todo'[p])
    BY <1>1, NothingListed DEF Course, Orders
  <2>2. Concerns(todo'[Operator], {stopRun})
    BY <1>1, NothingListed DEF Course, Orders
  <2> QED BY <1>1, <1>2, <2>1, <2>2 DEF Orders
<1>4. Buried'
  BY <1>1 DEF Course, Buried, Ended, TypeOK
<1>5. StopLate'
  BY <1>1 DEF Course, StopLate, Starting, TypeOK
<1>6. Made'
  <2> SUFFICES ASSUME NEW r \in Runs
               PROVE  MadeAt(pc'[r], ctr'[r]["proxy"], ctr'[r]["agent"], outcome[r])
    BY <1>1 DEF Made
  <2>1. CASE r \in S
    BY <1>1, <2>1 DEF MadeAt, Starting
  <2>2. CASE r \notin S
    <3>1. MadeAt(pc[r], ctr[r]["proxy"], ctr[r]["agent"], outcome[r]) /\ pc'[r] = pc[r]
      BY <1>1, <2>2 DEF Course, Made
    <3>2. \A k \in Containers : \/ ctr'[r][k] = ctr[r][k] \/ ctr'[r][k] = "absent"
                                \/ ctr[r][k] = "running" /\ ctr'[r][k] = "exited"
      BY DEF Declines
    <3> QED BY <3>1, <3>2 DEF MadeAt, Containers
  <2> QED BY <2>1, <2>2
<1> QED BY <1>3, <1>4, <1>5, <1>6

\* `constle stop`.
LEMMA CourseOperator ==
  ASSUME Course, NEW v \in Runs, OperatorStop(v)
  PROVE  Orders' /\ Buried' /\ StopLate' /\ Made'
<1> USE Apart
<1>1. /\ pc[v] \notin {"idle", "sweep", "extNet"} /\ stopRun' = v
      /\ stopUp' = (pc[v] \notin {"intNet", "bind", "createProxy", "startProxy", "connect",
                                  "await", "createAgent", "startAgent"})
      /\ todo' = [todo EXCEPT ![Operator] = RemoveByName(v)]
      /\ UNCHANGED <<pc, listed, caught, corpses, ctr, outcome>>
      /\ todo \in [Procs -> Seq(Commands)]
  BY DEF OperatorStop, docker, history, Course, TypeOK
<1>2. Proper(RemoveByName(v), v)
  BY NameList
<1>3. \A p \in Procs : todo'[p] = IF p = Operator THEN RemoveByName(v) ELSE todo[p]
  BY <1>1
<1>4. \A r \in Runs : OrdersOf(r)'
  BY <1>1, <1>3 DEF Course, Orders, OrdersOf
<1>5. Orders'
  BY <1>1, <1>2, <1>3, <1>4 DEF Course, Orders, Proper
<1>6. StopLate'
  BY <1>1 DEF StopLate, Starting
<1> QED BY <1>1, <1>5, <1>6 DEF Course, Buried, Made

\* Every step keeps the course.
LEMMA CourseStep ==
  ASSUME Course, [Next]_vars
  PROVE  Course'
<1>1. TypeOK'
  BY TypeStep DEF Course
<1> DEFINE Kept == Orders' /\ Buried' /\ StopLate' /\ Made'
<1>2. ASSUME NEW r \in Runs, Owner(r) PROVE Kept
  <2>1. CASE \E v \in Runs : Sweep(r, v)
    BY <2>1, CourseSweep
  <2>2. CASE RunRemoval(r)
    BY <2>2, CourseRemoval, Apart
  <2> QED BY <1>2, <2>1, <2>2, CourseList, CourseCreate, CourseContainer, CourseConnect, CourseRun DEF Owner
<1>3. ASSUME NEW r \in Runs, Crash(r) PROVE Kept
  <2>1. Die({r}) /\ Declines /\ UNCHANGED <<stopCmd, history, outcome>>
    BY <1>3 DEF Crash, Declines, docker
  <2> QED BY <2>1, CourseDie
<1>4. ASSUME Reboot PROVE Kept
  <2>1. Die({r \in Runs : Alive(r)} \union {Operator}) /\ UNCHANGED <<stopCmd, history, outcome>>
    BY <1>4 DEF Reboot
  <2>2. Declines
    BY <1>4 DEF Reboot, Declines
  <2> QED BY <2>1, <2>2, CourseDie
<1>5. ASSUME UNCHANGED vars PROVE Kept
  <2>1. UNCHANGED <<pc, todo, listed, stopCmd, history, ctr, outcome>>
    BY <1>5 DEF vars, docker
  <2>2. Declines
    BY <2>1 DEF Declines
  <2> QED BY <2>1, <2>2, OrdersSame, MadeDeclines
<1>6. CASE Next
  <2>1. ASSUME NEW r \in Runs, AgentExits(r) \/ ProxyExits(r) \/ OperatorStop(r) PROVE Kept
    BY <2>1, CourseWorld, CourseOperator
  <2>2. ASSUME NEW r \in Runs, NEW a \in Causes, Alarm(r, a) \/ Kill(r, a) PROVE Kept
    BY <2>2, CourseWorld
  <2>3. ASSUME RunRemoval(Operator) PROVE Kept
    BY <2>3, CourseRemoval, Apart
  <2>4. ASSUME AllOver PROVE Kept
    BY <2>4, <1>5 DEF AllOver
  <2> HIDE DEF Kept
  <2>5. Kept
    BY <1>6, <1>2, <1>3, <1>4, <2>1, <2>2, <2>3, <2>4 DEF Next
  <2> QED BY <2>5, <1>1 DEF Kept, Course
<1> QED BY <1>1, <1>5, <1>6 DEF Course

\* It holds at first.
LEMMA CourseInit == Init => Course
<1> SUFFICES ASSUME Init PROVE Course
  OBVIOUS
<1> USE Apart
<1>1. TypeOK
  BY TypeInit
<1>2. Orders
  BY NothingListed DEF Init, Orders, OrdersOf
<1>3. Buried /\ StopLate
  BY DEF Init, Buried, StopLate
<1>4. Made
  BY DEF Init, Made, MadeAt, Containers, Starting
<1> QED BY <1>1, <1>2, <1>3, <1>4 DEF Course

---------------------------------------------------------------------------
(***************************************************************************)
(* What a run has while nobody removes it                                  *)
(***************************************************************************)
Joined == {"await", "createAgent", "startAgent", "up", "wait", "judge", "flush"}
Fit(stage, proxy, nets, link, result, logged) ==
  /\ stage \in Joined \union {"connect"} => proxy = "running"
  /\ stage = "intNet" => "ext" \in nets
  /\ stage \in Joined \union {"bind", "createProxy", "startProxy", "connect"} => Networks \subseteq nets
  /\ stage \in Joined => link
  /\ stage = "unwind" => result = "notStarted"
  /\ stage \in {"teardown", "over"} /\ result # "notStarted" => logged
Spared(r) == faults = 0 /\ r \notin caught /\ stopRun # r
FitNow(r) == Fit(pc[r], ctr[r]["proxy"], net[r], joined[r], outcome[r], netLogged[r])
Intact == \A r \in Runs : Spared(r) => FitNow(r)

\* Whose container or network a process removes.
LEMMA RemovalTarget ==
  ASSUME Course, NEW p \in Procs, RunRemoval(p)
  PROVE  LET v == Head(todo[p]).run IN
         \/ p = Operator /\ v = stopRun
         \/ v \in caught
         \/ p \in Runs /\ v \in corpses[p] /\ pc[v] \in Ended
         \/ p \in Runs /\ v = p /\ pc[p] \in {"unwind", "teardown"}
<1> DEFINE v == Head(todo[p]).run
<1>1. todo[p] # <<>> /\ todo[p] \in Seq(Commands)
  BY DEF RunRemoval, Course, TypeOK
<1>2. \A S : Concerns(todo[p], S) => v \in S
  BY <1>1, TailKeeps
<1> HIDE DEF v
<1>3. CASE p = Operator
  <2>1. v \in {stopRun}
    BY <1>2, <1>3 DEF Course, Orders
  <2> QED BY <1>3, <2>1 DEF v
<1>4. CASE p \in Runs
  <2>1. OrdersOf(p)
    BY <1>4 DEF Course, Orders
  <2>2. CASE pc[p] = "sweep"
    <3>1. v \in caught \union corpses[p]
      BY <1>2, <2>1, <2>2 DEF OrdersOf
    <3>2. v \in corpses[p] => pc[v] \in Ended
      BY <1>4 DEF Course, Buried
    <3> QED BY <1>4, <3>1, <3>2 DEF v
  <2>3. CASE pc[p] # "sweep"
    <3>1. v \in {p}
      BY <1>2, <2>1, <2>3 DEF OrdersOf
    <3>2. pc[p] \in {"unwind", "teardown"}
      BY <1>1, <2>1, <2>3 DEF OrdersOf, Removing
    <3> QED BY <1>4, <3>1, <3>2 DEF v
  <2> QED BY <2>2, <2>3
<1> QED BY <1>3, <1>4 DEF Procs

\* A step that changes what one run has keeps all others fit.
LEMMA FitElsewhere ==
  ASSUME Course, Intact, NEW r \in Runs,
         \A v \in Runs : v # r => /\ pc'[v] = pc[v] /\ outcome'[v] = outcome[v]
                                  /\ ctr'[v] = ctr[v] /\ net'[v] = net[v]
                                  /\ joined'[v] = joined[v] /\ netLogged'[v] = netLogged[v],
         faults' = 0 => faults = 0, caught \subseteq caught', UNCHANGED stopRun,
         Spared(r)' /\ Spared(r) /\ FitNow(r) => FitNow(r)'
  PROVE  Intact'
<1> SUFFICES ASSUME NEW v \in Runs, Spared(v)' PROVE FitNow(v)'
  BY DEF Intact
<1>1. Spared(v) /\ FitNow(v)
  BY DEF Spared, Intact
<1>2. CASE v = r
  BY <1>1, <1>2
<1>3. CASE v # r
  BY <1>1, <1>3 DEF FitNow
<1> QED BY <1>2, <1>3

\* A fault is counted.
LEMMA FaultCounts ==
  ASSUME TypeOK
  PROVE  /\ Fault => faults' # 0
         /\ NoFault => faults' = faults
         /\ faults \in Nat
BY SandboxAssumption DEF TypeOK, Fault, NoFault

\* Every step of Start leaves the run what the next one needs.
LEMMA IntactStart ==
  ASSUME Course, Intact, NEW r \in Runs,
         \/ CreateExtNet(r) \/ CreateIntNet(r) \/ BindAndConfigure(r) \/ CreateProxy(r)
         \/ StartProxy(r) \/ Connect(r) \/ AwaitSquid(r) \/ CreateAgent(r) \/ StartAgent(r)
  PROVE  Intact'
<1>1. /\ pc \in [Runs -> PCs] /\ outcome \in [Runs -> Outcomes] /\ joined \in [Runs -> BOOLEAN]
      /\ ctr \in [Runs -> [Containers -> Statuses]] /\ net \in [Runs -> SUBSET Networks]
  BY DEF Course, TypeOK, Statuses
<1>2. TypeOK
  BY DEF Course
<1>3. ASSUME NEW step, GiveUp(r, step)
      PROVE  /\ pc' = [pc EXCEPT ![r] = "unwind"] /\ outcome' = [outcome EXCEPT ![r] = "notStarted"]
  BY <1>3 DEF GiveUp, Goto
<1> DEFINE Unwinds == /\ pc' = [pc EXCEPT ![r] = "unwind"]
                      /\ outcome' = [outcome EXCEPT ![r] = "notStarted"]
           Others == UNCHANGED <<caught, stopRun, netLogged>> /\ (faults' = 0 => faults = 0)
<1>4. ASSUME Unwinds, Others, UNCHANGED <<ctr, net, joined>> PROVE Intact'
  <2>1. FitNow(r)'
    BY <1>1, <1>4 DEF FitNow, Fit, Joined
  <2> QED BY <1>1, <1>4, <2>1, FitElsewhere
<1>5. ASSUME NEW s, Goto(r, s), Others, UNCHANGED outcome,
             \A v \in Runs : v # r => ctr'[v] = ctr[v] /\ net'[v] = net[v] /\ joined'[v] = joined[v],
             Spared(r) /\ FitNow(r) => Fit(s, ctr'[r]["proxy"], net'[r], joined'[r], outcome[r], netLogged[r])
      PROVE  Intact'
  <2>1. pc' = [pc EXCEPT ![r] = s]
    BY <1>5 DEF Goto
  <2>2. Spared(r) /\ FitNow(r) => FitNow(r)'
    BY <1>1, <1>5, <2>1 DEF FitNow
  <2> QED BY <1>1, <1>5, <2>1, <2>2, FitElsewhere
<1>6. CASE CreateExtNet(r)
  <2>1. Others /\ UNCHANGED <<ctr, joined>> /\ pc[r] = "extNet"
    BY <1>2, <1>6, FaultCounts DEF CreateExtNet, stopCmd, history
  <2>2. CASE GiveUp(r, "extNet") /\ UNCHANGED net
    BY <1>3, <1>4, <2>1, <2>2
  <2>3. CASE Goto(r, "intNet") /\ net' = [net EXCEPT ![r] = @ \union {"ext"}] /\ UNCHANGED outcome
    <3>1. /\ \A v \in Runs : v # r => net'[v] = net[v]
          /\ "ext" \in net'[r]
      BY <1>1, <2>3
    <3>2. Fit("intNet", ctr'[r]["proxy"], net'[r], joined'[r], outcome[r], netLogged[r])
      BY <3>1 DEF Fit, Joined
    <3> QED BY <1>5, <2>1, <2>3, <3>1, <3>2
  <2> QED BY <1>6, <2>2, <2>3 DEF CreateExtNet
<1>7. CASE CreateIntNet(r)
  <2>1. Others /\ UNCHANGED <<ctr, joined>> /\ pc[r] = "intNet"
    BY <1>2, <1>7, FaultCounts DEF CreateIntNet, stopCmd, history
  <2>2. CASE GiveUp(r, "intNet") /\ UNCHANGED net
    BY <1>3, <1>4, <2>1, <2>2
  <2>3. CASE Goto(r, "bind") /\ net' = [net EXCEPT ![r] = @ \union {"int"}] /\ UNCHANGED outcome
    <3>1. /\ \A v \in Runs : v # r => net'[v] = net[v]
          /\ net'[r] = net[r] \union {"int"}
      BY <1>1, <2>3
    <3>2. FitNow(r) => Fit("bind", ctr'[r]["proxy"], net'[r], joined'[r], outcome[r], netLogged[r])
      BY <2>1, <3>1 DEF FitNow, Fit, Joined, Networks
    <3> QED BY <1>5, <2>1, <2>3, <3>1, <3>2
  <2> QED BY <1>7, <2>2, <2>3 DEF CreateIntNet
<1>8. CASE BindAndConfigure(r)
  <2>1. Others /\ UNCHANGED <<ctr, joined, net>> /\ pc[r] = "bind"
    BY <1>2, <1>8, FaultCounts DEF BindAndConfigure, stopCmd, history
  <2>2. CASE GiveUp(r, "bind")
    BY <1>3, <1>4, <2>1, <2>2
  <2>3. CASE Goto(r, "createProxy") /\ UNCHANGED outcome
    <3>1. FitNow(r) => Fit("createProxy", ctr'[r]["proxy"], net'[r], joined'[r], outcome[r], netLogged[r])
      BY <2>1 DEF FitNow, Fit, Joined
    <3> QED BY <1>5, <2>1, <2>3, <3>1
  <2> QED BY <1>8, <2>2, <2>3 DEF BindAndConfigure
<1>9. CASE AwaitSquid(r)
  <2>1. Others /\ UNCHANGED <<ctr, joined, net>> /\ pc[r] = "await"
    BY <1>2, <1>9, FaultCounts DEF AwaitSquid, stopCmd, history, docker
  <2>2. CASE GiveUp(r, "startAgent")
    BY <1>3, <1>4, <2>1, <2>2
  <2>3. CASE Goto(r, "createAgent") /\ UNCHANGED outcome
    <3>1. FitNow(r) => Fit("createAgent", ctr'[r]["proxy"], net'[r], joined'[r], outcome[r], netLogged[r])
      BY <2>1 DEF FitNow, Fit, Joined
    <3> QED BY <1>5, <2>1, <2>3, <3>1
  <2> QED BY <1>9, <2>2, <2>3 DEF AwaitSquid
<1>10. CASE Connect(r)
  <2>1. Others /\ UNCHANGED <<ctr, net>> /\ pc[r] = "connect"
    BY <1>2, <1>10, FaultCounts DEF Connect, stopCmd, history
  <2>2. CASE Unwinds /\ UNCHANGED joined
    BY <1>4, <2>1, <2>2
  <2>3. CASE Goto(r, "await") /\ joined' = [joined EXCEPT ![r] = TRUE] /\ UNCHANGED outcome
    <3>1. joined'[r] /\ \A v \in Runs : v # r => joined'[v] = joined[v]
      BY <1>1, <2>3
    <3>2. FitNow(r) => Fit("await", ctr'[r]["proxy"], net'[r], joined'[r], outcome[r], netLogged[r])
      BY <2>1, <3>1 DEF FitNow, Fit, Joined
    <3> QED BY <1>5, <2>1, <2>3, <3>1, <3>2
  <2> QED BY <1>10, <2>2, <2>3 DEF Connect, Goto
<1> DEFINE Moves(at, next, k, s) ==
        /\ pc[r] = at /\ Others /\ UNCHANGED <<net, joined>>
        /\ \/ Goto(r, next) /\ Status(r, k, s) /\ UNCHANGED outcome
           \/ Unwinds /\ UNCHANGED ctr
<1>11. ASSUME NEW at, NEW next, NEW k \in Containers, NEW s \in Statuses, Moves(at, next, k, s),
              FitNow(r) => Fit(next, IF k = "proxy" THEN s ELSE ctr[r]["proxy"],
                               net[r], joined[r], outcome[r], netLogged[r])
       PROVE  Intact'
  <2>1. CASE Unwinds /\ UNCHANGED ctr
    BY <1>4, <1>11, <2>1
  <2>2. CASE Goto(r, next) /\ Status(r, k, s) /\ UNCHANGED outcome
    <3>1. ctr'[r]["proxy"] = IF k = "proxy" THEN s ELSE ctr[r]["proxy"]
      BY <1>2, <2>2, StatusSet DEF Containers
    <3>2. \A v \in Runs : v # r => ctr'[v] = ctr[v]
      BY <1>1, <2>2 DEF Status
    <3> HIDE DEF Unwinds
    <3> QED BY <1>5, <1>11, <2>2, <3>1, <3>2
  <2> QED BY <1>11, <2>1, <2>2
<1>12. CASE CreateProxy(r)
  <2>1. Moves("createProxy", "startProxy", "proxy", "created")
    BY <1>2, <1>3, <1>12, FaultCounts DEF CreateProxy, CreateContainer, stopCmd, history
  <2> QED BY <1>11, <2>1 DEF FitNow, Fit, Joined, Containers, Statuses
<1>13. CASE StartProxy(r)
  <2>1. Moves("startProxy", "connect", "proxy", "running")
    BY <1>2, <1>3, <1>13, FaultCounts DEF StartProxy, StartContainer, stopCmd, history
  <2> QED BY <1>11, <2>1 DEF FitNow, Fit, Joined, Containers, Statuses
<1>14. CASE CreateAgent(r)
  <2>1. Moves("createAgent", "startAgent", "agent", "created")
    BY <1>2, <1>3, <1>14, FaultCounts DEF CreateAgent, CreateContainer, stopCmd, history
  <2> QED BY <1>11, <2>1 DEF FitNow, Fit, Joined, Containers, Statuses
<1>15. CASE StartAgent(r)
  <2>1. Moves("startAgent", "up", "agent", "running")
    BY <1>2, <1>3, <1>15, FaultCounts DEF StartAgent, StartContainer, stopCmd, history
  <2> QED BY <1>11, <2>1 DEF FitNow, Fit, Joined, Containers, Statuses
<1> QED BY <1>6, <1>7, <1>8, <1>9, <1>10, <1>12, <1>13, <1>14, <1>15

\* So do the later steps of cmdRun.
LEMMA IntactRun ==
  ASSUME Course, Intact, NEW r \in Runs,
         \/ List(r) \/ (\E v \in Runs : Sweep(r, v)) \/ Swept(r) \/ SetUp(r) \/ WaitReturns(r)
         \/ Judge(r) \/ Flush(r) \/ Return(r)
  PROVE  Intact'
<1>1. /\ pc \in [Runs -> PCs] /\ outcome \in [Runs -> Outcomes] /\ netLogged \in [Runs -> BOOLEAN]
  BY DEF Course, TypeOK
<1>2. TypeOK
  BY DEF Course
<1>3. ASSUME NEW s, pc' = [pc EXCEPT ![r] = s], UNCHANGED <<ctr, net, joined, stopRun>>,
             \A v \in Runs : v # r => outcome'[v] = outcome[v] /\ netLogged'[v] = netLogged[v],
             faults' = 0 => faults = 0, caught \subseteq caught',
             faults' = 0 /\ FitNow(r) => Fit(s, ctr[r]["proxy"], net[r], joined[r], outcome'[r], netLogged'[r])
      PROVE  Intact'
  <2>1. Spared(r)' /\ FitNow(r) => FitNow(r)'
    BY <1>1, <1>3 DEF FitNow, Spared
  <2> QED BY <1>1, <1>3, <2>1, FitElsewhere
<1>4. CASE List(r)
  <2>1. /\ pc' = [pc EXCEPT ![r] = "sweep"] /\ UNCHANGED <<ctr, net, joined, stopRun, outcome, netLogged>>
        /\ caught \subseteq caught'
    BY <1>4 DEF List, Goto, docker, stopCmd, history
  <2>2. faults' = 0 => faults = 0
    BY <1>2, <1>4, FaultCounts DEF List
  <2> QED BY <1>3, <2>1, <2>2 DEF Fit, Joined
<1>5. CASE \E v \in Runs : Sweep(r, v)
  <2>1. UNCHANGED <<pc, ctr, net, joined, stopRun, outcome, netLogged, faults, caught>>
    BY <1>5 DEF Sweep, docker, stopCmd, history, bounds
  <2> QED BY <2>1 DEF Intact, Spared, FitNow
<1>6. CASE Swept(r)
  <2>1. /\ pc' = [pc EXCEPT ![r] = "extNet"]
        /\ UNCHANGED <<ctr, net, joined, stopRun, outcome, netLogged, faults, caught>>
    BY <1>6 DEF Swept, Goto, docker, stopCmd, history, bounds
  <2> QED BY <1>3, <2>1 DEF Fit, Joined
<1>7. CASE SetUp(r)
  <2>1. UNCHANGED <<ctr, net, joined, stopRun, netLogged, caught>> /\ pc[r] = "up"
    BY <1>7 DEF SetUp, docker, stopCmd, history
  <2>2. CASE NoFault /\ Goto(r, "wait") /\ UNCHANGED outcome
    BY <1>2, <1>3, <2>1, <2>2, FaultCounts DEF Goto, FitNow, Fit, Joined
  <2>3. CASE Fault /\ Goto(r, "flush") /\ outcome' = [outcome EXCEPT ![r] = "noListener"]
    <3>1. faults' # 0
      BY <1>2, <2>3, FaultCounts
    <3> QED BY <3>1 DEF Intact, Spared
  <2> QED BY <1>7, <2>2, <2>3 DEF SetUp
<1>8. CASE WaitReturns(r)
  <2>1. /\ pc' = [pc EXCEPT ![r] = "judge"] /\ pc[r] = "wait"
        /\ UNCHANGED <<ctr, net, joined, stopRun, outcome, netLogged, faults, caught>>
    BY <1>8 DEF WaitReturns, Goto, stopCmd, history, bounds
  <2> QED BY <1>3, <2>1 DEF FitNow, Fit, Joined
<1>9. CASE Judge(r)
  <2>1. /\ pc' = [pc EXCEPT ![r] = "flush"] /\ pc[r] = "judge"
        /\ UNCHANGED <<ctr, net, joined, stopRun, netLogged, caught>>
        /\ \A v \in Runs : v # r => outcome'[v] = outcome[v]
    BY <1>1, <1>9 DEF Judge, Goto, docker, stopCmd, history
  <2>2. faults' = 0 => faults = 0
    BY <1>2, <1>9, FaultCounts DEF Judge
  <2> QED BY <1>3, <2>1, <2>2 DEF FitNow, Fit, Joined
<1>10. CASE Flush(r)
  <2>1. /\ pc' = [pc EXCEPT ![r] = "teardown"] /\ pc[r] = "flush"
        /\ UNCHANGED <<ctr, net, joined, stopRun, outcome, caught>>
    BY <1>10 DEF Flush, Goto, docker, stopCmd, history
  <2>2. /\ faults' = 0 => faults = 0
        /\ \A v \in Runs : v # r => netLogged'[v] = netLogged[v]
        /\ faults' = 0 /\ ctr[r]["proxy"] = "running" => netLogged'[r]
    BY <1>1, <1>2, <1>10, FaultCounts DEF Flush
  <2> QED BY <1>3, <2>1, <2>2 DEF FitNow, Fit, Joined
<1>11. CASE Return(r)
  <2>1. /\ pc' = [pc EXCEPT ![r] = "over"] /\ pc[r] \in {"unwind", "teardown"}
        /\ UNCHANGED <<ctr, net, joined, stopRun, outcome, netLogged, faults, caught>>
    BY <1>11 DEF Return, Goto, docker, stopCmd, history, bounds
  <2> QED BY <1>3, <2>1 DEF FitNow, Fit, Joined
<1> QED BY <1>4, <1>5, <1>6, <1>7, <1>8, <1>9, <1>10, <1>11

\* A removal takes nothing from a spared run before its own teardown.
LEMMA IntactRemoval ==
  ASSUME Course, Intact, NEW p \in Procs, RunRemoval(p)
  PROVE  Intact'
<1> DEFINE c == Head(todo[p])
<1>1. UNCHANGED <<pc, outcome, netLogged, stopRun, caught>>
  BY DEF RunRemoval, stopCmd, history
<1>2. /\ \A v \in Runs, k \in Containers : ctr'[v][k] = ctr[v][k] \/ v = c.run
      /\ \A v \in Runs : v # c.run => net'[v] = net[v]
      /\ joined' = joined
      /\ faults' = 0 => faults = 0
  BY RemovalDone DEF Course
<1>3. \/ c.run = stopRun \/ c.run \in caught \/ pc[c.run] \in Ended
      \/ pc[c.run] \in {"unwind", "teardown"}
  BY RemovalTarget
<1> HIDE DEF c
<1> SUFFICES ASSUME NEW r \in Runs, Spared(r)' PROVE FitNow(r)'
  BY DEF Intact
<1>4. Spared(r) /\ FitNow(r)
  BY <1>1, <1>2 DEF Spared, Intact
<1>5. CASE r # c.run
  BY <1>1, <1>2, <1>4, <1>5 DEF FitNow, Containers
<1>6. CASE r = c.run
  <2>1. pc[r] \in Ended \union {"unwind", "teardown"}
    BY <1>3, <1>4, <1>6 DEF Spared
  <2> QED BY <1>1, <1>4, <2>1 DEF FitNow, Fit, Joined, Ended
<1> QED BY <1>5, <1>6

\* Alarms, kills and containers that end.
LEMMA IntactWorld ==
  ASSUME Course, Intact, NEW r \in Runs,
         (\E a \in Causes : Alarm(r, a) \/ Kill(r, a)) \/ AgentExits(r) \/ ProxyExits(r)
  PROVE  Intact'
<1> DEFINE Same == UNCHANGED <<pc, outcome, netLogged, stopRun, caught, net, joined>>
<1>1. TypeOK
  BY DEF Course
<1>2. ASSUME Same, faults' = 0 => faults = 0 /\ \A v \in Runs : ctr'[v]["proxy"] = ctr[v]["proxy"]
      PROVE  Intact'
  BY <1>2 DEF Intact, Spared, FitNow
<1>3. ASSUME NEW a \in Causes, Alarm(r, a) PROVE Intact'
  <2>1. Same /\ UNCHANGED <<faults, ctr>>
    BY <1>3 DEF Alarm, docker, stopCmd, history, bounds
  <2> QED BY <2>1, <1>2
<1>4. ASSUME NEW a \in Causes, Kill(r, a) PROVE Intact'
  <2>1. /\ UNCHANGED <<pc, outcome, netLogged, stopRun, caught>> /\ (faults' = 0 => faults = 0)
        /\ Do(Cmd(r, "stop", "agent")) \/ UNCHANGED docker
    BY <1>1, <1>4, FaultCounts DEF Kill, stopCmd, history
  <2>2. CASE Do(Cmd(r, "stop", "agent"))
    <3>1. ctr' = [ctr EXCEPT ![r]["agent"] = IF @ = "running" THEN "exited" ELSE @]
          /\ net' = net /\ joined' = joined
      BY <2>2 DEF Do, Cmd
    <3>2. \A v \in Runs : ctr'[v]["proxy"] = ctr[v]["proxy"]
      BY <3>1, <1>1 DEF TypeOK, Containers
    <3> QED BY <1>2, <2>1, <3>1, <3>2
  <2>3. CASE UNCHANGED docker
    BY <1>2, <2>1, <2>3 DEF docker
  <2> QED BY <2>1, <2>2, <2>3
<1>5. CASE AgentExits(r)
  <2>1. Same /\ UNCHANGED faults /\ Status(r, "agent", "exited")
    BY <1>5 DEF AgentExits, stopCmd, history, bounds
  <2>2. \A v \in Runs : ctr'[v]["proxy"] = ctr[v]["proxy"]
    BY <1>1, <2>1, StatusSet DEF Containers, Statuses
  <2> QED BY <1>2, <2>1, <2>2
<1>6. CASE ProxyExits(r)
  <2>1. faults' # 0
    BY <1>1, <1>6, FaultCounts DEF ProxyExits
  <2> QED BY <2>1 DEF Intact, Spared
<1> QED BY <1>3, <1>4, <1>5, <1>6

\* Processes that die.
LEMMA IntactDie ==
  ASSUME Course, Intact, NEW S, Die(S), \A r \in Runs : r \notin S => pc[r] \in Ended \/ UNCHANGED ctr,
         UNCHANGED <<outcome, netLogged, stopRun, caught, net, joined, faults>>
  PROVE  Intact'
<1> SUFFICES ASSUME NEW r \in Runs, Spared(r)' PROVE FitNow(r)'
  BY DEF Intact
<1>1. Spared(r) /\ FitNow(r)
  BY DEF Spared, Intact
<1>2. pc'[r] = IF r \in S THEN "dead" ELSE pc[r]
  BY DEF Die
<1>3. CASE r \in S
  BY <1>2, <1>3 DEF FitNow, Fit, Joined
<1>4. CASE r \notin S
  BY <1>1, <1>2, <1>4 DEF FitNow, Fit, Joined, Ended
<1> QED BY <1>3, <1>4

\* Every step leaves spared runs what they need.
LEMMA IntactStep ==
  ASSUME Course, Intact, [Next]_vars
  PROVE  Intact'
<1>1. ASSUME NEW r \in Runs, Owner(r) PROVE Intact'
  BY <1>1, IntactStart, IntactRun, IntactRemoval, Apart DEF Owner
<1>2. ASSUME NEW r \in Runs, Crash(r) PROVE Intact'
  <2>1. Die({r}) /\ UNCHANGED <<ctr, outcome, netLogged, stopRun, caught, net, joined, faults>>
    BY <1>2 DEF Crash, docker, stopCmd, history
  <2> QED BY <2>1, IntactDie
<1>3. ASSUME Reboot PROVE Intact'
  <2> DEFINE S == {r \in Runs : Alive(r)} \union {Operator}
  <2>1. Die(S) /\ UNCHANGED <<outcome, netLogged, stopRun, caught, net, joined, faults>>
    BY <1>3 DEF Reboot, stopCmd, history
  <2>2. ASSUME NEW r \in Runs, Spared(r)' PROVE FitNow(r)'
    <3>1. Spared(r) /\ FitNow(r)
      BY <2>1, <2>2 DEF Spared, Intact
    <3>2. pc'[r] = IF r \in S THEN "dead" ELSE pc[r]
      BY <2>1 DEF Die
    <3>3. CASE Alive(r)
      BY <3>2, <3>3 DEF FitNow, Fit, Joined
    <3>4. CASE ~Alive(r)
      <4>1. pc'[r] = pc[r] /\ pc[r] \in Ended \union {"idle"}
        BY <3>2, <3>4, Apart DEF Alive, Ended
      <4> QED BY <2>1, <3>1, <4>1 DEF FitNow, Fit, Joined, Ended
    <3> QED BY <3>3, <3>4
  <2> QED BY <2>2 DEF Intact
<1>4. ASSUME NEW v \in Runs, OperatorStop(v) PROVE Intact'
  <2>1. /\ stopRun = NoRun /\ UNCHANGED <<pc, outcome, netLogged, caught, ctr, net, joined, faults>>
    BY <1>4 DEF OperatorStop, docker, history, bounds
  <2> QED BY <2>1, Apart DEF Intact, Spared, FitNow
<1>5. ASSUME UNCHANGED vars PROVE Intact'
  BY <1>5 DEF vars, docker, stopCmd, history, bounds, Intact, Spared, FitNow
<1>6. ASSUME NEW r \in Runs, AgentExits(r) \/ ProxyExits(r) PROVE Intact'
  BY <1>6, IntactWorld
<1>7. ASSUME NEW r \in Runs, NEW a \in Causes, Alarm(r, a) \/ Kill(r, a) PROVE Intact'
  BY <1>7, IntactWorld
<1>8. ASSUME RunRemoval(Operator) PROVE Intact'
  BY <1>8, IntactRemoval, Apart
<1> QED BY <1>1, <1>2, <1>3, <1>4, <1>5, <1>6, <1>7, <1>8 DEF Next, AllOver

(***************************************************************************)
(* What the steps of others do to a run                                    *)
(***************************************************************************)
\* What a run has in docker gets less.
Shrinks(v) ==
  /\ \A k \in Containers : \/ ctr'[v][k] = ctr[v][k] \/ ctr'[v][k] = "absent"
                           \/ ctr[v][k] = "running" /\ ctr'[v][k] = "exited"
  /\ net'[v] \subseteq net[v] /\ (conf'[v] => conf[v])
\* Its own process takes no step.
Rests(v) == /\ pc'[v] = pc[v] /\ todo'[v] = todo[v] /\ listed'[v] = listed[v]
            /\ outcome'[v] = outcome[v] /\ failed'[v] = failed[v] /\ corpses'[v] = corpses[v]

\* A run docker did nothing to.
LEMMA DockerSame ==
  ASSUME NEW v \in Runs, ctr'[v] = ctr[v], net'[v] = net[v], conf'[v] = conf[v]
  PROVE  Shrinks(v)
BY DEF Shrinks

\* Removals are never additions, and move no other process.
LEMMA RemovalShrinks ==
  ASSUME TypeOK, NEW p \in Procs, RunRemoval(p), NEW v \in Runs
  PROVE  Shrinks(v) /\ (v # p => Rests(v))
<1>1. Shrinks(v)
  BY RemovalDone DEF Shrinks
<1>2. ASSUME v # p PROVE Rests(v)
  <2>1. UNCHANGED <<pc, listed, outcome, corpses>>
    BY DEF RunRemoval, history
  <2>2. todo'[v] = todo[v]
    BY <1>2, Apart DEF RunRemoval, TypeOK
  <2>3. failed' = failed \/ failed' = [failed EXCEPT ![p] = @ \/ Counts(p, Head(todo[p]))]
    BY DEF RunRemoval
  <2>4. failed'[v] = failed[v]
    BY <1>2, <2>3, Apart DEF TypeOK
  <2> QED BY <2>1, <2>2, <2>4 DEF Rests
<1> QED BY <1>1, <1>2

\* What a process does to other runs is at most a removal.
LEMMA OwnerLocal ==
  ASSUME TypeOK, NEW r \in Runs, Owner(r), NEW v \in Runs, v # r
  PROVE  Rests(v) /\ Shrinks(v)
<1> USE Apart
<1>1. /\ pc \in [Runs -> PCs] /\ todo \in [Procs -> Seq(Commands)] /\ listed \in [Runs -> SUBSET Runs]
      /\ outcome \in [Runs -> Outcomes] /\ corpses \in [Runs -> SUBSET Runs]
      /\ net \in [Runs -> SUBSET Networks] /\ conf \in [Runs -> BOOLEAN]
      /\ ctr \in [Runs -> [Containers -> Statuses]]
  BY DEF TypeOK, Statuses
<1> DEFINE Own == /\ \E s : pc' = [pc EXCEPT ![r] = s]
                  /\ todo' = todo \/ \E l : todo' = [todo EXCEPT ![r] = l]
                  /\ listed' = listed \/ \E l : listed' = [listed EXCEPT ![r] = l]
                  /\ outcome' = outcome \/ \E o : outcome' = [outcome EXCEPT ![r] = o]
                  /\ corpses' = corpses \/ \E c : corpses' = [corpses EXCEPT ![r] = c]
                  /\ failed' = failed
           Around == /\ net' = net \/ \E n : net' = [net EXCEPT ![r] = n]
                     /\ conf' = conf \/ \E b : conf' = [conf EXCEPT ![r] = b]
                     /\ ctr' = ctr \/ \E k, s : Status(r, k, s)
<1>2. ASSUME Own, Around PROVE Rests(v) /\ Shrinks(v)
  <2>1. Rests(v)
    BY <1>1, <1>2 DEF Rests
  <2>2. ctr'[v] = ctr[v] /\ net'[v] = net[v] /\ conf'[v] = conf[v]
    BY <1>1, <1>2 DEF Status
  <2> QED BY <2>1, <2>2, DockerSame
<1>3. CASE RunRemoval(r)
  BY <1>3, RemovalShrinks
<1>4. CASE \E u \in Runs : Sweep(r, u)
  <2>1. Own
    <3>1. pc' = [pc EXCEPT ![r] = pc[r]]
      BY <1>1, <1>4 DEF Sweep
    <3> QED BY <1>4, <3>1 DEF Sweep, history
  <2>2. Around
    BY <1>4 DEF Sweep, docker
  <2> QED BY <1>2, <2>1, <2>2
<1>5. CASE List(r) \/ Swept(r)
  <2>1. Own
    BY <1>5 DEF List, Swept, Goto, history
  <2>2. Around
    BY <1>5 DEF List, Swept, docker
  <2> QED BY <1>2, <2>1, <2>2
<1>6. CASE CreateExtNet(r) \/ CreateIntNet(r) \/ BindAndConfigure(r)
  <2>1. Own
    BY <1>6 DEF CreateExtNet, CreateIntNet, BindAndConfigure, GiveUp, Goto, history
  <2>2. Around
    BY <1>6 DEF CreateExtNet, CreateIntNet, BindAndConfigure
  <2> QED BY <1>2, <2>1, <2>2
<1>7. CASE CreateProxy(r) \/ StartProxy(r) \/ CreateAgent(r) \/ StartAgent(r)
  <2>1. Own
    BY <1>7 DEF CreateProxy, StartProxy, CreateAgent, StartAgent, CreateContainer, StartContainer,
                GiveUp, Goto, history
  <2>2. Around
    BY <1>7 DEF CreateProxy, StartProxy, CreateAgent, StartAgent, CreateContainer, StartContainer
  <2> QED BY <1>2, <2>1, <2>2
<1>8. CASE Connect(r) \/ AwaitSquid(r)
  <2>1. Own
    BY <1>8 DEF Connect, AwaitSquid, GiveUp, Goto, history
  <2>2. Around
    BY <1>8 DEF Connect, AwaitSquid, docker
  <2> QED BY <1>2, <2>1, <2>2
<1>9. CASE SetUp(r) \/ WaitReturns(r) \/ Judge(r) \/ Flush(r) \/ Return(r)
  <2>1. Own
    BY <1>9 DEF SetUp, WaitReturns, Judge, Flush, Return, Goto, history
  <2>2. Around
    BY <1>9 DEF SetUp, WaitReturns, Judge, Flush, Return, docker
  <2> QED BY <1>2, <2>1, <2>2
<1> QED BY <1>3, <1>4, <1>5, <1>6, <1>7, <1>8, <1>9 DEF Owner

\* Only a run's own Start adds to what it has.
LEMMA OwnerShrinks ==
  ASSUME TypeOK, NEW r \in Runs, Owner(r), pc[r] \notin Starting
  PROVE  Shrinks(r)
<1>1. CASE RunRemoval(r)
  BY <1>1, RemovalShrinks, Apart
<1>2. CASE List(r) \/ Swept(r) \/ (\E u \in Runs : Sweep(r, u))
  <2>1. UNCHANGED docker
    BY <1>2 DEF List, Swept, Sweep
  <2> QED BY <2>1, DockerSame DEF docker
<1>3. CASE SetUp(r) \/ WaitReturns(r) \/ Judge(r) \/ Flush(r) \/ Return(r)
  <2>1. UNCHANGED <<ctr, net, conf>>
    BY <1>3 DEF SetUp, WaitReturns, Judge, Flush, Return, docker
  <2> QED BY <2>1, DockerSame
<1>4. ~(CreateExtNet(r) \/ CreateIntNet(r) \/ BindAndConfigure(r) \/ CreateProxy(r) \/ StartProxy(r)
        \/ CreateAgent(r) \/ StartAgent(r) \/ Connect(r) \/ AwaitSquid(r))
  BY DEF CreateExtNet, CreateIntNet, BindAndConfigure, CreateProxy, StartProxy, CreateAgent, StartAgent,
         CreateContainer, StartContainer, Connect, AwaitSquid, Starting
<1> QED BY <1>1, <1>2, <1>3, <1>4 DEF Owner

\* The same of the steps that are no process's of a run.
LEMMA WorldLocal ==
  ASSUME TypeOK, NEW v \in Runs,
         \/ \E r \in Runs : AgentExits(r) \/ ProxyExits(r) \/ Crash(r) \/ OperatorStop(r)
         \/ \E r \in Runs, a \in Causes : Alarm(r, a) \/ Kill(r, a)
         \/ RunRemoval(Operator) \/ Reboot \/ UNCHANGED vars
  PROVE  Shrinks(v) /\ (Rests(v) \/ pc'[v] = "dead")
<1> USE Apart
<1>1. ASSUME UNCHANGED <<pc, todo, listed, outcome, failed, corpses>> PROVE Rests(v)
  BY <1>1 DEF Rests
<1>2. ASSUME NEW r \in Runs, NEW k \in Containers, Status(r, k, "exited"), ctr[r][k] = "running",
             UNCHANGED <<net, conf>>
      PROVE  Shrinks(v)
  BY <1>2, StatusSet DEF Shrinks, Statuses
<1>3. ASSUME NEW r \in Runs, AgentExits(r) \/ ProxyExits(r) PROVE Shrinks(v) /\ Rests(v)
  BY <1>1, <1>2, <1>3 DEF AgentExits, ProxyExits, history, Containers
<1>4. ASSUME NEW r \in Runs, NEW a \in Causes, Alarm(r, a) PROVE Shrinks(v) /\ Rests(v)
  BY <1>1, <1>4, DockerSame DEF Alarm, history, docker
<1>5. ASSUME NEW r \in Runs, NEW a \in Causes, Kill(r, a) PROVE Shrinks(v) /\ Rests(v)
  <2>1. UNCHANGED <<pc, todo, listed, outcome, failed, corpses>>
    BY <1>5 DEF Kill, history
  <2>2. CASE Do(Cmd(r, "stop", "agent"))
    <3>1. Cmd(r, "stop", "agent") \in Commands
      BY DEF Cmd, Commands, Containers
    <3>2. UNCHANGED <<net, conf>>
      BY <2>2 DEF Do, Cmd
    <3> QED BY <1>1, <2>1, <2>2, <3>1, <3>2, DoDeclines DEF Declines, Shrinks
  <2>3. CASE UNCHANGED docker
    BY <1>1, <2>1, <2>3, DockerSame DEF docker
  <2> QED BY <1>5, <2>2, <2>3 DEF Kill
<1>6. ASSUME NEW S, Die(S), UNCHANGED <<outcome, corpses>>, failed'[v] = failed[v]
      PROVE  Rests(v) \/ pc'[v] = "dead"
  BY <1>6 DEF Die, Rests
<1>7. ASSUME NEW r \in Runs, Crash(r) PROVE Shrinks(v) /\ (Rests(v) \/ pc'[v] = "dead")
  BY <1>6, <1>7, DockerSame DEF Crash, docker, history
<1>8. ASSUME Reboot PROVE Shrinks(v) /\ (Rests(v) \/ pc'[v] = "dead")
  <2>1. Shrinks(v)
    BY <1>8 DEF Reboot, Shrinks
  <2>2. failed'[v] = failed[v]
    BY <1>8 DEF Reboot, TypeOK
  <2> QED BY <1>6, <1>8, <2>1, <2>2 DEF Reboot, history
<1>9. ASSUME NEW r \in Runs, OperatorStop(r) PROVE Shrinks(v) /\ Rests(v)
  <2>1. UNCHANGED <<pc, listed, outcome, failed, corpses>> /\ todo'[v] = todo[v]
    BY <1>9 DEF OperatorStop, history, TypeOK
  <2> QED BY <1>9, <2>1, DockerSame DEF OperatorStop, docker, Rests
<1>10. ASSUME RunRemoval(Operator) PROVE Shrinks(v) /\ Rests(v)
  BY <1>10, RemovalShrinks
<1>11. ASSUME UNCHANGED vars PROVE Shrinks(v) /\ Rests(v)
  BY <1>1, <1>11, DockerSame DEF vars, docker, history
<1> QED BY <1>3, <1>4, <1>5, <1>7, <1>8, <1>9, <1>10, <1>11

\* Only a run's own Start adds to what it has.
LEMMA Shares ==
  ASSUME TypeOK, [Next]_vars, NEW v \in Runs
  PROVE  /\ Owner(v) \/ (Shrinks(v) /\ (Rests(v) \/ pc'[v] = "dead"))
         /\ pc[v] \notin Starting => Shrinks(v)
<1>1. CASE \E r \in Runs : Owner(r)
  <2>1. PICK r \in Runs : Owner(r)
    BY <1>1
  <2>2. CASE v = r
    BY <2>1, <2>2, OwnerShrinks
  <2>3. CASE v # r
    BY <2>1, <2>3, OwnerLocal
  <2> QED BY <2>2, <2>3
<1>2. CASE ~ \E r \in Runs : Owner(r)
  BY <1>2, WorldLocal DEF Next, AllOver
<1> QED BY <1>1, <1>2

\* Faults are not taken back.
LEMMA FaultsStay ==
  ASSUME TypeOK, [Next]_vars
  PROVE  faults' = 0 => faults = 0
<1>1. faults \in Nat
  BY FaultCounts
<1>2. (Fault \/ NoFault \/ UNCHANGED faults \/ \E p \in Procs : FaultOf(p)) => (faults' = 0 => faults = 0)
  BY <1>1 DEF Fault, NoFault, FaultOf
<1> DEFINE Known == Fault \/ NoFault \/ UNCHANGED faults \/ \E p \in Procs : FaultOf(p)
<1>3. ASSUME NEW r \in Runs, Owner(r) PROVE Known
  <2>1. CASE List(r) \/ Swept(r) \/ (\E u \in Runs : Sweep(r, u))
    BY <2>1 DEF List, Swept, Sweep, bounds
  <2>2. CASE CreateExtNet(r) \/ CreateIntNet(r) \/ BindAndConfigure(r)
    BY <2>2 DEF CreateExtNet, CreateIntNet, BindAndConfigure
  <2>3. CASE CreateProxy(r) \/ StartProxy(r) \/ CreateAgent(r) \/ StartAgent(r)
    BY <2>3 DEF CreateProxy, StartProxy, CreateAgent, StartAgent, CreateContainer, StartContainer
  <2>4. CASE Connect(r) \/ AwaitSquid(r) \/ SetUp(r)
    BY <2>4 DEF Connect, AwaitSquid, SetUp
  <2>5. CASE WaitReturns(r) \/ Judge(r) \/ Flush(r) \/ Return(r)
    BY <2>5 DEF WaitReturns, Judge, Flush, Return, bounds
  <2>6. CASE RunRemoval(r)
    BY <2>6, Apart DEF RunRemoval
  <2> QED BY <1>3, <2>1, <2>2, <2>3, <2>4, <2>5, <2>6 DEF Owner
<1>4. ASSUME NEW r \in Runs, AgentExits(r) \/ ProxyExits(r) \/ Crash(r) \/ OperatorStop(r) PROVE Known
  BY <1>4 DEF AgentExits, ProxyExits, Crash, OperatorStop, bounds
<1>5. ASSUME NEW r \in Runs, NEW a \in Causes, Alarm(r, a) \/ Kill(r, a) PROVE Known
  BY <1>5 DEF Alarm, Kill, bounds
<1>6. ASSUME RunRemoval(Operator) \/ Reboot PROVE Known
  BY <1>6, Apart DEF RunRemoval, Reboot
<1>7. ASSUME UNCHANGED vars PROVE Known
  BY <1>7 DEF vars, bounds
<1>8. Known
  BY <1>3, <1>4, <1>5, <1>6, <1>7 DEF Next, AllOver
<1> QED BY <1>2, <1>8

---------------------------------------------------------------------------
(***************************************************************************)
(* What the removals still to run will take                                *)
(***************************************************************************)
\* What p has still to run removes all that v has, but for containers that
\* are in a spared state.
Takes(p, v, spared) ==
  /\ \A k \in Containers : ctr[v][k] \in spared \union {"absent"} \/ Has(todo[p], Cmd(v, "rm", k))
  /\ \A n \in net[v] : Has(todo[p], Cmd(v, "net", n))

\* What is being removed remains so while the run gets less.
LEMMA TakesStill ==
  ASSUME NEW p \in Procs, NEW v \in Runs, NEW spared \in SUBSET {"created"}, Takes(p, v, spared),
         Shrinks(v), todo'[p] = todo[p] \/ todo[p] = <<>>
  PROVE  Takes(p, v, spared)'
<1>1. \A c : Has(todo[p], c) => Has(todo'[p], c)
  BY NothingListed
<1>2. ASSUME NEW k \in Containers
      PROVE  ctr'[v][k] \in spared \union {"absent"} \/ ctr[v][k] \notin spared \union {"absent"}
  BY DEF Shrinks
<1>3. net'[v] \subseteq net[v]
  BY DEF Shrinks
<1> QED BY <1>1, <1>2, <1>3 DEF Takes

\* A thorough list takes all of it.
LEMMA TakesAll ==
  ASSUME NEW p \in Procs, NEW v \in Runs, NEW spared, TypeOK', Thorough(todo'[p], v)
  PROVE  Takes(p, v, spared)'
<1>1. net'[v] \subseteq Networks
  BY DEF TypeOK
<1> QED BY <1>1 DEF Takes, Thorough

\* A removal that is made, or that fails because there is nothing to remove,
\* keeps it so: networks come last, and go once no container uses them.
LEMMA TakesRemoval ==
  ASSUME Course, NEW p \in Procs, RunRemoval(p), NEW v \in Runs, NEW spared \in SUBSET {"created"},
         Takes(p, v, spared),
         faults' = 0 \/ (p \in Runs /\ pc[p] = "teardown" /\ ~failed'[p]) \/ (p = Operator /\ ~failed'[p])
  PROVE  Takes(p, v, spared)'
<1>1. TypeOK
  BY DEF Course
<1>2. PICK c \in Commands :
           /\ todo[p] # <<>> /\ c = Head(todo[p])
           /\ todo' = [todo EXCEPT ![p] = Tail(@)]
           /\ c.op = "rm" => ctr'[c.run][c.what] = "absent"
           /\ c.op = "net" /\ ~InUse(c.run, c.what) => c.what \notin net'[c.run]
  BY <1>1, RemovalDone
<1>3. todo'[p] = Tail(todo[p]) /\ todo[p] \in Seq(Commands) /\ NetsLast(todo[p])
  BY <1>1, <1>2 DEF TypeOK, Course, Orders
<1>4. \A d : Has(todo[p], d) => d = c \/ Has(todo'[p], d)
  BY <1>2, <1>3, TailKeeps
<1>5. \A d : c.op = "net" /\ Has(todo'[p], d) => d.op \in {"net", "conf"}
  BY <1>2, <1>3, TailKeeps
<1>6. Shrinks(v)
  BY <1>1, RemovalShrinks
<1>7. \A op, what : /\ Cmd(v, op, what).op = op /\ Cmd(v, op, what).run = v
                    /\ Cmd(v, op, what).what = what
  BY DEF Cmd
<1>8. ASSUME NEW k \in Containers
      PROVE  ctr'[v][k] \in spared \union {"absent"} \/ Has(todo'[p], Cmd(v, "rm", k))
  <2>1. CASE ctr[v][k] \in spared \union {"absent"}
    BY <1>6, <2>1 DEF Shrinks
  <2>2. CASE Has(todo[p], Cmd(v, "rm", k))
    <3>1. CASE c = Cmd(v, "rm", k)
      BY <1>2, <1>7, <3>1
    <3> QED BY <1>4, <2>2, <3>1
  <2> QED BY <2>1, <2>2 DEF Takes
<1>9. ASSUME NEW n \in net'[v]
      PROVE  Has(todo'[p], Cmd(v, "net", n))
  <2>1. n \in net[v] /\ Has(todo[p], Cmd(v, "net", n))
    BY <1>6, <1>9 DEF Shrinks, Takes
  <2>2. ASSUME c = Cmd(v, "net", n) PROVE FALSE
    <3>1. c.op = "net" /\ c.run = v /\ c.what = n
      BY <1>7, <2>2
    <3>2. ASSUME NEW k \in Containers PROVE ctr[v][k] \in {"created", "absent"}
      <4>1. ~Has(todo[p], Cmd(v, "rm", k))
        <5>1. Cmd(v, "rm", k).op = "rm"
          BY <1>7
        <5> QED BY <1>4, <1>5, <3>1, <5>1
      <4> QED BY <4>1 DEF Takes
    <3>3. ~InUse(v, n)
      BY <3>2 DEF InUse, Containers
    <3> QED BY <1>2, <1>9, <3>1, <3>3
  <2> QED BY <1>4, <2>1, <2>2
<1> QED BY <1>8, <1>9 DEF Takes

\* With docker in order, a run that is through with Start or has given up
\* removes, or has removed, all it has; a failed Start may leave a container
\* that never ran.
Spare(result) == IF result = "notStarted" THEN {"created"} ELSE {}
ClearingOf(r) ==
  /\ Takes(r, r, Spare(outcome[r]))
  /\ conf[r] => Has(todo[r], Cmd(r, "conf", "conf"))
Leaving  == {"unwind", "teardown", "over"}
Clearing == \A r \in Runs : faults = 0 /\ pc[r] \in Leaving => ClearingOf(r)

\* With docker out of order, whoever has met no error so far.
StopHolds(r) == pc[r] \in {"teardown", "over"} /\ outcome[r] # "notStarted" /\ ~failed[r]
StopGoes == /\ \A r \in Runs : StopHolds(r) => Takes(r, r, {})
            /\ stopRun # NoRun /\ stopUp /\ ~failed[Operator] => Takes(Operator, stopRun, {})

\* A sweep has yet to come to a dead run, or takes all that is left of it.
Sweeping == \A r \in Runs : faults = 0 /\ pc[r] # "dead" =>
              \A v \in corpses[r] : v \in listed[r] \/ Takes(r, v, {})

Cleanup == Clearing /\ StopGoes /\ Sweeping

\* How a step of its own changes the removals of a run.
LEMMA NoOrders ==
  ASSUME Course, NEW r \in Runs, pc[r] \notin Removing
  PROVE  todo[r] = <<>> /\ listed[r] = {}
BY DEF Course, Orders, OrdersOf, Removing

\* The ways into unwinding, teardown and the end.
LEMMA ClearingGiveUp ==
  ASSUME Course, NEW r \in Runs, TypeOK', pc[r] \in Starting, UNCHANGED <<ctr, net>>,
         outcome'[r] = "notStarted",
         \A n \in Networks : Has(todo'[r], Cmd(r, "net", n)), Has(todo'[r], Cmd(r, "conf", "conf")),
         ctr[r]["proxy"] \in {"absent", "created"} \/ Has(todo'[r], Cmd(r, "rm", "proxy"))
  PROVE  ClearingOf(r)'
<1>1. ctr[r]["agent"] \in {"absent", "created"}
  BY NoAgentYet
<1>2. net'[r] \subseteq Networks
  BY DEF TypeOK
<1>3. Takes(r, r, {"created"})'
  BY <1>1, <1>2 DEF Takes, Containers
<1> QED BY <1>3 DEF ClearingOf, Spare

\* The process's own steps keep its cleanup on course.
LEMMA ClearingOwner ==
  ASSUME Course, Clearing, NEW r \in Runs, Owner(r), TypeOK', faults' = 0, faults = 0,
         pc'[r] \in Leaving
  PROVE  ClearingOf(r)'
<1> USE Apart
<1>1. /\ TypeOK /\ pc \in [Runs -> PCs] /\ outcome \in [Runs -> Outcomes]
      /\ todo \in [Procs -> Seq(Commands)]
  BY DEF Course, TypeOK
<1>2. Fault => FALSE
  BY <1>1, FaultCounts
<1>3. ASSUME NEW s, Goto(r, s) PROVE s \in Leaving
  BY <1>1, <1>3 DEF Goto
<1>4. ASSUME NEW step \in {"startProxy", "startAgent"}, GiveUp(r, step), UNCHANGED <<ctr, net>>,
             pc[r] \in Starting,
             step = "startProxy" => ctr[r]["proxy"] \in {"absent", "created"}
      PROVE  ClearingOf(r)'
  <2>1. todo'[r] = Rollback(r, step) /\ outcome'[r] = "notStarted"
    BY <1>1, <1>4 DEF GiveUp
  <2>2. /\ \A n \in Networks : Has(Rollback(r, step), Cmd(r, "net", n))
        /\ Has(Rollback(r, step), Cmd(r, "conf", "conf"))
        /\ step = "startAgent" => Has(Rollback(r, step), Cmd(r, "rm", "proxy"))
    BY RollbackFits DEF Steps
  <2> QED BY <1>4, <2>1, <2>2, ClearingGiveUp
<1>5. CASE RunRemoval(r)
  <2>1. UNCHANGED <<pc, outcome>>
    BY <1>5 DEF RunRemoval
  <2>2. ClearingOf(r)
    BY <2>1 DEF Clearing
  <2>3. Takes(r, r, Spare(outcome[r]))'
    <3>1. Takes(r, r, Spare(outcome[r]))
      BY <2>2 DEF ClearingOf
    <3>2. PICK spared \in SUBSET {"created"} : spared = Spare(outcome[r])
      BY DEF Spare
    <3>3. Takes(r, r, spared) => Takes(r, r, spared)'
      BY <1>5, TakesRemoval
    <3> QED BY <2>1, <3>1, <3>2, <3>3
  <2>4. conf'[r] => Has(todo'[r], Cmd(r, "conf", "conf"))
    <3>1. PICK c \in Commands :
           /\ todo[r] # <<>> /\ c = Head(todo[r]) /\ todo' = [todo EXCEPT ![r] = Tail(@)]
           /\ c.op = "conf" => ~conf'[c.run]
           /\ conf'[r] => conf[r]
      BY <1>1, <1>5, RemovalDone
    <3>2. \A d : Has(todo[r], d) => d = c \/ Has(todo'[r], d)
      BY <1>1, <3>1, TailKeeps
    <3>3. Cmd(r, "conf", "conf").op = "conf" /\ Cmd(r, "conf", "conf").run = r
      BY DEF Cmd
    <3> QED BY <2>2, <3>1, <3>2, <3>3 DEF ClearingOf
  <2> QED BY <2>3, <2>4 DEF ClearingOf
<1>6. CASE StartProxy(r)
  <2>1. pc[r] = "startProxy" /\ UNCHANGED net /\ GiveUp(r, "startProxy") /\ UNCHANGED ctr
    BY <1>3, <1>6 DEF StartProxy, StartContainer, Leaving
  <2>2. ctr[r]["proxy"] \in {"absent", "created"}
    BY <2>1 DEF Course, Made, MadeAt
  <2> QED BY <1>4, <2>1, <2>2 DEF Starting
<1>7. CASE StartAgent(r)
  <2>1. pc[r] = "startAgent" /\ UNCHANGED net /\ GiveUp(r, "startAgent") /\ UNCHANGED ctr
    BY <1>3, <1>7 DEF StartAgent, StartContainer, Leaving
  <2> QED BY <1>4, <2>1 DEF Starting
<1>8. CASE AwaitSquid(r)
  <2>1. pc[r] = "await" /\ UNCHANGED docker /\ GiveUp(r, "startAgent")
    BY <1>3, <1>8 DEF AwaitSquid, Leaving
  <2> QED BY <1>4, <2>1 DEF Starting, docker
<1>9. CASE Connect(r)
  <2> DEFINE list == <<Cmd(r, "rm", "proxy")>> \o Rollback(r, "startProxy")
  <2>1. /\ pc[r] = "connect" /\ UNCHANGED <<ctr, net>>
        /\ todo' = [todo EXCEPT ![r] = list] /\ outcome' = [outcome EXCEPT ![r] = "notStarted"]
    BY <1>3, <1>9 DEF Connect, Leaving
  <2>2. /\ \A n \in Networks : Has(list, Cmd(r, "net", n))
        /\ Has(list, Cmd(r, "conf", "conf")) /\ Has(list, Cmd(r, "rm", "proxy"))
    BY RollbackFits DEF Steps
  <2> HIDE DEF list
  <2>3. todo'[r] = list /\ outcome'[r] = "notStarted"
    BY <1>1, <2>1
  <2> QED BY <2>1, <2>2, <2>3, ClearingGiveUp DEF Starting
<1>10. CASE Flush(r)
  <2>1. todo'[r] = StopList(r)
    BY <1>1, <1>10 DEF Flush
  <2> QED BY <2>1, StopListFits, TakesAll DEF ClearingOf
<1>11. CASE Return(r)
  <2>1. UNCHANGED <<todo, outcome, ctr, net, conf>> /\ pc[r] \in Leaving
    BY <1>11 DEF Return, docker, Leaving
  <2>2. ClearingOf(r)
    BY <2>1 DEF Clearing
  <2> QED BY <2>1, <2>2 DEF ClearingOf, Takes
<1>12. CASE CreateExtNet(r) \/ CreateIntNet(r) \/ BindAndConfigure(r) \/ CreateProxy(r) \/ CreateAgent(r)
  BY <1>2, <1>3, <1>12 DEF CreateExtNet, CreateIntNet, BindAndConfigure, CreateProxy, CreateAgent,
                           CreateContainer, Leaving
<1>13. CASE List(r) \/ Swept(r) \/ SetUp(r) \/ WaitReturns(r) \/ Judge(r)
  BY <1>3, <1>13 DEF List, Swept, SetUp, WaitReturns, Judge, Leaving
<1>14. CASE \E u \in Runs : Sweep(r, u)
  BY <1>14 DEF Sweep, Leaving
<1> QED BY <1>5, <1>6, <1>7, <1>8, <1>9, <1>10, <1>11, <1>12, <1>13, <1>14 DEF Owner

\* Every step does.
LEMMA ClearingStep ==
  ASSUME Course, Clearing, [Next]_vars
  PROVE  Clearing'
<1> SUFFICES ASSUME NEW r \in Runs, faults' = 0, pc'[r] \in Leaving PROVE ClearingOf(r)'
  BY DEF Clearing
<1>1. TypeOK /\ TypeOK' /\ faults = 0
  BY TypeStep, FaultsStay DEF Course
<1>2. CASE Owner(r)
  BY <1>1, <1>2, ClearingOwner
<1>3. CASE Shrinks(r) /\ Rests(r)
  <2>1. ClearingOf(r) /\ todo'[r] = todo[r] /\ outcome'[r] = outcome[r] /\ (conf'[r] => conf[r])
    BY <1>1, <1>3 DEF Clearing, Rests, Shrinks
  <2>2. PICK spared \in SUBSET {"created"} : spared = Spare(outcome[r])
    BY DEF Spare
  <2>3. Takes(r, r, spared)
    BY <2>1, <2>2 DEF ClearingOf
  <2>4. Takes(r, r, spared)'
    BY <1>3, <2>1, <2>3, TakesStill, Apart
  <2>5. Takes(r, r, Spare(outcome[r]))'
    BY <2>1, <2>2, <2>4
  <2> QED BY <2>1, <2>5 DEF ClearingOf
<1>4. CASE pc'[r] = "dead"
  BY <1>4 DEF Leaving
<1> QED BY <1>1, <1>2, <1>3, <1>4, Shares

\* After Start, a process's own steps leave nothing that Stop would not remove.
LEMMA StopGoesOwner ==
  ASSUME Course, StopGoes, NEW r \in Runs, Owner(r), TypeOK', StopHolds(r)'
  PROVE  Takes(r, r, {})'
<1> USE Apart
<1>1. /\ TypeOK /\ pc \in [Runs -> PCs] /\ outcome \in [Runs -> Outcomes]
      /\ todo \in [Procs -> Seq(Commands)] /\ failed \in [Procs -> BOOLEAN]
  BY DEF Course, TypeOK
<1>2. pc'[r] \in {"teardown", "over"} /\ outcome'[r] # "notStarted" /\ ~failed'[r]
  BY DEF StopHolds
<1>3. ASSUME NEW s, Goto(r, s) PROVE s \in {"teardown", "over"}
  BY <1>1, <1>2, <1>3 DEF Goto
<1>4. CASE RunRemoval(r)
  <2>1. UNCHANGED <<pc, outcome>>
    BY <1>4 DEF RunRemoval
  <2>2. ~failed[r] /\ todo[r] # <<>>
    BY <1>1, <1>2, <1>4, RemovalDone DEF RunRemoval
  <2>3. pc[r] = "teardown"
    BY <1>2, <2>1, <2>2, NoOrders DEF Removing
  <2>4. Takes(r, r, {})
    BY <1>2, <2>1, <2>2 DEF StopGoes, StopHolds
  <2> QED BY <1>2, <1>4, <2>3, <2>4, TakesRemoval
<1>5. CASE Flush(r)
  <2>1. todo'[r] = StopList(r)
    BY <1>1, <1>5 DEF Flush
  <2> QED BY <2>1, StopListFits, TakesAll
<1>6. CASE Return(r)
  <2>1. UNCHANGED <<todo, outcome, ctr, net, failed>> /\ pc[r] \in {"unwind", "teardown"}
    BY <1>6 DEF Return, docker
  <2>2. pc[r] = "teardown"
    BY <1>2, <2>1 DEF Course, Made, MadeAt
  <2>3. Takes(r, r, {})
    BY <1>2, <2>1, <2>2 DEF StopGoes, StopHolds
  <2> QED BY <2>1, <2>3 DEF Takes
<1>7. CASE CreateExtNet(r) \/ CreateIntNet(r) \/ BindAndConfigure(r) \/ AwaitSquid(r)
  BY <1>3, <1>7 DEF CreateExtNet, CreateIntNet, BindAndConfigure, AwaitSquid, GiveUp
<1>8. CASE CreateProxy(r) \/ CreateAgent(r) \/ StartProxy(r) \/ StartAgent(r) \/ Connect(r)
  BY <1>3, <1>8 DEF CreateProxy, CreateAgent, StartProxy, StartAgent, CreateContainer, StartContainer,
                    Connect, GiveUp
<1>9. CASE List(r) \/ Swept(r) \/ SetUp(r) \/ WaitReturns(r) \/ Judge(r)
  BY <1>3, <1>9 DEF List, Swept, SetUp, WaitReturns, Judge
<1>10. CASE \E u \in Runs : Sweep(r, u)
  BY <1>2, <1>10 DEF Sweep
<1> QED BY <1>4, <1>5, <1>6, <1>7, <1>8, <1>9, <1>10 DEF Owner

\* Nothing but its own steps, and a reboot, changes what `constle stop` has to do.
LEMMA OperatorRests ==
  ASSUME TypeOK, [Next]_vars
  PROVE  \/ RunRemoval(Operator) \/ (\E v \in Runs : OperatorStop(v))
         \/ /\ stopRun' = stopRun /\ stopUp' = stopUp
            /\ ~failed'[Operator] => ~failed[Operator] /\ todo'[Operator] = todo[Operator]
<1> USE Apart
<1>1. todo \in [Procs -> Seq(Commands)] /\ failed \in [Procs -> BOOLEAN]
  BY DEF TypeOK
<1> DEFINE Still == /\ stopRun' = stopRun /\ stopUp' = stopUp
                    /\ ~failed'[Operator] => ~failed[Operator] /\ todo'[Operator] = todo[Operator]
           Own(r) == /\ UNCHANGED stopCmd /\ UNCHANGED failed
                     /\ todo' = todo \/ \E l : todo' = [todo EXCEPT ![r] = l]
<1>2. ASSUME NEW r \in Runs, Own(r) PROVE Still
  BY <1>1, <1>2 DEF stopCmd
<1>3. ASSUME NEW r \in Runs, Owner(r) PROVE Still
  <2>1. CASE RunRemoval(r)
    <3>1. UNCHANGED stopCmd /\ todo'[Operator] = todo[Operator]
      BY <1>1, <2>1 DEF RunRemoval
    <3>2. ~failed'[Operator] => ~failed[Operator]
      BY <2>1, RemovalDone
    <3> QED BY <3>1, <3>2 DEF stopCmd
  <2>2. CASE List(r) \/ Swept(r) \/ (\E u \in Runs : Sweep(r, u))
    <3>1. Own(r)
      BY <2>2 DEF List, Swept, Sweep
    <3> QED BY <3>1, <1>2
  <2>3. CASE CreateExtNet(r) \/ CreateIntNet(r) \/ BindAndConfigure(r) \/ Connect(r) \/ AwaitSquid(r)
    <3>1. Own(r)
      BY <2>3 DEF CreateExtNet, CreateIntNet, BindAndConfigure, GiveUp, Connect, AwaitSquid
    <3> QED BY <3>1, <1>2
  <2>4. CASE CreateProxy(r) \/ StartProxy(r) \/ CreateAgent(r) \/ StartAgent(r)
    <3>1. Own(r)
      BY <2>4 DEF CreateProxy, StartProxy, CreateAgent, StartAgent, CreateContainer, StartContainer, GiveUp
    <3> QED BY <3>1, <1>2
  <2>5. CASE SetUp(r) \/ WaitReturns(r) \/ Judge(r) \/ Flush(r) \/ Return(r)
    <3>1. Own(r)
      BY <2>5 DEF SetUp, WaitReturns, Judge, Flush, Return
    <3> QED BY <3>1, <1>2
  <2> HIDE DEF Still
  <2> QED BY <1>3, <2>1, <2>2, <2>3, <2>4, <2>5 DEF Owner
<1>4. ASSUME NEW r \in Runs, AgentExits(r) \/ ProxyExits(r) \/ Crash(r) PROVE Still
  <2>1. CASE AgentExits(r) \/ ProxyExits(r)
    BY <2>1 DEF AgentExits, ProxyExits, stopCmd
  <2>2. CASE Crash(r)
    BY <2>2 DEF Crash, Die, stopCmd
  <2> QED BY <1>4, <2>1, <2>2
<1>5. ASSUME NEW r \in Runs, NEW a \in Causes, Alarm(r, a) \/ Kill(r, a) PROVE Still
  BY <1>5 DEF Alarm, Kill, stopCmd
<1>6. ASSUME Reboot PROVE Still
  <2>1. todo'[Operator] = <<>> /\ failed'[Operator] = (failed[Operator] \/ todo[Operator] # <<>>)
    BY <1>1, <1>6 DEF Reboot, Die
  <2> QED BY <1>6, <2>1 DEF Reboot, stopCmd
<1>7. ASSUME UNCHANGED vars PROVE Still
  BY <1>7 DEF vars, stopCmd
<1> HIDE DEF Still
<1>8. Still \/ RunRemoval(Operator) \/ \E v \in Runs : OperatorStop(v)
  BY <1>3, <1>4, <1>5, <1>6, <1>7 DEF Next, AllOver
<1> QED BY <1>8 DEF Still

\* Nor does any other step.
LEMMA StopGoesStep ==
  ASSUME Course, StopGoes, [Next]_vars
  PROVE  StopGoes'
<1> USE Apart
<1>1. TypeOK /\ TypeOK'
  BY TypeStep DEF Course
<1>2. ASSUME NEW r \in Runs, StopHolds(r)' PROVE Takes(r, r, {})'
  <2>1. CASE Owner(r)
    BY <1>1, <1>2, <2>1, StopGoesOwner
  <2>2. CASE Shrinks(r) /\ Rests(r)
    <3>1. Takes(r, r, {}) /\ todo'[r] = todo[r]
      BY <1>2, <2>2 DEF StopGoes, StopHolds, Rests
    <3> QED BY <2>2, <3>1, TakesStill
  <2>3. CASE pc'[r] = "dead"
    BY <1>2, <2>3 DEF StopHolds
  <2> QED BY <1>1, <2>1, <2>2, <2>3, Shares
<1>3. ASSUME stopRun' # NoRun, stopUp', ~failed'[Operator]
      PROVE  Takes(Operator, stopRun, {})'
  <2>1. CASE RunRemoval(Operator)
    <3>1. stopRun' = stopRun /\ stopUp' = stopUp /\ ~failed[Operator]
      BY <1>1, <1>3, <2>1, RemovalDone DEF RunRemoval, stopCmd
    <3>2. PICK v \in Runs : v = stopRun
      BY <1>1, <1>3, <3>1 DEF TypeOK
    <3>3. Takes(Operator, v, {})
      BY <1>3, <3>1, <3>2 DEF StopGoes
    <3>4. Takes(Operator, v, {})'
      BY <1>3, <2>1, <3>3, TakesRemoval
    <3> QED BY <3>1, <3>2, <3>4
  <2>2. ASSUME NEW v \in Runs, OperatorStop(v) PROVE Takes(Operator, stopRun, {})'
    <3>1. stopRun' = v /\ todo'[Operator] = RemoveByName(v)
      BY <1>1, <2>2 DEF OperatorStop, TypeOK
    <3>2. Takes(Operator, v, {})'
      BY <1>1, <3>1, NameList, TakesAll
    <3> QED BY <3>1, <3>2
  <2>3. CASE /\ stopRun' = stopRun /\ stopUp' = stopUp
             /\ ~failed[Operator] /\ todo'[Operator] = todo[Operator]
    <3>1. PICK v \in Runs : v = stopRun
      BY <1>1, <1>3, <2>3 DEF TypeOK
    <3>2. Takes(Operator, v, {}) /\ pc[v] \notin Starting
      BY <1>3, <2>3, <3>1 DEF StopGoes, Course, StopLate
    <3>3. Shrinks(v)
      BY <1>1, <3>2, Shares
    <3>4. Takes(Operator, v, {})'
      BY <2>3, <3>2, <3>3, TakesStill
    <3> QED BY <2>3, <3>1, <3>4
  <2> QED BY <1>1, <1>3, <2>1, <2>2, <2>3, OperatorRests
<1> QED BY <1>2, <1>3 DEF StopGoes

\* How a step of a sweeping run's own changes its lists.
LEMMA OwnerLists ==
  ASSUME Course, NEW r \in Runs, Owner(r)
  PROVE  \/ List(r) \/ (\E u \in Runs : Sweep(r, u))
         \/ /\ listed'[r] = listed[r] /\ corpses'[r] = corpses[r]
            /\ RunRemoval(r) \/ todo'[r] = todo[r] \/ todo[r] = <<>>
<1> DEFINE Same == UNCHANGED <<listed, corpses>>
           Listed == /\ listed'[r] = listed[r] /\ corpses'[r] = corpses[r]
                     /\ RunRemoval(r) \/ todo'[r] = todo[r] \/ todo[r] = <<>>
<1>1. CASE RunRemoval(r)
  BY <1>1 DEF RunRemoval, history
<1>2. CASE Swept(r) \/ SetUp(r) \/ WaitReturns(r) \/ Judge(r) \/ Return(r)
  BY <1>2 DEF Swept, SetUp, WaitReturns, Judge, Return, history
<1>3. CASE Flush(r)
  <2>1. todo[r] = <<>>
    BY <1>3, NoOrders DEF Flush, Removing
  <2> QED BY <1>3, <2>1 DEF Flush, history
<1>4. ASSUME pc[r] \in Starting, Same PROVE Listed
  <2>1. todo[r] = <<>>
    BY <1>4, NoOrders DEF Starting, Removing
  <2> QED BY <1>4, <2>1
<1> HIDE DEF Listed
<1>5. CASE CreateExtNet(r) \/ CreateIntNet(r) \/ BindAndConfigure(r) \/ AwaitSquid(r) \/ Connect(r)
  <2>1. pc[r] \in Starting /\ Same
    BY <1>5 DEF CreateExtNet, CreateIntNet, BindAndConfigure, AwaitSquid, Connect, Starting, history
  <2> QED BY <1>4, <2>1 DEF Listed
<1>6. CASE CreateProxy(r) \/ CreateAgent(r) \/ StartProxy(r) \/ StartAgent(r)
  <2>1. pc[r] \in Starting /\ Same
    BY <1>6 DEF CreateProxy, CreateAgent, StartProxy, StartAgent, CreateContainer, StartContainer,
                Starting, history
  <2> QED BY <1>4, <2>1 DEF Listed
<1> QED BY <1>1, <1>2, <1>3, <1>5, <1>6 DEF Owner

\* Every step keeps a sweep on course.
LEMMA SweepingStep ==
  ASSUME Course, Sweeping, [Next]_vars
  PROVE  Sweeping'
<1> USE Apart
<1> SUFFICES ASSUME NEW r \in Runs, faults' = 0, pc'[r] # "dead", NEW v \in corpses'[r]
             PROVE  v \in listed'[r] \/ Takes(r, v, {})'
  BY DEF Sweeping
<1>1. TypeOK /\ TypeOK' /\ faults = 0
  BY TypeStep, FaultsStay DEF Course
<1>2. v \in Runs
  BY <1>1 DEF TypeOK
\* A run whose listing is as it was.
<1>3. ASSUME corpses'[r] = corpses[r], pc[r] # "dead"
      PROVE  /\ v \in listed[r] \/ Takes(r, v, {})
             /\ Shrinks(v) /\ v # r
  <2>1. v \in listed[r] \/ Takes(r, v, {})
    BY <1>1, <1>3 DEF Sweeping
  <2>2. pc[v] \notin Starting /\ v # r
    BY <1>3 DEF Course, Buried, Ended, Starting
  <2>3. Shrinks(v)
    BY <1>1, <1>2, <2>2, Shares
  <2> QED BY <2>1, <2>2, <2>3
<1>4. CASE List(r)
  <2>1. pc[r] = "idle" /\ corpses[r] = {}
    BY <1>4 DEF List, Course, Buried
  <2>2. \/ corpses' = corpses
        \/ /\ listed' = [listed EXCEPT ![r] = {u \in Runs : Abandoned(u)}]
           /\ corpses' = [corpses EXCEPT ![r] = {u \in Runs : ~Alive(u) /\ Faltering(u)}]
    BY <1>4 DEF List, history
  <2>3. v \in listed'[r]
    BY <1>1, <2>1, <2>2 DEF Abandoned, TypeOK
  <2> QED BY <2>3
<1>5. ASSUME NEW u \in Runs, Sweep(r, u) PROVE v \in listed'[r] \/ Takes(r, v, {})'
  <2>1. /\ pc[r] = "sweep" /\ todo[r] = <<>> /\ corpses' = corpses
        /\ listed'[r] = listed[r] \ {u} /\ todo'[r] = RemoveByName(u)
    BY <1>1, <1>5 DEF Sweep, history, TypeOK
  <2>2. CASE v = u
    BY <1>1, <2>1, <2>2, NameList, TakesAll
  <2>3. CASE v # u
    <3>1. v \in listed[r] \/ Takes(r, v, {})
      BY <1>3, <2>1
    <3> QED BY <1>2, <1>3, <2>1, <2>3, <3>1, TakesStill
  <2> QED BY <2>2, <2>3
<1>6. CASE Owner(r) /\ ~List(r) /\ ~(\E u \in Runs : Sweep(r, u))
  <2>1. /\ listed'[r] = listed[r] /\ corpses'[r] = corpses[r]
        /\ RunRemoval(r) \/ todo'[r] = todo[r] \/ todo[r] = <<>>
    BY <1>6, OwnerLists
  <2>2. pc[r] # "dead"
    BY <1>6 DEF Owner, List, Swept, CreateExtNet, CreateIntNet, BindAndConfigure, CreateProxy, StartProxy,
                Connect, AwaitSquid, CreateAgent, StartAgent, CreateContainer, StartContainer, SetUp,
                WaitReturns, Judge, Flush, Return, RunRemoval, Course, Orders, OrdersOf, Removing
  <2>3. CASE RunRemoval(r)
    BY <1>1, <1>2, <1>3, <2>1, <2>2, <2>3, TakesRemoval
  <2>4. CASE todo'[r] = todo[r] \/ todo[r] = <<>>
    BY <1>2, <1>3, <2>1, <2>2, <2>4, TakesStill
  <2> QED BY <2>1, <2>3, <2>4
<1>7. CASE Shrinks(r) /\ Rests(r)
  <2>1. /\ listed'[r] = listed[r] /\ corpses'[r] = corpses[r] /\ todo'[r] = todo[r] /\ pc[r] # "dead"
    BY <1>7 DEF Rests
  <2> QED BY <1>2, <1>3, <2>1, TakesStill
<1> QED BY <1>1, <1>4, <1>5, <1>6, <1>7, Shares

---------------------------------------------------------------------------
(***************************************************************************)
(* Theorems                                                                *)
(***************************************************************************)
IInv == Course /\ Killed /\ Intact /\ Cleanup

\* The invariant holds at first.
LEMMA IInvInit == Init => IInv
<1> SUFFICES ASSUME Init PROVE IInv
  OBVIOUS
<1>1. Course
  BY CourseInit
<1>2. Killed
  BY DEF Init, Killed
<1>3. Intact
  BY DEF Init, Intact, FitNow, Fit, Joined
<1>4. Cleanup
  BY DEF Init, Cleanup, Clearing, StopGoes, StopHolds, Sweeping, Leaving
<1> QED BY <1>1, <1>2, <1>3, <1>4 DEF IInv

\* Every step keeps it.
LEMMA IInvStep ==
  ASSUME IInv, [Next]_vars
  PROVE  IInv'
BY CourseStep, KilledStep, IntactStep, ClearingStep, StopGoesStep, SweepingStep
   DEF IInv, Cleanup, Course

\* The variables keep their types.
THEOREM TypeCorrect == Spec => []TypeOK
<1>1. IInv => TypeOK
  BY DEF IInv, Course
<1> QED BY <1>1, IInvInit, IInvStep, PTL DEF Spec

\* A run that was felled by a kill path (killAgent) is never reported as one that
\* finished, failed or was incomplete by itself: cmdRun's chain of selects after
\* Wait finds the cause that was announced before the kill.
THEOREM KilledIsReportedHolds == Spec => []KilledIsReported
<1>1. IInv => KilledIsReported
  BY DEF IInv, Killed, KilledIsReported
<1> QED BY <1>1, IInvInit, IInvStep, PTL DEF Spec

\* A run that was listed by no sweep while it was starting or faltering, and was
\* not stopped by an operator, keeps its proxy, its networks and the link between
\* them for as long as its agent may need them, whatever sweeps and rollbacks
\* other runs carry out at the same time (cleanupAbandoned, Stop).
THEOREM SweepSparesRunningHolds == Spec => []SweepSparesRunning
<1>1. IInv => SweepSparesRunning
  <2> SUFFICES ASSUME IInv, NEW r \in Runs, pc[r] = "wait", Spared(r)
               PROVE  ctr[r]["proxy"] = "running" /\ net[r] = Networks /\ joined[r]
    BY DEF SweepSparesRunning, Spared
  <2>1. FitNow(r) /\ net[r] \subseteq Networks
    BY DEF IInv, Intact, Course, TypeOK
  <2> QED BY <2>1 DEF FitNow, Fit, Joined
<1> QED BY <1>1, IInvInit, IInvStep, PTL DEF Spec

\* A run's proxy log has been read by the time its containers are removed: Stop,
\* deferred first, runs after the flush of the log (cmdRun).
THEOREM LogsBeforeRemovalHolds == Spec => []LogsBeforeRemoval
<1>1. IInv => LogsBeforeRemoval
  BY DEF IInv, Intact, Spared, FitNow, Fit, LogsBeforeRemoval
<1> QED BY <1>1, IInvInit, IInvStep, PTL DEF Spec

\* When no removal is listed any more, what was to be removed is gone.
LEMMA NothingToTake ==
  ASSUME NEW p, NEW v, NEW spared, Takes(p, v, spared),
         \A c : c.run = v => ~Has(todo[p], c)
  PROVE  net[v] = {} /\ \A k \in Containers : ctr[v][k] \in spared \union {"absent"}
<1>1. \A op, what : Cmd(v, op, what).run = v
  BY DEF Cmd
<1> QED BY <1>1 DEF Takes

\* When its process returns and no command failed, a run has no Squid file and no
\* network left and no container but one that Start created and could not start;
\* when Stop, or `constle stop` of a run past Start, reports success, the run has
\* none at all, faults or not (dockerBackend.Stop, StopByRunID).
THEOREM NothingLeftHolds == Spec => []NothingLeft
<1>1. IInv => NothingLeft
  <2> SUFFICES ASSUME IInv PROVE NothingLeft
    OBVIOUS
  <2> USE Apart
  <2>1. Course /\ Clearing /\ StopGoes
    BY DEF IInv, Cleanup
  <2>2. ASSUME NEW r \in Runs, pc[r] = "over"
        PROVE  \A c : ~Has(todo[r], c)
    BY <2>1, <2>2, NoOrders, NothingListed DEF Removing
  <2>3. ASSUME NEW r \in Runs, pc[r] = "over", faults = 0
        PROVE  /\ ~conf[r] /\ net[r] = {}
               /\ \A k \in Containers :
                    ctr[r][k] = "absent" \/ (ctr[r][k] = "created" /\ outcome[r] = "notStarted")
    <3>1. ClearingOf(r)
      BY <2>1, <2>3 DEF Clearing, Leaving
    <3>2. PICK spared : spared = Spare(outcome[r])
      OBVIOUS
    <3>3. net[r] = {} /\ \A k \in Containers : ctr[r][k] \in spared \union {"absent"}
      BY <2>2, <2>3, <3>1, <3>2, NothingToTake DEF ClearingOf
    <3> QED BY <2>2, <2>3, <3>1, <3>2, <3>3 DEF ClearingOf, Spare
  <2>4. ASSUME NEW r \in Runs, pc[r] = "over", outcome[r] # "notStarted", ~failed[r]
        PROVE  Gone(r)
    <3>1. Takes(r, r, {})
      BY <2>1, <2>4 DEF StopGoes, StopHolds
    <3>2. net[r] = {} /\ \A k \in Containers : ctr[r][k] \in {} \union {"absent"}
      BY <2>2, <2>4, <3>1, NothingToTake
    <3> QED BY <3>2 DEF Gone
  <2>5. ASSUME stopRun # NoRun, stopUp, todo[Operator] = <<>>, ~failed[Operator]
        PROVE  Gone(stopRun)
    <3>1. Takes(Operator, stopRun, {})
      BY <2>1, <2>5 DEF StopGoes
    <3>2. \A c : ~Has(todo[Operator], c)
      BY <2>5, NothingListed
    <3> QED BY <3>1, <3>2 DEF Gone, Takes
  <2> QED BY <2>3, <2>4, <2>5 DEF NothingLeft
<1> QED BY <1>1, IInvInit, IInvStep, PTL DEF Spec

\* A sweep without a failed command removes every dead run it listed, containers
\* and networks, before its own run starts (cleanupAbandoned).
THEOREM SweepIsThoroughHolds == Spec => []SweepIsThorough
<1>1. IInv => SweepIsThorough
  <2> SUFFICES ASSUME IInv, NEW r \in Runs, faults = 0, pc[r] \notin {"idle", "sweep", "dead"},
                      NEW v \in corpses[r]
               PROVE  Gone(v)
    BY DEF SweepIsThorough
  <2>1. Course /\ Sweeping
    BY DEF IInv, Cleanup
  <2>2. /\ listed[r] = {} /\ Concerns(todo[r], {r})
    BY <2>1 DEF Course, Orders, OrdersOf
  <2>3. v \in Runs /\ v # r
    BY <2>1 DEF Course, Buried, TypeOK
  <2>4. Takes(r, v, {})
    BY <2>1, <2>2 DEF Sweeping
  <2>5. \A c : c.run = v => ~Has(todo[r], c)
    BY <2>2, <2>3 DEF Concerns, Has
  <2>6. net[v] = {} /\ \A k \in Containers : ctr[v][k] \in {} \union {"absent"}
    BY <2>4, <2>5, NothingToTake
  <2> QED BY <2>6 DEF Gone
<1> QED BY <1>1, IInvInit, IInvStep, PTL DEF Spec
=============================================================================
