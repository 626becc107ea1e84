--------------------------- MODULE KeyFilesProofs ---------------------------
(***************************************************************************)
(* Proofs about KeyFiles, for every number of processes and commands, any  *)
(* of them under sudo, whatever directories and metadata there are at      *)
(* first and whatever the user does among them.                            *)
(***************************************************************************)
EXTENDS KeyFiles, TLAPS

USE SudoAssumption, BoundAssumption, LeftoverAssumption

-----------------------------------------------------------------------------
(* The types.                                                              *)

Stations == {"idle", "mkdir", "handover", "key", "ownkey", "writekey", "meta", "ownmeta", "reopen",
             "writemeta", "loadmeta"}

DiskTypes == dirs \in [Levels -> Dirs] /\ key \in Files /\ meta \in Files
ProcTypes ==
  /\ pc \in [Procs -> Stations]
  /\ number \in [Procs -> Nat] /\ level \in [Procs -> Levels] /\ fd \in [Procs -> Nat]
  /\ made \in [Procs -> BOOLEAN] /\ got \in [Procs -> [key : Nat, did : Nat]]
TypeOK == DiskTypes /\ ProcTypes /\ cut \subseteq Nat /\ commands \in Nat /\ changes \in Nat

-----------------------------------------------------------------------------
(* The inductive invariant.                                                *)

\* Every command has a number of its own, also on what it has created.
NumberInv ==
  /\ \A p \in Procs : number[p] <= commands /\ (pc[p] # "idle" => number[p] # 0)
  /\ \A p, q \in Procs : number[p] = number[q] => p = q \/ number[p] = 0
  /\ key.id <= commands /\ meta.id <= commands
  /\ key.is = "none" => key = NoFile
  /\ meta.is = "none" => meta = NoFile

\* A key is empty until the command that made it has written it.
FreshKeyInv ==
  \A p \in Procs : pc[p] \in {"ownkey", "writekey"} /\ key.id = number[p] => key.body = 0

\* What a process returned is a pair.
LoadInv ==
  \A p \in Procs : /\ got[p] # NotLoaded => got[p].key # 0 /\ got[p].did = got[p].key
                   /\ pc[p] = "loadmeta" => fd[p] # 0

\* And as long as the user changes nothing, the pair of the one complete key;
\* a Create past O_EXCL has the file to itself.
PairInv ==
  changes = 0 =>
    \A p \in Procs :
      /\ got[p] # NotLoaded => got[p].key = key.body
      /\ pc[p] = "loadmeta" => fd[p] = key.body
      /\ pc[p] \in {"meta", "ownmeta", "reopen", "writemeta"} => key.body = number[p]
      /\ pc[p] \in {"ownkey", "writekey"} => key.is = "file" /\ key.id = number[p] /\ key.body = 0

\* What is root's and was created by a command is about to be handed over.
Owed(x, where) ==
  x.is # "none" /\ x.id # 0 /\ x.owner = "root" /\ x.id \notin cut =>
    \E p \in Sudo : number[p] = x.id /\ pc[p] = where
DirOwed(i) ==
  dirs[i].is # "none" /\ dirs[i].id # 0 /\ dirs[i].owner = "root" /\ dirs[i].id \notin cut =>
    \E p \in Sudo : /\ number[p] = dirs[i].id /\ pc[p] = "handover"
                    /\ dirs[i].is = "dir" /\ fd[p] = dirs[i].id /\ made[p] /\ level[p] = i
OwnerInv == Owed(key, "ownkey") /\ Owed(meta, "ownmeta") /\ \A i \in Levels : DirOwed(i)

\* A metadata file that is being written under sudo is nobody else's.
Ours(x) == x.owner \in {"root", "user"} /\ x.links = 1
MetaInv ==
  /\ meta.id # 0 => Ours(meta)
  /\ \A p \in Sudo : pc[p] \in {"ownmeta", "writemeta"} /\ meta.is = "file" /\ meta.id = fd[p] => Ours(meta)

IInv == TypeOK /\ NumberInv /\ FreshKeyInv /\ LoadInv /\ PairInv /\ OwnerInv /\ MetaInv

-----------------------------------------------------------------------------
(* What a step of a command may do, to the files and to itself.            *)

Late == {"meta", "ownmeta", "reopen", "writemeta"}

\* Create or Load starts, with the next number.
Begins(p) ==
  /\ pc[p] = "idle" /\ pc'[p] \in {"idle", "mkdir", "loadmeta"}
  /\ commands' = commands + 1 /\ number' = [number EXCEPT ![p] = commands + 1]
  /\ UNCHANGED <<dirs, key, meta, cut>>
  /\ got'[p] \in {got[p], NotLoaded}
  /\ pc'[p] = "loadmeta" => fd'[p] = key.body /\ key.body # 0

\* A file as a command makes it, and one that was given to the user or written to.
IsNew(p, f) ==
  /\ f \in Files /\ f.is = "file" /\ f.id = number[p] /\ f.owner = Self(p) /\ f.links = 1
  /\ f.body = 0
Alike(f, g)     == g \in Files /\ g.is = f.is /\ g.id = f.id /\ g.links = f.links
IsGiven(f, g)   == Alike(f, g) /\ g.owner = "user" /\ g.body = f.body
IsWritten(f, g, n) == Alike(f, g) /\ g.owner = f.owner /\ g.body = n

KeyStep(p) ==
  \/ /\ key' = key
     /\ pc'[p] \in {"ownkey", "writekey"} => pc[p] = "ownkey"
     /\ pc'[p] \in Late => pc[p] \in Late \/ (pc[p] = "writekey" /\ key.id # number[p])
     /\ pc[p] = "ownkey" => key.id # number[p] \/ number[p] \in cut'
  \/ /\ pc[p] = "key" /\ key.is = "none" /\ IsNew(p, key')
     /\ pc'[p] = (IF p \in Sudo THEN "ownkey" ELSE "writekey")
  \/ /\ pc[p] = "ownkey" /\ key.id = number[p] /\ IsGiven(key, key')
     /\ pc'[p] = "writekey"
  \/ pc[p] = "ownkey" /\ key' = NoFile /\ pc'[p] = "idle"
  \/ /\ pc[p] = "writekey" /\ key.id = number[p] /\ IsWritten(key, key', number[p])
     /\ pc'[p] = "meta"

MetaStep(p) ==
  \/ /\ meta' = meta
     /\ pc'[p] \in {"ownmeta", "writemeta"} => pc[p] = "ownmeta" /\ fd'[p] = fd[p]
     /\ pc[p] = "ownmeta" => meta.id # number[p] \/ number[p] \in cut'
  \/ /\ pc[p] = "meta" /\ meta.is = "none" /\ IsNew(p, meta')
     /\ pc'[p] = (IF p \in Sudo THEN "ownmeta" ELSE "writemeta")
  \/ /\ pc[p] = "ownmeta" /\ meta.id = number[p] /\ IsGiven(meta, meta')
     /\ pc'[p] = "writemeta"
  \/ pc[p] = "ownmeta" /\ meta' = NoFile /\ pc'[p] = "idle"
  \/ /\ pc[p] = "reopen" /\ meta.is = "file" /\ Acceptable(p, meta) /\ IsWritten(meta, meta', 0)
     /\ pc'[p] = "writemeta"
  \/ /\ pc[p] = "writemeta" /\ meta.is = "file" /\ meta.id = fd[p]
     /\ IsWritten(meta, meta', number[p]) /\ pc'[p] = "idle"

DirStep(p) ==
  \/ /\ dirs' = dirs
     /\ pc[p] = "handover" /\ HandsOver(p, dirs[level[p]]) /\ dirs[level[p]].is = "dir"
          /\ dirs[level[p]].id = fd[p] => number[p] \in cut'
  \/ /\ pc[p] = "mkdir" /\ pc'[p] = "handover" /\ made'[p] /\ fd'[p] = number[p] /\ level'[p] = level[p]
     /\ dirs' = [dirs EXCEPT ![level[p]] =
                   [NoDir EXCEPT !.is = "dir", !.id = number[p], !.owner = Self(p)]]
  \/ pc[p] = "handover" /\ dirs' = [dirs EXCEPT ![level[p]].owner = "user"]

\* What it returns, if it does.
GotStep(p) ==
  \/ got'[p] \in {got[p], NotLoaded}
  \/ pc[p] = "writemeta" /\ got'[p] = [key |-> number[p], did |-> number[p]]
  \/ pc[p] = "loadmeta" /\ got'[p] = [key |-> fd[p], did |-> fd[p]]

Advances(p) ==
  /\ pc[p] # "idle" /\ pc'[p] # "loadmeta"
  /\ UNCHANGED <<number, commands>> /\ cut \subseteq cut'
  /\ KeyStep(p) /\ MetaStep(p) /\ DirStep(p) /\ GotStep(p)

Others(p) ==
  \A q \in Procs \ {p} :
    /\ pc'[q] = pc[q] /\ number'[q] = number[q] /\ level'[q] = level[q]
    /\ fd'[q] = fd[q] /\ made'[q] = made[q] /\ got'[q] = got[q]

\* The file a command creates carries its number and is empty.
LEMMA NewFact ==
  ASSUME NEW p \in Procs, number[p] \in Nat
  PROVE  IsNew(p, NewFile(p))
  BY DEF IsNew, NewFile, NoFile, Files, Owners, Self

\* An absent file is of no command.
LEMMA EmptyFact == NoFile \in Files /\ NoFile.is = "none" /\ NoFile.id = 0 /\ NoFile.body = 0
  BY DEF NoFile, Files, Owners

\* A hand-over changes the owner alone.
LEMMA GivenFact ==
  ASSUME NEW f \in Files
  PROVE  IsGiven(f, [f EXCEPT !.owner = "user"])
  BY DEF IsGiven, Alike, Files, Owners

\* A write changes the contents alone.
LEMMA WrittenFact ==
  ASSUME NEW f \in Files, NEW n \in Nat
  PROVE  IsWritten(f, [f EXCEPT !.body = n], n)
  BY DEF IsWritten, Alike, Files, Owners

\* Every step of a command is one of these, and the process's own.
LEMMA StepShape ==
  ASSUME TypeOK, NEW p \in Procs, Constle(p)
  PROVE  Others(p) /\ changes' = changes /\ (Begins(p) \/ Advances(p))
<1> USE DEF TypeOK, DiskTypes, ProcTypes, self, Goto, Fail
<1> DEFINE Goal == Others(p) /\ changes' = changes /\ (Begins(p) \/ Advances(p))
<1>1. CASE Create(p)
  BY <1>1 DEF Create, Others, Begins
<1>2. CASE Load(p)
  BY <1>2 DEF Load, Loadable, Others, Begins
<1>3. ASSUME UNCHANGED <<key, meta, number, commands, changes, got>>, Others(p), DirStep(p),
             cut \subseteq cut',
             pc[p] \in {"mkdir", "handover"}, pc'[p] \in {"idle", "mkdir", "handover", "key"}
      PROVE  Goal
  BY <1>3 DEF Advances, KeyStep, MetaStep, GotStep, Late
<1>4. CASE Mkdir(p)
  <2>1. level[p] \in Levels
    OBVIOUS
  <2>2. DirStep(p)
    <3>1. CASE dirs[level[p]].is = "none"
      <4> DEFINE d == [NoDir EXCEPT !.is = "dir", !.id = number[p], !.owner = Self(p)]
      <4>1. dirs' = [dirs EXCEPT ![level[p]] = d] /\ pc'[p] = "handover"
        BY <1>4, <3>1 DEF Mkdir
      <4>2. dirs'[level[p]].id = number[p]
        BY <2>1, <4>1 DEF NoDir
      <4>3. made'[p] /\ fd'[p] = number[p] /\ level' = level /\ pc[p] = "mkdir"
        BY <1>4, <3>1, <4>2 DEF Mkdir
      <4> QED
        BY <4>1, <4>3 DEF DirStep
    <3>2. CASE dirs[level[p]].is # "none"
      BY <1>4, <3>2 DEF Mkdir, DirStep
    <3> QED
      BY <3>1, <3>2
  <2>3. Others(p)
    BY <1>4 DEF Mkdir, Others
  <2>4. UNCHANGED <<key, meta, number, commands, changes, got, cut>> /\ pc[p] = "mkdir"
    BY <1>4 DEF Mkdir
  <2>5. pc'[p] \in {"idle", "handover"}
    BY <1>4 DEF Mkdir
  <2> QED
    BY <1>3, <2>2, <2>3, <2>4, <2>5
<1>5. CASE HandOver(p)
  <2>1. DirStep(p)
    BY <1>5 DEF HandOver, HandsOver, DirStep
  <2>2. Others(p)
    BY <1>5 DEF HandOver, NextLevel, Others
  <2>3. UNCHANGED <<key, meta, number, commands, changes, got, cut>> /\ pc[p] = "handover"
    BY <1>5 DEF HandOver
  <2>4. pc'[p] \in {"idle", "mkdir", "key"}
    BY <1>5 DEF HandOver, NextLevel
  <2> QED
    BY <1>3, <2>1, <2>2, <2>3, <2>4
<1>6. CASE HandOverFails(p)
  BY <1>3, <1>6 DEF HandOverFails, Others, DirStep
<1>7. ASSUME UNCHANGED <<dirs, meta, number, level, fd, made, commands, changes, got, cut>>, Others(p),
             KeyStep(p), pc[p] \in {"key", "ownkey", "writekey"},
             pc'[p] \in {"idle", "ownkey", "writekey", "meta"}
      PROVE  Goal
  BY <1>7 DEF Advances, DirStep, MetaStep, GotStep
<1>8. CASE MakeKey(p)
  BY <1>7, <1>8, NewFact DEF MakeKey, Others, KeyStep, Late
<1>9. CASE OwnKey(p)
  BY <1>7, <1>9, GivenFact DEF OwnKey, Others, KeyStep, Late
<1>10. CASE OwnKeyFails(p)
  <2>1. CASE key' = NoFile /\ UNCHANGED cut
    BY <1>7, <1>10, <2>1 DEF OwnKeyFails, Others, KeyStep
  <2>2. CASE cut' = cut \cup {number[p]} /\ UNCHANGED key
    BY <1>10, <2>2 DEF OwnKeyFails, Others, Advances, KeyStep, MetaStep, DirStep, GotStep, Late
  <2> QED
    BY <1>10, <2>1, <2>2 DEF OwnKeyFails
<1>11. CASE WriteKey(p)
  BY <1>7, <1>11, WrittenFact DEF WriteKey, Others, KeyStep, Late
<1>12. ASSUME UNCHANGED <<dirs, key, number, level, made, commands, changes, cut>>, Others(p),
              MetaStep(p), GotStep(p), pc[p] \in Late,
              pc'[p] \in Late \union {"idle"}
       PROVE  Goal
  BY <1>12 DEF Advances, DirStep, KeyStep, Late
<1>13. CASE MakeMeta(p)
  BY <1>12, <1>13, NewFact DEF MakeMeta, Others, MetaStep, GotStep, Late
<1>14. CASE OwnMeta(p)
  BY <1>12, <1>14, GivenFact DEF OwnMeta, Others, MetaStep, GotStep, Late
<1>15. CASE OwnMetaFails(p)
  <2>1. CASE meta' = NoFile /\ UNCHANGED cut
    BY <1>12, <1>15, <2>1 DEF OwnMetaFails, Others, MetaStep, GotStep, Late
  <2>2. CASE cut' = cut \cup {number[p]} /\ UNCHANGED meta
    BY <1>15, <2>2 DEF OwnMetaFails, Others, Advances, KeyStep, MetaStep, DirStep, GotStep, Late
  <2> QED
    BY <1>15, <2>1, <2>2 DEF OwnMetaFails
<1>16. CASE ReopenMeta(p)
  BY <1>12, <1>16, WrittenFact DEF ReopenMeta, Others, MetaStep, GotStep, Late
<1>17. CASE WriteMeta(p)
  BY <1>12, <1>17, WrittenFact DEF WriteMeta, Others, MetaStep, GotStep, Late
<1>18. CASE WriteFails(p)
  BY <1>18 DEF WriteFails, Others, Advances, KeyStep, MetaStep, DirStep, GotStep, Late
<1>19. CASE LoadMeta(p)
  BY <1>19 DEF LoadMeta, Matches, Others, Advances, KeyStep, MetaStep, DirStep, GotStep, Late
<1>20. CASE Crash(p)
  BY <1>20 DEF Crash, Others, Advances, KeyStep, MetaStep, DirStep, GotStep, Late
<1> QED
  BY <1>1, <1>2, <1>4, <1>5, <1>6, <1>8, <1>9, <1>10, <1>11, <1>13, <1>14, <1>15, <1>16, <1>17,
     <1>18, <1>19, <1>20 DEF Constle

-----------------------------------------------------------------------------
(* Each part is kept.                                                      *)

\* What is on disk stays of its type.
LEMMA DiskTypeStep ==
  ASSUME TypeOK, NEW p \in Procs, Constle(p)
  PROVE  DiskTypes'
<1> USE DEF TypeOK, DiskTypes, ProcTypes
<1>2. CASE Begins(p)
  BY <1>2 DEF Begins
<1>3. CASE Advances(p)
  <2>1. key' \in Files
    BY <1>3, EmptyFact DEF Advances, KeyStep, IsNew, IsGiven, IsWritten, Alike
  <2>2. meta' \in Files
    BY <1>3, EmptyFact DEF Advances, MetaStep, IsNew, IsGiven, IsWritten, Alike
  <2>3. dirs' \in [Levels -> Dirs]
    <3> DEFINE d == [NoDir EXCEPT !.is = "dir", !.id = number[p], !.owner = Self(p)]
               e == [dirs[level[p]] EXCEPT !.owner = "user"]
    <3>1. level[p] \in Levels /\ dirs[level[p]] \in Dirs
      OBVIOUS
    <3>2. d \in Dirs /\ e \in Dirs
      BY <3>1 DEF NoDir, Dirs, Owners, Self
    <3>3. dirs' = dirs \/ dirs' = [dirs EXCEPT ![level[p]] = d] \/ dirs' = [dirs EXCEPT ![level[p]] = e]
      BY <1>3 DEF Advances, DirStep
    <3> QED
      BY <3>1, <3>2, <3>3
  <2> QED
    BY <2>1, <2>2, <2>3
<1> QED
  BY <1>2, <1>3, StepShape

\* So do the processes.
LEMMA ProcTypeStep ==
  ASSUME TypeOK, NEW p \in Procs, Constle(p), DiskTypes'
  PROVE  ProcTypes' /\ cut' \subseteq Nat /\ commands' \in Nat /\ changes' \in Nat
<1> USE DEF TypeOK, ProcTypes, self, Goto, Fail, Stations
<1>0. \A i \in Levels : dirs[i].id \in Nat /\ dirs'[i].id \in Nat
  BY DEF DiskTypes, Dirs
<1>00. {key.body, meta.body, meta.id, number[p], 0} \subseteq Nat /\ 1 \in Levels /\ level[p] \in Levels
  BY DEF DiskTypes, Files, Levels
<1>000. NotLoaded \in [key : Nat, did : Nat]
  BY DEF NotLoaded
<1>1. CASE Create(p)
  <2>1. pc' \in [Procs -> Stations] /\ number' \in [Procs -> Nat]
    BY <1>1 DEF Create
  <2>2. level' \in [Procs -> Levels] /\ fd' \in [Procs -> Nat] /\ made' \in [Procs -> BOOLEAN]
    BY <1>1, <1>00 DEF Create
  <2> QED
    BY <1>1, <2>1, <2>2 DEF Create
<1>10. CASE Load(p)
  <2>1. got' \in [Procs -> [key : Nat, did : Nat]]
    BY <1>10, <1>000 DEF Load
  <2>2. fd' \in [Procs -> Nat]
    BY <1>10, <1>00 DEF Load
  <2>3. number' \in [Procs -> Nat]
    BY <1>10 DEF Load
  <2>4. pc' \in [Procs -> Stations]
    BY <1>10 DEF Load
  <2> QED
    BY <1>10, <2>1, <2>2, <2>3, <2>4 DEF Load
<1>2. CASE Mkdir(p)
  BY <1>2, <1>0, <1>00 DEF Mkdir
<1>3. CASE HandOver(p) \/ HandOverFails(p)
  BY <1>3 DEF HandOver, HandOverFails, NextLevel, Levels
<1>4. CASE MakeKey(p) \/ OwnKey(p) \/ OwnKeyFails(p) \/ WriteKey(p)
  BY <1>4 DEF MakeKey, OwnKey, OwnKeyFails, WriteKey
<1>5. CASE MakeMeta(p)
  BY <1>5 DEF MakeMeta
<1>6. CASE OwnMeta(p) \/ OwnMetaFails(p) \/ WriteFails(p) \/ Crash(p)
  BY <1>6 DEF OwnMeta, OwnMetaFails, WriteFails, Crash
<1>7. CASE ReopenMeta(p)
  BY <1>7, <1>00 DEF ReopenMeta
<1>8. CASE WriteMeta(p)
  BY <1>8 DEF WriteMeta
<1>9. CASE LoadMeta(p)
  BY <1>9, <1>00, <1>000 DEF LoadMeta
<1> QED
  BY <1>1, <1>2, <1>3, <1>4, <1>5, <1>6, <1>7, <1>8, <1>9, <1>10 DEF Constle

\* Numbers stay a command's own.
LEMMA NumberStep ==
  ASSUME IInv, NEW p \in Procs, Constle(p)
  PROVE  NumberInv'
<1> USE DEF IInv, TypeOK, DiskTypes, ProcTypes
<1>1. CASE Begins(p)
  <2>1. number'[p] = commands + 1 /\ \A q \in Procs \ {p} : number'[q] = number[q] /\ pc'[q] = pc[q]
    BY <1>1, StepShape DEF Begins, Others
  <2>2. \A q \in Procs : number[q] \in Nat /\ number[q] <= commands
    BY DEF NumberInv
  <2>3. \A q \in Procs : number'[q] <= commands' /\ (pc'[q] # "idle" => number'[q] # 0)
    BY <1>1, <2>1, <2>2 DEF Begins, NumberInv
  <2>4. \A q, r \in Procs : number'[q] = number'[r] => q = r \/ number'[q] = 0
    BY <2>1, <2>2 DEF NumberInv
  <2>5. key.id \in Nat /\ meta.id \in Nat
    BY DEF Files
  <2> QED
    BY <1>1, <2>3, <2>4, <2>5 DEF Begins, NumberInv
<1>2. CASE Advances(p)
  <2>1. /\ \A q \in Procs : number'[q] <= commands' /\ (pc'[q] # "idle" => number'[q] # 0)
        /\ \A q, r \in Procs : number'[q] = number'[r] => q = r \/ number'[q] = 0
    BY <1>2, StepShape DEF Advances, NumberInv, Others
  <2>2. key'.id <= commands' /\ (key'.is = "none" => key' = NoFile)
    BY <1>2, EmptyFact DEF Advances, KeyStep, NumberInv, IsNew, IsGiven, IsWritten, Alike
  <2>3. meta'.id <= commands' /\ (meta'.is = "none" => meta' = NoFile)
    BY <1>2, EmptyFact DEF Advances, MetaStep, NumberInv, IsNew, IsGiven, IsWritten, Alike
  <2> QED
    BY <2>1, <2>2, <2>3 DEF NumberInv
<1> QED
  BY <1>1, <1>2, StepShape

\* While the key is empty nobody has the pair.
LEMMA NoneYet ==
  ASSUME IInv, changes = 0, key.body = 0, NEW q \in Procs
  PROVE  got[q] = NotLoaded /\ pc[q] \notin Late /\ pc[q] # "loadmeta"
  BY DEF IInv, LoadInv, PairInv, NumberInv, Late

\* Keys are written once, and what is returned stays a pair.
LEMMA KeyKept ==
  ASSUME IInv, NEW p \in Procs, Constle(p)
  PROVE  FreshKeyInv' /\ LoadInv' /\ PairInv'
<1> USE DEF IInv, TypeOK, DiskTypes, ProcTypes
<1>0. Others(p) /\ changes' = changes /\ (Begins(p) \/ Advances(p))
  BY StepShape
<1>1. CASE Begins(p)
  BY <1>0, <1>1 DEF Begins, Others, FreshKeyInv, LoadInv, PairInv, NumberInv, NotLoaded, Late
<1>2. CASE Advances(p)
  <2>1. number'[p] = number[p] /\ number[p] # 0 /\ \A q \in Procs \ {p} : number[q] # number[p]
    BY <1>2 DEF Advances, NumberInv
  <2>2. FreshKeyInv'
    BY <1>0, <1>2, <2>1, EmptyFact DEF Advances, KeyStep, Others, FreshKeyInv, IsNew, IsGiven, IsWritten, Alike
  <2>3. LoadInv'
    <3>1. got'[p] # NotLoaded => got'[p].key # 0 /\ got'[p].did = got'[p].key
      BY <1>2, <2>1 DEF Advances, GotStep, LoadInv
    <3> QED
      BY <1>0, <1>2, <3>1 DEF Advances, Others, LoadInv
  <2>4. ASSUME changes = 0 PROVE PairInv'
    <3>1. ASSUME key' = key,
                 pc'[p] \in {"ownkey", "writekey"} => pc[p] = "ownkey",
                 pc'[p] \in Late => pc[p] \in Late \/ (pc[p] = "writekey" /\ key.id # number[p])
          PROVE  PairInv'
      <4>1. pc'[p] \in Late => key.body = number[p]
        BY <2>4, <3>1 DEF PairInv, Late
      <4>2. got'[p] # NotLoaded => got'[p].key = key.body
        BY <1>2, <2>4 DEF Advances, GotStep, PairInv
      <4>3. \A q \in Procs \ {p} : pc'[q] = pc[q] /\ number'[q] = number[q] /\ got'[q] = got[q] /\ fd'[q] = fd[q]
        BY <1>0 DEF Others
      <4> QED
        BY <1>2, <2>1, <2>4, <3>1, <4>1, <4>2, <4>3 DEF Advances, PairInv, Late
    <3>2. ASSUME key.body = 0, got'[p] = got[p] \/ got'[p] = NotLoaded,
                 \A q \in Procs \ {p} : pc[q] \notin {"ownkey", "writekey"},
                 pc'[p] \in Late => key'.body = number[p],
                 pc'[p] \in {"ownkey", "writekey"} => key'.is = "file" /\ key'.id = number[p] /\ key'.body = 0
          PROVE  PairInv'
      <4>1. \A q \in Procs \ {p} : pc'[q] = pc[q] /\ got'[q] = got[q]
        BY <1>0 DEF Others
      <4> QED
        BY <1>2, <2>1, <2>4, <3>2, <4>1, NoneYet DEF Advances, PairInv, Late
    <3>3. \A q \in Procs \ {p} : pc[q] \in {"ownkey", "writekey"} => pc[p] \notin {"ownkey", "writekey"}
      BY <2>1, <2>4 DEF PairInv
    <3>4. CASE /\ pc[p] = "key" /\ key.is = "none" /\ IsNew(p, key')
               /\ pc'[p] = (IF p \in Sudo THEN "ownkey" ELSE "writekey")
      <4>1. key.body = 0 /\ \A q \in Procs \ {p} : pc[q] \notin {"ownkey", "writekey"}
        BY <2>4, <3>4, EmptyFact DEF NumberInv, PairInv
      <4>2. got'[p] \in {got[p], NotLoaded}
        BY <1>2, <3>4 DEF Advances, GotStep
      <4> QED
        BY <3>2, <3>4, <4>1, <4>2 DEF Late, IsNew
    <3>5. CASE pc[p] \in {"ownkey", "writekey"} /\ key' # key
      <4>1. key.body = 0 /\ key.is = "file" /\ key.id = number[p]
        BY <2>4, <3>5 DEF PairInv
      <4>2. got'[p] \in {got[p], NotLoaded}
        BY <1>2, <3>5 DEF Advances, GotStep
      <4>3. pc'[p] \in Late => key'.body = number[p]
        BY <1>2, <3>5 DEF Advances, KeyStep, Late, IsWritten
      <4>4. pc'[p] \in {"ownkey", "writekey"} => key'.is = "file" /\ key'.id = number[p] /\ key'.body = 0
        BY <1>2, <3>5, <4>1 DEF Advances, KeyStep, IsGiven, Alike
      <4> QED
        BY <3>2, <3>3, <3>5, <4>1, <4>2, <4>3, <4>4
    <3>6. CASE key' = key /\ pc[p] \in {"ownkey", "writekey"}
      <4>1. pc'[p] \in {"ownkey", "writekey"} => pc[p] = "ownkey"
        BY <1>2, <3>6 DEF Advances, KeyStep
      <4>2. pc'[p] \in Late => pc[p] = "writekey" /\ key.id # number[p]
        BY <1>2, <2>1, <2>4, <3>6 DEF Advances, KeyStep, PairInv, IsWritten, Late
      <4> QED
        BY <3>1, <3>6, <4>1, <4>2
    <3> QED
      BY <1>2, <3>1, <3>4, <3>5, <3>6 DEF Advances, KeyStep
  <2> QED
    BY <1>0, <2>2, <2>3, <2>4 DEF PairInv
<1> QED
  BY <1>0, <1>1, <1>2

\* A directory no step changes stays owed while the process that owes it stands still.
LEMMA StillOwed ==
  ASSUME NEW i \in Levels, DirOwed(i), dirs'[i] = dirs[i], cut \subseteq cut',
         \A q \in Sudo : /\ number[q] = dirs[i].id /\ pc[q] = "handover" /\ dirs[i].is = "dir"
                         /\ dirs[i].owner = "root" /\ fd[q] = dirs[i].id /\ made[q] /\ level[q] = i
                         => \/ number[q] \in cut'
                            \/ /\ pc'[q] = pc[q] /\ number'[q] = number[q] /\ level'[q] = level[q]
                               /\ fd'[q] = fd[q] /\ made'[q] = made[q]
  PROVE  DirOwed(i)'
<1> SUFFICES ASSUME dirs[i].is # "none", dirs[i].id # 0, dirs[i].owner = "root", dirs[i].id \notin cut'
             PROVE  \E p \in Sudo : /\ number'[p] = dirs[i].id /\ pc'[p] = "handover"
                                    /\ dirs[i].is = "dir" /\ fd'[p] = dirs[i].id /\ made'[p] /\ level'[p] = i
  BY DEF DirOwed
<1>1. PICK q \in Sudo : /\ number[q] = dirs[i].id /\ pc[q] = "handover"
                        /\ dirs[i].is = "dir" /\ fd[q] = dirs[i].id /\ made[q] /\ level[q] = i
  BY DEF DirOwed
<1>2. /\ pc'[q] = pc[q] /\ number'[q] = number[q] /\ level'[q] = level[q]
      /\ fd'[q] = fd[q] /\ made'[q] = made[q]
  BY <1>1
<1> QED
  BY <1>1, <1>2

\* What is root's stays owed, until it is handed over or its maker dies.
LEMMA OwnerKept ==
  ASSUME IInv, NEW p \in Procs, Constle(p)
  PROVE  OwnerInv'
<1> USE DEF IInv, TypeOK, DiskTypes, ProcTypes
<1>0. Others(p) /\ (Begins(p) \/ Advances(p))
  BY StepShape
<1>1. \A q \in Sudo : q # p => /\ pc'[q] = pc[q] /\ number'[q] = number[q] /\ level'[q] = level[q]
                              /\ fd'[q] = fd[q] /\ made'[q] = made[q]
  BY <1>0 DEF Others
<1>2. CASE Begins(p)
  <2>1. Owed(key, "ownkey")' /\ Owed(meta, "ownmeta")'
    BY <1>1, <1>2 DEF Begins, OwnerInv, Owed
  <2>2. ASSUME NEW i \in Levels PROVE DirOwed(i)'
    <3>1. DirOwed(i) /\ dirs'[i] = dirs[i] /\ cut \subseteq cut' /\ pc[p] # "handover"
      BY <1>2 DEF Begins, OwnerInv
    <3> QED
      BY <1>1, <3>1, StillOwed
  <2> QED
    BY <2>1, <2>2 DEF OwnerInv
<1>3. CASE Advances(p)
  <2>0. number' = number /\ cut \subseteq cut' /\ (\A q \in Sudo : number[q] = number[p] => q = p)
    BY <1>3 DEF Advances, NumberInv
  <2>1. Owed(key, "ownkey")'
    <3>1. CASE key' = key /\ (pc[p] = "ownkey" => key.id # number[p] \/ number[p] \in cut')
      BY <1>1, <2>0, <3>1 DEF OwnerInv, Owed
    <3>2. CASE IsNew(p, key') /\ pc'[p] = (IF p \in Sudo THEN "ownkey" ELSE "writekey")
      BY <2>0, <3>2 DEF Owed, IsNew, Self
    <3>3. CASE IsGiven(key, key') \/ key' = NoFile
      BY <3>3, EmptyFact DEF Owed, IsGiven
    <3>4. CASE IsWritten(key, key', number[p]) /\ pc[p] = "writekey"
      BY <1>1, <2>0, <3>4 DEF OwnerInv, Owed, IsWritten, Alike
    <3> QED
      BY <1>3, <3>1, <3>2, <3>3, <3>4 DEF Advances, KeyStep
  <2>2. Owed(meta, "ownmeta")'
    <3>1. CASE meta' = meta /\ (pc[p] = "ownmeta" => meta.id # number[p] \/ number[p] \in cut')
      BY <1>1, <2>0, <3>1 DEF OwnerInv, Owed
    <3>2. CASE IsNew(p, meta') /\ pc'[p] = (IF p \in Sudo THEN "ownmeta" ELSE "writemeta")
      BY <2>0, <3>2 DEF Owed, IsNew, Self
    <3>3. CASE IsGiven(meta, meta') \/ meta' = NoFile
      BY <3>3, EmptyFact DEF Owed, IsGiven
    <3>4. CASE pc[p] \in {"reopen", "writemeta"} /\ \E n \in Nat : IsWritten(meta, meta', n)
      BY <1>1, <2>0, <3>4 DEF OwnerInv, Owed, IsWritten, Alike
    <3> QED
      BY <1>3, <3>1, <3>2, <3>3, <3>4 DEF Advances, MetaStep
  <2>3. ASSUME NEW i \in Levels PROVE DirOwed(i)'
    <3>1. CASE dirs' = dirs /\ (pc[p] = "handover" /\ HandsOver(p, dirs[level[p]]) /\ dirs[level[p]].is = "dir"
                                  /\ dirs[level[p]].id = fd[p] => number[p] \in cut')
      <4>1. DirOwed(i) /\ dirs'[i] = dirs[i]
        BY <3>1 DEF OwnerInv
      <4>2. p \in Sudo /\ dirs[i].owner = "root" /\ made[p] /\ level[p] = i => HandsOver(p, dirs[level[p]])
        BY DEF HandsOver
      <4> QED
        BY <1>1, <2>0, <3>1, <4>1, <4>2, StillOwed
    <3>2. CASE /\ pc[p] = "mkdir" /\ pc'[p] = "handover" /\ made'[p] /\ fd'[p] = number[p] /\ level'[p] = level[p]
               /\ dirs' = [dirs EXCEPT ![level[p]] =
                             [NoDir EXCEPT !.is = "dir", !.id = number[p], !.owner = Self(p)]]
      <4>1. CASE i = level[p]
        <5>1. dirs'[i].is = "dir" /\ dirs'[i].id = number[p] /\ dirs'[i].owner = Self(p)
          BY <3>2, <4>1 DEF NoDir
        <5> QED
          BY <2>0, <3>2, <4>1, <5>1 DEF DirOwed, Self
      <4>2. CASE i # level[p]
        <5>1. dirs'[i] = dirs[i]
          BY <3>2, <4>2
        <5> QED
          BY <1>1, <2>0, <3>2, <5>1, StillOwed DEF OwnerInv
      <4> QED
        BY <4>1, <4>2
    <3>3. CASE pc[p] = "handover" /\ dirs' = [dirs EXCEPT ![level[p]].owner = "user"]
      <4>1. CASE i = level[p]
        <5>1. dirs'[i].owner = "user"
          BY <3>3, <4>1 DEF Dirs
        <5> QED
          BY <5>1 DEF DirOwed
      <4>2. CASE i # level[p]
        <5>1. dirs'[i] = dirs[i]
          BY <3>3, <4>2
        <5> QED
          BY <1>1, <2>0, <4>2, <5>1, StillOwed DEF OwnerInv
      <4> QED
        BY <4>1, <4>2
    <3> QED
      BY <1>3, <3>1, <3>2, <3>3 DEF Advances, DirStep
  <2> QED
    BY <2>1, <2>2, <2>3 DEF OwnerInv
<1> QED
  BY <1>0, <1>2, <1>3

\* A command under sudo writes into nobody else's metadata.
LEMMA MetaKept ==
  ASSUME IInv, NEW p \in Procs, Constle(p)
  PROVE  MetaInv'
<1> USE DEF IInv, TypeOK, DiskTypes, ProcTypes
<1>0. Others(p) /\ (Begins(p) \/ Advances(p))
  BY StepShape
<1>1. \A q \in Sudo : q # p => pc'[q] = pc[q] /\ fd'[q] = fd[q]
  BY <1>0 DEF Others
<1>2. CASE Begins(p)
  BY <1>1, <1>2 DEF Begins, MetaInv, Ours
<1>3. CASE Advances(p)
  <2>0. number[p] # 0
    BY <1>3 DEF Advances, NumberInv
  <2>1. CASE meta' = meta /\ (pc'[p] \in {"ownmeta", "writemeta"} => pc[p] = "ownmeta" /\ fd'[p] = fd[p])
    BY <1>1, <2>1 DEF MetaInv, Ours
  <2>2. CASE IsNew(p, meta') \/ (IsGiven(meta, meta') /\ meta.id = number[p]) \/ meta' = NoFile
    BY <2>0, <2>2, EmptyFact DEF MetaInv, Ours, IsNew, IsGiven, Alike, Self
  <2>3. CASE pc[p] = "reopen" /\ Acceptable(p, meta) /\ IsWritten(meta, meta', 0)
    BY <1>1, <2>3 DEF MetaInv, Ours, IsWritten, Alike, Acceptable
  <2>4. CASE pc'[p] = "idle" /\ IsWritten(meta, meta', number[p])
    BY <1>1, <2>4 DEF MetaInv, Ours, IsWritten, Alike
  <2> QED
    BY <1>3, <2>1, <2>2, <2>3, <2>4 DEF Advances, MetaStep
<1> QED
  BY <1>0, <1>2, <1>3

\* Nothing the user does undoes it.
LEMMA UserKeeps ==
  ASSUME IInv, UserChanges
  PROVE  IInv'
<1> USE DEF IInv, TypeOK, DiskTypes, ProcTypes
<1>1. UNCHANGED <<pc, number, level, fd, made, got, cut, commands>> /\ changes' = changes + 1
  BY DEF UserChanges, self
<1>2. dirs' = dirs \/ dirs' = [dirs EXCEPT ![3] = NoDir]
  BY DEF UserChanges
<1>3. NoDir \in Dirs /\ NoDir.is = "none" /\ 3 \in Levels
  BY DEF NoDir, Dirs, Owners, Levels
<1>4. meta' = meta \/ meta' = NoFile
  BY DEF UserChanges
<1>5. key' \in Files /\ \/ key' = key \/ key' = NoFile
                        \/ key'.is = "file" /\ key'.id = 0
                        \/ /\ key.is = "file" /\ key'.is = "file" /\ key'.id = key.id
                           /\ key'.owner = key.owner /\ key'.body = key.body
  <2> DEFINE b == [NoFile EXCEPT !.is = "file", !.body = Backup]
             f == [key EXCEPT !.exact = ~@]
  <2>1. b \in Files /\ b.is = "file" /\ b.id = 0
    <3>1. Backup \in Nat
      BY DEF Backup
    <3> QED
      BY <3>1 DEF NoFile, Files, Owners
  <2>2. f \in Files /\ f.is = key.is /\ f.id = key.id /\ f.owner = key.owner /\ f.body = key.body
    BY DEF Files
  <2>3. key' = key \/ key' = NoFile \/ key' = b \/ (key.is = "file" /\ key' = f)
    BY DEF UserChanges
  <2> QED
    BY <2>1, <2>2, <2>3, EmptyFact
<1>6. TypeOK'
  BY <1>1, <1>2, <1>3, <1>4, <1>5, EmptyFact
<1>7. NumberInv'
  BY <1>1, <1>4, <1>5, EmptyFact DEF NumberInv
<1>8. FreshKeyInv' /\ LoadInv' /\ PairInv'
  BY <1>1, <1>5, EmptyFact DEF FreshKeyInv, LoadInv, PairInv, NumberInv
<1>9. Owed(key, "ownkey")' /\ Owed(meta, "ownmeta")'
  BY <1>1, <1>4, <1>5, EmptyFact DEF OwnerInv, Owed
<1>10. ASSUME NEW i \in Levels PROVE DirOwed(i)'
  <2>1. CASE dirs'[i] = dirs[i]
    BY <1>1, <2>1, StillOwed DEF OwnerInv
  <2>2. CASE dirs'[i].is = "none"
    BY <2>2 DEF DirOwed
  <2> QED
    BY <1>2, <1>3, <2>1, <2>2
<1>11. MetaInv'
  BY <1>1, <1>4, EmptyFact DEF MetaInv, Ours
<1> QED
  BY <1>6, <1>7, <1>8, <1>9, <1>10, <1>11 DEF OwnerInv

-----------------------------------------------------------------------------
(* The theorems.                                                           *)

\* At first no command has made anything.
LEMMA InitInv == Init => IInv
<1> SUFFICES ASSUME Init PROVE IInv
  OBVIOUS
<1>1. TypeOK
  BY EmptyFact DEF Init, TypeOK, DiskTypes, ProcTypes, Stations, Levels, NotLoaded
<1>2. key.id = 0 /\ key.body = 0 /\ meta.id = 0 /\ (meta.is = "none" => meta = NoFile)
  BY EmptyFact DEF Init
<1>3. \A i \in Levels : dirs[i].id = 0
  BY DEF Init
<1> QED
  BY <1>1, <1>2, <1>3 DEF Init, IInv, NumberInv, FreshKeyInv, LoadInv, PairInv, OwnerInv, Owed, DirOwed, MetaInv

\* Every step keeps the inductive invariant.
LEMMA NextInv == IInv /\ [Next]_vars => IInv'
<1> SUFFICES ASSUME IInv, [Next]_vars PROVE IInv'
  OBVIOUS
<1>1. ASSUME NEW p \in Procs, Constle(p)
      PROVE  IInv'
  <2>1. TypeOK'
    BY <1>1, DiskTypeStep, ProcTypeStep DEF IInv, TypeOK
  <2> QED
    BY <1>1, <2>1, NumberStep, KeyKept, OwnerKept, MetaKept DEF IInv
<1>2. CASE UNCHANGED vars
  BY <1>2 DEF vars, IInv, TypeOK, DiskTypes, ProcTypes, NumberInv, FreshKeyInv, LoadInv, PairInv,
              OwnerInv, Owed, DirOwed, MetaInv, Ours
<1> QED
  BY <1>1, <1>2, UserKeeps DEF Next

\* Every reachable state satisfies the inductive invariant.
THEOREM KeysCorrect == Spec => []IInv
  BY InitInv, NextInv, PTL DEF Spec

\* identity.Create and Load, webhookkey.Generate and Load: what is returned is a key
\* under its own DID, and the same for everyone while the user changes nothing.
THEOREM OnePairHolds == Spec => []OnePair
<1>1. IInv => OnePair
  <2> SUFFICES ASSUME IInv PROVE OnePair
    OBVIOUS
  <2> DEFINE returned == {got[p] : p \in Procs} \ {NotLoaded}
  <2>1. ASSUME NEW pair \in returned
        PROVE  pair.key # 0 /\ pair.did = pair.key /\ (changes = 0 => pair.key = key.body)
    BY <2>1 DEF IInv, LoadInv, PairInv
  <2>2. ASSUME NEW a \in returned, NEW b \in returned, changes = 0
        PROVE  a = b
    <3>1. a.key = b.key /\ a.did = b.did
      BY <2>1, <2>2
    <3>2. a \in [key : Nat, did : Nat] /\ b \in [key : Nat, did : Nat]
      BY DEF IInv, TypeOK, ProcTypes
    <3> QED
      BY <3>1, <3>2
  <2> QED
    BY <2>1, <2>2 DEF OnePair
<1> QED
  BY <1>1, KeysCorrect, PTL

\* homedir: what a run under sudo creates below the user's home is given back,
\* unless the run is about to do so or was cut short.
THEOREM HandedBackHolds == Spec => []HandedBack
<1>1. IInv => HandedBack
  BY DEF IInv, OwnerInv, Owed, DirOwed, HandedBack
<1> QED
  BY <1>1, KeysCorrect, PTL

\* No step of a command replaces a complete key, takes a file from its owner or,
\* under sudo, writes into a file of a third party or with a second name.
THEOREM KeepsWhatItFindsHolds == Spec => KeepsWhatItFinds
<1>1. ASSUME IInv, NEW p \in Procs, Constle(p)
      PROVE  /\ key.body # 0 /\ key' # key => pc[p] = "ownkey" /\ key.id # number[p]
             /\ \A x \in {<<key, key'>>, <<meta, meta'>>} :
                  x[1].is # "none" /\ x[2].is # "none" /\ x[1].id # number[p] => x[2].owner = x[1].owner
             /\ p \in Sudo /\ (meta.owner = "other" \/ meta.links > 1) => meta' = meta \/ pc[p] = "ownmeta"
  <2>1. CASE Begins(p)
    BY <2>1 DEF Begins
  <2>2. CASE Advances(p)
    <3>1. key.body # 0 /\ key' # key => pc[p] = "ownkey" /\ key.id # number[p]
      BY <1>1, <2>2, EmptyFact DEF Advances, KeyStep, IInv, FreshKeyInv, NumberInv
    <3>2. key.is # "none" /\ key'.is # "none" /\ key.id # number[p] => key'.owner = key.owner
      BY <2>2, EmptyFact DEF Advances, KeyStep
    <3>3. meta.is # "none" /\ meta'.is # "none" /\ meta.id # number[p] => meta'.owner = meta.owner
      BY <2>2, EmptyFact DEF Advances, MetaStep, IsWritten
    <3>4. p \in Sudo /\ (meta.owner = "other" \/ meta.links > 1) => meta' = meta \/ pc[p] = "ownmeta"
      BY <1>1, <2>2 DEF Advances, MetaStep, Acceptable, IInv, MetaInv, Ours, NumberInv, NoFile
    <3> QED
      BY <3>1, <3>2, <3>3, <3>4
  <2> QED
    BY <1>1, <2>1, <2>2, StepShape DEF IInv
<1>2. IInv /\ [Next]_vars =>
        [\A p \in Procs : Constle(p) =>
           /\ key.body # 0 /\ key' # key => pc[p] = "ownkey" /\ key.id # number[p]
           /\ \A x \in {<<key, key'>>, <<meta, meta'>>} :
                x[1].is # "none" /\ x[2].is # "none" /\ x[1].id # number[p] => x[2].owner = x[1].owner
           /\ p \in Sudo /\ (meta.owner = "other" \/ meta.links > 1) => meta' = meta \/ pc[p] = "ownmeta"]_vars
  BY <1>1
<1> QED
  BY <1>2, KeysCorrect, PTL DEF KeepsWhatItFinds, Spec
=============================================================================
