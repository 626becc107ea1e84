------------------------------ MODULE KeyFiles ------------------------------
(***************************************************************************)
(* A key pair on disk: an agent's identity (internal/identity) or a        *)
(* webhook signing key (internal/webhookkey), which are stored alike:      *)
(* three directories below the home directory, in the last one key.pem     *)
(* and the metadata naming the DID of the key.  Commands of constle        *)
(* create and load it at the same time, some under sudo, where they write  *)
(* as root into the user's own tree (internal/homedir); the user tidies,   *)
(* restores and changes modes; a command may die between any two steps.    *)
(*                                                                         *)
(* A command is known by its number: the key pair it generates and the     *)
(* files it creates carry it, so that a descriptor is told from the name   *)
(* it was opened under.  One open with every level checked is one step,    *)
(* as the kernel walks descriptors already verified.                       *)
(***************************************************************************)
EXTENDS Naturals

CONSTANTS Procs,       \* the processes that run commands
          Sudo,        \* the ones that run under sudo
          Trees,       \* the directories there may be at first
          Leftovers,   \* the metadata files there may be at first
          MaxCommands, \* bounds the commands started
          MaxChanges   \* bounds what the user does

ASSUME SudoAssumption == Sudo \subseteq Procs
ASSUME BoundAssumption == MaxCommands \in Nat /\ MaxChanges \in Nat

VARIABLES dirs,     \* the three directories
          key,      \* key.pem
          meta,     \* identity.json or key.json
          pc,       \* where a process is
          number,   \* the number of its command
          level,    \* the directory it is at
          fd,       \* the number on the file or directory it has open
          made,     \* it created that directory
          got,      \* the key and the DID its last Create or Load returned
          cut,      \* the commands that died, or failed to hand something over
          commands, changes

vars == <<dirs, key, meta, pc, number, level, fd, made, got, cut, commands, changes>>
self == <<number, level, fd, made>>

Levels == 1 .. 3
Backup == MaxCommands + 1   \* a key the user has from elsewhere

NoDir  == [is |-> "none", id |-> 0, owner |-> "user", open |-> FALSE]
NoFile == [is |-> "none", id |-> 0, owner |-> "user", links |-> 1, exact |-> TRUE, body |-> 0]
NotLoaded == [key |-> 0, did |-> 0]

Owners == {"user", "root", "other"}
Dirs  == [is : {"none", "dir", "link"}, id : Nat, owner : Owners, open : BOOLEAN]
Files == [is : {"none", "file", "link"}, id : Nat, owner : Owners, links : Nat, exact : BOOLEAN,
          body : Nat]

\* What there is at first no command that is modelled has made.
ASSUME LeftoverAssumption ==
  /\ Trees \subseteq {t \in [Levels -> Dirs] : \A i \in Levels : t[i].id = 0}
  /\ Leftovers \subseteq {m \in Files : m.id = 0 /\ (m.is = "none" => m = NoFile)}

Self(p) == IF p \in Sudo THEN "root" ELSE "user"

May(p, x) == p \in Sudo \/ x.owner = "user"

\* openDirAt: no link, and readable.
Opens(p, d) == d.is = "dir" /\ (May(p, d) \/ d.open)

Reaches(p) == \A i \in Levels : Opens(p, dirs[i])

NewFile(p) == [NoFile EXCEPT !.is = "file", !.id = number[p], !.owner = Self(p)]

Init ==
  /\ dirs \in Trees /\ key = NoFile
  /\ meta \in {m \in Leftovers : m.is # "none" => \A i \in Levels : dirs[i].is = "dir"}
  /\ pc = [p \in Procs |-> "idle"]
  /\ number = [p \in Procs |-> 0] /\ level = [p \in Procs |-> 1] /\ fd = [p \in Procs |-> 0]
  /\ made = [p \in Procs |-> FALSE] /\ got = [p \in Procs |-> NotLoaded]
  /\ cut = {} /\ commands = 0 /\ changes = 0

Goto(p, l) == pc' = [pc EXCEPT ![p] = l]
Fail(p) == Goto(p, "idle")

-----------------------------------------------------------------------------
(* Create, Generate                                                        *)

\* Start: os.Lstat finds a key, or finds none or fails, and the key pair is made.
Create(p) ==
  /\ pc[p] = "idle" /\ commands < MaxCommands
  /\ commands' = commands + 1
  /\ number' = [number EXCEPT ![p] = commands + 1]
  /\ level' = [level EXCEPT ![p] = 1]
  /\ fd' = [fd EXCEPT ![p] = 0] /\ made' = [made EXCEPT ![p] = FALSE]
  /\ IF Reaches(p) /\ key.is # "none" THEN Fail(p) ELSE Goto(p, "mkdir")
  /\ UNCHANGED <<dirs, key, meta, got, cut, changes>>

\* mkdirAll at one level: opened if it is there, else created and opened.
Mkdir(p) ==
  LET i == level[p]
  IN /\ pc[p] = "mkdir"
     /\ IF dirs[i].is = "none"
        THEN /\ dirs' = [dirs EXCEPT ![i] = [NoDir EXCEPT !.is = "dir", !.id = number[p], !.owner = Self(p)]]
             /\ Goto(p, "handover")
        ELSE /\ IF Opens(p, dirs[i]) THEN Goto(p, "handover") ELSE Fail(p)
             /\ UNCHANGED dirs
     /\ made' = [made EXCEPT ![p] = dirs[i].is = "none"]
     /\ fd' = [fd EXCEPT ![p] = dirs'[i].id]
     /\ UNCHANGED <<key, meta, number, level, got, cut, commands, changes>>

\* handOverDir gives the directory to the invoking user: a third party's is refused.
HandsOver(p, d) == p \in Sudo /\ d.owner = "root" /\ (made[p] \/ ~d.open)

NextLevel(p) ==
  /\ level' = [level EXCEPT ![p] = IF @ = 3 THEN 1 ELSE @ + 1]
  /\ Goto(p, IF level[p] = 3 THEN "key" ELSE "mkdir")

HandOver(p) ==
  LET i == level[p]
      there == dirs[i].is = "dir" /\ dirs[i].id = fd[p]
  IN /\ pc[p] = "handover"
     /\ IF there /\ p \in Sudo /\ dirs[i].owner = "other"
        THEN Fail(p) /\ UNCHANGED <<dirs, level>>
        ELSE /\ dirs' = IF there /\ HandsOver(p, dirs[i]) THEN [dirs EXCEPT ![i].owner = "user"] ELSE dirs
             /\ NextLevel(p)
     /\ UNCHANGED <<key, meta, number, fd, made, got, cut, commands, changes>>

\* The chown fails: the directory stays as it is, and Create ends.
HandOverFails(p) ==
  /\ pc[p] = "handover" /\ HandsOver(p, dirs[level[p]])
  /\ cut' = cut \cup {number[p]}
  /\ Fail(p)
  /\ UNCHANGED <<dirs, key, meta, self, got, commands, changes>>

MutOverwrite(p) ==
  /\ pc[p] = "key"
  /\ IF Reaches(p) /\ key.is \in {"none", "file"}
     THEN /\ key' = NewFile(p)
          /\ Goto(p, IF p \in Sudo THEN "ownkey" ELSE "writekey")
     ELSE Fail(p) /\ UNCHANGED key
  /\ UNCHANGED <<dirs, meta, self, got, cut, commands, changes>>

\* key.pem is created with O_EXCL: it was not there, not even as a link.
MakeKey(p) ==
  /\ pc[p] = "key"
  /\ IF Reaches(p) /\ key.is = "none"
     THEN /\ key' = NewFile(p)
          /\ Goto(p, IF p \in Sudo THEN "ownkey" ELSE "writekey")
     ELSE Fail(p) /\ UNCHANGED key
  /\ UNCHANGED <<dirs, meta, self, got, cut, commands, changes>>

\* chownToInvokingUser on the new file's descriptor.
OwnKey(p) ==
  /\ pc[p] = "ownkey"
  /\ key' = IF key.id = number[p] THEN [key EXCEPT !.owner = "user"] ELSE key
  /\ Goto(p, "writekey")
  /\ UNCHANGED <<dirs, meta, self, got, cut, commands, changes>>

\* It fails: whatever stands under the name is removed again, or stays if that
\* fails too.
OwnKeyFails(p) ==
  /\ pc[p] = "ownkey"
  /\ \/ key' = NoFile /\ UNCHANGED cut
     \/ cut' = cut \cup {number[p]} /\ UNCHANGED key
  /\ Fail(p)
  /\ UNCHANGED <<dirs, meta, self, got, commands, changes>>

WriteKey(p) ==
  /\ pc[p] = "writekey"
  /\ key' = IF key.id = number[p] THEN [key EXCEPT !.body = number[p]] ELSE key
  /\ Goto(p, "meta")
  /\ UNCHANGED <<dirs, meta, self, got, cut, commands, changes>>

\* The metadata: created exclusively if it is not there, else reopened.
MakeMeta(p) ==
  /\ pc[p] = "meta"
  /\ CASE Reaches(p) /\ meta.is = "none" ->
            meta' = NewFile(p) /\ Goto(p, IF p \in Sudo THEN "ownmeta" ELSE "writemeta")
       [] Reaches(p) /\ meta.is = "file" -> Goto(p, "reopen") /\ UNCHANGED meta
       [] OTHER -> Fail(p) /\ UNCHANGED meta
  /\ fd' = [fd EXCEPT ![p] = number[p]]
  /\ UNCHANGED <<dirs, key, number, level, made, got, cut, commands, changes>>

MutNeverOwned(p) ==
  /\ pc[p] = "ownmeta"
  /\ Goto(p, "writemeta")
  /\ UNCHANGED <<dirs, key, meta, self, got, cut, commands, changes>>

OwnMeta(p) ==
  /\ pc[p] = "ownmeta"
  /\ meta' = IF meta.id = number[p] THEN [meta EXCEPT !.owner = "user"] ELSE meta
  /\ Goto(p, "writemeta")
  /\ UNCHANGED <<dirs, key, self, got, cut, commands, changes>>

OwnMetaFails(p) ==
  /\ pc[p] = "ownmeta"
  /\ \/ meta' = NoFile /\ UNCHANGED cut
     \/ cut' = cut \cup {number[p]} /\ UNCHANGED meta
  /\ Fail(p)
  /\ UNCHANGED <<dirs, key, self, got, commands, changes>>

\* refuseForeignOwner: under sudo only root's or the user's, under one name.
Acceptable(p, x) == p \in Sudo => x.owner \in {"root", "user"} /\ x.links = 1

\* What was there is opened without O_CREATE, checked, and truncated only then.
ReopenMeta(p) ==
  /\ pc[p] = "reopen"
  /\ IF Reaches(p) /\ meta.is = "file" /\ May(p, meta) /\ Acceptable(p, meta)
     THEN /\ meta' = [meta EXCEPT !.body = 0]
          /\ fd' = [fd EXCEPT ![p] = meta.id]
          /\ Goto(p, "writemeta")
     ELSE Fail(p) /\ UNCHANGED <<meta, fd>>
  /\ UNCHANGED <<dirs, key, number, level, made, got, cut, commands, changes>>

WriteMeta(p) ==
  /\ pc[p] = "writemeta"
  /\ meta' = IF meta.is = "file" /\ meta.id = fd[p] THEN [meta EXCEPT !.body = number[p]] ELSE meta
  /\ got' = [got EXCEPT ![p] = [key |-> number[p], did |-> number[p]]]
  /\ Goto(p, "idle")
  /\ UNCHANGED <<dirs, key, self, cut, commands, changes>>

\* A write fails, the disk being full: the file stays incomplete.
WriteFails(p) ==
  /\ pc[p] \in {"writekey", "writemeta"}
  /\ Fail(p)
  /\ UNCHANGED <<dirs, key, meta, self, got, cut, commands, changes>>

-----------------------------------------------------------------------------
(* Load                                                                    *)

Loadable(p, f) == Reaches(p) /\ f.is = "file" /\ May(p, f) /\ f.body # 0

\* The key: opened without following a link, its mode checked on the descriptor.
Load(p) ==
  /\ pc[p] = "idle" /\ commands < MaxCommands
  /\ commands' = commands + 1
  /\ number' = [number EXCEPT ![p] = commands + 1]
  /\ got' = [got EXCEPT ![p] = NotLoaded]
  /\ IF Loadable(p, key) /\ key.exact
     THEN fd' = [fd EXCEPT ![p] = key.body] /\ Goto(p, "loadmeta")
     ELSE Fail(p) /\ UNCHANGED fd
  /\ UNCHANGED <<dirs, key, meta, level, made, cut, changes>>

MutTrustMeta(p) == Loadable(p, meta)

\* The DID the metadata records is the one the key derives.
Matches(p) == Loadable(p, meta) /\ meta.body = fd[p]

LoadMeta(p) ==
  /\ pc[p] = "loadmeta"
  /\ got' = [got EXCEPT ![p] = IF Matches(p) THEN [key |-> fd[p], did |-> meta.body] ELSE NotLoaded]
  /\ Goto(p, "idle")
  /\ UNCHANGED <<dirs, key, meta, self, cut, commands, changes>>

-----------------------------------------------------------------------------
(* The process dies, and the user                                          *)

Crash(p) ==
  /\ pc[p] # "idle"
  /\ cut' = cut \cup {number[p]}
  /\ Goto(p, "idle")
  /\ UNCHANGED <<dirs, key, meta, self, got, commands, changes>>

\* The user removes the pair's directory, the key alone or the metadata alone,
\* puts a key from elsewhere in its place, or changes the mode of the key.
UserChanges ==
  /\ changes < MaxChanges /\ changes' = changes + 1
  /\ \/ /\ dirs[3].is = "dir" /\ dirs[2].owner = "user"
        /\ dirs' = [dirs EXCEPT ![3] = NoDir] /\ key' = NoFile /\ meta' = NoFile
     \/ /\ dirs[3].is = "dir" /\ dirs[3].owner = "user"
        /\ \/ key' = NoFile /\ UNCHANGED meta
           \/ meta' = NoFile /\ UNCHANGED key
           \/ key' = [NoFile EXCEPT !.is = "file", !.body = Backup] /\ UNCHANGED meta
           \/ key.is = "file" /\ key.owner = "user" /\ key' = [key EXCEPT !.exact = ~@] /\ UNCHANGED meta
        /\ UNCHANGED dirs
  /\ UNCHANGED <<pc, self, got, cut, commands>>

Constle(p) ==
  \/ Create(p) \/ Mkdir(p) \/ HandOver(p) \/ HandOverFails(p)
  \/ MakeKey(p) \/ OwnKey(p) \/ OwnKeyFails(p) \/ WriteKey(p)
  \/ MakeMeta(p) \/ OwnMeta(p) \/ OwnMetaFails(p) \/ ReopenMeta(p) \/ WriteMeta(p)
  \/ WriteFails(p) \/ Load(p) \/ LoadMeta(p) \/ Crash(p)

Next == (\E p \in Procs : Constle(p)) \/ UserChanges

Spec == Init /\ [][Next]_vars

-----------------------------------------------------------------------------
(* Properties                                                              *)

\* A name stands for one key pair: what a Load returns is a key under its own DID,
\* whatever Creates and crashes it runs among, and as long as the user has changed
\* nothing, every Create and every Load that succeeds returns the same pair.
OnePair ==
  LET returned == {got[p] : p \in Procs} \ {NotLoaded}
  IN /\ \A pair \in returned : pair.key # 0 /\ pair.did = pair.key
     /\ changes = 0 => \A a, b \in returned : a = b

\* What a run under sudo creates in the user's tree is the user's again, unless
\* that run is just about to hand it over, or was cut short before it could: it
\* died, the chown of a directory failed, or that of a file and then its removal.
HandedBack ==
  \A x \in {key, meta} \cup {dirs[i] : i \in Levels} :
    x.is # "none" /\ x.id # 0 /\ x.owner = "root" =>
      \/ x.id \in cut
      \/ \E p \in Sudo : number[p] = x.id /\ pc[p] \in {"handover", "ownkey", "ownmeta"}

\* A command leaves what it finds: it neither replaces nor rewrites a complete key,
\* takes no file from its owner and, under sudo, writes into none that is a third
\* party's or has a second name.  The one exception is a Create whose hand-over
\* fails after the user has removed the key it made: it removes by name.
KeepsWhatItFinds ==
  [][\A p \in Procs : Constle(p) =>
       /\ key.body # 0 /\ key' # key => pc[p] = "ownkey" /\ key.id # number[p]
       /\ \A x \in {<<key, key'>>, <<meta, meta'>>} :
            x[1].is # "none" /\ x[2].is # "none" /\ x[1].id # number[p] => x[2].owner = x[1].owner
       /\ p \in Sudo /\ (meta.owner = "other" \/ meta.links > 1) => meta' = meta \/ pc[p] = "ownmeta"]_vars
=============================================================================
