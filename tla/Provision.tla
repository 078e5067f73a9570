------------------------------- MODULE Provision -------------------------------
(***************************************************************************)
(* provision.EnsureUser under provision.LockNode: several rucher commands  *)
(* on one node (the agent's pass, node cadre apply, new and rm) create the *)
(* cadres' OS users and give each a block of subordinate ids in            *)
(* /etc/subuid and /etc/subgid, which other users have ranges in, too.     *)
(*                                                                         *)
(* A map is the set of its lines.  Lines that nextSubidStart skips as      *)
(* malformed are not in it.                                                *)
(***************************************************************************)
EXTENDS Naturals

CONSTANTS
  Cadres,    \* cadres, for their users rucher-<name>
  Others,    \* the other users of the node
  Procs,     \* rucher commands that may run at the same time
  Free,      \* the lock when nobody holds it
  Nobody,    \* the cadre of a command that does not run
  Base,      \* subidBase
  Count,     \* subidCount
  MaxId,     \* no subordinate id is greater: usermod refuses
  Starts,    \* where ranges that rucher does not choose may start
  MaxDeaths, \* bound: commands that fail or die
  MaxOthers  \* bound: ranges given to other users

ASSUME NamesDisjoint ==
  Cadres \cap Others = {} /\ Nobody \notin Cadres \cup Others /\ Free \notin Procs

ASSUME IdsTyped ==
  Base \in Nat /\ Count \in Nat \ {0} /\ MaxId \in Nat /\ Starts \subseteq 0..MaxId

ASSUME BoundsTyped == {MaxDeaths, MaxOthers} \subseteq Nat

VARIABLES
  users,    \* the cadre users that exist
  subuid, subgid,
  lock,     \* the command that holds the node lock
  pc,       \* where each command is in EnsureUser
  target,   \* the cadre it is about
  readUid, readGid,   \* what it read of the maps
  ready,    \* cadres EnsureUser succeeded for, their user being there since
  deaths, others

vars == <<users, subuid, subgid, lock, pc, target, readUid, readGid, ready, deaths, others>>

Line == [user : Cadres \cup Others, start : Nat, count : Nat]

Overlap(d, e) == d.start < e.start + e.count /\ e.start < d.start + d.count

(* A line whose ids nobody has in map. *)
FreeIn(line, map) == \A e \in map : ~Overlap(line, e)

TypeOK ==
  /\ users \in SUBSET Cadres
  /\ subuid \in SUBSET Line /\ subgid \in SUBSET Line
  /\ lock \in Procs \cup {Free}
  /\ pc \in [Procs -> {"idle", "id", "catuid", "catgid", "usermod", "usermodgid", "done"}]
  /\ target \in [Procs -> Cadres \cup {Nobody}]
  /\ readUid \in [Procs -> SUBSET Line] /\ readGid \in [Procs -> SUBSET Line]
  /\ ready \in SUBSET Cadres
  /\ deaths \in 0..MaxDeaths
  /\ others \in 0..MaxOthers

Init ==
  /\ users = {} /\ subuid = {} /\ subgid = {}
  /\ lock = Free
  /\ pc = [p \in Procs |-> "idle"]
  /\ target = [p \in Procs |-> Nobody]
  /\ readUid = [p \in Procs |-> {}] /\ readGid = [p \in Procs |-> {}]
  /\ ready = {}
  /\ deaths = 0 /\ others = 0

-----------------------------------------------------------------------------
(* The commands.                                                           *)

Goto(p, label) == pc' = [pc EXCEPT ![p] = label]

(* The command is over, or its process is dead: the lock is free again.    *)
Exit(p) ==
  /\ lock' = Free
  /\ Goto(p, "idle")
  /\ target' = [target EXCEPT ![p] = Nobody]
  /\ readUid' = [readUid EXCEPT ![p] = {}]
  /\ readGid' = [readGid EXCEPT ![p] = {}]

(* Mutant of Lock: nobody waits for anybody. *)
LockIgnored(p) ==
  /\ pc[p] = "idle"
  /\ lock' = p
  /\ \E c \in Cadres : target' = [target EXCEPT ![p] = c]
  /\ Goto(p, "id")
  /\ UNCHANGED <<users, subuid, subgid, readUid, readGid, ready, deaths, others>>

Lock(p) ==
  /\ pc[p] = "idle" /\ lock = Free
  /\ lock' = p
  /\ \E c \in Cadres : target' = [target EXCEPT ![p] = c]
  /\ Goto(p, "id")
  /\ UNCHANGED <<users, subuid, subgid, readUid, readGid, ready, deaths, others>>

(* useradd, where there is no such user; by its configuration it may give  *)
(* the user ranges of its own, in either map.                              *)
Useradd(p) ==
  /\ pc[p] = "id"
  /\ users' = users \cup {target[p]}
  /\ IF target[p] \in users
       THEN UNCHANGED <<subuid, subgid>>
       ELSE /\ \/ UNCHANGED subuid
               \/ \E s \in Starts :
                    LET line == [user |-> target[p], start |-> s, count |-> Count]
                    IN  FreeIn(line, subuid) /\ subuid' = subuid \cup {line}
            /\ \/ UNCHANGED subgid
               \/ \E s \in Starts :
                    LET line == [user |-> target[p], start |-> s, count |-> Count]
                    IN  FreeIn(line, subgid) /\ subgid' = subgid \cup {line}
  /\ Goto(p, "catuid")
  /\ UNCHANGED <<lock, target, readUid, readGid, ready, deaths, others>>

CatSubuid(p) ==
  /\ pc[p] = "catuid"
  /\ readUid' = [readUid EXCEPT ![p] = subuid]
  /\ Goto(p, "catgid")
  /\ UNCHANGED <<users, subuid, subgid, lock, target, readGid, ready, deaths, others>>

CatSubgid(p) ==
  /\ pc[p] = "catgid"
  /\ readGid' = [readGid EXCEPT ![p] = subgid]
  /\ Goto(p, "usermod")
  /\ UNCHANGED <<users, subuid, subgid, lock, target, readUid, ready, deaths, others>>

HasSubid(map, c) == \E e \in map : e.user = c

NoBlock(p) == FALSE    \* mutants of HasBlock: allocate each time, look at subuid only

SubuidBlock(p) == HasSubid(readUid[p], target[p])

(* The user has a range in both maps, as they were read. *)
HasBlock(p) == HasSubid(readUid[p], target[p]) /\ HasSubid(readGid[p], target[p])

(* nextSubidStart: the greatest end of a range in either map. *)
NextStart(p, s) ==
  LET ends == {Base} \cup {e.start + e.count : e \in readUid[p] \cup readGid[p]}
  IN  s \in ends /\ \A x \in ends : x <= s

Block(p, s) == [user |-> target[p], start |-> s, count |-> Count]

Allotted(p) ==
  /\ pc[p] = "usermod" /\ HasBlock(p)
  /\ Goto(p, "done")
  /\ UNCHANGED <<users, subuid, subgid, lock, target, readUid, readGid, ready, deaths, others>>

(* usermod writes one map after the other. *)
Usermod(p) ==
  /\ pc[p] = "usermod" /\ ~HasBlock(p)
  /\ \E s \in 0..MaxId :
       /\ NextStart(p, s) /\ s + Count - 1 <= MaxId
       /\ subuid' = subuid \cup {Block(p, s)}
  /\ Goto(p, "usermodgid")
  /\ UNCHANGED <<users, subgid, lock, target, readUid, readGid, ready, deaths, others>>

UsermodGid(p) ==
  /\ pc[p] = "usermodgid"
  /\ \E s \in 0..MaxId : NextStart(p, s) /\ subgid' = subgid \cup {Block(p, s)}
  /\ Goto(p, "done")
  /\ UNCHANGED <<users, subuid, lock, target, readUid, readGid, ready, deaths, others>>

(* EnsureUser has succeeded; the command goes on and then lets go. *)
Unlock(p) ==
  /\ pc[p] = "done"
  /\ ready' = ready \cup {target[p]}
  /\ Exit(p)
  /\ UNCHANGED <<users, subuid, subgid, deaths, others>>

(* There is no id left, so usermod fails. *)
Exhausted(p) ==
  /\ pc[p] = "usermod" /\ ~HasBlock(p)
  /\ \A s \in 0..MaxId : ~(NextStart(p, s) /\ s + Count - 1 <= MaxId)

(* A command of the host fails, or the process dies; the kernel frees the  *)
(* lock of a dead process.                                                 *)
Die(p) ==
  /\ pc[p] # "idle"
  /\ IF Exhausted(p) THEN UNCHANGED deaths ELSE deaths < MaxDeaths /\ deaths' = deaths + 1
  /\ Exit(p)
  /\ UNCHANGED <<users, subuid, subgid, ready, others>>

(* node cadre rm --purge, under the lock.  userdel removes the user's      *)
(* ranges where it is told to, and leaves them where it is not.            *)
Purge(p) ==
  /\ pc[p] = "idle" /\ lock = Free
  /\ \E c \in users :
       /\ users' = users \ {c}
       /\ ready' = ready \ {c}
       /\ subuid' \in {subuid, {e \in subuid : e.user # c}}
       /\ subgid' \in {subgid, {e \in subgid : e.user # c}}
  /\ UNCHANGED <<lock, pc, target, readUid, readGid, deaths, others>>

(* Another user gets a range in both maps.  The administrator does not     *)
(* take rucher's lock, but is taken not to act while a command has read    *)
(* the maps and not yet written them.                                      *)
GiveOther ==
  /\ \A p \in Procs : pc[p] \notin {"catgid", "usermod", "usermodgid"}
  /\ others < MaxOthers /\ others' = others + 1
  /\ \E u \in Others, s \in Starts :
       LET line == [user |-> u, start |-> s, count |-> Count]
       IN  /\ FreeIn(line, subuid) /\ subuid' = subuid \cup {line}
           /\ FreeIn(line, subgid) /\ subgid' = subgid \cup {line}
  /\ UNCHANGED <<users, lock, pc, target, readUid, readGid, ready, deaths>>

Ensure(p) ==
  \/ Useradd(p) \/ CatSubuid(p) \/ CatSubgid(p)
  \/ Allotted(p) \/ Usermod(p) \/ UsermodGid(p) \/ Unlock(p)

Next ==
  \/ \E p \in Procs : Lock(p) \/ Ensure(p) \/ Die(p) \/ Purge(p)
  \/ GiveOther

Spec == Init /\ [][Next]_vars

-----------------------------------------------------------------------------
(* Properties.                                                             *)

Apart(map) == \A d \in map, e \in map : d.user # e.user => ~Overlap(d, e)

(* No two users share a subordinate id: rucher's cadres are isolated from  *)
(* each other and from the rest of the node (the comment on LockNode:      *)
(* "overlapping subuid ranges (an isolation break)").                      *)
Isolation == Apart(subuid) /\ Apart(subgid)

(* A cadre that EnsureUser succeeded for has ids in both maps, also when a *)
(* usermod before was cut short between them.                              *)
ReadyMapped == \A c \in ready : HasSubid(subuid, c) /\ HasSubid(subgid, c)

(* No later run changes the ranges of a cadre that is set up: its volumes  *)
(* and images are owned by those ids.                                      *)
RangesStay ==
  [][\A c \in ready \cap ready' :
        /\ {e \in subuid' : e.user = c} = {e \in subuid : e.user = c}
        /\ {e \in subgid' : e.user = c} = {e \in subgid : e.user = c}]_vars

-----------------------------------------------------------------------------
(* What makes the properties inductive (the theorems are in                *)
(* ProvisionProofs).                                                       *)

(* One command at a time is past the lock. *)
Exclusive == \A p \in Procs : pc[p] # "idle" => lock = p /\ target[p] \in Cadres

(* Nothing is stale: what a command has read, it may act on. *)
ReadsStand ==
  \A p \in Procs :
    /\ pc[p] \in {"catgid", "usermod"} => readUid[p] = subuid
    /\ pc[p] \in {"usermod", "usermodgid"} => readGid[p] = subgid
    /\ pc[p] = "usermodgid" => HasSubid(subuid, target[p]) /\ target[p] \notin ready
    /\ pc[p] = "done" => HasSubid(subuid, target[p]) /\ HasSubid(subgid, target[p])
    /\ pc[p] \notin {"idle", "id"} => target[p] \in users

Inv == Exclusive /\ ReadsStand /\ ready \subseteq users /\ ReadyMapped /\ Isolation
=============================================================================
