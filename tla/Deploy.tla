-------------------------------- MODULE Deploy --------------------------------
(***************************************************************************)
(* `ops nodes deploy` (internal/deploy, internal/parallel): over ssh, on a *)
(* bounded number of nodes at once, bring the base platform, the rucher    *)
(* binary, the node key and the agent.  The operator runs it again after a *)
(* failure and for every release, and tells nodes' addresses in between.   *)
(*                                                                         *)
(* A command on a node may fail before it did anything, or do its work and *)
(* lose the answer; a connection that goes takes the input of an upload    *)
(* with it, but leaves a download running on the node.  Only the first of  *)
(* a job's connections is followed through HostKeys: for the others, to be *)
(* turned away is one way to fail.  A host that accepts a connection and   *)
(* says nothing more hangs the job: no deadline is set before the command  *)
(* is sent.                                                                *)
(***************************************************************************)
EXTENDS HostKeys, Integers, Sequences, FiniteSets

CONSTANTS
  Options,      \* command lines: node names, --concurrency, what is uploaded, agent or not
  Archs,        \* architectures
  Released,     \* those that a release has a binary for
  ArchOf,       \* what dpkg says on each host
  NodeOrder,    \* the node names, sorted
  Global,       \* nodes/configuration.yml, the same throughout
  Lima,         \* what a local lima instance's ssh.config says of a node
  None,         \* no such file, no such key
  Torn,         \* a file that a write left half-written, and is no key, no yaml, no unit
  Mixed,        \* a binary with bytes of two releases
  MaxRuns,      \* bound: deploys, each of its own release and configuration
  MaxFailures,  \* bound: commands that fail, and panics
  MaxChanges    \* bound: hosts that are installed anew, addresses that are set

INSTANCE NodeConfig

ASSUME ConfigTyped ==
  /\ Global \in Doc \cup {None, Torn}
  /\ Lima \in [NodeNames -> Hosts \cup {None}]

(* What stands for no file, or for a torn one, is none that was written.   *)
ASSUME NotData ==
  /\ None # Torn /\ {None, Torn} \cap ({"made"} \cup Hosts \cup Doc \cup (Nat \X NodeNames)) = {}
  /\ Mixed \notin Nat
  /\ None \notin Archs \cup [v : Nat \cup {Mixed}, whole : BOOLEAN, arch : Archs, upload : BOOLEAN]

ASSUME ArchTyped == Released \subseteq Archs /\ ArchOf \in [Hosts -> Archs]

(* Names that are listed are the nodes', in the order of NodeOrder.        *)
ASSUME ListTyped ==
  \A docs \in [NodeNames -> Doc \cup {None, Torn}] :
    List(docs) \in Seq(NodeNames) /\ DOMAIN List(docs) \subseteq DOMAIN NodeOrder

(* upload: what the binary that is uploaded was built for, None where the  *)
(* nodes download theirs.                                                  *)
OptionSet == [names : Seq(NodeNames), limit : Int, upload : Archs \cup {None}, boot : BOOLEAN]

ASSUME BoundsOfDeploy ==
  /\ {MaxRuns, MaxFailures, MaxChanges} \subseteq Nat
  /\ Options \subseteq OptionSet
  /\ \A o \in Options : \A r \in 1..MaxRuns, i \in DOMAIN o.names \cup DOMAIN NodeOrder : <<r, i>> \in Conns

VARIABLES
  nodes,    \* configuration.yml of every node
  told,     \* the address the operator last gave a node, None when that failed
  run,      \* the deploys so far: the last one's number is its release
  opts,     \* its command line
  pc,       \* where the job of each name is; how its row came out
  disk,     \* what the deploys leave on each node
  writers,  \* the processes on each node that write a binary
  clean,    \* nothing went wrong by itself in this run, nor is left over to make it fail
  crossed,  \* the nodes on which two writers of a binary met
  failures, changes

runVars == <<nodes, told, run, opts, pc, disk, writers, clean, crossed, failures, changes>>
dvars   == <<hostVars, runVars>>

Runs    == 1..MaxRuns
Ended   == {"ok", "failed", "zero"}
Stages  == {"waiting", "arch", "base", "stage", "staging", "chmod", "move",
            "test", "key", "config", "install", "hung"}
File    == [v : 0..MaxRuns \cup {Mixed}, whole : BOOLEAN, arch : Archs, upload : BOOLEAN]
Writer  == [job : Nat, v : Runs, on : {"stage", "bin"}]
Apt     == {"free", "busy", "broken"}    \* busy: a script runs on; broken: one was cut off
Disk    == [stage : File \cup {None}, bin : File \cup {None}, podman : BOOLEAN, apt : Apt,
            key : {None, Torn, "made"}, cfg : (Runs \X NodeNames) \cup {None, Torn},
            unit : (Runs \X NodeNames) \cup {None, Torn}, timer : BOOLEAN]
Empty   == [stage |-> None, bin |-> None, podman |-> FALSE, apt |-> "free", key |-> None,
            cfg |-> None, unit |-> None, timer |-> FALSE]
NoOptions == [names |-> <<>>, limit |-> 0, upload |-> None, boot |-> FALSE]
Late    == 0    \* the job of a writer that no job waits for

Jobs     == DOMAIN pc
Conn(i)  == <<run, i>>
Dialled(i) == conn[Conn(i)] # Unused
Node(i)  == conn[Conn(i)].host

DTypeOK ==
  /\ HTypeOK
  /\ nodes \in [NodeNames -> Doc \cup {None, Torn}]
  /\ told \in [NodeNames -> Hosts \cup {None}]
  /\ run \in 0..MaxRuns
  /\ opts \in OptionSet
  /\ pc \in [DOMAIN opts.names -> Stages \cup Ended]
  /\ disk \in [Hosts -> Disk]
  /\ writers \in [Hosts -> SUBSET Writer]
  /\ \A h \in Hosts : \A w \in writers[h] :
       /\ disk[h][w.on] # None
       /\ w.job # Late => w.job \in Jobs /\ pc[w.job] = "staging" /\ Node(w.job) = h
  /\ clean \in BOOLEAN /\ crossed \in SUBSET Hosts
  /\ failures \in 0..MaxFailures /\ changes \in 0..MaxChanges

DInit ==
  /\ HInit
  /\ nodes \in [NodeNames -> Doc \cup {None}]
  /\ told = [n \in NodeNames |-> Target(n, nodes[n])]
  /\ run = 0 /\ pc = <<>> /\ opts = NoOptions
  /\ disk = [h \in Hosts |-> Empty] /\ writers = [h \in Hosts |-> {}]
  /\ clean = TRUE /\ crossed = {}
  /\ failures = 0 /\ changes = 0

Fails    == failures < MaxFailures /\ failures' = failures + 1 /\ clean' = FALSE
NoFault  == UNCHANGED <<failures, clean>>
Goes(i, to) == pc' = [pc EXCEPT ![i] = to]
Returned == \A i \in Jobs : pc[i] \in Ended

-----------------------------------------------------------------------------
(* parallel.Map: a slot for every job that runs, taken in the order of the *)
(* names, given back when its function returns or panics.                  *)

Width == IF opts.limit <= 0 \/ opts.limit > Len(pc) THEN Len(pc) ELSE opts.limit

HoldingPanicked(i) ==    \* mutant of Holding: a panic keeps the slot
  pc[i] \notin {"waiting", "ok", "failed"}

Holding(i) == pc[i] \notin {"waiting"} \cup Ended

Spawn(i) ==
  /\ pc[i] = "waiting" /\ \A j \in 1..(i - 1) : pc[j] # "waiting"
  /\ Cardinality({j \in Jobs : Holding(j)}) < Width
  /\ Goes(i, "arch")
  /\ UNCHANGED <<hostVars, nodes, told, run, opts, disk, writers, clean, crossed, failures, changes>>

Panic(i) ==
  /\ pc[i] \notin {"waiting", "hung"} \cup Ended
  /\ Fails /\ Goes(i, "zero")
  /\ writers' = [h \in Hosts |-> {w \in writers[h] : w.job # i}]
  /\ UNCHANGED <<hostVars, nodes, told, run, opts, disk, crossed, changes>>

(* ssh.Dial's handshake, or NewSession, gets no answer: only the TCP       *)
(* connect and session.Run have a deadline.  The slot is not given back.   *)
Hang(i) ==
  /\ pc[i] \notin {"waiting", "staging", "hung"} \cup Ended
  /\ conn[Conn(i)].at \in {"read", "accepted"}
  /\ Fails /\ Goes(i, "hung")
  /\ UNCHANGED <<hostVars, nodes, told, run, opts, disk, writers, crossed, changes>>

(* Nothing goes on: what has not ended hangs, or waits for a slot that     *)
(* those hold.                                                             *)
Stalled ==
  \A i \in Jobs :
    \/ pc[i] \in Ended \cup {"hung"}
    \/ pc[i] = "waiting" /\ Cardinality({j \in Jobs : pc[j] = "hung"}) >= Width

-----------------------------------------------------------------------------
(* deployOne. *)

(* A command that cannot succeed as things are on the node. *)
Hopeless(i) ==
  /\ Goes(i, "failed")
  /\ UNCHANGED <<hostVars, nodes, told, run, opts, disk, writers, clean, crossed, failures, changes>>

(* The node's configuration gives an address, and that the first           *)
(* connection; then comes its architecture.                                *)
Address(n) == Target(n, nodes[n])

Dial(i) ==
  /\ pc[i] = "arch"
  /\ \/ Address(opts.names[i]) # None /\ Read(Conn(i), Address(opts.names[i]))
     \/ Connecting(Conn(i))
  /\ UNCHANGED runVars

NoAddress(i) ==
  /\ pc[i] = "arch" /\ ~Dialled(i) /\ Address(opts.names[i]) = None
  /\ Hopeless(i)

DialFails(i) ==
  /\ pc[i] = "arch" /\ ConnFails(Conn(i)) /\ Fails
  /\ UNCHANGED <<nodes, told, run, opts, pc, disk, writers, crossed, changes>>

Arch(i) ==
  /\ pc[i] = "arch"
  /\ \/ conn[Conn(i)].at = "accepted" /\ Goes(i, "base") /\ NoFault
     \/ conn[Conn(i)].at = "accepted" /\ Goes(i, "failed") /\ Fails
     \/ conn[Conn(i)].at \in {"rejected", "failed"} /\ Goes(i, "failed") /\ NoFault
  /\ UNCHANGED <<hostVars, nodes, told, run, opts, disk, writers, crossed, changes>>

(* One remote command: with this effect it succeeds, or fails and has had  *)
(* one of those.                                                           *)
Command(i, effect, next, failed) ==
  /\ \/ disk' = [disk EXCEPT ![Node(i)] = effect] /\ Goes(i, next) /\ NoFault
     \/ /\ \E d \in failed \cup {disk[Node(i)], effect} : disk' = [disk EXCEPT ![Node(i)] = d]
        /\ Goes(i, "failed") /\ Fails
  /\ UNCHANGED <<hostVars, nodes, told, run, opts, crossed, changes>>

(* The provision script installs podman where it is missing.  One that is  *)
(* cut off runs on, and holds dpkg's lock, or leaves dpkg interrupted or   *)
(* packages in /tmp/p6, which makes the next one's apt-get fail; so does   *)
(* another job's script on the same node.                                  *)
Base(i) ==
  LET d == disk[Node(i)]
      locked == d.apt # "free" \/ \E j \in Jobs \ {i} : pc[j] = "base" /\ Node(j) = Node(i)
      cut == {[d EXCEPT !.apt = a] : a \in {"busy", "broken"}}
  IN
  /\ pc[i] = "base"
  /\ \/ /\ d.podman \/ d.apt # "broken"
        /\ Command(i, [d EXCEPT !.podman = TRUE], "stage", IF d.podman THEN {} ELSE cut)
        /\ UNCHANGED writers
     \/ ~d.podman /\ locked /\ Hopeless(i)

(* A script that ran on ends, however it does. *)
LateBase(h) ==
  LET d == disk[h] IN
  /\ d.apt = "busy"
  /\ \E e \in {[d EXCEPT !.apt = "free", !.podman = TRUE], [d EXCEPT !.apt = "free"],
              [d EXCEPT !.apt = "broken"]} : disk' = [disk EXCEPT ![h] = e]
  /\ UNCHANGED <<hostVars, nodes, told, run, opts, pc, writers, clean, crossed, failures, changes>>

Put(on, h, file) == disk' = [disk EXCEPT ![h][on] = file]

(* A binary of the release for the node's architecture, or the one that    *)
(* the operator uploads, whatever it was built for.                        *)
Binary(h, v, whole) ==
  [v |-> v, whole |-> whole, arch |-> IF opts.upload = None THEN ArchOf[h] ELSE opts.upload,
   upload |-> opts.upload # None]

Unsupported(i) ==
  /\ pc[i] = "stage" /\ opts.upload = None /\ ArchOf[Node(i)] \notin Released
  /\ Hopeless(i)

(* install makes a new file in place of one that is there; curl truncates  *)
(* it, and who writes to it writes on.                                     *)
Stage(i) ==
  LET h == Node(i)
      met == {w \in writers[h] : w.on = "stage" /\ opts.upload = None}
      me == [job |-> i, v |-> run, on |-> "stage"]
      others == {j \in Jobs \ {i} : pc[j] \in {"staging", "chmod", "move"} /\ Node(j) = h}
  IN
  /\ pc[i] = "stage" /\ (opts.upload = None => ArchOf[h] \in Released)
  /\ Goes(i, "staging")
  /\ Put("stage", h, Binary(h, IF \E w \in met : w.v # run THEN Mixed ELSE run, FALSE))
  /\ writers' = [writers EXCEPT ![h] = {w \in @ : w.on = "bin"} \cup met \cup {me}]
  /\ crossed' = IF met # {} \/ others # {} THEN crossed \cup {h} ELSE crossed
  /\ UNCHANGED <<hostVars, nodes, told, run, opts, clean, failures, changes>>

Written(h, w) == Put(w.on, h, [disk[h][w.on] EXCEPT !.whole = TRUE])

Leaves(h, w) == writers' = [writers EXCEPT ![h] = @ \ {w}]

Staged(i) ==
  LET h == Node(i)
      mine == {w \in writers[h] : w.job = i}
  IN
  /\ pc[i] = "staging" /\ Goes(i, IF opts.upload = None THEN "chmod" ELSE "move")
  /\ IF mine = {} THEN UNCHANGED <<disk, writers>>
                  ELSE \E w \in mine : Written(h, w) /\ Leaves(h, w)
  /\ UNCHANGED <<hostVars, nodes, told, run, opts, clean, crossed, failures, changes>>

StageFailsOpen(i) ==    \* mutant of StageFails: a timeout does not close the session
  /\ pc[i] = "staging" /\ Fails /\ Goes(i, "failed")
  /\ UNCHANGED <<hostVars, nodes, told, run, opts, disk, writers, crossed, changes>>

StageFailsUnseen(i) ==    \* mutant of StageFails: the exit code is not looked at
  LET h == Node(i) IN
  /\ pc[i] = "staging" /\ Fails /\ Goes(i, "move")
  /\ writers' = [writers EXCEPT ![h] = {w \in @ : w.job # i}]
  /\ UNCHANGED <<hostVars, nodes, told, run, opts, disk, crossed, changes>>

(* The write ends early, or it is a download that runs on. *)
StageFails(i) ==
  LET h == Node(i)
      mine == {w \in writers[h] : w.job = i}
      late == {[w EXCEPT !.job = Late] : w \in mine}
  IN
  /\ pc[i] = "staging" /\ Fails /\ Goes(i, "failed")
  /\ \E left \in {{}, IF opts.upload = None THEN late ELSE {}} :
       writers' = [writers EXCEPT ![h] = (@ \ mine) \cup left]
  /\ UNCHANGED <<hostVars, nodes, told, run, opts, disk, crossed, changes>>

LateEnds(h) ==
  /\ \E w \in writers[h] :
       w.job = Late /\ Leaves(h, w) /\ (Written(h, w) \/ UNCHANGED disk)
  /\ UNCHANGED <<hostVars, nodes, told, run, opts, pc, clean, crossed, failures, changes>>

Chmod(i) ==
  /\ pc[i] = "chmod"
  /\ IF disk[Node(i)].stage = None
       THEN Hopeless(i)
       ELSE Command(i, disk[Node(i)], "move", {}) /\ UNCHANGED writers

Moved(ws) == {[w EXCEPT !.on = "bin"] : w \in {v \in ws : v.on = "stage"}}

MoveIfAbsent(i) ==    \* mutant of Move: mv without -f does not replace the binary
  LET h == Node(i) IN
  /\ pc[i] = "move"
  /\ IF disk[h].stage = None \/ disk[h].bin # None
       THEN Hopeless(i)
       ELSE /\ Command(i, [disk[h] EXCEPT !.stage = None, !.bin = disk[h].stage], "test", {})
            /\ writers' = IF disk'[h] = disk[h] THEN writers
                          ELSE [writers EXCEPT ![h] = Moved(@)]

(* The staged file takes the binary's place in one step. *)
Move(i) ==
  LET h == Node(i) IN
  /\ pc[i] = "move"
  /\ IF disk[h].stage = None
       THEN Hopeless(i)
       ELSE /\ Command(i, [disk[h] EXCEPT !.stage = None, !.bin = disk[h].stage], "test", {})
            /\ writers' = IF disk'[h] = disk[h] THEN writers
                          ELSE [writers EXCEPT ![h] = Moved(@)]

Test(i) ==
  /\ pc[i] = "test"
  /\ Command(i, disk[Node(i)], "key", {}) /\ UNCHANGED writers

(* `test -x` looks at the mode only: to run is another matter. *)
Runnable(h) ==
  LET b == disk[h].bin IN b # None /\ b.whole /\ b.v # Mixed /\ b.arch = ArchOf[h]

(* `node key init`: the key is made once; one that was cut short stays.    *)
KeyInit(i) ==
  LET d == disk[Node(i)] IN
  /\ pc[i] = "key"
  /\ IF ~Runnable(Node(i)) \/ d.key = Torn
       THEN Hopeless(i)
       ELSE /\ Command(i, [d EXCEPT !.key = "made"], IF opts.boot THEN "config" ELSE "ok",
                       IF d.key = None THEN {[d EXCEPT !.key = Torn]} ELSE {})
            /\ UNCHANGED writers

(* agent.yml names the node as placement.yml does. *)
Rendered(i) == <<run, opts.names[i]>>

ConfigOnce(i) ==    \* mutant of Config: an agent.yml that is there is kept
  LET d == disk[Node(i)] IN
  /\ pc[i] = "config"
  /\ Command(i, IF d.cfg = None THEN [d EXCEPT !.cfg = Rendered(i)] ELSE d, "install",
             {[d EXCEPT !.cfg = Torn]})
  /\ UNCHANGED writers

Config(i) ==
  LET d == disk[Node(i)] IN
  /\ pc[i] = "config"
  /\ Command(i, [d EXCEPT !.cfg = Rendered(i)], "install", {[d EXCEPT !.cfg = Torn]})
  /\ UNCHANGED writers

(* `node agent install`: tee both units, whose exit code is not looked at, *)
(* reload, and enable the timer, which takes units that can be read.       *)
Install(i) ==
  LET d == disk[Node(i)] IN
  /\ pc[i] = "install"
  /\ IF ~Runnable(Node(i)) \/ d.cfg = Torn
       THEN Hopeless(i)
       ELSE /\ UNCHANGED writers
            /\ \/ Command(i, [d EXCEPT !.unit = d.cfg, !.timer = TRUE], "ok",
                          {[d EXCEPT !.unit = d.cfg], [d EXCEPT !.unit = Torn]})
               \/ /\ d.unit \notin {None, Torn}    \* tee fails and leaves the old units
                  /\ disk' = [disk EXCEPT ![Node(i)].timer = TRUE]
                  /\ Fails /\ Goes(i, "ok")
                  /\ UNCHANGED <<hostVars, nodes, told, run, opts, crossed, changes>>

-----------------------------------------------------------------------------
(* The operator. *)

(* There is a binary for this node, and it is the one that is uploaded. *)
Suits(o, h) == IF o.upload = None THEN ArchOf[h] \in Released ELSE o.upload = ArchOf[h]

Provisionable(d) == d.podman \/ d.apt = "free"

(* Nothing that a deploy of this command line has to fail on. *)
CanSucceed(o) ==
  /\ \A i \in DOMAIN o.names :
       LET h == Address(o.names[i]) IN
       /\ h # None /\ Suits(o, h)
       /\ writers[h] = {} /\ Provisionable(disk[h]) /\ disk[h].key # Torn
       /\ known[h] \subseteq server[h]
  /\ \A i, j \in DOMAIN o.names : Address(o.names[i]) = Address(o.names[j]) => i = j

Begin ==
  /\ Returned /\ run < MaxRuns /\ run' = run + 1
  /\ \E o \in Options :
       opts' = [o EXCEPT !.names = IF o.names = <<>> THEN List(nodes) ELSE o.names]
  /\ pc' = [i \in DOMAIN opts'.names |-> "waiting"]
  /\ clean' = CanSucceed(opts')
  /\ UNCHANGED <<hostVars, nodes, told, disk, writers, crossed, failures, changes>>

Changes == changes < MaxChanges /\ changes' = changes + 1

(* `ops nodes join`: writes the address into the node's configuration; the *)
(* operator is done with the rows of the last deploy.                      *)
Join(n, h) ==
  /\ Returned /\ Changes
  /\ nodes[n] # Torn
  /\ LET doc == WriteNetwork(nodes[n], h) IN
     \/ nodes' = [nodes EXCEPT ![n] = doc] /\ told' = [told EXCEPT ![n] = h] /\ UNCHANGED failures
     \/ /\ failures < MaxFailures /\ failures' = failures + 1
        /\ \E cut \in CutShort(doc) : nodes' = [nodes EXCEPT ![n] = cut]
        /\ told' = [told EXCEPT ![n] = None]
  /\ pc' = <<>> /\ opts' = NoOptions
  /\ UNCHANGED <<hostVars, run, disk, writers, clean, crossed>>

(* The operator interrupts a deploy that hangs. *)
GiveUp ==
  /\ ~Returned /\ Stalled
  /\ pc' = <<>> /\ opts' = NoOptions
  /\ UNCHANGED <<hostVars, nodes, told, run, disk, writers, clean, crossed, failures, changes>>

Reinstalled ==
  /\ Changes /\ clean' = FALSE
  /\ \E h \in Hosts, keys \in KeySets : Rekey(h, keys)
  /\ UNCHANGED <<nodes, told, run, opts, pc, disk, writers, crossed, failures>>

JobStep(i) ==
  \/ Spawn(i) \/ Dial(i) \/ NoAddress(i) \/ Arch(i) \/ Base(i) \/ Unsupported(i) \/ Stage(i)
  \/ Staged(i) \/ Chmod(i) \/ Move(i) \/ Test(i) \/ KeyInit(i) \/ Config(i) \/ Install(i)

DNext ==
  \/ Begin \/ GiveUp \/ Reinstalled \/ \E n \in NodeNames, h \in Hosts : Join(n, h)
  \/ \E i \in Jobs : JobStep(i) \/ DialFails(i) \/ StageFails(i) \/ Panic(i) \/ Hang(i)
  \/ \E h \in Hosts : LateEnds(h) \/ LateBase(h)

DSpec == DInit /\ [][DNext]_dvars

(* Every job is a goroutine that goes on: waitRun gives no command more    *)
(* than its five minutes, and a connection that gets no answer hangs.      *)
DFair == WF_dvars(\E i \in Jobs : JobStep(i))

DFairSpec == DSpec /\ DFair

-----------------------------------------------------------------------------
(* Properties. *)

(* A node whose row says OK is the one at the address that the operator    *)
(* last gave it, and has what this deploy was to bring: its binary, which  *)
(* runs there, and a key, and with a store its agent.yml and a timer that  *)
(* is enabled; after whatever failed in earlier runs and on other nodes.   *)
(* Not so where two writers of the binary met, or where another row of     *)
(* that host failed; and of two names at one address one is overwritten.   *)
RowsAt(h) == {j \in Jobs : Dialled(j) /\ Node(j) = h}

OkIsDeployed ==
  Returned =>
    \A i \in {i \in Jobs : pc[i] = "ok"} :
      LET h == Node(i)
          d == disk[h]
      IN
      /\ told[opts.names[i]] \in {None, h}
      /\ (\A j \in RowsAt(h) : pc[j] = "ok") /\ h \notin crossed =>
           /\ d.bin = Binary(h, run, TRUE) /\ Runnable(h) /\ d.key = "made" /\ d.podman
           /\ opts.boot => /\ d.cfg \in {Rendered(j) : j \in RowsAt(h)}
                           /\ d.timer /\ d.unit \notin {None, Torn}

(* A deploy that fails at any step leaves a binary that can run where      *)
(* there was one: the agent's timer keeps starting it.  Only one that the  *)
(* operator uploads may be for another architecture and take its place:    *)
(* nothing runs it before the mv, and the key that it cannot make comes    *)
(* after.                                                                  *)
KeepsWorking ==
  \A h \in Hosts \ crossed :
    LET b == disk[h].bin IN
    b # None => b.whole /\ b.v # Mixed /\ (b.arch = ArchOf[h] \/ b.upload)

(* A deploy in which no command fails of itself succeeds on every node     *)
(* that its binary suits, whatever the failed ones before it left there; a *)
(* key that was cut short, a download that runs on, a provision script     *)
(* that was cut off before podman was there and a host key that changed    *)
(* excepted, and two jobs on one node.                                     *)
CleanRunSucceeds == Returned /\ clean => \A i \in Jobs : pc[i] = "ok"

(* Whatever fails or panics, every job comes to an end but those whose     *)
(* host stops answering: no other waits for one, unless those hold all the *)
(* slots.  With none, the deploy returns with a row for every name.        *)
Returns == []<>Stalled
=============================================================================
