# Verification of rucher

rucher runs sets of podman Quadlet units ("cadres") on a fleet of nodes. Each cadre has an OS
user of its own on the node; an agent on the node pulls a store (git or S3), reads from
`placement.yml` which cadres the node is to run, and reconciles the host with them. This
directory holds TLA+ models of the parts of rucher whose correctness depends on the order of
steps, on failures half-way and on what was remembered of earlier runs, the TLC runs that check
them on small instances, and TLAPS proofs of what matters most.

Paths below are those of the repository; the lines each definition models are in
`PROJECT.json`.

## Inventory

| Component | State | Operations | Who calls it |
|---|---|---|---|
| Plan (`internal/plan`, `internal/fileset`) | none: a pure function of the cadre and the record | `Compute` | Reconcile |
| Reconcile (`internal/reconcile`, `internal/ops`, `internal/state`) | one JSON state file per cadre (the record); on the host: files, podman secrets, `auth.json`, user units, slice drop-in | `Apply`, `Diff`, `Remove`, `List`, `Status`, `New`, `Recipient` | agent pass, `node cadre apply/rm/new/diff` |
| Provisioning (`internal/provision`) | the OS users, `/etc/subuid`, `/etc/subgid`, the lock file | `LockNode`, `EnsureUser`, `ApplyResources` | Reconcile, agent, `cmdNew` |
| S3 store (`internal/store/s3.go`) | the cache directory, the state file beside it | `Sync` | agent pass |
| Git store (`internal/store/git.go`) | the clone in the cache directory: HEAD, the files | `Sync` | agent pass |
| Agent (`internal/agent`, `internal/placement`, `agentcmd.go`) | `agent-status.json` | `Run`, `WriteStatus`, `installIdentity` | systemd timer, 30 s |
| Identities (`internal/age`, `nodekey`, `reconcile.New`) | node key, cadre identity, `recipient.txt` | `New`, `Recipient`, `installIdentity`, node `key init` | agent, CLI |
| SOPS files (`internal/sopsage`, `secretscmd.go`) | the secrets file and `identity.age` of a cadre's directory | `Encrypt`, `Decrypt`, the encrypt and seal commands | Cadre loading, operator's CLI |
| Cadre loading (`internal/cadre`, `manifest`, `secrets`, `prune`) | none | `Load`, `Validate`, which secrets a manifest selects | Reconcile, CLI |
| Quadlet text (`internal/quadletref`, `quadletlint`) | none | `Extract`, `Lint` | Plan, CLI |
| Deploy (`internal/deploy`, `internal/parallel`, `deploycmd.go`) | on each node: staging file, binary, node key, `agent.yml`, units, timer | `deployOne` on many nodes | operator's CLI |
| SSH (`internal/sshx`) | `known_hosts` | dial with accept-new, `Run` with a time limit | Deploy, nodes status |
| Node configuration (`internal/nodecfg`, `sshresolve`, `agentcfg`) | one YAML file per node and one for all | merge, address, `net join` | Deploy, nodes status |
| Fleet status (`internal/nodestatus`, `nodescmd.go`) | none | one row per node from its status file | operator's CLI |
| Command line (`cmd/rucher`) | none | parsing, printing, taking the node lock | operator |

How they interact. The timer starts a pass: take the node lock (`flock`, held to the end), `Sync`
the store, read the placement, then for each assigned cadre `EnsureUser`, `installIdentity`,
`cadre.Load`, `reconcile.Apply`; then `reconcile.Remove` each cadre that has a state file and is
not assigned; then write the status. `node cadre apply`, `new` and `rm` take the same lock and
call the same functions. Nothing is kept in memory from one pass to the next: everything a pass
knows of earlier ones is in the state files and the host. The operator fills the store from a
checkout, in which `secrets encrypt` and `cadre key seal` write, and brings rucher to the nodes with
`ops nodes deploy`, many nodes at a time, each over SSH; `ops nodes status` reads the status files in
the same way.

What is hard here, with the properties that make each part correct:

* **A pass is a sequence of a few dozen commands, each of which may fail, and the record is
  written last.** The next pass diffs against the record and never looks at the host. So the
  record must be true of the host: whenever it says what the operator wants, files, secrets,
  running units, caps and logins are so (`FilesLanded`, `RunsFresh`, `CapsAndLogins`); nothing
  runs that neither the record nor the cadre knows of (`NothingForgotten`); a recorded cadre
  needs nothing (`Idempotent`) and is left alone (`RestartsHaveReason`); a cadre left alone gets
  recorded (`Converges`).
* **Order inside a pass.** systemd maps a Quadlet unit by its file, so stop comes before removal
  (`StopBeforeRemove`) and files, secrets and the reload come before start (`RunsFresh`).
* **Removal, return, purge.** Remove is best-effort and forgets, and may die before it does, with the cadre coming back on top of that (`NothingLeftRunning`,
  `NothingLeftOnDisk`, `ReturnsRunning`, `NoOrphanedCap`, `CapAsAsked`, `LetGo`).
* **Several commands at a time, and users that are not rucher's**, share `/etc/subuid` and
  `/etc/subgid` (`Isolation`, `ReadyMapped`, `RangesStay`).
* **A remote that changes while it is read, requests that fail half-way, and another source in the
  same directory** (`FreshIsCurrent`, `OwnFiles`, `CatchesUp`; `RefinesStore`, `FollowsTip`).
* **One cadre of several fails, for good or for a pass**: the others are to be applied, the removals done,
  and the status to tell the truth about it (`EachConverges`, `GoneInTheEnd`, `HealthyRowIsTrue`).
* **Keys that are made in one place and used in another**: what was encrypted to a printed recipient
  must be readable on the node (`PrintedIsIdentity`).
* **A deploy that fails on some nodes at some command and is run again, over what the commands it lost left running, connections that
  race to pin a host or get no answer, binaries for another architecture, addresses that change** (`OkIsDeployed`, `KeepsWorking`, `CleanRunSucceeds`, `TrustOnce`,
  `NotLockedOut`, `Returns`).
* **A secrets file that is merged, edited, half-written, or read between two writes**
  (`SecretsOfOneVersion`, `DoneIsReadable`, `ListedStay`), and **unit files that meet under one service name**
  (`OneFilePerService`).

The hazards, each with its line, are listed in `PROJECT.json`, those with no property yet
together with the reason.

## Modules

    CadrePlan      the diff engine and the record              (no variables)
      UserHost     one cadre's user, home, systemd and podman   (external)
        Reconcile  passes of Apply over UserHost
          Lifecycle  + assignment and Remove
            MCLifecycle, MCReconcile    with MCCadres, the small world
          ReconcileProofs  ->  LifecycleProofs
    Provision      LockNode and EnsureUser  ->  MCProvision, ProvisionProofs
    S3Store        S3.Sync                  ->  MCS3Store, S3StoreProofs
    Store          what the agent relies on in a store          (abstract)
      GitStore     Git.Sync, implements Store  ->  MCGitStore, GitStoreProofs
    NodeStore      S3Store and GitStore in one directory  ->  MCNodeStore
    Identity       node key, identities, recipients
      AgentPass    passes over several cadres, their status
        NodeStatus   the rows of nodes status  ->  MCAgent, AgentPassProofs
    HostKeys       known_hosts, shared by connections
      Deploy       deployOne under parallel.Map, with NodeConfig  ->  MCDeploy, DeployProofs
    NodeConfig     merging, addresses                          (no variables)
    Sops           the codec                                   (no variables)
      CadreDir     Load and Validate                           (no variables)
        Checkout   operator, directory and node  ->  MCCheckout, CheckoutProofs

The modules that are proved about contain no RECURSIVE operator; parameters are constants with
named assumptions, which TLC evaluates on every run. Beside types and bounds they say what the code sees to before it gets this far:

* `NativesNameNothing`, `FilesMakeSense`: only Quadlet texts are scanned for the files and secrets they name, and only they generate a service.
* `LoginsNeedSecrets`: the password of a registry is one of the cadre's secrets, so a cadre with a login ships one.
* `AbsentIsNoInput`, `NotData`, `SentinelsOutside`, `NotKeys`: what stands for nothing, or for a file cut short, is none of the values that are written.
* `ListTyped`, `InputsTyped`: `List` and `Encrypt` return sequences and files. Both are built on operators of the community modules that recurse, so
  that a proof cannot find it out.

### CadrePlan

`Compute(c, prior)` is `plan.Compute`: a record of sets, one per list of `plan.Plan`. The lists
have an order in the code (that of the files by name) which the model gives up inside one
stage: any order is possible, which covers the code's. A file name belongs to one of four
classes, as its extension tells the code (`IsUnitFile`, `IsSystemdUnit`), and a content says
whether it has an `[Install]` section and which files and secrets it names (`FileRefs`,
`SecretRefs`, in the code `quadletref.Extract`). A content stands for its SHA-256.
`NextState` is `nextState`, the record a pass without failures saves.

### UserHost

What rucher's command lines do to the host; external to the repository. `loaded` is what the
systemd manager has read at the last daemon-reload and differs from `disk` until then; `run[u]`
records the inputs unit `u` started with, so that stale inputs can be seen; `systemctl start` of
a running unit does nothing; `stop` needs a unit the manager knows (or one still active), `disable` its
file. A unit does not start when a secret that it names is absent. `Torn` is a file cut
short. `Hidden` are inputs a unit reads in ways `quadletref` cannot see; a change of these is what the
coarse restart of `orphanChanged` is for.

### Reconcile

One cadre, one pass at a time (the node lock). `Begin` computes the plan as `Apply` does,
including the zeroed baseline of a changed uid and the folding of the stops and removals of
the real record (`UidChanged`, `Base`, `Folded`). From then on `plan` is what is left to do;
`AtStop` ... `AtSave` say which stage is open, in the order of `Apply`'s comments; one action per
command: `SetLimits`, `Stop`, `Disable`, `Write`, `Remove`, `CreateSecret`, `DropSecret`,
`Login`, `Reload`, `Start`, `Restart`, `Enable`, `RestartNative`. `StopFails` and
`DisableFails` set a unit aside; `Remove` skips the files of such units; `Save` writes
`Retaining(NextState(...))`. `Abort` is any other failing command and the death of the process: it leaves
what was done, with a file possibly torn or a secret removed and not created.
`Blocked` says the next command cannot succeed; `Abort` is then free, otherwise bounded.

The environment changes the cadre (`ChangeDesired`), deletes the user (`DeleteUser`).
`ChangeWhen` says how patient the operator is: `"converged"` waits until the last change is
recorded, `"any"` does not wait. `ReuseUid` says whether a re-created user may get the uid
it had.

### Lifecycle

Adds `assigned` and the removal `rm`, a little program over the same host: stops, disables,
`rm -rf` of the Quadlet directory and of the unit directory (`RmWipeQuadlets`, `RmWipeNatives`), reload, forget the state file, and with `--purge` kill,
`userdel`, drop-in. `Issued` is a command whose failure nobody notices. `RmCrash` is a removal
that dies, or whose `userdel` fails. A keep-removal is started only for a cadre with a state file, as
`reconcile.List` finds them. `Reassign` brings the cadre back at any time no removal runs: before it began, after it was done, or on top of
one that died. Two history variables, which no action's guard reads: `forgot`, the uids of users whose state
file is gone, for `NoOrphanedCap` and `CapAsAsked` to except, and `halfway`, whether a removal died before it dropped the state file and whether
the cadre came back on top of that, for `ReturnsRunning` and `NothingLeftRunning`.

### Provision

`Procs` are rucher commands; `Lock` and `Exit` are `LockNode` and its release, by
return or by death of the process. In between `Useradd`, `CatSubuid`, `CatSubgid`, then
`Allotted` or `Usermod` followed by `UsermodGid` (usermod rewrites one map after
the other). `Purge` is `rm --purge`, with a `userdel` that may or may not drop the ranges.
`GiveOther` gives ranges to users that are not rucher's. Assumed: the administrator does not
allocate ids between the two reads and the write of a rucher command, since no lock of
rucher's binds them; and a command that rucher runs ends with rucher.

### S3Store

Objects per store, each with a content that stands for its ETag. `Begin`, `List` per
page, `Listed` (which clears another store's cache), `Get`, `GotAll`, `Drop` or `DropFails`, `DroppedAll`,
`Save` follow `Sync`; `ListFails` is the branch of `lastGood`; `Fails` and `ClearFails` are
errors and deaths; `LoseState` an unreadable state file. Around it `Change` writes objects, at
any time if `Racing`, and `Switch` edits `agent.yml` between passes. With `Reverts = FALSE` no
object, and not `agent.yml`, returns to a value it had. `kept` is a history variable: the files whose last deletion failed, for the properties to except.

### Store, GitStore, NodeStore

`Store` is what the agent relies on (the `Store` interface): a Sync returns a revision that the
configured source has or had, with the whole tree of it, or an error. It is abstract: an answer may be any such revision,
at any time. `GitStore` is `Git.Sync` over go-git: `GBegin` opens the cache, removes one of another
URL or branch (`CacheMatches`) and decides between clone and pull; `Fetched`, `Write` per file, `Checked`;
`PullMoves` sets HEAD, and the files follow; `CloneFails`, `PullFails`, `WriteFails`, `RemoveFails` and `Dies` are what
can go wrong at each point, and `PullFails` goes on with what HEAD names, as `Sync` does. `Commit` and `Rewrite` (a force-push)
move the branches, `Reconfigure` edits `agent.yml`. `RefinesStore` maps `source`, `had` and `answer` to themselves and
`sound` to `~Torn`: the promise of `Store` is kept as long as the working files have not been cut short behind HEAD's back.
`NodeStore` puts both kinds into `/var/lib/rucher/store`, as a change of `store.kind` does.

### Identity, AgentPass, NodeStatus

`Identity` has the operations on keys; a key stands for both of its halves, and each write may leave `Torn`.
`AgentPass` goes through a pass as `cmdAgentRun` and `agent.Run` do: `Start` (the early returns, of
which none writes a status), `Sync`, `ApplyOne` or `ApplyFails` for each assigned cadre, `AppliedAll` (List, and what is to be removed),
`RemoveOne`, `WriteStatus`; `SyncFails`, `Dies`. What Apply and Remove do to a host is in Reconcile and Lifecycle: here a state file
says which revision was applied. Between passes the operator runs `cadre new` and `rm` and the store gets revisions, whose `Contents` say
of each cadre whether it loads, which identity is sealed in it and to this node or not, and what its secrets are
encrypted to. `NodeStatus` adds the row that `nodes status` makes of the status file, of an ssh that fails and of
`--live`; it has no step of its own, since it may look at any time.

### HostKeys, NodeConfig, Deploy

`HostKeys` has one action per access to `known_hosts`: `Read` before the dial, `Handshake` with the second reading
(`pinnedHostKeyAlgorithms`), `Pin` under the mutex. `Rekey` is a host installed anew. `NodeConfig` has the merge of the two files and the
precedence of addresses. `Deploy` runs `deployOne` for several names under `parallel.Map`: `Spawn` takes a slot, `Panic` gives it back;
`Dial`, `Arch`, `Base`, `Stage`, `Staged`, `Chmod`, `Move`, `Test`, `KeyInit`, `Config`, `Install` are its remote commands in order.
`Command` is the common shape: a command succeeds, or fails before it did anything, half-way or after it has done its work.
A binary has the architecture it was built for (`Binary`): a release has one for the architectures in `Released` only (`Unsupported`), while an upload may be for
any, and `Runnable`, on which `KeyInit` and `Install` depend, asks that it is the node's. `Base` that is cut off before podman is there leaves the lock of dpkg to
a script that runs on (`apt = "busy"`, ended by `LateBase`) or an interrupted dpkg (`"broken"`), where the next one fails; so do two jobs that provision one node at a time.
`Hang` is a host that accepts a connection and does not answer: the job keeps its slot, and a deploy all of whose other jobs have ended, or wait for such slots (`Stalled`), goes on only when the operator interrupts it (`GiveUp`).
`StageFails` may leave a download that runs on (`Late`), which writes to the one staging path, or, once that was
moved, to the binary. Around it `Begin` is another deploy with a newer release and other options, `Join` is
`net join`, `Reinstalled` a host that was. History variables: `told`, `clean`, and `crossed`, the nodes on which two writers
of a binary met; a deploy there may leave a file of two releases, which the properties except.

### Sops, CadreDir, Checkout

`Sops` is the codec over symbolic ciphers: a text is a sequence of letters, since the MAC hashes texts one after the other without a mark
between them; a value opens with its data key and under its own name; metadata carry the wrapped data key, the time and the
MAC. `CadreDir` is `cadre.Load` and `Validate` over a directory of records. `Checkout` follows one directory: `KeySeal`, `EncryptSeal` then
`EncryptDone` (the two writes of `--seal-to`), `EncryptTo`, each of which may fail; `EditDir`, `EditLines` and `EditMeta`
are merges and edits by hand, with lines and metadata of all versions that were ever written; `Pass` is a node that takes the
directory as it is at that moment.

## Runs

Every cfg gives its constants directly; `MCCadres` defines the contents and the cadres that `MCReconcile`
and `MCLifecycle` use: two Quadlet units, an activator, a service with and without `[Install]`,
two support files of which one is named by a unit and one only read by it, one secret, one registry,
two caps, two uids. That is one member of each class plus a second where two of a kind must be told apart
(a unit that changes beside one that does not, a named beside an unnamed file).

| Run | Shows | Bounds | States |
|---|---|---|---|
| `apply` (`MCReconcile.cfg`) | what the record calls applied is applied; nothing running is forgotten; no Quadlet file is deleted under a running unit | nine cadres, one of which no longer ships a secret that its unit names, in any order; 1 aborted pass, 1 failed stop, 2 deleted users; operator patient | 1 134 575 |
| `apply_quiet` (`MCReconcileQuiet.cfg`) | a cadre left alone ends up recorded, and stays so; restarts have a reason | nine cadres, one in which just one of two units changes; no abort, no deleted user, 2 failed stops | 22 251 |
| `lifecycle` (`MCLifecycle.cfg`) | nothing unmanaged is left running, on disk or capped; a cadre that returns runs under the cap it asks for; what stays unassigned is let go of | two cadres that share one unit; `rm` with and without `--purge`; 1 aborted pass, 1 failed stop, 1 removal that dies, with the cadre also coming back on top of it, 1 command of Remove that fails | 1 136 970 |
| `mirror` (`MCS3Store.cfg`) | a successful Sync serves its listing, only the store's own files are ever served, the cache catches up | 2 objects, 2 contents, 2 stores; 2 changes, also during a Sync; 1 switch; 1 failure, of a request or a deletion; starting with one of the stores, which nothing tells apart | 1 382 751 |
| `git` (`MCGitStore.cfg`) | Git.Sync implements Store, and follows its branch unless it is stuck | 2 files, 2 branches of one URL; 1 commit and 1 force-push of each; 2 switches; 2 failures | 83 538 |
| `agent` (`MCAgent.cfg`) | each cadre that can be applied is, whatever fails beside it; what is assigned elsewhere goes; a healthy row is true; a printed key stays the cadre's | 2 cadres, 2 keys, five contents; 2 revisions, 1 failure, 2 commands of the operator or damaged records | 817 386 |
| `subids` (`MCProvision.cfg`) | no shared ids, both maps, ranges never move | 2 commands, 2 cadres, 1 other user; 10 ids and blocks of 2, so that they run out; 1 death, 1 foreign range | 678 395 |
| `fleet` (`MCDeploy.cfg`) | an OK row is true; a node keeps a binary that can run, unless the operator uploads another architecture's; a run in which nothing fails succeeds; pins are never widened and lock nobody out; deploy ends, but for hosts that stop answering | 2 nodes of 2 architectures, of which a release has a binary for one; 2 host key types; 2 deploys with four command lines (a slot for each, one slot, a name twice, upload for either architecture or download, with and without the agent); 1 failure, panic or host that hangs; 1 change of an address or a host | 973 482 |
| `checkout` (`MCCheckout.cfg`) | podman gets secrets of one version or none; what encrypt called done can be read; listed secrets stay; one file per service | 2 names, 5 inputs, of which one has a key twice, 6 manifests, 10 directories; 2 versions, 2 keys, 2 edits, 1 failed write | 2 514 559 |

The bounds count failures and changes, not passes, Syncs or retries: those are unbounded. One abort reaches every
command of every plan between any two of the cadres; what a second one adds is a pass over a host already
half-changed, which the proofs cover for any number. A second deleted user is the first whose successor may get the uid of the one before, with the
cap that is still there. Two switches of `agent.yml` bring the git cache there
and back; two failures break a Sync and the one that would mend it. Two deploys are a release, and its successor over what the first left.
Two edits suffice to mix two versions' lines and take the metadata of either. Every property of these runs that is not a liveness
property is proved for all bounds as well (under Proofs); the runs show that the cases occur (TLC's coverage shows every action
firing), and check liveness.

Three more runs show where the code does not do what its comments and documents say. Each checks
one property and ends in a counterexample:

| Run | Counterexample |
|---|---|
| `livelock` | A pass deletes a dropped unit's file and its later command fails. The next pass cannot stop the unit, which no longer resolves, retains it, and so on for ever: the cadre is never recorded. (With `MaxDeletions = 1` it takes no abort: the stops folded in after a change of the uid fail on the new, empty home.) |
| `half_sync` | A Sync downloads a new object and fails; the object, which no state file has, is deleted from the bucket. The next Sync drops recorded objects only, succeeds, and serves the file, as every later one does. (In the same way an object that is put back as it was: the recorded ETag fits the listing, the file does not.) |
| `kinds` | `store.kind` goes from s3 to git and back. The mirror's state file, which is beside the cache, outlives the clone that replaced it; the next S3 Sync finds its objects recorded and unchanged, downloads nothing, and serves the clone's files. |

### Known limits that the passing properties except

With other constants, or without an exception that a property states, the same modules show more of the kind. There is no run for these:

* *An impatient operator* (`ChangeWhen = "any"`). A pass writes a file and fails later, and the operator takes the change
  back: the record never had it, so the file of the failed pass stays (`FilesLanded`). A pass starts a new unit and fails
  later, and the operator drops the unit: it is in no record and runs on (`NothingForgotten`). A cadre whose first pass failed, unassigned, has no state file, so
  nothing removes it.
* *Restarts.* A support file that one unit names and another only reads is none of the orphans whose change restarts everything, so the other runs on with
  the old one (`HiddenUnnamed`). A secret that is no longer shipped restarts no unit that names it: it runs on with the old value (excepted in `Fresh`),
  and is restarted for nothing when the same value comes back (`SecretsShipped`). A pass that dies has restarted units that the next one restarts again.
* *Uids.* `ReuseUid = TRUE`: a user re-created with the uid it had is not noticed (`FilesLanded`). `rm`, then `rm --purge`: the second has no uid any more and leaves
  `user-<uid>.slice.d`; a cadre that returns without limits keeps an old cap (both are `forgot` in `NoOrphanedCap` and `CapAsAsked`). The same befalls a cadre
  without limits whose user is re-created twice behind rucher's back, when the second gets the first one's uid (`deletions > 1` in `CapsAndLogins`).
* *Remove* ignores a failed stop or `rm -rf` and forgets the unit (`RmHeard` in `NothingLeftRunning`, `NothingLeftOnDisk`).
* *Return on top of a removal that died* (`halfway = "back"`). The removal has stopped the units and deleted their files (`reconcile.go:201-213`), and died before line 217;
  the state file still lists them. `Apply` compares the cadre with it and plans nothing, so the units stay down while the record calls them applied, until a later
  change of the manifest (excepted in `ReturnsRunning`). A pass after such a change may restart a native whose file is gone and that systemd still holds, and the next removal
  cannot disable it (excepted in `NothingLeftRunning`).
* *S3.* A failed `os.Remove` of an object that left the bucket is ignored (`s3.go:201`) and the object forgotten, so its file is served from then on (`Leftover` in
  `FreshIsCurrent` and `CatchesUp`). With `Reverts = TRUE`: a Sync of a new store fails half-way, `agent.yml` is switched back, and the state file names the old store while the
  cache holds the new one's files (`OwnFiles`). After a half-way failure the cache is not what was synced under the revision that is reported on a
  failed listing (`served = "lastgood" => cache = saved.objects`).
* *Git.* After a force-push a pull is refused for ever, and a checkout whose files were cut short behind HEAD is taken for the last good
  one (`Stuck` in `FollowsTip`, `Torn` in `RefinesStore`).
* *Keys.* A node key, once cut short, is never made again (excepted in `CleanRunSucceeds`). `recipient.txt` does not follow an identity that the store supplies, so
  `cadre recipient` may print the key of before, where `docs/cli.md` says it prints the cadre's (excepted in `PrintedIsIdentity`).
* *Deploy.* A download whose session timed out writes on to the staging path of the next deploy (`crossed`); two names of one host overwrite each other.
  A host without any key turns everybody away (`{} \notin KeySets` in `CleanRunsSucceed`).
  An upload is not compared with the node's architecture (`deploy.go:196-199`): it replaces a working binary, `test -x` passes, and `node key init` fails, with no binary left that runs
  (excepted in `KeepsWorking`; the row is not OK). A provision script whose session timed out runs on with dpkg's lock, or leaves dpkg interrupted and `/tmp/p6` filled; while podman is
  missing the next deploy's fails at it, after an interrupted dpkg until somebody repairs it (`Provisionable` in `CleanRunSucceeds`).
* *A host that accepts a connection and says no more* hangs its job and keeps its slot: `ssh.ClientConfig.Timeout` (`client.go:69`) bounds the TCP connect, not the handshake in `ssh.Dial` (80),
  and `NewSession` (86) has no deadline either, though the comment of `Timeout` (32) says "dial + handshake timeout". With one slot all that follow wait for it, and
  `parallel.Map` does not return until rucher is interrupted (`Stalled` in `Returns`).
* *Secrets.* `secrets encrypt` takes a key twice, or a key named `sops`, and says it is done, where decrypt refuses the file (`Unreadable`; `secretscmd.go:178-202`,
  `format.go:52-64`). Empty values are outside the MAC: of a key taken twice, once with an empty value, the
  empty line may be removed by hand and the file reads again, now as another map (`ValuesOf` in `SecretsOfOneVersion`). A cadre that creates all keys, without a list, loads without its secrets file and loses its secrets.
  Two Quadlet files that generate the same service are not refused (excepted in `OneFilePerService`).

### Fairness

All of it is weak, and asks nothing of failures, operators or deletions. Each formula names the steps of the program, never those of its environment.

* `FairSpec` (Reconcile): as long as some step of a pass is possible, some step is taken: the timer fires every 30 s and `systemd` and `podman` answer. An abort is forced only where
  the next command cannot succeed (`Blocked`). `LFairSpec` adds the same for removals, which the agent retries as long as a state file is there.
* `FairSpec` (S3Store) and `GFairSpec` ask it of a running Sync, whose requests the context bounds by five minutes, and of the timer.
* `AFairSpec`: passes start and go on, and deploy's `node key init` comes before the timer is installed.
* `DFair`: some job goes on; each is a goroutine, and `waitRun` ends a command that was sent after its time limit. What comes before, the handshake and `NewSession`, has no limit,
  and nothing is assumed of it: `Hang` is a step of the environment, after which the job has no step, and `Returns` says that every other job ends.

The assumption that the code does not discharge is that a podman or systemctl command of a pass ends: `cmdAgentRun` leaves that to the unit's
`TimeoutStartSec`.

## Proofs

All theorems hold for every value of the constants that satisfies the named assumptions: any number of files, units, cadres, nodes,
keys, failures, passes, deploys and edits. Hypotheses on the policy of the environment (`ChangeWhen`, `ReuseUid`, `Reverts`, `MaxDeletions = 0`)
stand in the theorem. Without them TLC finds the properties violated, as listed above under known limits. The exception is `~ReuseUid` in `NoRestartUnasked`, `NothingRunsUnmanaged` and
`NothingStartsOnBoot`, where it is the invariants that the proof uses which need it.

**ReconcileProofs.** One argument carries the properties of a host in step with its record. `Todo` is what is left of the running
pass, or, while none runs, what a pass that began now would do (`PlanFor`). `PlanParts` spells its parts out; `TodoBegin`, `TodoSave`, `TodoAbort`, `TodoChange`,
`TodoDeleteUser` say how each action changes it: a pass that begins takes over what there was to do, one that dies leaves no less to the next. Each
invariant then has the form *whatever is not as wanted is in Todo*:

| Invariant | What is not as wanted | where it is |
|---|---|---|
| `StopsFollow` | an unwanted unit that runs | to be stopped or disabled, or set aside |
| `FilesFollow`, `SecretsReady`, `SecretsFollow` | a file, a secret | to be written or removed, created or dropped |
| `LoadsFollow` | a unit file that the user manager has not read | a reload is due |
| `RunsFollow` | a wanted unit that does not run on what is wanted | to be started or restarted |
| `EnabledFollow`, `LoginsFollow`, `CapsFollow` | a native, a login, the cap | to be enabled or disabled, logged in to, set |

This is what makes retries work after any number of aborts, and none of the properties is inductive without it, for none says anything of a host between two passes.
`StepRuns`, `StepWrites`, `StepLoads`, `StepStops`, `StepCaps` sum up what the commands do to the host, so that each invariant is shown by cases over the
actions and not over the thirty-odd commands. Beside them `Soundness` (`RecordSound /\ PlanSound`): the record lists each Quadlet unit whose file it names, so a
file that leaves has its unit among the stops, and each such unit is still to be stopped, set aside, or down when its file's turn comes; and what is left of a pass is part of
what the record and the cadre called for.

* `TypeCorrect`, `StopsBeforeRemoving` (`StopBeforeRemove`) and `ApplyIdempotent` (`Idempotent`) need no assumption on aborts, the operator or uids.
* `WorkloadsRemembered` (`NothingForgotten`) needs an operator who waits for a pass to commit (`ChangeWhen # "any"`).
* `AppliedIsCapped` (`CapsAndLogins`) needs such an operator too, and that a re-created user does not get the uid just lost. `CommittedCapped` says what holds
  when the operator moves on early: a committed pass leaves the cap the record asks for.
* `RecordedIsApplied` (`FilesLanded`) and `AppliedRunsFresh` (`RunsFresh`) need one who waits for the
  change to be recorded, and likewise that a re-created user does not get the uid just lost; the last also `HiddenUnnamed`. Its core is `RestartScope`: a unit that
  `plan.Compute` does not restart, and that runs on what was wanted before, runs on what is wanted now.
* `NoRestartUnasked` (`RestartsHaveReason`) is about what a unit that is to be restarted runs on: `InputsKnown`, that it is what is recorded. It needs `SecretsShipped` and that no
  pass dies; `NeverBlocked` shows that then no command is stuck either, so that no pass is aborted at all.

**LifecycleProofs** extends the same invariants to a cadre that comes and goes: while it is assigned they hold but for secrets (`AppliedSound`), and while it is not, the removal goes through
what the record lists (`RemovalFollows`: at each point of Remove, what runs or is enabled is still listed, and a native that is has its file, since without it `disable`
would fail); `RmSound` keeps passes and removals apart. All are under `RmHeard`. What a cadre that is assigned again needs, that the host is as the record says, is asked for as long as no removal has died on it (`halfway = "no"`);
of the files alone `NothingStartsOnBoot` holds without that condition. From them
`NothingRunsUnmanaged` (`NothingLeftRunning`), `NothingStartsOnBoot` (`NothingLeftOnDisk`) and `ReturnedRunsFresh` (`ReturnsRunning`). `NoCapOrphaned` (`NoOrphanedCap`) and
`CapsAsAsked` (`CapAsAsked`) rest on `CapsOwned`, that of the uids not forgotten only the user's own has a cap, or the one whose cap a purge is about to drop; they
assume that nobody but rucher deletes the user (`MaxDeletions = 0`).

**S3StoreProofs.** `FreshServesListing` and `ServesOwnFiles` assume `~Reverts`; without it both are false (run
`half_sync`, and the switch of stores above). The invariant says in `SavedTrue` that a file which is not as the state file says is
one whose object has changed since, so its ETag will differ from the listing; in `ListingTrue` the same of the
listing and the state file; in `Landed` what the steps of a Sync so far have achieved. All three except files whose deletion failed (`Stays`): such a file is where listing and state file have
no object, so the first Sync that lists one again downloads it.

**ProvisionProofs.** `SubidsIsolated`, `SetUpIsMapped`, `RangesNeverMove`. `Exclusive` (one command past the lock)
gives `ReadsStand` (what was read is still so when it is acted on), and the block at the greatest end is
free in both maps (`NextStartFree`).

**GitStoreProofs.** `GitImplementsStore` is the refinement `RefinesStore` for every number of sources, commits, force-pushes,
reconfigurations and failures. The mapping is the identity on `source`, `had` and `answer` and takes `sound` to `~Torn`, so what is to be shown is that a Sync which
returns is a `Reply` or a `Refuse` and that every other step of it is a `Refuse` or a stutter. The invariant `HeadsKnown` says why: HEAD is
a revision its branch has or had, a Sync that pulls or writes files has a clone of the configured source (so that what
it serves when the fetch fails is of that source), and no answer stands while a Sync runs.

**AgentPassProofs.** `PrintedStaysIdentity` (`PrintedIsIdentity`) is inductive with `AgentTypeCorrect`, whose part `RevKnown` says that
a pass applies a revision the store had: the identity that `ApplyOne` installs, or that a cut write tears, is
then the exception the property makes. `New` keeps it because it makes a key only where no file is, and prints only what it could parse:
a torn file is no key (`NotKeys`), so it prints nothing. `HealthyRowsAreTrue` (`HealthyRowIsTrue`) relates a status that was written
some passes ago to what the node has now: `StatusTrue`, that a status without an error is of a revision the node has seen, has a result for each cadre of it, and that each of these is
still applied at least as new or was taken away since; `PassTrue`, the same of the status a pass is gathering, of which an "ok" must stand until it is written, and has nothing of a cadre not yet reached;
`SyncedIsNewest`, that no record is newer than what was synced.

**DeployProofs** has two parts. Of the pins alone, over `HSpec`: `NeverASecondKey` (`TrustOnce`) needs the type invariant only, since a pin is written where there is none by then;
`OnlyPinnedAccepted` adds `ReadStands`, that a reading which found pins never goes stale, since pins do not change; `StillWelcome`
(`NotLockedOut`) adds `ToPinStands`: a key to be pinned is the one its host offers to whoever knows none, so that two connections which race for the
first pin present the same one. It assumes that no key is of two installations of a host; a host that gets a second type of key beside the
one it had, in the middle of such a race, is indeed turned away. `DeployUsesPins`, a refinement (`DSpec => HSpec`), carries these over to deploys (`DeployTrustsOnce`, `DeployStillWelcome`).

Of the deploys: `DeployTypeCorrect` (`DTypeOK`) with `Tied`, that each job past its dial has an accepted connection to the address of its name, `WritersFit` and `OneWriter`, that each process that writes a binary has its file and,
unless it is a late one, its job. `Settled` is the invariant of the staging path, which all deploys to a node share: a job that is alone there (no two writers met, or the run is clean) has staged its own release whole, and
has put it in place from `move` on. From it follow `NeverBroken` (`KeepsWorking`); `OkRowsAreTrue` (`OkIsDeployed`) with `Brought`, what each stage leaves on the node; and
`CleanRunsSucceed` (`CleanRunSucceeds`) with `CleanRows`, that no row of a clean run fails, at the pins in particular. For architectures, what is staged in a clean run is of the one its command line suits (`Suits`), and a
row past `key init` has run its binary, which fails with another architecture's (`Runnable`); for the base platform, a clean run finds podman or a free dpkg (`Provisionable`), and since no two of its jobs are on one node, no step but its own changes that.
A job that hangs is one with no further step, so only the end of a deploy depends on it.

**CheckoutProofs.** `DoneCanBeRead` (`DoneIsReadable`) follows from `SealStands` and `ToldStands`, that what encrypt sealed stands until its second write, and `RoundTrip`, that what
`Encrypt` writes `Decrypt` reads. `NoServiceMasked` (`OneFilePerService`) and `ListedNeverRemoved` (`ListedStay`) say of a pass that whatever edits led to the directory, `Load` lets nothing else through. `SecretsNeverMixed`
(`SecretsOfOneVersion`) is about the format: the MAC hashes the values one after the other with no mark between them and without their keys, each line is bound to its key by the cipher alone,
and lines and metadata of all versions, of one data key or several, may be mixed. The argument: every line of the file is empty or was written by `Encrypt`, for its path, in some version (`LinesGenuine`), and the MAC is one of a version (`MacGenuine`). If
the file opens, its lines are of the version whose data key it is, each of them at a place of its own (`WholeVersion`); its MAC has as many letters as that version; and lines at places of their own
that count as many letters as all of them leave out none but empty ones (`SameLetters`). So the map is that of the version but for empty values (`VersionRead`).
The concatenation is recursive in the community modules. What is needed of it (`Flattens`, `FlattenCounts`) is shown by the least number for which it fails (`Least`, `UpTo`, from the well-foundedness of `<`
on the naturals), which takes no induction principle over an operator.

**Only model-checked**: liveness, that is `Converges`, `LetGo`, `CatchesUp`, `FollowsTip`, `EachConverges`, `GoneInTheEnd`, `Returns`, which need fairness and ENABLED. Every other property
of the passing runs is stated by a theorem that `PROJECT.json` lists. The three counterexamples are TLC's.

## Not modelled

* Parsing (YAML, TOML, calendars, sizes), the scanners of Quadlet text, ciphers, the transport, tables and JSON: no state of their own;
  `PROJECT.json` lists every component with the reason. What a scanner returns is a constant or a field of a record.
* `Status` and `logs`, which only read and print; `plan`, `validate` and the scaffolding of new directories.
* Object keys that escape the S3 cache directory, and the pruning of emptied directories, which change no file.
* The order of commands inside one stage of a pass: the model allows any.
* A pin that is cut short and leaves part of a line in `known_hosts` (`hostkey.go:194`), after which every host's connection fails until the line is removed by hand: `ConnFails` leaves the pins as they were. What go-git leaves of a failed
  clone in a directory that already held files, which it does not clean up: after `CloneFails` the cache is empty. An S3 object whose name becomes a directory's, or the other way round.
* A file that the `sops` program edits: it keeps the data key, while every version that `secrets encrypt` writes has its own.
* Two rucher processes of the operator that append to `known_hosts` at once, an administrator who allocates ids inside a command's window, a command
  that outlives the rucher that ran it (but for deploy's download), a command of a pass that never ends.

## Plan

1. *Done*: CadrePlan, UserHost, Reconcile, Lifecycle; Provision; S3Store; with their proofs.
2. *Done*: Store and GitStore with the proof of the refinement, NodeStore; Identity and AgentPass with their proofs, NodeStatus; HostKeys with its proofs, NodeConfig, Deploy; Sops, CadreDir, Checkout.
3. *Done*: the proof of every property of the runs that is not a liveness property.
4. An abstract `Managed` (a cadre is wanted, applied, or removed, in one step) that Reconcile and Lifecycle implement, with the proof of the refinement on the invariants there are.
5. The safety part of convergence: that no pass makes more to do, and each command makes less.
6. `QuadletRef`: the scanner with its continued lines over short texts, against a reference definition.
