# CPU Manager for Kubernetes: a TLA+ verification project

CMK (`intel/`, driven by `cmk.py`) partitions the physical cores of a node into
pools, keeps the pools and the pids that use them in a configmap per node, and
runs user commands on the cpus it hands out. This project models the parts of
CMK that carry that promise, model-checks them with TLC on small instances and
proves the central invariants with TLAPS for every instance.

Paths are relative to the repository: `intel/config.py` is `src/intel/config.py`.

## 1. The system: components, state, hard behaviours

| component | state it keeps | operations | correct when |
|---|---|---|---|
| configmap and lock, `intel/config.py` | one configmap per node, `cmk-config-<node>`: pools, sockets, cpu lists with their tasks (pids), and the lock in the annotation `Owner`; per process a copy `c_data` | `new`, `lock`, `unlock`, `add_task`, `remove_task`, `update_*` | one process between `lock` and `unlock`; no update is lost |
| isolate, `intel/isolate.py`, `proc.py` | the wrapper process, its pid, the child | lock, choose cpu lists, register the pid, unlock, set affinity, run the child, clean up | no exclusive cpu list has two users; the request is honoured |
| reconcile, `intel/reconcile.py` | the pids it found dead | every interval: lock, look the pids up in procfs, drop the dead ones, unlock, publish a report | dead pids go, live ones stay |
| pool initialisation, `intel/init.py`, `topology.py`, `sst_bf.py`, `sst_cp.py` | `Core.pool` of the parsed platform, then a new configmap | check the request, assign exclusive, shared, exclusive-non-isolcpus and infra in turn, store | the pools have the sizes asked for, of separate cores |
| discover, `intel/discover.py` | the node object: capacity, label, taint | read the pools under the lock, three or four patches | a node attracts pods only if isolate can serve them; the taints of others stay |
| cluster-init, `intel/clusterinit.py`, `install.py` | one pod and one daemon set per node, the objects of the webhook | check arguments, create pods, wait for their phase, deploy the webhook | daemons only where init succeeded; success means ready; it ends |
| uninstall, `intel/uninstall.py` | the same objects | remove them one after the other | everything goes, or it can be run again |
| reconfigure, `intel/reconfigure.py`, `reconfigure_setup.py`, `reaffinitize.py` | the configmap, a second one per pod with the processes to move | replace the pools of a node in use, then set the affinities anew | every running process keeps cores of its pool |
| webhook, `intel/webhook.py` | a server of one thread; a file of mutations that is read anew for every container | decide whether a pod is mutated, merge, inject `CMK_NUM_CORES`, answer | a pod is admitted as asked or mutated, each container once |
| reports, `nodereport.py`, `custom_resource.py`, `third_party.py`, `describe.py` | custom resources per node | `save` (create, on conflict remove and create again), `remove` | the last report is there; after uninstall none |
| client and helpers, `k8s.py`, `util.py` | none | calls of the API server | |

How they interact. Everything on a node meets in the configmap. `init` creates
it; `isolate`, `reconcile`, `discover` and `reconfigure` lock it, read it and
write it back; `cluster-init` runs `init`, then `discover` and `install`, as the
containers of a pod per node, and `reconcile` and `nodereport` (inside
`isolate --pool=infra`) as a daemon set. There is no other channel: no process
tells another that it has ended, which is why reconcile exists. `reconfigure`
alone reaches into other pods: it writes a second configmap, from which
`cmk reaffinitize`, executed in every pod, reads the new cores of its process.
Besides the configmap CMK keeps things about a node in the API server: capacity,
label and taint, which `discover` adds and `uninstall` removes, and a report
that `node-report` saves every interval. The webhook meets the rest only through
the pods: it decides which get `CMK_NUM_CORES`, which isolate reads.

What is hard to test:

- the lock is two calls, a read that finds `Owner` empty and a patch; only the
  `resourceVersion` carried by the patch of `lock()` makes it a lock, while the
  patch of `unlock()` and that of `new()` carry none and are always applied;
- a process may be killed between any two calls, and pids come back;
- a call may be applied although the caller sees an error;
- the finally clauses run after failures of the `try` they belong to;
- pods, daemon sets and webhook objects are created one by one, each step may
  fail and what exists stays; waiting is polling, by a part of a pod's name;
- the assignment of cores to pools goes through four branches (plain, isolated,
  SST-BF, SST-CP), each taking cores another pool may count on;
- reconfigure moves running processes in several steps (a copy of the configmap,
  a map for the pods, a call into each pod, the write), each of which may fail,
  and then a finally clause writes and unlocks whatever has been reached;
- the node object and the reports are written without a condition on what was
  read, by CMK and by others, also by pods in their grace period;
- the webhook merges parts of a file into pods by reference, and answers a
  server that does not wait for it for ever.

`PROJECT.json` lists these hazards at their lines, with the properties that
would catch them; one is without a property, for the reason given there.

## 2. Modules

| module | models |
|---|---|
| `CmkNode` | the configmap, the lock, isolate, reconcile and the readers (discover, reconfigure) of one node |
| `CpuGrants` | what isolate and reconcile promise of the task lists, abstractly: whole operations that exclude each other |
| `CmkNodeProofs` | proofs about CmkNode |
| `Layouts` | pools and cpu lists as the configmap holds them: what `init` writes and `reconfigure` and `isolate` rely on |
| `InitPools` | `cmk init`: from a request and a machine to the configmap |
| `InitPoolsProofs` | proofs about InitPools |
| `ClusterInit` | `cmk cluster-init`, the pods on the nodes, `cmk uninstall` |
| `ClusterInitProofs` | proofs about ClusterInit |
| `Reconfigure` | `cmk reconfigure_setup`, `cmk reconfigure` in its pod, `cmk reaffinitize` in all others |
| `ReconfigureProofs` | proofs about Reconfigure |
| `Admission` | what the webhook promises of a pod, abstractly |
| `Webhook` | the webhook's server, its file of mutations, and the API server |
| `WebhookProofs` | proofs about Webhook |
| `NodeApi` | the node object and the reports: discover, uninstall, the savers of reports, other writers |
| `NodeApiProofs` | proofs about NodeApi |
| `Ranks` | how many elements of an ordered finite set come first; used by `CmkNodeProofs` and `InitPoolsProofs` |
| `MCNode`, `MCInitPools`, `MCClusterInit`, `MCReconfigure`, `MCWebhook`, `MCNodeApi` | the small instances for TLC |

### CmkNode

The configmap is `owner` (the annotation) and `data` (the tasks of every cpu
list). `fresh` stands for the resourceVersion: it holds the processes whose copy
was read after the last write. `local[p]` is the copy `Config.c_data`, `pc[p]`
the place of process p:

| pc | in the code |
|---|---|
| `get` | `lock()` polls (config.py:41-50); `Get` is the poll that finds the lock free |
| `patch` | about to send the patch of `lock()` (50-53): `Lock`, or `LockConflict` if somebody wrote in between, which is `sys.exit(1)` |
| `cs`, `scan` | between lock and unlock: isolate selects (`Select`, `SelectFails`), reconcile looks pids up (`CheckEntry`, `ScanDone`), readers read |
| `unlock`, `leave` | about to send the patch of `unlock()`; `leave` is the finally clause of a wrapper that raised, and the end of a reader |
| `spawn`, `arm`, `wait`, `exit` | affinity and Popen; before `signal.signal`; in `child.wait()`; in the finally clause |
| `sleep` | reconcile between two cycles |

Task lists are sets (their order is never used). A wrapper's pid is any that is
free in the host: pids are reused, also by processes that CMK does not know
(`alien`). The child's life is separate from its wrapper's: `child` and `clists`
keep it, and it dies with the wrapper only if the wrapper is PID 1 of its
container (`Entrypoints`), when the kernel ends the container. Every action that
calls the API server may fail (`ApiFails`) or be applied with the answer lost
(`ApiAnswerLost`). `Kill` takes a process at any place the constant `KillPoints`
allows. reconcile runs inside `isolate --pool=infra` in the daemon set; the
model lets the two start and die independently, which only adds behaviours.

As in the code, the finally clause of isolate never removes the pid, because it
builds `config.Config` with two of its three arguments; reconcile is the only
one that removes pids. At this commit reconfigure takes the lock, reads, and
then always raises (`add_node_er()` at reconfigure.py:181 without its argument),
so it is a reader too; what it does while it holds the lock is in Reconfigure.

### CpuGrants

`tasks` are the entries of the configmap, a cpu list and a pid each, `held[w]`
those of w while it runs. There is no lock, no copy and no version: an operation
applies to `tasks` as they are at that moment. `Grant` enters a set of lists for
a process if none of the exclusive ones has a task; `Abandon` does so for a
process that has died on the way (the answer of its `unlock()` was lost); `Drop` is the end of a process, which leaves its
entries; `Reclaim` removes entries that nobody holds. `CmkNode!GrantsSpec` says
that CmkNode implements this: each `unlock()` that changes task lists is one of
the operations, whatever the copies in flight contain. `Exclusion` is what a
user may conclude from it.

### Layouts

`IsLayout` is the contract between two programs: `init` writes such lists
(`InitPools!ListsSeparate`, proved), reconfigure assumes them of every layout
(`Reconfigure!PlansAssumption`), and isolate of its cpu lists
(`CmkNode!CoresAssumption`).

### InitPools

The input (machine and command line) is a variable that never changes; `step`
is the next step of `configure()`, and every step may raise, in which case no
configmap is written. A core is its id: sorting by socket and id, round robin
over the sockets and "SST-BF cores first" are the orders `PackedBefore`,
`SpreadBefore` and `Before`, and `FirstFree(n, ..)` the n cores that the loop of
`assign` takes. The parsers of lscpu and of the kernel command line are left
out, as are partially isolated cores, which only cause a warning.

### ClusterInit

cluster-init is a sequential program over the hosts of `--host-list`: `ci` is
the step, `k` the host (or webhook object) it is at. A one-shot pod, with the
containers init, discover and install, is named after its commands and its node
(clusterinit.py:344-347), and so is a daemon set: `pod` and `ds` are functions of
such names. init is an init container unless it is the only one. `marks` is what
a node has been given: `pools` (the configmap), `binary`, `capacity`,
`non-isolcpus` (the capacity of the second extended resource, a patch of its
own), `label`, `taint`. `Phase` is the pod's phase. cluster-init may be run
again after it ended, with the same command list or another (`Rerun`); then what
exists already makes the create calls fail, as in the code, but a pod of another
list has another name and is created next to the first. uninstall runs when no
cluster-init does, and knows only the names that the default list gives. A
deleted pod keeps its name and may go on running for its grace period; a pod of
a deleted daemon set (`old`) still counts for a wait that looks for a part of
its name. `NamesWith[n]` is the set of nodes whose name starts with that of n:
`wait_for_pod_phase` asks for a substring.

### Reconfigure

One node, one `reconfigure_setup` that may be run again. `step` is where
reconfigure is:

| step | in the code |
|---|---|
| `lock`, `check` | `c.lock()`, `check_processes` (reconfigure.py:54-75, 99-129) |
| `configure`, `repatch` | `init.configure`, `discover.add_node_er` (155-185) |
| `lists`, `match` | the three rounds of `reconfigure_directory`: lists that stay (`MatchLists`), another list of the socket (`MatchSocket`), other sockets (`MatchOtherSocket`) |
| `publish`, `list`, `exec` | `set_config_map`, `get_pods`, `execute_reconfigure`, one `Execute` per pod |
| `unlock`, `cleanup` | the finally clause: `conf.unlock()` writes `cData`, `delete_config_map` |

`config` is the configmap, `target` the new configuration while it is being
filled, `cData` what `unlock()` would write. `affinity` is where a process runs,
`granted` what its isolate has read from the configmap: isolate sets the
affinity after it has unlocked (`Settle`), so reconfigure may come first (`Late`).
`missed` is a history variable: processes that got new lists but were not moved,
because the call into the pod failed, which the code only logs, or because a
failure skipped it; and those that were moved before their isolate had set its
own affinity, which then overwrites the new one.

Two calls of reconfigure cannot return at this commit: `add_node_er()` lacks its
argument, and reaffinitize subscripts a `V1ConfigMap`. With `stubbed` = {} the
model is the program as it runs: every run ends at `repatch`. To say something
about the 180 lines after it, `stubbed` may hold the two calls, which then
return, as in the unit tests, which replace them. Every property is checked of
both. Where the new layout has no free list on the socket of an old one,
`MatchOtherSocket` raises in every case: the sockets are selected by a string,
the keys are integers.

### Admission and Webhook

A container is the amounts it requests and its limits of the two extended
resources, its environment, and whether it has a mapping that a scalar of the
file cannot be merged with. An amount that is not named is `NoAmount`; 0 is an
amount like any other: it requires a mutation, wins over those looked at later,
and is injected, since the code tests `is not None` (webhook.py:217, 264, 269).
Admission has three steps: a pod is submitted, admitted as it was asked for, or
admitted mutated, each container by one version of the file, which may have been
edited between two containers. `inject_env` reads the name of every entry
(webhook.py:246); an entry without one, of the container or merged from the
file, is a KeyError (`Stumbles`). At an ordinary container it ends the call
without an answer. At an init container `mutate` takes it for the absence of
init containers (webhook.py:171): that container is merged but not told its
cores, those after it stay as they were, and the patch is sent. `AdmitMutated`
admits it in this form, as the program does.

Webhook is the server: `Receive` is the first half of `do_POST`,
`MergePod` and `Mutate` load the file and merge (`apply_mutation`, `inject_env`,
one container at a time; `MutateStumbles` is the one at which it raises the
KeyError), `Patch`, `Skip`, `NoAnswer` are the ends of a call.
Since yamlreader merges in place, an environment is a reference into `heap`:
a container without one gets the very list of the loaded file. The API server
may stop waiting (`Ignore`, its failure policy), and an answer counts only for
the call that is open. `sys.exit` in `load_mutations` ends the server, kills may
happen anywhere, and its deployment starts it again. `Promise` says that Webhook
implements Admission.

### NodeApi

The node object is `taints`, `er` (extended resources), `label`; the report and
its type are `report` and `crd`. discover and uninstall are programs with their
places `disc` and `un`; a list of taints that was read stays in `discRead` and
`unRead` until it is written back whole. A saver is a `node-report`, of the
daemon set or run by hand: `saver[s]` goes through the type of the report,
create, and on a conflict remove and create again, as `save()` does. uninstall
deletes pods, which go on for their grace period; `Terminated` is its end.
Histories: `lateFor`, whose reading of others' taints is out of date, and
`outlived`, that somebody has written after uninstall deleted its pod.

## 3. What TLC checks

`TypeOK` is the type invariant of each module. The runs `safety` and
`cluster_init` check it as the first conjunct of `NodeInv` and `ClusterInv`.

| run | instance | what it shows |
|---|---|---|
| `safety` | 2 wrappers, 1 reconciler, which may restart, 1 reader (discover), 3 cpu lists (two exclusive), 3 pids, one of which a foreign process may take; kills anywhere, failing calls, lost answers; requests for 1, 2 and 0 exclusive lists, for 2 in the shared pool, for a pool that is not there and for a socket (660,047 states) | the lock excludes (`LockExclusive`), and only its holder gives it back and changes the task lists (`OnlyHolderWrites`); no running wrapper's pid is lost from the configmap (`GrantRecorded`); no exclusive list has two wrappers (`GrantsDisjoint`), and the cores of one that a wrapper or its command uses are in no list that another uses (`CpusUsedOnce`); a wrapper has the lists the code gives for its request (`GrantMatchesRequest`); isolate and reconcile implement the atomic operations of CpuGrants (`GrantsSpec`); `NodeInv` is the inductive invariant of the proofs |
| `live` | fair scheduling; wrappers killed outside the lock; a foreign process (58,842 states) | who has taken the lock is on its way to give it back (`LockHasHolder`), dead pids are reclaimed (`DeadTasksReclaimed`), isolate gets its turn (`IsolateDecides`) |
| `init_pools` | 4 cores on 2 sockets, interleaved or 3 + 1; every set of isolated cores, counts beyond what there is, SST-BF sets, one to four EPP values | `SizesAsRequested`, `ListsSeparate`, `IsolatedKept`, `SpreadBalanced`; init fails only when the request cannot be met (`FailsOnlyIfImpossible`) |
| `cluster_init` | 2 hosts, 2 runs, each with any of 4 command lists (the default, init only, one without it, one invalid), failing containers, failing calls (`SomeCalls`), an uninstall of the first host (414,059 states) | no daemon set and no object of the webhook is created before every host is prepared (`DaemonsAfterPools`); `ReadyWhenDone`, `AdvertisedInOrder`; a node in use is not initialised again by the pod of the same commands (`PoolsGivenOnce`); `ClusterInitEnds` under fairness; `ClusterInv` is the inductive invariant of the proofs |
| `reconfigure` | 6 cores on 2 sockets, 2 processes, 4 layouts, 2 runs, one process that settles late; every call may fail, kills anywhere; with and without the two calls replaced | what is written could have been granted (`GrantsKept`), no process loses or gains lists (`SharesKept`), a list that is there before and after keeps its tasks (`StaysIfPossible`); with the lock free, processes run where the configmap says (`Truthful`); success is real (`SuccessIsReal`); the run and its waiting setup end (`Ends`) |
| `webhook` | 2 pods out of 5, of one or two containers and up to three init containers, amounts from 0, 7 files (one that does not parse, two that do not fit, one with an entry without a name), 1 edit, 1 kill, three kinds of body (437,796 states) | `Promise`: the refinement of Admission; containers share no environment (`EnvsSeparate`); an answer fits its pod (`AnsweredRight`); the one thread becomes free again (`Serves`) |
| `node_api` | a daemon and a manual report, 2 taints of others, one with a time, 1 change, 1 foreign write, 1 fault or crash | others' taints stay (`ForeignTaintsKept`), uninstall leaves nothing (`CleanAfterUninstall`), the report catches up (`ReportCurrent`) |

Runs that show where the code and its documentation disagree (TLC finds the
counterexample; `PROJECT.json` quotes the lines):

| run | disagreement |
|---|---|
| `term_orphans` | TERM makes the wrapper end without its child; with reconcile the child's exclusive list is given away while it runs |
| `init_again` | `init` on a node in use takes the lock away from its holder |
| `lock_timeout` | a wrapper killed while it holds the lock leaves it taken for ever; docs/cli.md:119 lists `CMK_LOCK_TIMEOUT`, the "Maximum duration, in seconds, to hold the cmk configuration directory lock file", which the code does not have |
| `reconfigured` | reconfigure never comes to the new configuration, though no call of the API server fails and there are lists enough |
| `pod_names` | the pod of `node10` ends the wait for that of `node1` |

Bounds, and why they suffice. Two wrappers and a reconciler are the smallest
node on which every pair of roles meets, and the reader is a third that may take
the lock. A wrapper that its pod starts again acts as another wrapper would, so
only the reconciler restarts in `safety` (`Restartable`); the proofs have any
number of both. Two exclusive lists let a request for both, for one, and for one
that is taken occur; the third list is a shared one, which may have several
tasks. Three pids are enough for two wrappers and a stale one. In `live` there
are two, so that a pid must be reused. Symmetry over wrappers and pids is used
in `safety` only, which has no liveness property. Four cores and two sockets let each of four pools be
non-empty and the sockets be uneven. In ClusterInit two hosts give a first and a last one, one of them uninstalled
(`Uninstalls`, `MaxRuns` = 2 are bounds only): it can go through creation, an
abort on the second host, an uninstall and a second cluster-init, with the same
commands or others, init among them or not. Calls fail where cluster-init
creates something, half way through the patches of discover and at the last of
them, and in uninstall; a poll that fails aborts as a failed pod does. In Reconfigure two processes compete for lists, of which
one may have two; the layouts differ so that a list stays, moves on its socket,
finds no place there, or there are too few, and the second run starts from what
the first has left (a map, a lock, a half of the processes moved). In Webhook two
pods let an answer come late for the first; one edit lets the containers of a
pod see two files. In NodeApi one taint write falls between a read and its write
back, one fault or crash between remove and create; the proofs remove these
bounds. `CHECK_DEADLOCK FALSE` appears where the system may
stop: no operator has to do anything.

Fairness. In CmkNode a process that can take its next step is scheduled (WF);
the poll of `lock()` that finds the lock free needs SF for the processes that
run once, because another may hold it at each poll: reconcile sleeps for
seconds between cycles while the others poll every second, so they find it free
again and again and one poll falls into such a gap. Kills, signals, faults and
the end of the child are never forced. In ClusterInit cluster-init goes on with
its next step and the kubelet runs what it has to run (WF); uninstall, reruns
and the end of grace periods are not forced. In Reconfigure the two programs go
on when they can (WF of `Lock`, `ReconfigureStep`, `WaitPod`); nobody has to
settle, clean up or start again, and `Ends` is stated for runs that have got the
lock. In Webhook the thread runs, the deployment restarts it, and the API server
has a time limit (WF of `Serve`, `Start`, `Ignore`). In NodeApi the daemon goes
on and is restarted, and the API server establishes types (WF of the daemons'
`SaverStep` and of `Establish`); manual savers,
discover and uninstall need not run.

## 4. What is proved

TLAPS checks all of the six modules whose names end in `Proofs`, and `Ranks`, from the named
assumptions of the modules only. Numbers of processes, lists, pids, hosts, runs,
pods, containers, taints, savers and cores are arbitrary, as are kill points, API
faults, command lists, requests, machines, layouts and files. The assumptions:
kinds of processes are disjoint, cpu lists are finitely many and numbered, no two
of them have a core in common, pids are finitely many and `NoPid` is none of them
(CmkNode); the host list is a non-empty sequence of nodes (ClusterInit); cores
are 0 .. n - 1 (InitPools); every layout is one (`IsLayout`), pids are finitely
many (Reconfigure); pods and files have their fields (Webhook); `cmk` is the
taint of nobody else (NodeApi). What CmkNode and Reconfigure assume of cpu lists is what InitPools is proved to write: `ListsAreSeparate` states
`IsLayout` of the lists of every configmap that `init` stores.

CmkNode. `LockExclusive` and the rest are not inductive: they depend on what the
copies in flight contain. `NodeInv` adds that

- a copy with the current version is the configmap, and the lock is free
  (`FreshInv`): so `lock()` writes nothing but the owner;
- a holder is the owner (`HolderInv`), and what it writes back is the configmap
  (`CopyInv`), the configmap with its pid in lists whose exclusive ones were
  empty (`SelectedInv`, `SelectedFreeInv`), or the configmap without pids of
  which none belongs to a running wrapper (`ReclaimInv`);
- pids of running wrappers differ (`PidInv`), an exclusive list has one task at
  most (`OneTaskInv`), and every running wrapper's pid is recorded
  (`GrantRecorded`).

`NodeInvariant` is `Spec => []NodeInv`, with one lemma per action. From it follow
`TypeCorrect`, `LockIsExclusive`, `GrantsStayRecorded`, `GrantsAreDisjoint` (two
wrappers with a common exclusive list would both be recorded in it, so have the
same pid), `GrantsMatchRequests` (with one more invariant, `RequestInv`: what a
wrapper has selected is as it requested, n lists of an exclusive pool with n at
least 1, and one list of any other pool whatever n is; the slice `[:n]` of the available lists
has n elements by `LowestSize` of Ranks), and `CpusAreUsedOnce`, on cores and
counting the commands (assuming every wrapper is PID 1 of its container;
`term_orphans` shows that the assumption is needed).

The steps of the node follow from it too. `HolderAloneWrites`: while the lock is
taken nobody but its holder changes owner or task lists, by its `unlock()`; this
is why Reconfigure may hold the tasks constant from `lock()` to `unlock()`.
`ImplementsGrants`: the node implements CpuGrants with `tasks` as the entries of
`data`, an action at a time: `Unlock` of a wrapper is `Grant`, or `Abandon` if
the answer is lost, that of reconcile is `Reclaim` (nothing it removes is held,
by `ReclaimInv`), the end of a wrapper is `Drop`, all else changes neither.
`GrantsExclude` concludes `Exclusion` in CpuGrants, by an invariant of a module that knows no lock, and carries it down to the node. `LockAlwaysHasHolder`
assumes that nobody is killed in the section and no call fails, the conditions
of `live`; both are needed, as `ApiAnswerLost` and `Kill` show.

`HoldersAdvance` says why a lock is freed as long as its holder is not killed and
its calls do not fail (`lock_timeout` shows that it is not otherwise), up to
scheduling: what a holder has left in the section (`HoldLeft`: reconcile's is one step per entry it
still has to look up) gets smaller with each of its steps and is never raised by
others. Liveness is then a matter of scheduling alone. The same is proved of the
other programs with a property that they end: `ClusterInitAdvances`
(`StepsLeft`), `RunsAdvance` (`Rank`, then `Within`, the lists or pods left) and
`ServerAdvances` (`Left`).

`DeadStaysGone` and `ReconcileReclaims` are the like for `DeadTasksReclaimed`. A
pid that stays dead does not come back into a configmap without it, and a
reconcile that takes the lock after the death has removed it when it unlocks:
while it scans, its copy has such a pid only in entries still to be looked up
(`Scanned`, a stable property rather than an invariant: it starts with `lock()`).

ClusterInit. `ClusterInv` says what a container has left on its node when it has
come to a state (`LeftInv`), that a pod has a container for each command
(`ContainersInv`), and that the hosts waited for are prepared (`WaitedInv`). The
last part needs `UniqueNames`, that no node's name starts with another's, which
`pod_names` shows to be needed: it is the assumption of `DaemonsWait`.
`ClusterTypeCorrect` and `NodesAdvertisedInOrder` need no such assumption.
`SuccessIsReady` has an invariant of its own on top, `ReadyInv`: of a host that
this run has created a pod for, the pod is there and what discover has given
stays (`CreatedOk`), of one it has waited for all containers have ended well
(`FinishedOk`), and so for daemon sets (`DsOk`, `DsReady`), unless an uninstall
has begun after the end; `Passed` is the set of these hosts. `PoolsAreGivenOnce`
has the invariant `OnceInv`: a node that nobody has begun to uninstall keeps its
one-shot pods, and so their names, at which a cluster-init with the same commands
stops. One with other commands does not: docs/operator.md:151-156 runs
cluster-init with `--cmk-cmd-list=init,discover`, and on a node that another list
has given its pools the new pod's init overwrites the configmap, tasks and lock
included (clusterinit.py:113, 344-347, config.py:267). The property excepts
exactly this, and what uninstall has begun to undo. CmkNode leaves `InitAgain`
out of its `Spec` under the contract that nobody initialises a node in use in
one of these ways; `init_again` shows what happens to a node when somebody does.
`WaitsForWhatIsThere` (`NeverInVain`, by `ThereInv`) says that what is polled for
is a pod that has ended or has a container to run, or a daemon set that exists;
with `ClusterInitAdvances` what `ClusterInitEnds` needs beyond them is fairness only.

InitPools. `ListsAreSeparate` needs that lists are made of `Core.pool`, a
function, once and last (`WrittenInv`); `IsolatedStay` that each step takes from
cores of one kind (`KeptInv`). `SizesAreRequested`, `FailsForCause` and
`SpreadIsBalanced` count. `CountInv` says at each step which pools are still
empty and how many cores the others have; `FirstFree(n, ..)`, the cores with
fewer than n before them, has n elements if there are n, whichever order the
mode gives: the ranks are an injection into as many numbers as there are
elements (`LowestSize`), which avoids an induction over sets. For the balance,
a socket gives m of its cores in its first m turns (`TurnsSize`), and a core
before one that is taken is taken (`FirstOfClosed`).

Reconfigure. `ReconfigureInv` says how far the matching has come: there is an
injection from the lists in use that are placed into the new layout which keeps
pool and tasks, and is the identity on the lists of both (`MatchInv`); when all
are placed it is what `unlock()` may write (`MovedInv`), else that is what was
read (`CopyInv`). From it follow `SharesStay`, `ListsStayIfPossible` and
`GrantsStay`: through the injection a process has as many lists of a pool after
as before. `ConfigIsTruthful` needs to know at every step, for a process that is
moved and one that is not yet, which of the two configurations its affinity
belongs to (`TrackInv`). `SuccessHasHappened` needs `LayoutInv`. `ConfigMovesWhole` states the
injection of every step that changes the configuration. `AsItIsNothingDone`
(`StuckInv`) is about the program as it runs, without the stubs: it never changes
the configuration and its setup never succeeds. That is why CmkNode may model it
as a reader, and the general form of the finding of `reconfigured`.

Webhook. `WebhookInv` says that the open call is about the pod the server looks
at (`CallInv`), that the containers before `next` have the environment Admission
asks for and the rest their own (`EnvsInv`), and that no two share one
(`EnvsSeparate`): a list that is written is the container's own or a new one. The
container at `next` may be the init container that ended the mutation; `WorkInv`
says that all ordinary ones come before it.
From it follow `ImplementsAdmission`, the refinement, and `AnswersAreRight`.
`ContainersAreTold` is proved of Admission alone and holds of the server because
it implements Admission: a mutated container keeps its environment in front, and
if it names an amount, 0 included, it has a `CMK_NUM_CORES`, except for init
containers from the first with an entry without a name on.

NodeApi. `CleanInv` says what is gone after each step of uninstall while nobody
has outlived it, `ReadInv` that a list of taints about to be written has those
of others unless they changed. `NodeIsCleanAfterUninstall` and
`TaintsOfOthersStay` follow.

Only model-checked: the liveness properties `DeadTasksReclaimed`,
`IsolateDecides`, `ClusterInitEnds`, `Ends`, `Serves` and
`ReportCurrent` (fairness and ENABLED are out of the prover's reach; the variants
above are the part that is within it). Every safety property and both refinements
that a passing run checks are also proved, `ReadyWhenDone` and
`DaemonsAfterPools` for names of which none starts with another, `CpusUsedOnce`
for wrappers that are PID 1, `LockHasHolder` for the conditions of its run. The
definitions that only theorems state (`HolderAdvances`, `DeadStayGone`, `ScanReclaims`, `CiAdvances`,
`NeverInVain`, `RunAdvances`, `NothingDone`, `ServeAdvances`, `Told`,
`Exclusion`) stand beside the checked ones in the modules.

## 5. Limits, and observations without a run

- uninstall while cluster-init runs is not modelled: a pod deleted while it is
  waited for is waited for forever, and nothing in the code or docs supports
  running both.
- `ReadyWhenDone` allows a daemon set that is still starting on a node that
  was uninstalled just before: the old pod of a deleted daemon set is found by
  its name and ends the wait (removing that exception makes TLC show it).
- SST-BF: only the first `numExclusive` of the isolated SST-BF cores go to the
  exclusive pool; `assign` puts the remaining ones first into the shared pool,
  while docs/operator.md says all of them go to the exclusive pool. SST-CP: the
  infra pool takes all cores of the lowest EPP value, isolated or not, while
  docs/cli.md says left over isolated cores are not given to infra.
  `IsolatedKept` is therefore stated without SST-CP.
- `GrantMatchesRequest` states what the code does, which is not what the docs
  say: docs/cli.md:497-502 has isolate allocate `CMK_NUM_CORES` lists of any pool,
  "For non-exclusive pools `CMK_NUM_CORES` CPU lists are chosen randomly", and
  fail if it is not positive. isolate.py:57-84 reads it for exclusive pools only;
  in any other it chooses one list, whatever the variable says. `safety` asks for
  two lists of the shared pool, and for no exclusive one.
- `CpusUsedOnce` is checked and proved for wrappers that are PID 1, whose child
  ends with them; the orphan it is also about exists in `term_orphans` only.
- `ReadyWhenDone` makes an exception for a daemon set that replaces one just
  uninstalled, `CleanAfterUninstall` one for writes in a grace period
  (`outlived`), `ForeignTaintsKept` one for a list that is out of date
  (`lateFor`), and `Truthful` one for processes that were missed or settle late:
  in these cases the hazard does happen, the properties say that nothing else
  does. In particular no property asserts that a taint written between the read
  and the write of another is kept: it is lost.
- `Ends` covers the call of add_node_er in reconfigure as it is (it raises) and
  as if it returned; with its argument it would wait for the lock that
  reconfigure holds, for ever, which no run has.
- the one thread of the webhook reads a body with `rfile.read` (webhook.py:97),
  without a time limit. In the model a body is there when the call is
  (`Receive`): `Serves` speaks of calls that have been read.
- Kubernetes is taken to be recent enough (1.9 and later) for extended resources
  and the webhook; the paths for older versions are not modelled.
- At this commit `describe` and `reaffinitize` raise before they do anything
  (missing constructor arguments, a subscripted `V1ConfigMap`). node-report's
  `config.get_config` does not exist, but the exception is caught, and the
  report says "Unable to read CMK configmap" of every node; NodeApi models when
  a report is saved, not what it says.
- Log output, certificates, TLS, templates and the contents of reports are left
  out.

Where code and docs disagree, without a run of their own:

- the finally clause of isolate never removes its pid: isolate.py:151 builds
  `config.Config` with two of its three arguments, while docs/cli.md:505-506 says
  "When the subprocess exits, the program removes the PID from the `tasks` file
  before exiting"; `DeadTasksReclaimed` shows that
  reconcile does it;
- `--socket-id` never finds a socket, a string is compared with an integer
  (config.py:147, docs/cli.md:531); a request of this kind is part of `safety`;
- uninstall always ends before the binary, the webhook and the label
  (uninstall.py:170, docs/cli.md:1104-1106), which both ClusterInit and NodeApi
  model as it is.

Observed in reconfigure:

- the comment at reconfigure.py:193-196, "There is guaranteed to be an available
  core list", holds of the node but not of a socket, and the search on other
  sockets always raises;
- a failure between reconfigure.py:78 and the calls into the pods still writes
  the new layout, though nobody was moved; such processes, and those whose exec
  fails, are `missed`, and `Truthful` is stated without them;
- a pod or a map that is left over from an earlier run makes the next one fail;
  `configmap_name` may be unbound in the finally clause;
- `get_pods` lists the pods of all nodes and namespaces, while the comment at
  line 86 says "on the node": the model has one node.

Observed in the webhook:

- `is_mutation_required` looks at containers, not at initContainers, while
  docs/architecture.md:103-105 and docs/cli.md:1134-1135 speak of "any container
  requesting CMK Extended Resources": a pod of which only an init container asks
  goes out as it is, which `AnsweredRight` states as the code has it (a pod of
  the run is of this kind); in a pod that is mutated for another reason init
  containers are mutated too;
- the comment at webhook.py:163, "apply mutation to initContainers which may not
  exist", says what the `except KeyError` below it is for; it also swallows a
  KeyError out of `inject_env`, after which the rest of the init containers goes
  out as it was (`MutateStumbles`);
- a body of more than 10000 bytes gets the status 500 and is processed all the
  same; an amount of 0 is an amount, and `CMK_NUM_CORES=0` is injected, which
  isolate refuses; a file that does not parse ends the server;
- a pod that is mutated again gets the environment of the file twice: the API
  server calls once per creation, and the promise is stated per call.

Observed at the node object and reports:

- the resource `exclusive-non-isolcpus-cores` is never removed by uninstall;
  `CleanAfterUninstall` speaks of exclusive cores only;
- a taint with a time makes `json.dumps` raise in discover and uninstall (`Timed`),
  and a node without a list of taints has none to replace;
- a daemon in its grace period may save its report again after uninstall has
  removed it (`outlived`);
- two savers that conflict: the second `create` of `save()` has no handler, and
  a daemon that loses dies and is restarted, a manual report ends.

Not modelled: `describe` (it raises, and would print); the third party resources
of Kubernetes before 1.7; the parsers of lscpu and of kernel command lines; the
loop of reconfigure_setup over the nodes, each of which is as the one modelled;
the client library behind `k8s.py`, whose calls are part of the actions.

## 6. What is left

1. Composition: ClusterInit's steps `init` and `discover` as CmkNode's InitAgain
   and readers on the same configmap; Reconfigure's critical section inside
   CmkNode, whose lock it uses. The modules meet in theorems so far (`IsLayout`,
   `OnlyHolderWrites`, `PoolsGivenOnce`, `NothingDone`), not in one specification.
2. reconfigure_setup over several nodes.
