----------------------------- MODULE Reconfigure -----------------------------
(***************************************************************************)
(* New pools for a node that is in use: `cmk reconfigure_setup` starts a   *)
(* pod on the node and waits for it (intel/reconfigure_setup.py); in it    *)
(* `cmk reconfigure` takes the lock, lays the pools out anew, finds a new  *)
(* cpu list for every list that has tasks, has `cmk reaffinitize` executed *)
(* in every pod of the node (intel/reaffinitize.py), writes the configmap  *)
(* and unlocks (intel/reconfigure.py).                                     *)
(*                                                                         *)
(* Two of the calls cannot return as they stand. add_node_er() lacks its   *)
(* argument, and reaffinitize subscripts a V1ConfigMap. `stubbed` holds    *)
(* those that are replaced by calls that do return, as the unit tests      *)
(* replace what they do not test; {} is the program as it runs.            *)
(*                                                                         *)
(* The lists are those of Layouts, as init writes them. The lock is held   *)
(* from `check` to `unlock` (CmkNode shows what that excludes), so the     *)
(* tasks of the configmap are constant meanwhile.                          *)
(***************************************************************************)
EXTENDS Layouts

CONSTANTS
  Pids,       \* the processes that isolate has granted lists
  Before,     \* the layouts the node may have at first
  Plans,      \* layouts of the node's pools that init.configure() can return:
              \*   [lists, numExclusive, numNonIsol]
  Stubs,      \* the values `stubbed` may have
  Late,       \* pids registered by an isolate that has not set its affinity
  Faults,     \* the calls that may fail
  MaxRuns     \* bound: runs of reconfigure_setup

ASSUME BeforeAssumption == Before \subseteq Plans /\ Before # {}

ASSUME PlansAssumption ==
  \A pl \in Plans :
    IsLayout(pl.lists) /\ pl.numExclusive \in Nat /\ pl.numNonIsol \in Nat

ASSUME LateAssumption == Late \subseteq Pids

ASSUME PidsAssumption == IsFiniteSet(Pids)

ASSUME RunsAssumption == MaxRuns \in Nat

VARIABLES
  config,     \* the configmap: the tasks of each list
  locked,     \* its Owner annotation is this reconfigure
  affinity,   \* the cores each process runs on
  setup,      \* where reconfigure_setup is
  pod,        \* the phase of the pod cmk-reconfigure-pod-<node>
  step,       \* where reconfigure is
  plan,       \* the layout asked for
  target,     \* `conf`, the new configuration
  cData,      \* Config.c_data: what unlock() writes
  newCores,   \* Pid.new_clist of each process
  clistMismatch, socketMismatch,
  pods,       \* pids in whose pods reaffinitize is still to be executed
  map,        \* the configmap cmk-reconfigure-<node> exists
  bound,      \* the variable configmap_name has a value
  ok,         \* no exception so far
  granted,    \* `clists` of each process's isolate
  settled,    \* pids whose isolate has set the affinity
  missed,     \* history: pids that a run gave new lists and did not move, or
              \* moved before their isolate had set the affinity
  stubbed, runs

conf == <<target, cData, newCores, clistMismatch, socketMismatch, pods>>
mapVars == <<map, bound>>
node == <<affinity, granted, settled, missed>>
vars == <<config, locked, setup, pod, step, plan, conf, mapVars, ok, node,
          stubbed, runs>>

-----------------------------------------------------------------------------
(* What isolate leaves in a configmap *)

ListsOf(c, p) == {l \in DOMAIN c : p \in c[l]}
CoresIn(c, p) == UNION {l.cores : l \in ListsOf(c, p)}

\* An exclusive list has one task at most; a process has lists of one pool,
\* and more than one only if they are exclusive.
Grants(c) ==
  /\ \A l \in DOMAIN c : l.pool \in ExclusivePools => Cardinality(c[l]) <= 1
  /\ \A p \in Pids : \A l, m \in ListsOf(c, p) :
        l.pool = m.pool /\ (l.pool \notin ExclusivePools => l = m)

Empty(lists) == [l \in lists |-> {}]

Init ==
  /\ \E pl \in Before : config \in {c \in [pl.lists -> SUBSET Pids] :
                                      Grants(c) /\ \A p \in Pids : ListsOf(c, p) # {}}
  /\ locked = FALSE
  /\ granted = [p \in Pids |-> CoresIn(config, p)]
  /\ settled = Pids \ Late
  /\ affinity = [p \in Pids |-> IF p \in Late THEN Cores ELSE granted[p]]
  /\ setup = "idle" /\ pod = "none" /\ step = "off"
  /\ plan = CHOOSE pl \in Plans : TRUE
  /\ target = Empty({}) /\ cData = config
  /\ newCores = [p \in Pids |-> {}]
  /\ clistMismatch = {} /\ socketMismatch = {} /\ pods = {}
  /\ map = FALSE /\ bound = FALSE /\ ok = TRUE
  /\ missed = {} /\ stubbed \in Stubs /\ runs = 0

-----------------------------------------------------------------------------
(* reconfigure_setup *)

\* execute_reconfigure creates the pod of the node; one that is left over from
\* an earlier run makes the call fail.
CreatePod ==
  /\ setup \in {"idle", "done", "abort"} /\ runs < MaxRuns
  /\ runs' = runs + 1
  /\ IF pod = "none"
       THEN plan' \in Plans /\ setup' = "wait" /\ pod' = "Running" /\ step' = "lock"
       ELSE setup' = "abort" /\ UNCHANGED <<plan, pod, step>>
  /\ UNCHANGED <<config, locked, conf, mapVars, ok, node, stubbed>>

\* wait_for_pod_phase returns, or raises RuntimeError and the program exits.
WaitPod ==
  /\ setup = "wait" /\ pod \in {"Succeeded", "Failed"}
  /\ setup' = IF pod = "Succeeded" THEN "done" ELSE "abort"
  /\ UNCHANGED <<config, locked, pod, step, plan, conf, mapVars, ok, node,
                 stubbed, runs>>

\* The operator removes the finished pod.
DeletePod ==
  /\ setup \in {"done", "abort"} /\ pod \in {"Succeeded", "Failed"}
  /\ pod' = "none" /\ step' = "off"
  /\ UNCHANGED <<config, locked, setup, plan, conf, mapVars, ok, node,
                 stubbed, runs>>

-----------------------------------------------------------------------------
(* reconfigure: from the lock to the new configuration *)

Goto(s) == step' = s /\ UNCHANGED ok

\* An exception, or sys.exit: straight to the finally clause.
Raise == step' = "unlock" /\ ok' = FALSE

\* The process is gone, and its variables with it.
Gone ==
  /\ step' = "end"
  /\ target' = Empty({}) /\ cData' = config
  /\ newCores' = [p \in Pids |-> {}]
  /\ clistMismatch' = {} /\ socketMismatch' = {} /\ pods' = {}
  /\ bound' = FALSE /\ ok' = TRUE

Lock ==
  /\ step = "lock" /\ ~locked
  /\ locked' = TRUE
  /\ cData' = config
  /\ Goto("check")
  /\ UNCHANGED <<config, setup, pod, plan, target, newCores, clistMismatch,
                 socketMismatch, pods, mapVars, node, stubbed, runs>>

\* build_proc_info: the lists with tasks are what has to find a new place.
InUse(c) == {l \in DOMAIN c : c[l] # {}}

InUseOf(c, pool) == {l \in InUse(c) : l.pool = pool}

\* check_processes counts lists in use, not processes, of two of the pools.
EnoughCores ==
  /\ Cardinality(InUseOf(config, "exclusive")) <= plan.numExclusive
  /\ Cardinality(InUseOf(config, "exclusive-non-isolcpus")) <= plan.numNonIsol

CheckProcesses ==
  /\ step = "check"
  /\ IF EnoughCores THEN Goto("configure") ELSE Raise
  /\ UNCHANGED <<config, locked, setup, pod, plan, conf, mapVars, node,
                 stubbed, runs>>

\* init.configure() or the version of the API server fails.
ConfigureFails ==
  /\ step = "configure" /\ "configure" \in Faults
  /\ Raise
  /\ UNCHANGED <<config, locked, setup, pod, plan, conf, mapVars, node,
                 stubbed, runs>>

Configure ==
  /\ step = "configure"
  /\ target' = Empty(plan.lists)
  /\ Goto("repatch")
  /\ UNCHANGED <<config, locked, setup, pod, plan, cData, newCores,
                 clistMismatch, socketMismatch, pods, mapVars, node, stubbed,
                 runs>>

\* discover.add_node_er() without its argument: TypeError.
Repatch ==
  /\ step = "repatch"
  /\ IF "add_node_er" \in stubbed THEN Goto("lists") ELSE Raise
  /\ UNCHANGED <<config, locked, setup, pod, plan, conf, mapVars, node,
                 stubbed, runs>>

-----------------------------------------------------------------------------
(* reconfigure_directory: a new list for every list in use *)

\* Mutant: the lists of all pools are searched.
OnSocketAnyPool(g) == {l \in DOMAIN target : l.socket = g.socket}

\* get_socket_clists of the pool and the socket the process is on.
OnSocket(g) == {l \in DOMAIN target : l.pool = g.pool /\ l.socket = g.socket}

\* Mutant: no list is tried before the others of its socket.
KeptNone == {}

\* First, every list that is still there keeps its tasks.
Kept == InUse(config) \cap DOMAIN target

\* Mutant: only one of the two kinds of mismatch is remembered.
MatchListsForget ==
  /\ step = "lists"
  /\ target' = [l \in DOMAIN target |-> IF l \in Kept THEN config[l] ELSE {}]
  /\ newCores' = [p \in Pids |-> UNION {l.cores : l \in Kept \cap ListsOf(config, p)}]
  /\ clistMismatch' = {g \in InUse(config) \ Kept : OnSocket(g) # {}}
  /\ socketMismatch' = {}
  /\ Goto("match")
  /\ UNCHANGED <<config, locked, setup, pod, plan, cData, pods, mapVars, node,
                 stubbed, runs>>

\* Mutant: lists that are not in the new layout keep their tasks too.
MatchListsAll ==
  /\ step = "lists"
  /\ target' = [l \in DOMAIN target \cup InUse(config) |->
                  IF l \in InUse(config) THEN config[l] ELSE {}]
  /\ newCores' = granted
  /\ Goto("match")
  /\ UNCHANGED <<config, locked, setup, pod, plan, cData, clistMismatch,
                 socketMismatch, pods, mapVars, node, stubbed, runs>>

MatchLists ==
  /\ step = "lists"
  /\ target' = [l \in DOMAIN target |-> IF l \in Kept THEN config[l] ELSE {}]
  /\ newCores' = [p \in Pids |-> UNION {l.cores : l \in Kept \cap ListsOf(config, p)}]
  /\ clistMismatch' = {g \in InUse(config) \ Kept : OnSocket(g) # {}}
  /\ socketMismatch' = {g \in InUse(config) \ Kept : OnSocket(g) = {}}
  /\ Goto("match")
  /\ UNCHANGED <<config, locked, setup, pod, plan, cData, pods, mapVars, node,
                 stubbed, runs>>

Free(g) == {l \in OnSocket(g) : target[l] = {}}

\* Mutant: the new cpu list replaces the ones noted before.
PlaceForgets(g, l) ==
  /\ target' = [target EXCEPT ![l] = config[g]]
  /\ newCores' = [p \in Pids |-> IF p \in config[g] THEN l.cores ELSE newCores[p]]

Place(g, l) ==
  /\ target' = [target EXCEPT ![l] = config[g]]
  /\ newCores' = [p \in Pids |->
                    IF p \in config[g] THEN newCores[p] \cup l.cores ELSE newCores[p]]

\* Mutant: it waits for a list to become free.
MatchSocketWaits(g) ==
  /\ step = "match" /\ g \in clistMismatch
  /\ clistMismatch' = clistMismatch \ {g}
  /\ \E l \in Free(g) : Place(g, l)
  /\ UNCHANGED <<config, locked, setup, pod, step, plan, cData, socketMismatch,
                 pods, mapVars, ok, node, stubbed, runs>>

\* Then, any list of the socket without tasks.
MatchSocket(g) ==
  /\ step = "match" /\ g \in clistMismatch
  /\ clistMismatch' = clistMismatch \ {g}
  /\ \/ /\ \E l \in Free(g) : Place(g, l)
        /\ UNCHANGED socketMismatch
     \/ /\ Free(g) = {}
        /\ socketMismatch' = socketMismatch \cup {g}
        /\ UNCHANGED <<target, newCores>>
  /\ UNCHANGED <<config, locked, setup, pod, step, plan, cData, pods, mapVars,
                 ok, node, stubbed, runs>>

\* Then, the other sockets; but update_sockets selects them by a string, which
\* is no key of the new configuration (and with string keys cl.cpus() is no
\* method, or the two sockets of a ProcessInfo are used up): it always raises.
MatchOtherSocket ==
  /\ step = "match" /\ clistMismatch = {}
  /\ socketMismatch # {}
  /\ Raise
  /\ UNCHANGED <<config, locked, setup, pod, plan, conf, mapVars, node,
                 stubbed, runs>>

Matched ==
  /\ step = "match" /\ clistMismatch = {} /\ socketMismatch = {}
  /\ cData' = target
  /\ pods' = Pids
  /\ bound' = TRUE
  /\ Goto("publish")
  /\ UNCHANGED <<config, locked, setup, pod, plan, target, newCores,
                 clistMismatch, socketMismatch, map, node, stubbed, runs>>

-----------------------------------------------------------------------------
(* From the new configuration to the end *)

\* set_config_map creates the map that reaffinitize reads.
Publish ==
  /\ step = "publish"
  /\ \/ ~map /\ map' = TRUE /\ Goto("list")
     \/ (map \/ "set_config_map" \in Faults) /\ Raise /\ UNCHANGED map
  /\ UNCHANGED <<config, locked, setup, pod, plan, conf, bound, node, stubbed,
                 runs>>

\* get_pods; a pod without conditions makes it raise.
ListPods ==
  /\ step = "list"
  /\ Goto("exec") \/ ("get_pods" \in Faults /\ Raise)
  /\ UNCHANGED <<config, locked, setup, pod, plan, conf, mapVars, node, stubbed,
                 runs>>

\* reaffinitize looks for a process of the map that had the cores this one runs
\* on. An ApiException, or a reaffinitize that fails, is only logged.
Execute(p) ==
  /\ step = "exec" /\ p \in pods
  /\ pods' = pods \ {p}
  /\ LET alike == {q \in Pids : affinity[p] = CoresIn(config, q)}
     IN  \/ /\ "reaffinitize" \in stubbed
            /\ \E q \in alike : affinity' = [affinity EXCEPT ![p] = newCores[q]]
            /\ missed' = missed \cup ({p} \ settled)
         \/ /\ \/ alike = {}
               \/ "reaffinitize" \notin stubbed
               \/ "exec" \in Faults
            /\ missed' = missed \cup {p}
            /\ UNCHANGED affinity
  /\ UNCHANGED <<config, locked, setup, pod, step, plan, target, cData, newCores,
                 clistMismatch, socketMismatch, mapVars, ok, granted,
                 settled, stubbed, runs>>

Executed ==
  /\ step = "exec" /\ pods = {}
  /\ Goto("unlock")
  /\ UNCHANGED <<config, locked, setup, pod, plan, conf, mapVars, node, stubbed,
                 runs>>

\* Mutant: the lists are written as they were read.
UnlockOld ==
  /\ step = "unlock"
  /\ locked' = FALSE
  /\ step' = "cleanup"
  /\ pods' = {}
  /\ missed' = missed \cup pods
  /\ UNCHANGED <<config, setup, pod, plan, target, cData, newCores,
                 clistMismatch, socketMismatch, mapVars, ok, affinity, granted,
                 settled, stubbed, runs>>

\* The finally clause writes conf.c_data, whatever has happened.
Unlock ==
  /\ step = "unlock"
  /\ config' = cData /\ locked' = FALSE
  /\ step' = "cleanup"
  /\ pods' = {}
  /\ missed' = missed \cup pods
  /\ UNCHANGED <<setup, pod, plan, target, cData, newCores,
                 clistMismatch, socketMismatch, mapVars, ok, affinity, granted,
                 settled, stubbed, runs>>

\* sys.exit in unlock: the lock stays, and the map too.
UnlockFails ==
  /\ step = "unlock" /\ "unlock" \in Faults
  /\ Gone /\ pod' = "Failed"
  /\ UNCHANGED <<config, locked, setup, plan, map, node, stubbed, runs>>

\* delete_config_map: its name may be unbound, the map may not be there.
Cleanup ==
  /\ step = "cleanup"
  /\ Gone
  /\ \/ bound /\ map /\ map' = FALSE /\ pod' = IF ok THEN "Succeeded" ELSE "Failed"
     \/ /\ ~bound \/ ~map \/ "delete_config_map" \in Faults
        /\ pod' = "Failed" /\ UNCHANGED map
  /\ UNCHANGED <<config, locked, setup, plan, node, stubbed, runs>>

\* The pod is killed: no finally clause.
Kill ==
  /\ "kill" \in Faults /\ pod = "Running"
  /\ Gone /\ pod' = "Failed"
  /\ UNCHANGED <<config, locked, setup, plan, map, node, stubbed, runs>>

-----------------------------------------------------------------------------
\* isolate sets the affinity it was granted, after it has given up the lock.
Settle(p) ==
  /\ p \notin settled
  /\ settled' = settled \cup {p}
  /\ affinity' = [affinity EXCEPT ![p] = granted[p]]
  /\ UNCHANGED <<config, locked, setup, pod, step, plan, conf, mapVars, ok,
                 granted, missed, stubbed, runs>>

Match ==
  \/ MatchLists
  \/ \E g \in DOMAIN config : MatchSocket(g)
  \/ MatchOtherSocket
  \/ Matched

ReconfigureStep ==
  \/ CheckProcesses \/ ConfigureFails \/ Configure \/ Repatch
  \/ Match
  \/ Publish \/ ListPods \/ (\E p \in Pids : Execute(p)) \/ Executed
  \/ Unlock \/ UnlockFails \/ Cleanup

Next ==
  \/ CreatePod \/ WaitPod \/ DeletePod
  \/ Lock \/ ReconfigureStep \/ Kill
  \/ \E p \in Pids : Settle(p)

Spec == Init /\ [][Next]_vars

\* A program that is not blocked goes on; nobody has to settle, kill or clean up.
Fairness == WF_vars(Lock) /\ WF_vars(ReconfigureStep) /\ WF_vars(WaitPod)

FairSpec == Spec /\ Fairness

-----------------------------------------------------------------------------
(* Properties *)

Configs == UNION {[pl.lists -> SUBSET Pids] : pl \in Plans}

TypeOK ==
  /\ config \in Configs /\ cData \in Configs
  /\ target \in Configs \cup {Empty({})}
  /\ locked \in BOOLEAN /\ map \in BOOLEAN /\ bound \in BOOLEAN /\ ok \in BOOLEAN
  /\ affinity \in [Pids -> SUBSET Cores] /\ granted \in [Pids -> SUBSET Cores]
  /\ newCores \in [Pids -> SUBSET Cores]
  /\ setup \in {"idle", "wait", "done", "abort"}
  /\ pod \in {"none", "Running", "Succeeded", "Failed"}
  /\ step \in {"off", "lock", "check", "configure", "repatch", "lists", "match",
               "publish", "list", "exec", "unlock", "cleanup", "end"}
  /\ plan \in Plans
  /\ clistMismatch \subseteq DOMAIN config
  /\ socketMismatch \subseteq DOMAIN config
  /\ pods \subseteq Pids /\ settled \subseteq Pids /\ missed \subseteq Pids
  /\ stubbed \in Stubs /\ runs \in 0 .. MaxRuns

\* The lists that reconfigure writes could have been granted by isolate: no
\* exclusive list comes to have two tasks, no process changes or mixes pools.
GrantsKept == Grants(config) /\ Grants(cData)

Share(c, p, pool) == Cardinality({l \in ListsOf(c, p) : l.pool = pool})

\* Whatever fails on the way, a process has as many lists of each pool in the
\* configmap as before.
SharesKept ==
  [][\A p \in Pids : \A pool \in Pools :
       Share(config', p, pool) = Share(config, p, pool)]_config

\* docs/operator.md: a list that is in the new layout as well keeps its tasks,
\* so that they are not interrupted.
StaysIfPossible ==
  [][\A l \in InUse(config) : l \in DOMAIN config' => config'[l] = config[l]]_config

\* When the lock is free, a process that was not missed runs on just the cores
\* the configmap has for it.
Truthful ==
  ~locked => \A p \in settled \ missed : affinity[p] = CoresIn(config, p)

\* The pod reports success only if the node has the layout that was asked for,
\* and the map of the run is gone.
SuccessIsReal == pod = "Succeeded" => DOMAIN config = plan.lists /\ ~map

\* A run that has got the lock ends, whatever fails or is killed, and the
\* reconfigure_setup that waits for it comes to an end as well.
Ends == (setup = "wait" /\ step \notin {"off", "lock"}) ~> (setup \in {"done", "abort"})

\* docs/operator.md:566: reconfigure "will automatically reassign any processes
\* to the new cores in the new configuration".
Reconfigured == (step = "check" /\ EnoughCores) ~> (setup = "done" /\ missed = {})

\* Why a run ends: a step of it comes to a later place in the program, or leaves
\* fewer lists to match or pods to execute in, and nobody else undoes that.
Rank == [check |-> 10, configure |-> 9, repatch |-> 8, lists |-> 7, match |-> 6,
         publish |-> 5, list |-> 4, exec |-> 3, unlock |-> 2, cleanup |-> 1,
         off |-> 0, lock |-> 0, end |-> 0][step]

Within == Cardinality(IF step = "match" THEN clistMismatch ELSE pods)

Nearer ==
  /\ Rank' \in Nat /\ Within' \in Nat
  /\ Rank' < Rank \/ (Rank' = Rank /\ Within' < Within)

RunAdvances ==
  [][step \notin {"off", "lock", "end"} =>
       /\ ReconfigureStep => Nearer
       /\ Nearer \/ UNCHANGED <<step, Within>>]_vars

\* As the program runs, with add_node_er() raising: the pool layout is never
\* touched and reconfigure_setup never reports success.
NothingDone ==
  []["add_node_er" \notin stubbed => config' = config /\ setup' # "done"]_vars

-----------------------------------------------------------------------------
(* The inductive invariant *)

\* The steps that have the lock, and those that have the new configuration.
Inside == {"check", "configure", "repatch", "lists", "match", "publish", "list",
           "exec", "unlock"}
Moving == {"publish", "list", "exec"}

StepInv ==
  /\ pod = "Running" <=> step \notin {"off", "end"}
  /\ step \in Inside => locked
  /\ step = "cleanup" => ~locked

\* Outside of the steps that move processes there is nothing new in the copy.
CopyInv ==
  /\ step \notin Moving \cup {"unlock"} => cData = config /\ pods = {}
  /\ step \in Moving => cData = target

\* The new layout, from where it is made to where success is reported.
LayoutInv ==
  /\ step \in {"repatch", "lists", "match"} \cup Moving => DOMAIN target = plan.lists
  /\ bound => step \in Moving \cup {"unlock", "cleanup"} /\ DOMAIN cData = plan.lists
  /\ pod = "Succeeded" => DOMAIN config = plan.lists /\ ~map

\* f tells which list of d each list of S, of c, has become: of the same pool,
\* with the same tasks, the same list if it can be; the rest of d has no tasks.
Moves(f, S, c, d) ==
  /\ \A g, h \in S : f[g] = f[h] => g = h
  /\ \A g \in S : f[g].pool = g.pool /\ d[f[g]] = c[g]
  /\ \A g \in S \cap DOMAIN d : f[g] = g
  /\ \A l \in DOMAIN d : d[l] # {} => \E g \in S : f[g] = l

Unplaced == clistMismatch \cup socketMismatch
Placed == InUse(config) \ Unplaced

MatchInv ==
  step = "match" =>
    /\ Unplaced \subseteq InUse(config) \ DOMAIN target
    /\ clistMismatch \cap socketMismatch = {}
    /\ \E f \in [Placed -> DOMAIN target] : Moves(f, Placed, config, target)

\* Without add_node_er() a run never comes to the lists, and fails.
StuckInv ==
  "add_node_er" \notin stubbed =>
    /\ step \notin {"lists", "match"} \cup Moving
    /\ step \in {"unlock", "cleanup"} => ~ok
    /\ cData = config /\ pod # "Succeeded" /\ setup # "done"

\* What unlock() may write.
MovedInv ==
  \/ cData = config
  \/ /\ Unplaced = {}
     /\ \E f \in [InUse(config) -> DOMAIN cData] :
          Moves(f, InUse(config), config, cData)

\* What reaffinitize reads.
NewCoresInv ==
  step \in {"match"} \cup Moving => \A p \in Pids : newCores[p] = CoresIn(target, p)

\* Where a process runs, or will run when its isolate has set the affinity: on
\* the old cores until it is moved, unless the lock is left behind.
TrackInv ==
  ~(locked /\ step \notin Inside) =>
    \A p \in Pids \ missed :
      LET c == IF p \in pods THEN config ELSE cData
      IN  IF p \in settled THEN affinity[p] = CoresIn(c, p)
                           ELSE affinity[p] = Cores /\ granted[p] = CoresIn(c, p)

ReconfigureInv ==
  /\ TypeOK /\ GrantsKept
  /\ StepInv /\ CopyInv /\ LayoutInv
  /\ MatchInv /\ MovedInv /\ NewCoresInv /\ TrackInv /\ StuckInv

=============================================================================
