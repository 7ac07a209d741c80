----------------------------- MODULE ClusterInit -----------------------------
(***************************************************************************)
(* `cmk cluster-init` (intel/clusterinit.py), what the pods it creates do  *)
(* to their nodes (`cmk init`, `cmk discover`, `cmk install`), and         *)
(* `cmk uninstall` (intel/uninstall.py), which an operator runs on a node  *)
(* when no cluster-init runs. The API server and the kubelet are external: *)
(* a name can be created once; a deleted pod stays, and may still run, for *)
(* its grace period.                                                       *)
(***************************************************************************)
EXTENDS Naturals, Sequences

CONSTANTS
  Nodes,
  Hosts,        \* the nodes of --host-list, in its order
  NamesWith,    \* NamesWith[n]: the nodes whose name starts with that of n
  CmdLists,     \* values of --cmk-cmd-list
  NoTaint,      \* --no-taint
  NonIsolcpus,  \* whether init makes a pool exclusive-non-isolcpus
  ApiFaults,    \* where calls of the API server may fail: steps of cluster-init,
                \* steps of discover, and "uninstall"
  Uninstalls,   \* bound on the nodes on which an operator runs uninstall
  MaxRuns       \* bound on the number of times cluster-init is run

OneShot == {"init", "discover", "install"}
Daemons == {"reconcile", "nodereport"}

Commands(list) == {list[i] : i \in 1..Len(list)}

\* The commands of a list that run once in a pod, and those that stay.
CmdInitList(list) == SelectSeq(list, LAMBDA c : c \in OneShot)
CmdList(list) == SelectSeq(list, LAMBDA c : c \notin OneShot)

\* A pod is named after its commands and its node, and so is a daemon set.
PodNames == Nodes \X {CmdInitList(list) : list \in CmdLists}
DsNames  == Nodes \X {CmdList(list) : list \in CmdLists}

WebhookParts == <<"secret", "configmap", "service", "deployment", "config">>

HostSet == {Hosts[i] : i \in 1..Len(Hosts)}

ASSUME HostsAssumption ==
  Hosts \in Seq(Nodes) /\ Hosts # <<>> /\ \A n \in Nodes : n \in NamesWith[n]
ASSUME BoundsAssumption == MaxRuns \in Nat /\ Uninstalls \subseteq Nodes

VARIABLES
  cmds,       \* the command list of this cluster-init
  ci, k,      \* the step cluster-init is at, and for which host or part
  runs,       \* how often cluster-init has been started
  webhook,    \* the webhook's objects that exist
  pod,        \* the one-shot pod of each name: "no", "yes", "terminating"
  cont,       \* the state of each of its containers
  ds,         \* the daemon set of each name
  old,        \* the daemon sets that are deleted and whose pod still runs
  marks,      \* what the node has been given
  up          \* the step uninstall is at on each node; "again" if it ended
              \* before the last start of cluster-init

ciVars   == <<cmds, ci, k, runs, webhook>>
nodeVars == <<pod, cont, ds, old, marks>>
vars     == <<cmds, ci, k, runs, webhook, pod, cont, ds, old, marks, up>>

\* What this cluster-init runs on n, and where.
InitCmds == Commands(CmdInitList(cmds))
StayCmds == Commands(CmdList(cmds))

ThePod(n) == <<n, CmdInitList(cmds)>>
TheDs(n)  == <<n, CmdList(cmds)>>

NoContainers == [c \in OneShot |-> "off"]

Init ==
  /\ cmds \in CmdLists
  /\ ci = "check" /\ k = 1 /\ runs = 1
  /\ webhook = {}
  /\ pod = [p \in PodNames |-> "no"]
  /\ cont = [p \in PodNames |-> NoContainers]
  /\ ds = [d \in DsNames |-> "no"]
  /\ old = {}
  /\ marks = [n \in Nodes |-> {}]
  /\ up = [n \in Nodes |-> "idle"]

-----------------------------------------------------------------------------
(* Pods *)

\* init is an init container if the pod has other containers.
Initialised(p) == cont[p]["init"] \in {"off", "ok"} \/ Len(p[2]) = 1

Phase(p) ==
  LET ended == \A c \in OneShot : cont[p][c] \in {"off", "ok", "failed"}
      bad   == \E c \in OneShot : cont[p][c] = "failed"
  IN  IF pod[p] = "no" THEN "no"
      ELSE IF bad /\ (ended \/ cont[p]["init"] = "failed") THEN "Failed"
      ELSE IF ended THEN "Succeeded"
      ELSE "Running"

-----------------------------------------------------------------------------
(* cluster-init *)

Valid ==
  /\ Commands(cmds) \subseteq OneShot \cup Daemons
  /\ "init" \in Commands(cmds) => cmds[1] = "init"

CiGoto(step) == ci' = step /\ k' = 1 /\ UNCHANGED <<cmds, runs>>

Abort == CiGoto("aborted")

\* The next host, or the next step after the last one.
NextHost(step) ==
  IF k < Len(Hosts)
    THEN k' = k + 1 /\ UNCHANGED <<cmds, ci, runs>>
    ELSE CiGoto(step)

AfterPods == IF StayCmds # {} THEN "createDs" ELSE "webhook"

CheckArgs ==
  /\ ci = "check"
  /\ IF ~Valid THEN Abort
     ELSE CiGoto(IF InitCmds # {} THEN "createPods" ELSE AfterPods)
  /\ UNCHANGED <<webhook, nodeVars, up>>

\* Mutant: what is there is replaced.
CreatePodReplaces ==
  /\ ci = "createPods"
  /\ LET p == ThePod(Hosts[k])
     IN  /\ pod' = [pod EXCEPT ![p] = "yes"]
         /\ cont' = [cont EXCEPT ![p] =
                       [c \in OneShot |-> IF c \in InitCmds THEN "run" ELSE "off"]]
         /\ NextHost("waitPods")
  /\ UNCHANGED <<webhook, ds, old, marks, up>>

CreatePod ==
  /\ ci = "createPods"
  /\ LET p == ThePod(Hosts[k])
     IN  IF pod[p] # "no"
           THEN Abort /\ UNCHANGED <<pod, cont>>
           ELSE /\ pod' = [pod EXCEPT ![p] = "yes"]
                /\ cont' = [cont EXCEPT ![p] =
                     [c \in OneShot |-> IF c \in InitCmds THEN "run" ELSE "off"]]
                /\ NextHost("waitPods")
  /\ UNCHANGED <<webhook, ds, old, marks, up>>

\* Mutants: Running is good enough; a failed pod is waited for like any other.
WaitPodRunning ==
  /\ ci = "waitPods"
  /\ \E n \in NamesWith[Hosts[k]] : Phase(ThePod(n)) \in {"Running", "Succeeded"}
  /\ NextHost(AfterPods)
  /\ UNCHANGED <<webhook, nodeVars, up>>

WaitPodFailsNever ==
  /\ ci = "waitPods"
  /\ \E n \in NamesWith[Hosts[k]] : Phase(ThePod(n)) = "Failed"
  /\ UNCHANGED vars

\* wait_for_pod_phase takes any pod whose name contains the one it looks for.
WaitPod ==
  /\ ci = "waitPods"
  /\ \E n \in NamesWith[Hosts[k]] : Phase(ThePod(n)) = "Succeeded"
  /\ NextHost(AfterPods)
  /\ UNCHANGED <<webhook, nodeVars, up>>

WaitPodFails ==
  /\ ci = "waitPods"
  /\ \E n \in NamesWith[Hosts[k]] : Phase(ThePod(n)) = "Failed"
  /\ Abort
  /\ UNCHANGED <<webhook, nodeVars, up>>

CreateDs ==
  /\ ci = "createDs"
  /\ LET d == TheDs(Hosts[k])
     IN  IF ds[d] # "no"
           THEN Abort /\ UNCHANGED ds
           ELSE ds' = [ds EXCEPT ![d] = "Pending"] /\ NextHost("waitDs")
  /\ UNCHANGED <<webhook, pod, cont, old, marks, up>>

\* Mutant: the first daemon set stands for all.
WaitDsFirst ==
  /\ ci = "waitDs"
  /\ \E n \in NamesWith[Hosts[k]] : ds[TheDs(n)] = "Running" \/ TheDs(n) \in old
  /\ CiGoto("webhook")
  /\ UNCHANGED <<webhook, nodeVars, up>>

WaitDs ==
  /\ ci = "waitDs"
  /\ \E n \in NamesWith[Hosts[k]] : ds[TheDs(n)] = "Running" \/ TheDs(n) \in old
  /\ NextHost("webhook")
  /\ UNCHANGED <<webhook, nodeVars, up>>

\* deploy_webhook: one object after the other, none of which may exist.
DeployWebhook ==
  /\ ci = "webhook"
  /\ IF WebhookParts[k] \in webhook
       THEN Abort /\ UNCHANGED webhook
       ELSE /\ webhook' = webhook \cup {WebhookParts[k]}
            /\ IF k < Len(WebhookParts)
                 THEN k' = k + 1 /\ UNCHANGED <<cmds, ci, runs>>
                 ELSE CiGoto("done")
  /\ UNCHANGED <<nodeVars, up>>

Ended == ci \in {"done", "aborted"}

CiApiFails ==
  /\ ci \in ApiFaults
  /\ ~Ended
  /\ Abort
  /\ UNCHANGED <<webhook, nodeVars, up>>

\* The operator runs cluster-init again, with the same command list or another.
Rerun ==
  /\ Ended
  /\ runs < MaxRuns
  /\ \A n \in Nodes : up[n] \in {"idle", "again", "aborted"}
  /\ cmds' \in CmdLists
  /\ ci' = "check" /\ k' = 1 /\ runs' = runs + 1
  /\ up' = [n \in Nodes |-> IF up[n] = "idle" THEN "idle" ELSE "again"]
  /\ UNCHANGED <<webhook, nodeVars>>

-----------------------------------------------------------------------------
(* The pods on a node *)

May(p, c, state) ==
  /\ pod[p] # "no"
  /\ cont[p][c] = state
  /\ c = "init" \/ Initialised(p)

Becomes(p, c, state, given) ==
  /\ cont' = [cont EXCEPT ![p][c] = state]
  /\ marks' = [marks EXCEPT ![p[1]] = @ \cup given]
  /\ UNCHANGED <<ciVars, pod, ds, old, up>>

\* cmk init, which raises if the cores do not suffice, and cmk install.
RunInit(p) ==
  /\ May(p, "init", "run")
  /\ \/ Becomes(p, "init", "ok", {"pools"})
     \/ Becomes(p, "init", "failed", {})

RunInstall(p) ==
  /\ May(p, "install", "run")
  /\ \/ Becomes(p, "install", "ok", {"binary"})
     \/ Becomes(p, "install", "failed", {})

\* Mutant: a node without a configmap has no cores.
DiscoverPoolsAny(p) ==
  /\ May(p, "discover", "run")
  /\ Becomes(p, "discover", "capacity", {})

\* add_node_er: without a configmap lock() raises.
DiscoverPools(p) ==
  /\ May(p, "discover", "run")
  /\ Becomes(p, "discover", IF "pools" \in marks[p[1]] THEN "capacity" ELSE "failed", {})

PatchCapacity(p) ==
  /\ May(p, "discover", "capacity")
  /\ Becomes(p, "discover", IF NonIsolcpus THEN "non-isolcpus" ELSE "label", {"capacity"})

PatchNonIsolcpus(p) ==
  /\ May(p, "discover", "non-isolcpus")
  /\ Becomes(p, "discover", "label", {"non-isolcpus"})

PatchLabel(p) ==
  /\ May(p, "discover", "label")
  /\ Becomes(p, "discover", IF NoTaint THEN "ok" ELSE "taint", {"label"})

PatchTaint(p) ==
  /\ May(p, "discover", "taint")
  /\ Becomes(p, "discover", "ok", {"taint"})

Discovering == {"run", "capacity", "non-isolcpus", "label", "taint"}

DiscoverApiFails(p) ==
  /\ \E state \in Discovering \cap ApiFaults : May(p, "discover", state)
  /\ Becomes(p, "discover", "failed", {})

DsStarts(d) ==
  /\ ds[d] = "Pending"
  /\ ds' = [ds EXCEPT ![d] = "Running"]
  /\ UNCHANGED <<ciVars, pod, cont, old, marks, up>>

\* The grace period is over.
Terminated(p) ==
  /\ pod[p] = "terminating"
  /\ pod' = [pod EXCEPT ![p] = "no"]
  /\ cont' = [cont EXCEPT ![p] = NoContainers]
  /\ UNCHANGED <<ciVars, ds, old, marks, up>>

OldTerminated(d) ==
  /\ d \in old
  /\ old' = old \ {d}
  /\ UNCHANGED <<ciVars, pod, cont, ds, marks, up>>

-----------------------------------------------------------------------------
(* cmk uninstall *)

UpGoto(n, from, to) ==
  /\ up[n] = from
  /\ up' = [up EXCEPT ![n] = to]
  /\ UNCHANGED ciVars

StartUninstall(n) ==
  /\ Ended
  /\ \E from \in {"idle", "again"} : UpGoto(n, from, "pod")
  /\ UNCHANGED nodeVars

\* uninstall only knows the names that the default command list gives.
KnownPod(n) == <<n, <<"init", "install", "discover">>>>
KnownDs(n)  == <<n, <<"reconcile", "nodereport">>>>

\* An object that does not exist is skipped.
DeletePod(n) ==
  /\ UpGoto(n, "pod", "ds")
  /\ pod' = [p \in PodNames |->
               IF p = KnownPod(n) /\ pod[p] = "yes" THEN "terminating" ELSE pod[p]]
  /\ UNCHANGED <<cont, ds, old, marks>>

DeleteDs(n) ==
  /\ UpGoto(n, "ds", "taint")
  /\ ds' = [d \in DsNames |-> IF d = KnownDs(n) THEN "no" ELSE ds[d]]
  /\ old' = old \cup {d \in DsNames : d = KnownDs(n) /\ ds[d] = "Running"}
  /\ UNCHANGED <<pod, cont, marks>>

RemoveTaint(n) ==
  /\ UpGoto(n, "taint", "capacity")
  /\ marks' = [marks EXCEPT ![n] = @ \ {"taint"}]
  /\ UNCHANGED <<pod, cont, ds, old>>

\* A node without any taint has no list that the patch could replace.
RemoveTaintFails(n) ==
  /\ "taint" \notin marks[n]
  /\ UpGoto(n, "taint", "aborted")
  /\ UNCHANGED nodeVars

RemoveCapacity(n) ==
  /\ UpGoto(n, "capacity", "conf")
  /\ marks' = [marks EXCEPT ![n] = @ \ {"capacity"}]
  /\ UNCHANGED <<pod, cont, ds, old>>

\* check_remove_conf_dir builds config.Config with one of its three arguments:
\* TypeError, sys.exit(1), and nothing after it is ever reached.
RemoveConf(n) ==
  /\ UpGoto(n, "conf", "aborted")
  /\ UNCHANGED nodeVars

UninstallApiFails(n) ==
  /\ "uninstall" \in ApiFaults
  /\ \E step \in {"pod", "ds", "taint", "capacity"} : UpGoto(n, step, "aborted")
  /\ UNCHANGED nodeVars

-----------------------------------------------------------------------------
Ci == \/ CheckArgs \/ CreatePod \/ WaitPod \/ WaitPodFails
      \/ CreateDs \/ WaitDs \/ DeployWebhook

Pod(p) == \/ RunInit(p) \/ RunInstall(p)
          \/ DiscoverPools(p) \/ PatchCapacity(p) \/ PatchNonIsolcpus(p)
          \/ PatchLabel(p) \/ PatchTaint(p)

Uninstall(n) == \/ StartUninstall(n)
                \/ DeletePod(n) \/ DeleteDs(n)
                \/ RemoveTaint(n) \/ RemoveTaintFails(n) \/ RemoveCapacity(n)
                \/ RemoveConf(n) \/ UninstallApiFails(n)

Next ==
  \/ Ci \/ CiApiFails \/ Rerun
  \/ \E p \in PodNames : Pod(p) \/ DiscoverApiFails(p) \/ Terminated(p)
  \/ \E d \in DsNames : DsStarts(d) \/ OldTerminated(d)
  \/ \E n \in Uninstalls : Uninstall(n)

Spec == Init /\ [][Next]_vars

\* cluster-init polls on, and the kubelet runs what it has to run.
Fairness ==
  /\ WF_vars(Ci)
  /\ \A p \in PodNames : WF_vars(Pod(p))
  /\ \A d \in DsNames : WF_vars(DsStarts(d))

FairSpec == Spec /\ Fairness

-----------------------------------------------------------------------------
(* Properties *)

\* Every variable has its type; k never runs past the last host or part.
TypeOK ==
  /\ cmds \in CmdLists
  /\ ci \in {"check", "createPods", "waitPods", "createDs", "waitDs",
             "webhook", "done", "aborted"}
  /\ k \in 1 .. (IF ci = "webhook" THEN Len(WebhookParts) ELSE Len(Hosts))
  /\ runs \in Nat
  /\ webhook \subseteq {"secret", "configmap", "service", "deployment", "config"}
  /\ pod \in [PodNames -> {"no", "yes", "terminating"}]
  /\ cont \in [PodNames -> [OneShot -> {"off", "ok", "failed"} \cup Discovering]]
  /\ ds \in [DsNames -> {"no", "Pending", "Running"}]
  /\ old \subseteq DsNames
  /\ marks \in [Nodes -> SUBSET {"pools", "binary", "capacity", "non-isolcpus",
                               "label", "taint"}]
  /\ up \in [Nodes -> {"idle", "again", "pod", "ds", "taint", "capacity", "conf",
                     "aborted"}]

\* What the one-shot commands leave on a node for good.
Prepared(n) ==
  /\ "init" \in InitCmds => "pools" \in marks[n]
  /\ "discover" \in InitCmds => "label" \in marks[n]
  /\ "install" \in InitCmds => "binary" \in marks[n]

\* "It waits for the pods to go into a pod phase" (intel/clusterinit.py): a
\* cluster-init creates no daemon set, and no object of the webhook, before every
\* host has what its one-shot commands leave there, whatever fails on the other
\* hosts, and whatever earlier runs, of the same commands or others, and
\* uninstall have left.
DaemonsAfterPools ==
  [][(\E d \in DsNames : ds[d] = "no" /\ ds'[d] # "no") \/ webhook' # webhook
       => \A n \in HostSet : Prepared(n)]_vars

\* When cluster-init reports success every host is ready for pods: its cores
\* are advertised, it is tainted unless --no-taint, its daemons run (or start,
\* if uninstall has just removed others), and the webhook is complete.
ReadyWhenDone ==
  ci = "done" =>
    /\ webhook = {WebhookParts[i] : i \in 1..Len(WebhookParts)}
    /\ \A n \in HostSet : up[n] \in {"idle", "again"} =>
         /\ "discover" \in InitCmds =>
              /\ "capacity" \in marks[n]
              /\ NonIsolcpus => "non-isolcpus" \in marks[n]
              /\ ~NoTaint => "taint" \in marks[n]
         /\ StayCmds # {} =>
              ds[TheDs(n)] = "Running" \/ (ds[TheDs(n)] = "Pending" /\ up[n] = "again")

\* A node advertises itself only when isolate can work there: capacity, label
\* and taint need the pools, even after an uninstall; without one the node is
\* not tainted before it is labelled, nor labelled before it has capacity.
AdvertisedInOrder ==
  \A n \in Nodes :
    /\ marks[n] \cap {"capacity", "non-isolcpus", "label", "taint"} # {} =>
         "pools" \in marks[n]
    /\ up[n] = "idle" =>
         /\ "taint" \in marks[n] => "label" \in marks[n]
         /\ "label" \in marks[n] => "capacity" \in marks[n]

\* init gives pools to a node that has them only if somebody has begun to
\* uninstall it, or if they are from the pod of another command list: its name
\* is another, and the configmap is overwritten. A cluster-init with the same
\* commands, run again after whatever failure, stops at the node's pod.
PoolsGivenOnce ==
  [][\A p \in PodNames :
       "pools" \in marks[p[1]] /\ cont[p]["init"] = "run" /\ cont'[p]["init"] = "ok"
         => \/ up[p[1]] # "idle"
            \/ \E q \in PodNames \ {p} : q[1] = p[1] /\ cont[q]["init"] = "ok"]_vars

\* cluster-init comes to an end, successful or not, whichever pods fail.
ClusterInitEnds == ci = "check" ~> Ended

-----------------------------------------------------------------------------
(* Why they hold: the parts of an inductive invariant *)

\* A pod has a container for each of its commands.
ContainersInv ==
  \A p \in PodNames : pod[p] # "no" =>
    \A c \in OneShot \cap Commands(p[2]) : cont[p][c] # "off"

\* What a container has left on the node when it has come this far.
LeftInv ==
  \A p \in PodNames :
    /\ cont[p]["init"] = "ok" => "pools" \in marks[p[1]]
    /\ cont[p]["install"] = "ok" => "binary" \in marks[p[1]]
    /\ cont[p]["discover"] \in {"taint", "ok"} => "label" \in marks[p[1]]
    /\ cont[p]["discover"] \in {"capacity", "non-isolcpus", "label", "taint", "ok"}
         => "pools" \in marks[p[1]]
    /\ up[p[1]] = "idle" /\ cont[p]["discover"] \in {"non-isolcpus", "label", "taint", "ok"}
         => "capacity" \in marks[p[1]]

\* The hosts waited for so far are prepared, and all of them afterwards.
WaitedInv ==
  /\ ci = "waitPods" => \A i \in 1..(k - 1) : Prepared(Hosts[i])
  /\ ci \in {"createDs", "waitDs", "webhook", "done"} =>
       \A n \in HostSet : Prepared(n)

\* No node's name starts with that of another.
UniqueNames == \A n \in Nodes : NamesWith[n] = {n}

\* A node that nobody has begun to uninstall keeps its pods, and has its pools
\* from the init container of one of them.
OnceInv ==
  \A n \in Nodes : up[n] = "idle" =>
    /\ \A p \in PodNames : p[1] = n => pod[p] # "terminating"
    /\ "pools" \in marks[n] =>
         \E p \in PodNames : p[1] = n /\ pod[p] # "no" /\ cont[p]["init"] = "ok"

\* A bound on the steps that cluster-init still has before it, W at each of the
\* stages and one per host or part.
Stage ==
  [check |-> 6, createPods |-> 5, waitPods |-> 4, createDs |-> 3, waitDs |-> 2,
   webhook |-> 1, done |-> 0, aborted |-> 0][ci]

StepsLeft ==
  LET W == Len(Hosts) + Len(WebhookParts) IN Stage * W + (W - k)

\* Each step of cluster-init brings it nearer to its end.
CiAdvances == [][Ci => StepsLeft' < StepsLeft /\ StepsLeft' \in Nat]_vars

\* A container of pod p has a step before it (the guards of Pod).
Runs(p) ==
  \/ May(p, "init", "run") \/ May(p, "install", "run")
  \/ \E state \in Discovering : May(p, "discover", state)

\* What cluster-init waits for is there: a pod that has ended or that will go on,
\* a daemon set that runs or will. With CiAdvances, why ClusterInitEnds.
NeverInVain ==
  /\ ci = "waitPods" =>
       LET p == ThePod(Hosts[k]) IN Phase(p) \in {"Succeeded", "Failed"} \/ Runs(p)
  /\ ci = "waitDs" => ds[TheDs(Hosts[k])] # "no"

\* Nobody deletes what cluster-init has created while it goes on.
ThereInv ==
  /\ ~Ended => \A n \in Nodes : up[n] \in {"idle", "again"}
  /\ \A p \in PodNames, c \in {"init", "install"} :
        cont[p][c] \in {"off", "run", "ok", "failed"}
  /\ ci = "createPods" => \A i \in 1..(k - 1) : pod[ThePod(Hosts[i])] = "yes"
  /\ ci = "waitPods" => \A n \in HostSet : pod[ThePod(n)] = "yes"
  /\ ci = "createDs" => \A i \in 1..(k - 1) : ds[TheDs(Hosts[i])] # "no"
  /\ ci = "waitDs" => \A n \in HostSet : ds[TheDs(n)] # "no"

ClusterInv ==
  /\ TypeOK /\ ContainersInv /\ LeftInv /\ AdvertisedInOrder
  /\ UniqueNames => WaitedInv

=============================================================================
