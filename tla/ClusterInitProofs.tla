-------------------------- MODULE ClusterInitProofs --------------------------
(***************************************************************************)
(* Proofs about ClusterInit: types, the order in which cluster-init and    *)
(* the pods it creates prepare the nodes, and what its success means, for  *)
(* any nodes, hosts and command lists, with failing calls, repeated runs   *)
(* and uninstalls. What cluster-init waits for depends on the names:       *)
(* UniqueNames is assumed.                                                 *)
(***************************************************************************)
EXTENDS ClusterInit, TLAPS

\* The hosts are nodes, and there is one.
LEMMA HostsFacts ==
  /\ Len(Hosts) \in Nat /\ Len(Hosts) >= 1
  /\ \A i \in 1..Len(Hosts) : Hosts[i] \in HostSet /\ Hosts[i] \in Nodes
  /\ HostSet \subseteq Nodes
BY HostsAssumption DEF HostSet

\* The webhook has five parts.
LEMMA PartsFacts ==
  /\ Len(WebhookParts) = 5
  /\ \A i \in 1..5 : WebhookParts[i] \in
       {"secret", "configmap", "service", "deployment", "config"}
BY DEF WebhookParts

\* A pod's name tells its node and its commands, a daemon set's its node.
LEMMA NamesFacts ==
  /\ cmds \in CmdLists => \A n \in Nodes : ThePod(n) \in PodNames /\ TheDs(n) \in DsNames
  /\ \A n : /\ ThePod(n)[1] = n /\ Commands(ThePod(n)[2]) = InitCmds
            /\ TheDs(n)[1] = n
  /\ \A p \in PodNames : p[1] \in Nodes
  /\ \A d \in DsNames : d[1] \in Nodes
BY DEF PodNames, DsNames, ThePod, TheDs, InitCmds

\* The names stay those of this run as long as its commands do.
LEMMA SameNames ==
  ASSUME cmds' = cmds
  PROVE  /\ InitCmds' = InitCmds /\ StayCmds' = StayCmds
         /\ \A n : ThePod(n)' = ThePod(n) /\ TheDs(n)' = TheDs(n)
BY DEF InitCmds, StayCmds, ThePod, TheDs

\* The states a container can be in.
States == {"off", "ok", "failed"} \cup Discovering

Marks == {"pools", "binary", "capacity", "non-isolcpus", "label", "taint"}

-----------------------------------------------------------------------------
(* Type correctness *)

\* The initial values have their types.
LEMMA InitType == Init => TypeOK
BY HostsFacts DEF Init, TypeOK, NoContainers, OneShot

\* A step of cluster-init keeps the types.
LEMMA CiType ==
  ASSUME TypeOK, Ci \/ CiApiFails \/ Rerun
  PROVE  TypeOK'
<1> USE HostsFacts, PartsFacts
<1> USE DEF nodeVars, Abort, CiGoto, NextHost
<1>1. CASE CheckArgs
  BY <1>1 DEF CheckArgs, TypeOK, AfterPods
<1>2. CASE CreatePod
  <2>1. k \in 1..Len(Hosts) /\ ThePod(Hosts[k]) \in PodNames
    <3>1. k \in 1..Len(Hosts) /\ Hosts[k] \in Nodes
      BY <1>2 DEF CreatePod, TypeOK
    <3>2. cmds \in CmdLists
      BY DEF TypeOK
    <3> QED BY <3>1, <3>2, NamesFacts
  <2>2. pod' \in [PodNames -> {"no", "yes", "terminating"}]
    <3>1. pod' = pod \/ pod' = [pod EXCEPT ![ThePod(Hosts[k])] = "yes"]
      BY <1>2 DEF CreatePod
    <3>2. pod \in [PodNames -> {"no", "yes", "terminating"}]
      BY DEF TypeOK
    <3> QED BY <3>1, <3>2
  <2>3. cont' \in [PodNames -> [OneShot -> States]]
    <3>1. [c \in OneShot |-> IF c \in InitCmds THEN "run" ELSE "off"] \in [OneShot -> States]
      BY DEF States, Discovering
    <3>2. cont \in [PodNames -> [OneShot -> States]]
      BY DEF TypeOK, States
    <3> QED BY <1>2, <2>1, <3>1, <3>2 DEF CreatePod
  <2>4. /\ ci' \in {"createPods", "waitPods", "aborted"}
        /\ k' \in 1..Len(Hosts)
        /\ UNCHANGED <<cmds, runs, webhook, ds, old, marks, up>>
    BY <1>2, <2>1 DEF CreatePod, TypeOK
  <2> QED BY <2>2, <2>3, <2>4 DEF TypeOK, States
<1>3. CASE WaitPod
  BY <1>3 DEF WaitPod, TypeOK, AfterPods
<1>4. CASE WaitPodFails
  BY <1>4 DEF WaitPodFails, TypeOK
<1>5. CASE CreateDs
  <2>1. ds' \in [DsNames -> {"no", "Pending", "Running"}]
    BY <1>5 DEF CreateDs, TypeOK
  <2>2. /\ ci' \in {"createDs", "waitDs", "aborted"}
        /\ k' \in 1..Len(Hosts)
        /\ UNCHANGED <<cmds, runs, webhook, pod, cont, old, marks, up>>
    BY <1>5 DEF CreateDs, TypeOK
  <2> QED BY <2>1, <2>2 DEF TypeOK
<1>6. CASE WaitDs
  BY <1>6 DEF WaitDs, TypeOK
<1>7. CASE DeployWebhook
  <2>1. k \in 1..5 /\ WebhookParts[k] \in
          {"secret", "configmap", "service", "deployment", "config"}
    BY <1>7 DEF DeployWebhook, TypeOK
  <2>2. webhook' \subseteq {"secret", "configmap", "service", "deployment", "config"}
    <3>1. webhook' = webhook \/ webhook' = webhook \cup {WebhookParts[k]}
      BY <1>7 DEF DeployWebhook
    <3>2. webhook \subseteq {"secret", "configmap", "service", "deployment", "config"}
      BY DEF TypeOK
    <3> QED BY <2>1, <3>1, <3>2
  <2>3. \/ ci' = "webhook" /\ k' \in 1..5
        \/ ci' \in {"aborted", "done"} /\ k' = 1
    BY <1>7, <2>1 DEF DeployWebhook, TypeOK
  <2>4. UNCHANGED <<cmds, runs, pod, cont, ds, old, marks, up>>
    BY <1>7 DEF DeployWebhook
  <2>5. k' \in 1 .. (IF ci' = "webhook" THEN Len(WebhookParts) ELSE Len(Hosts))
    BY <2>3
  <2> QED BY <1>7, <2>2, <2>4, <2>5, <2>3 DEF TypeOK
<1>8. CASE CiApiFails
  BY <1>8 DEF CiApiFails, TypeOK
<1>9. CASE Rerun
  BY <1>9 DEF Rerun, TypeOK
<1> QED BY <1>1, <1>2, <1>3, <1>4, <1>5, <1>6, <1>7, <1>8, <1>9 DEF Ci

\* A step of a container keeps the types.
LEMMA BecomesType ==
  ASSUME TypeOK, NEW p \in PodNames, NEW c \in OneShot, NEW state \in States,
         NEW given \in SUBSET Marks, Becomes(p, c, state, given)
  PROVE  TypeOK'
<1>1. marks' \in [Nodes -> SUBSET Marks]
  BY NamesFacts DEF Becomes, TypeOK, Marks
<1>2. cont' \in [PodNames -> [OneShot -> States]]
  <2>1. cont \in [PodNames -> [OneShot -> States]]
    BY DEF TypeOK, States
  <2>2. [cont[p] EXCEPT ![c] = state] \in [OneShot -> States]
    BY <2>1
  <2>3. cont' = [cont EXCEPT ![p] = [cont[p] EXCEPT ![c] = state]]
    BY DEF Becomes
  <2> QED BY <2>1, <2>2, <2>3
<1> QED BY <1>1, <1>2 DEF Becomes, ciVars, TypeOK, States, Marks

\* A step of a pod or of a daemon set keeps the types.
LEMMA PodType ==
  ASSUME TypeOK, NEW p \in PodNames, Pod(p) \/ DiscoverApiFails(p) \/ Terminated(p)
  PROVE  TypeOK'
<1> USE BecomesType DEF OneShot, States, Marks, Discovering
<1>1. CASE RunInit(p) \/ RunInstall(p)
  BY <1>1 DEF RunInit, RunInstall
<1>2. CASE DiscoverPools(p)
  BY <1>2 DEF DiscoverPools
<1>3. CASE PatchCapacity(p) \/ PatchNonIsolcpus(p)
  BY <1>3 DEF PatchCapacity, PatchNonIsolcpus
<1>4. CASE PatchLabel(p) \/ PatchTaint(p)
  BY <1>4 DEF PatchLabel, PatchTaint
<1>5. CASE DiscoverApiFails(p)
  BY <1>5 DEF DiscoverApiFails
<1>6. CASE Terminated(p)
  BY <1>6 DEF Terminated, NoContainers, TypeOK, ciVars
<1> QED BY <1>1, <1>2, <1>3, <1>4, <1>5, <1>6 DEF Pod

LEMMA DsType ==
  ASSUME TypeOK, NEW d \in DsNames, DsStarts(d) \/ OldTerminated(d)
  PROVE  TypeOK'
BY DEF DsStarts, OldTerminated, TypeOK, ciVars

\* A step of uninstall keeps the types.
LEMMA UninstallType ==
  ASSUME TypeOK, NEW n \in Nodes, Uninstall(n)
  PROVE  TypeOK'
<1> USE DEF ciVars, nodeVars, TypeOK, UpGoto
<1>1. CASE \/ StartUninstall(n) \/ RemoveTaintFails(n) \/ RemoveConf(n)
           \/ UninstallApiFails(n)
  BY <1>1 DEF StartUninstall, RemoveTaintFails, RemoveConf, UninstallApiFails
<1>2. CASE DeletePod(n)
  BY <1>2 DEF DeletePod
<1>3. CASE DeleteDs(n)
  BY <1>3 DEF DeleteDs
<1>4. CASE RemoveTaint(n) \/ RemoveCapacity(n)
  <2>1. marks' \in [Nodes -> SUBSET Marks]
    BY <1>4 DEF RemoveTaint, RemoveCapacity, Marks
  <2> QED BY <1>4, <2>1 DEF RemoveTaint, RemoveCapacity, Marks
<1> QED BY <1>1, <1>2, <1>3, <1>4 DEF Uninstall

\* Every step keeps the types.
LEMMA NextType == TypeOK /\ [Next]_vars => TypeOK'
<1> SUFFICES ASSUME TypeOK, [Next]_vars PROVE TypeOK'
  OBVIOUS
<1>1. CASE UNCHANGED vars
  BY <1>1 DEF vars, TypeOK
<1>2. CASE Next
  BY <1>2, CiType, PodType, DsType, UninstallType, BoundsAssumption DEF Next
<1> QED BY <1>1, <1>2

\* cluster-init's place and counters, the pods and what nodes were given keep
\* their types (all of ClusterInit).
THEOREM ClusterTypeCorrect == Spec => []TypeOK
BY InitType, NextType, PTL DEF Spec

-----------------------------------------------------------------------------
(* What the actions change *)

\* A pod that is created is new, and its containers have not run.
LEMMA CreatePodEffect ==
  ASSUME TypeOK, CreatePod
  PROVE  /\ ci = "createPods" /\ k \in 1..Len(Hosts)
         /\ Hosts[k] \in HostSet /\ Hosts[k] \in Nodes /\ ThePod(Hosts[k]) \in PodNames
         /\ UNCHANGED <<cmds, runs, webhook, ds, old, marks, up>>
         /\ \/ Abort /\ UNCHANGED <<pod, cont>>
            \/ /\ pod[ThePod(Hosts[k])] = "no"
               /\ pod'[ThePod(Hosts[k])] = "yes"
               /\ cont'[ThePod(Hosts[k])] =
                    [c \in OneShot |-> IF c \in InitCmds THEN "run" ELSE "off"]
               /\ \A p \in PodNames \ {ThePod(Hosts[k])} :
                    pod'[p] = pod[p] /\ cont'[p] = cont[p]
               /\ NextHost("waitPods")
<1>1. ci = "createPods" /\ k \in 1..Len(Hosts)
  BY DEF CreatePod, TypeOK
<1>2. Hosts[k] \in HostSet /\ Hosts[k] \in Nodes /\ ThePod(Hosts[k]) \in PodNames
  <2>1. Hosts[k] \in HostSet /\ Hosts[k] \in Nodes
    BY <1>1, HostsFacts
  <2> QED BY <2>1, NamesFacts DEF TypeOK
<1> QED BY <1>1, <1>2 DEF CreatePod, TypeOK, Abort, NextHost, CiGoto

\* A daemon set that is created is new.
LEMMA CreateDsEffect ==
  ASSUME TypeOK, CreateDs
  PROVE  /\ ci = "createDs" /\ k \in 1..Len(Hosts)
         /\ Hosts[k] \in HostSet /\ Hosts[k] \in Nodes /\ TheDs(Hosts[k]) \in DsNames
         /\ UNCHANGED <<cmds, runs, webhook, pod, cont, old, marks, up>>
         /\ \/ Abort /\ UNCHANGED ds
            \/ /\ ds[TheDs(Hosts[k])] = "no"
               /\ ds'[TheDs(Hosts[k])] = "Pending"
               /\ \A d \in DsNames \ {TheDs(Hosts[k])} : ds'[d] = ds[d]
               /\ NextHost("waitDs")
<1>1. ci = "createDs" /\ k \in 1..Len(Hosts)
  BY DEF CreateDs, TypeOK
<1>2. Hosts[k] \in HostSet /\ Hosts[k] \in Nodes /\ TheDs(Hosts[k]) \in DsNames
  <2>1. Hosts[k] \in HostSet /\ Hosts[k] \in Nodes
    BY <1>1, HostsFacts
  <2> QED BY <2>1, NamesFacts DEF TypeOK
<1> QED BY <1>1, <1>2 DEF CreateDs, TypeOK, Abort, NextHost, CiGoto

\* The other steps of cluster-init leave the pods and daemon sets alone, and no
\* step of it touches the nodes; only a rerun changes its commands.
LEMMA CiEffect ==
  ASSUME TypeOK, Ci \/ CiApiFails \/ Rerun
  PROVE  /\ UNCHANGED <<old, marks>>
         /\ CreatePod \/ UNCHANGED <<pod, cont>>
         /\ CreateDs \/ UNCHANGED ds
         /\ \A n \in Nodes : up'[n] = "idle" => up[n] = "idle"
         /\ Rerun \/ UNCHANGED <<cmds, up>>
<1> USE DEF nodeVars, Abort, CiGoto, NextHost
<1>1. CASE CheckArgs \/ WaitPod \/ WaitPodFails
  BY <1>1 DEF CheckArgs, WaitPod, WaitPodFails
<1>2. CASE WaitDs \/ DeployWebhook \/ CiApiFails
  BY <1>2 DEF WaitDs, DeployWebhook, CiApiFails
<1>3. CASE CreatePod
  BY <1>3, CreatePodEffect
<1>4. CASE CreateDs
  BY <1>4, CreateDsEffect
<1>5. CASE Rerun
  BY <1>5 DEF Rerun, TypeOK
<1> QED BY <1>1, <1>2, <1>3, <1>4, <1>5 DEF Ci

\* A container that goes on to a state adds to its node, and nothing else.
LEMMA BecomesEffect ==
  ASSUME TypeOK, NEW p \in PodNames, NEW c \in OneShot, NEW state, NEW given,
         Becomes(p, c, state, given)
  PROVE  /\ UNCHANGED <<cmds, ci, k, runs, webhook, pod, ds, old, up>>
         /\ cont'[p][c] = state
         /\ \A q \in PodNames, d \in OneShot :
              ~(q = p /\ d = c) => cont'[q][d] = cont[q][d]
         /\ p[1] \in Nodes /\ marks'[p[1]] = marks[p[1]] \cup given
         /\ \A n \in Nodes : n # p[1] => marks'[n] = marks[n]
         /\ \A n \in Nodes : marks[n] \subseteq marks'[n]
BY NamesFacts DEF Becomes, TypeOK, ciVars

\* A pod whose grace period is over is gone, with its containers.
LEMMA TerminatedEffect ==
  ASSUME TypeOK, NEW p \in PodNames, Terminated(p)
  PROVE  /\ UNCHANGED <<cmds, ci, k, runs, webhook, ds, old, marks, up>>
         /\ pod[p] = "terminating" /\ pod'[p] = "no" /\ cont'[p] = NoContainers
         /\ \A q \in PodNames : q # p => pod'[q] = pod[q] /\ cont'[q] = cont[q]
BY DEF Terminated, TypeOK, ciVars

\* uninstall removes neither pools nor binary nor label, deletes only what is
\* named after its node, and starts only when cluster-init has ended.
LEMMA UninstallEffect ==
  ASSUME TypeOK, NEW n \in Nodes, Uninstall(n)
  PROVE  /\ UNCHANGED <<cmds, ci, k, runs, webhook, cont>>
         /\ up[n] \in {"idle", "again"} => Ended
         /\ up'[n] \notin {"idle", "again"}
         /\ \A m \in Nodes : m # n => up'[m] = up[m] /\ marks'[m] = marks[m]
         /\ marks'[n] \subseteq marks[n]
         /\ marks[n] \ {"taint", "capacity"} \subseteq marks'[n]
         /\ \A p \in PodNames : /\ p[1] # n => pod'[p] = pod[p]
                                /\ pod[p] = "no" => pod'[p] = "no"
                                /\ pod'[p] = "no" => pod[p] = "no"
         /\ \A d \in DsNames : /\ d[1] # n => ds'[d] = ds[d]
                               /\ ds[d] = "no" => ds'[d] = "no"
         /\ \A d \in old' : d \in old \/ d[1] = n
<1> USE DEF UpGoto, ciVars, nodeVars, TypeOK
<1>1. CASE StartUninstall(n)
  BY <1>1 DEF StartUninstall
<1>2. CASE RemoveTaintFails(n) \/ RemoveConf(n) \/ UninstallApiFails(n)
  BY <1>2 DEF RemoveTaintFails, RemoveConf, UninstallApiFails
<1>3. CASE DeletePod(n)
  BY <1>3 DEF DeletePod, KnownPod
<1>4. CASE DeleteDs(n)
  BY <1>4 DEF DeleteDs, KnownDs
<1>5. CASE RemoveTaint(n)
  BY <1>5 DEF RemoveTaint
<1>6. CASE RemoveCapacity(n)
  BY <1>6 DEF RemoveCapacity
<1> QED BY <1>1, <1>2, <1>3, <1>4, <1>5, <1>6 DEF Uninstall

-----------------------------------------------------------------------------
(* What the nodes are given *)

\* A succeeded pod has all its containers ended well.
LEMMA SucceededFinished ==
  ASSUME ContainersInv, NEW p \in PodNames, Phase(p) = "Succeeded"
  PROVE  \A c \in OneShot \cap Commands(p[2]) : cont[p][c] = "ok"
<1>1. /\ pod[p] # "no"
      /\ \A c \in OneShot : cont[p][c] \in {"off", "ok"}
  BY DEF Phase
<1> QED BY <1>1 DEF ContainersInv

\* A succeeded pod has prepared its node.
LEMMA SucceededPrepared ==
  ASSUME TypeOK, ContainersInv, LeftInv, NEW n \in Nodes, Phase(ThePod(n)) = "Succeeded"
  PROVE  Prepared(n)
<1> DEFINE p == ThePod(n)
<1>1. p \in PodNames /\ p[1] = n /\ Commands(p[2]) = InitCmds
  BY NamesFacts DEF TypeOK
<1> HIDE DEF p
<1>2. \A c \in OneShot \cap InitCmds : cont[p][c] = "ok"
  <2>1. Phase(p) = "Succeeded"
    BY DEF p
  <2> QED BY <1>1, <2>1, SucceededFinished
<1> QED BY <1>1, <1>2 DEF Prepared, LeftInv, OneShot

\* A step of cluster-init leaves the containers as they are, or not yet run.
LEMMA CiContainers ==
  ASSUME ClusterInv, Ci \/ CiApiFails \/ Rerun
  PROVE  ContainersInv' /\ LeftInv'
<1>1. TypeOK /\ ContainersInv /\ LeftInv
  BY DEF ClusterInv
<1>2. UNCHANGED marks /\ \A n \in Nodes : up'[n] = "idle" => up[n] = "idle"
  BY <1>1, CiEffect
<1>3. CASE UNCHANGED <<pod, cont>>
  BY <1>1, <1>2, <1>3, NamesFacts DEF ContainersInv, LeftInv
<1>4. CASE CreatePod /\ ~UNCHANGED <<pod, cont>>
  <2> DEFINE p == ThePod(Hosts[k])
  <2>1. p \in PodNames /\ Commands(p[2]) = InitCmds
    BY <1>1, <1>4, CreatePodEffect, NamesFacts
  <2>2. /\ \A c \in OneShot : cont'[p][c] = IF c \in InitCmds THEN "run" ELSE "off"
        /\ \A q \in PodNames \ {p} : pod'[q] = pod[q] /\ cont'[q] = cont[q]
    BY <1>1, <1>4, CreatePodEffect
  <2> HIDE DEF p
  <2>3. ContainersInv'
    BY <1>1, <2>1, <2>2 DEF ContainersInv
  <2>4. LeftInv'
    <3>1. \A q \in PodNames, c \in OneShot :
            cont'[q][c] = cont[q][c] \/ cont'[q][c] \in {"run", "off"}
      BY <2>2
    <3> QED BY <1>1, <1>2, <3>1, NamesFacts DEF LeftInv, OneShot
  <2> QED BY <2>3, <2>4
<1> QED BY <1>1, <1>3, <1>4, CiEffect

\* cluster-init passes a host when the pod of its commands has succeeded there.
LEMMA CiStep ==
  ASSUME ClusterInv, Ci \/ CiApiFails \/ Rerun
  PROVE  ClusterInv'
<1> USE HostsFacts, PartsFacts
<1> USE DEF nodeVars, Abort, CiGoto, NextHost
<1>1. TypeOK' /\ ContainersInv' /\ LeftInv'
  BY CiType, CiContainers DEF ClusterInv
<1>2. /\ marks' = marks
      /\ \A n \in Nodes : up'[n] = "idle" => up[n] = "idle"
  BY CiEffect DEF ClusterInv
<1>3. cmds' = cmds => \A n : Prepared(n)' <=> Prepared(n)
  BY <1>2, SameNames DEF Prepared
<1>4. AdvertisedInOrder'
  BY <1>2 DEF AdvertisedInOrder, ClusterInv
<1>5. ASSUME UniqueNames PROVE WaitedInv'
  <2> USE <1>3, <1>5 DEF WaitedInv, ClusterInv, TypeOK
  <2>1. CASE CheckArgs
    <3>1. InitCmds = {} => \A n : Prepared(n)
      BY DEF Prepared
    <3> QED BY <2>1, <3>1 DEF CheckArgs, AfterPods
  <2>2. CASE CreatePod
    BY <2>2 DEF CreatePod
  <2>3. CASE WaitPod
    <3>1. Prepared(Hosts[k])
      <4>1. k \in 1..Len(Hosts) /\ Hosts[k] \in Nodes
        BY <2>3 DEF WaitPod
      <4> QED BY <2>3, <4>1, SucceededPrepared DEF WaitPod, UniqueNames
    <3>2. \A i \in 1..k : Prepared(Hosts[i])
      BY <2>3, <3>1 DEF WaitPod
    <3>3. CASE k < Len(Hosts)
      BY <2>3, <3>2, <3>3 DEF WaitPod
    <3>4. CASE ~(k < Len(Hosts))
      <4>1. k = Len(Hosts)
        BY <2>3, <3>4 DEF WaitPod
      <4>2. \A n \in HostSet : Prepared(n)
        BY <3>2, <4>1 DEF HostSet
      <4> QED BY <2>3, <3>4, <4>2 DEF WaitPod, AfterPods
    <3> QED BY <3>3, <3>4
  <2>4. CASE CreateDs
    BY <2>4 DEF CreateDs
  <2>5. CASE WaitDs
    BY <2>5 DEF WaitDs
  <2>6. CASE DeployWebhook
    BY <2>6 DEF DeployWebhook
  <2>7. CASE WaitPodFails \/ CiApiFails \/ Rerun
    BY <2>7 DEF WaitPodFails, CiApiFails, Rerun
  <2> QED BY <2>1, <2>2, <2>3, <2>4, <2>5, <2>6, <2>7 DEF Ci
<1> QED BY <1>1, <1>4, <1>5 DEF ClusterInv

\* A step that leaves cluster-init where it is and takes nothing of what the
\* commands leave for good keeps what has been waited for.
LEMMA NodesStayPrepared ==
  ASSUME ClusterInv, UNCHANGED <<cmds, ci, k>>,
         \A n \in Nodes : marks[n] \ {"taint", "capacity"} \subseteq marks'[n]
  PROVE  UniqueNames => WaitedInv'
<1>1. \A n \in Nodes : Prepared(n) => Prepared(n)'
  BY SameNames DEF Prepared
<1>2. \A i \in 1..Len(Hosts) : Hosts[i] \in Nodes
  BY HostsFacts
<1>3. HostSet \subseteq Nodes
  BY HostsFacts
<1>4. ci = "waitPods" => k \in 1..Len(Hosts)
  BY DEF ClusterInv, TypeOK
<1> QED BY <1>1, <1>2, <1>3, <1>4, HostsFacts DEF WaitedInv, ClusterInv

\* A step of a container that only adds to the node, and what it has left
\* there and what the node advertises is in order.
LEMMA ContainerStep ==
  ASSUME ClusterInv, NEW p \in PodNames, NEW c \in OneShot, NEW state \in States,
         NEW given \in SUBSET Marks, Becomes(p, c, state, given), state # "off",
         LeftInv', AdvertisedInOrder'
  PROVE  ClusterInv'
<1>1. TypeOK /\ TypeOK'
  BY BecomesType DEF ClusterInv
<1>2. /\ UNCHANGED <<cmds, ci, k, pod>>
      /\ \A q \in PodNames, d \in OneShot :
           cont'[q][d] = cont[q][d] \/ cont'[q][d] = state
      /\ \A n \in Nodes : marks[n] \subseteq marks'[n]
  BY <1>1, BecomesEffect
<1>3. ContainersInv'
  BY <1>2 DEF ContainersInv, ClusterInv
<1>4. UniqueNames => WaitedInv'
  BY <1>2, NodesStayPrepared
<1> QED BY <1>1, <1>3, <1>4 DEF ClusterInv

\* A container of a pod of a node leaves there what LeftInv says, in order.
LEMMA ContainerLeaves ==
  ASSUME ClusterInv, NEW p \in PodNames, NEW c \in OneShot, NEW state \in States,
         NEW given \in SUBSET Marks, Becomes(p, c, state, given), state # "off",
         c = "init" => given \subseteq {"pools"} /\ (state = "ok" => "pools" \in given),
         c = "install" => given \subseteq {"binary"} /\ (state = "ok" => "binary" \in given),
         c = "discover" =>
           /\ "pools" \notin given /\ "binary" \notin given
           /\ state # "failed" => "pools" \in marks[p[1]]
           /\ given # {} => "pools" \in marks[p[1]]
           /\ state \in {"taint", "ok"} => "label" \in marks[p[1]] \cup given
           /\ up[p[1]] = "idle" =>
                /\ state \in {"non-isolcpus", "label", "taint", "ok"} =>
                     "capacity" \in marks[p[1]] \cup given
                /\ "taint" \in given => "label" \in marks[p[1]]
                /\ "label" \in given => "capacity" \in marks[p[1]]
  PROVE  ClusterInv'
<1>1. TypeOK /\ LeftInv /\ AdvertisedInOrder
  BY DEF ClusterInv
<1>2. /\ UNCHANGED up /\ cont'[p][c] = state
      /\ \A q \in PodNames, d \in OneShot :
           ~(q = p /\ d = c) => cont'[q][d] = cont[q][d]
      /\ p[1] \in Nodes /\ marks'[p[1]] = marks[p[1]] \cup given
      /\ \A n \in Nodes : n # p[1] => marks'[n] = marks[n]
      /\ \A n \in Nodes : marks[n] \subseteq marks'[n]
  BY <1>1, BecomesEffect
<1>3. LeftInv'
  <2>1. SUFFICES ASSUME NEW q \in PodNames
        PROVE  /\ cont'[q]["init"] = "ok" => "pools" \in marks'[q[1]]
               /\ cont'[q]["install"] = "ok" => "binary" \in marks'[q[1]]
               /\ cont'[q]["discover"] \in {"taint", "ok"} => "label" \in marks'[q[1]]
               /\ cont'[q]["discover"] \in
                    {"capacity", "non-isolcpus", "label", "taint", "ok"}
                    => "pools" \in marks'[q[1]]
               /\ up'[q[1]] = "idle" /\ cont'[q]["discover"] \in
                    {"non-isolcpus", "label", "taint", "ok"}
                    => "capacity" \in marks'[q[1]]
    BY DEF LeftInv
  <2>2. q[1] \in Nodes
    BY NamesFacts
  <2>3. CASE q # p
    BY <1>1, <1>2, <2>2, <2>3 DEF LeftInv, OneShot
  <2>4. CASE q = p /\ c = "init"
    BY <1>1, <1>2, <2>2, <2>4 DEF LeftInv, OneShot
  <2>5. CASE q = p /\ c = "install"
    BY <1>1, <1>2, <2>2, <2>5 DEF LeftInv, OneShot
  <2>6. CASE q = p /\ c = "discover"
    BY <1>1, <1>2, <2>2, <2>6 DEF LeftInv, OneShot
  <2> QED BY <2>3, <2>4, <2>5, <2>6 DEF OneShot
<1>4. AdvertisedInOrder'
  <2>1. CASE c = "init" \/ c = "install"
    BY <1>1, <1>2, <2>1 DEF AdvertisedInOrder
  <2>2. CASE c = "discover"
    BY <1>1, <1>2, <2>2 DEF AdvertisedInOrder
  <2> QED BY <2>1, <2>2 DEF OneShot
<1> QED BY <1>3, <1>4, ContainerStep

\* The steps of a pod.
LEMMA PodStep ==
  ASSUME ClusterInv, NEW p \in PodNames, Pod(p) \/ DiscoverApiFails(p) \/ Terminated(p)
  PROVE  ClusterInv'
<1> USE DEF OneShot, States, Marks, Discovering
<1>1. LeftInv /\ p[1] \in Nodes
  BY NamesFacts DEF ClusterInv
<1>2. CASE RunInit(p) \/ RunInstall(p)
  BY <1>2, ContainerLeaves DEF RunInit, RunInstall
<1>3. CASE DiscoverPools(p)
  BY <1>3, ContainerLeaves DEF DiscoverPools
<1>4. CASE PatchCapacity(p)
  BY <1>1, <1>4, ContainerLeaves DEF PatchCapacity, May, LeftInv
<1>5. CASE PatchNonIsolcpus(p)
  BY <1>1, <1>5, ContainerLeaves DEF PatchNonIsolcpus, May, LeftInv
<1>6. CASE PatchLabel(p)
  BY <1>1, <1>6, ContainerLeaves DEF PatchLabel, May, LeftInv
<1>7. CASE PatchTaint(p)
  BY <1>1, <1>7, ContainerLeaves DEF PatchTaint, May, LeftInv
<1>8. CASE DiscoverApiFails(p)
  BY <1>8, ContainerLeaves DEF DiscoverApiFails
<1>9. CASE Terminated(p)
  <2>1. TypeOK /\ TypeOK'
    BY <1>9, PodType DEF ClusterInv
  <2>2. /\ UNCHANGED <<cmds, ci, k, marks, up>> /\ pod'[p] = "no"
        /\ \A c \in OneShot : cont'[p][c] = "off"
        /\ \A q \in PodNames : q # p => pod'[q] = pod[q] /\ cont'[q] = cont[q]
    BY <1>9, <2>1, TerminatedEffect DEF NoContainers
  <2>3. ContainersInv' /\ LeftInv'
    <3>1. ContainersInv'
      BY <2>2 DEF ContainersInv, ClusterInv
    <3>2. LeftInv'
      BY <1>1, <2>2 DEF LeftInv
    <3> QED BY <3>1, <3>2
  <2>4. AdvertisedInOrder' /\ (UniqueNames => WaitedInv')
    BY <2>2, NodesStayPrepared DEF AdvertisedInOrder, ClusterInv
  <2> QED BY <2>1, <2>3, <2>4 DEF ClusterInv
<1> QED BY <1>2, <1>3, <1>4, <1>5, <1>6, <1>7, <1>8, <1>9 DEF Pod

\* The steps of a daemon set leave pods and nodes alone.
LEMMA DsStep ==
  ASSUME ClusterInv, NEW d \in DsNames, DsStarts(d) \/ OldTerminated(d)
  PROVE  ClusterInv'
<1>1. TypeOK'
  BY DsType DEF ClusterInv
<1>2. UNCHANGED <<cmds, ci, k, pod, cont, marks, up>>
  BY DEF DsStarts, OldTerminated, ciVars
<1>3. ContainersInv' /\ LeftInv' /\ AdvertisedInOrder'
  BY <1>2 DEF ClusterInv, ContainersInv, LeftInv, AdvertisedInOrder
<1>4. UniqueNames => WaitedInv'
  BY <1>2, NodesStayPrepared
<1> QED BY <1>1, <1>3, <1>4 DEF ClusterInv

\* uninstall removes no pools, binary or label, and touches only its own nodes.
LEMMA UninstallStep ==
  ASSUME ClusterInv, NEW n \in Uninstalls, Uninstall(n)
  PROVE  ClusterInv'
<1>1. TypeOK /\ TypeOK' /\ LeftInv /\ AdvertisedInOrder /\ n \in Nodes
  BY UninstallType, BoundsAssumption DEF ClusterInv
<1>2. /\ UNCHANGED <<cmds, ci, k, cont>>
      /\ \A p \in PodNames : pod'[p] # "no" => pod[p] # "no"
      /\ \A m \in Nodes : marks'[m] \subseteq marks[m]
      /\ \A m \in Nodes : marks[m] \ {"taint", "capacity"} \subseteq marks'[m]
      /\ \A m \in Nodes : up'[m] = "idle" => up[m] = "idle" /\ marks'[m] = marks[m]
  BY <1>1, UninstallEffect
<1>3. ContainersInv'
  BY <1>2 DEF ContainersInv, ClusterInv
<1>4. LeftInv'
  BY <1>1, <1>2, NamesFacts DEF LeftInv
<1>5. AdvertisedInOrder'
  BY <1>1, <1>2 DEF AdvertisedInOrder
<1>6. UniqueNames => WaitedInv'
  BY <1>2, NodesStayPrepared
<1> QED BY <1>1, <1>3, <1>4, <1>5, <1>6 DEF ClusterInv

\* Nothing has been done at first.
LEMMA InitInv == Init => ClusterInv
<1> SUFFICES ASSUME Init PROVE ClusterInv
  OBVIOUS
<1>1. TypeOK
  BY InitType
<1>2. ContainersInv /\ AdvertisedInOrder /\ WaitedInv
  BY DEF Init, ContainersInv, AdvertisedInOrder, WaitedInv
<1>3. LeftInv
  BY DEF Init, LeftInv, NoContainers, OneShot
<1> QED BY <1>1, <1>2, <1>3 DEF ClusterInv

\* The invariant is inductive.
LEMMA NextInv == ClusterInv /\ [Next]_vars => ClusterInv'
<1> SUFFICES ASSUME ClusterInv, [Next]_vars PROVE ClusterInv'
  OBVIOUS
<1>1. CASE UNCHANGED vars
  <2>1. UniqueNames => WaitedInv'
    BY <1>1, NodesStayPrepared DEF vars
  <2> QED BY <1>1, <2>1 DEF vars, ClusterInv, TypeOK, ContainersInv, LeftInv,
     AdvertisedInOrder
<1>2. CASE Next
  BY <1>2, CiStep, PodStep, DsStep, UninstallStep DEF Next
<1> QED BY <1>1, <1>2

\* The invariant (all of ClusterInit).
THEOREM ClusterInvariant == Spec => []ClusterInv
BY InitInv, NextInv, PTL DEF Spec

\* "It waits for the pods to go into a pod phase" (intel/clusterinit.py): a
\* cluster-init creates no daemons and no webhook before every host is prepared,
\* for any hosts and commands, with failures, uninstalls, and earlier runs of
\* the same commands or others, unless a name starts with another's.
THEOREM DaemonsWait == ASSUME UniqueNames PROVE Spec => DaemonsAfterPools
<1>1. ClusterInv /\ [Next]_vars =>
        [(\E d \in DsNames : ds[d] = "no" /\ ds'[d] # "no") \/ webhook' # webhook
           => \A n \in HostSet : Prepared(n)]_vars
  <2> SUFFICES ASSUME ClusterInv, Next,
                      (\E d \in DsNames : ds[d] = "no" /\ ds'[d] # "no")
                        \/ webhook' # webhook
               PROVE  \A n \in HostSet : Prepared(n)
    OBVIOUS
  <2>1. ci \in {"createDs", "webhook"}
    <3>1. TypeOK
      BY DEF ClusterInv
    <3>2. CASE Ci \/ CiApiFails \/ Rerun
      BY <3>1, <3>2, CiEffect DEF Ci, CheckArgs, CreatePod, WaitPod, WaitPodFails,
         CreateDs, WaitDs, DeployWebhook, CiApiFails, Rerun
    <3>3. CASE \E p \in PodNames : Pod(p) \/ DiscoverApiFails(p) \/ Terminated(p)
      BY <3>3 DEF Pod, RunInit, RunInstall, DiscoverPools, PatchCapacity,
         PatchNonIsolcpus, PatchLabel, PatchTaint, DiscoverApiFails, Terminated,
         Becomes, ciVars
    <3>4. CASE \E d \in DsNames : DsStarts(d) \/ OldTerminated(d)
      BY <3>1, <3>4 DEF DsStarts, OldTerminated, ciVars, TypeOK
    <3>5. CASE \E n \in Uninstalls : Uninstall(n)
      BY <3>1, <3>5, UninstallEffect, BoundsAssumption
    <3> QED BY <3>2, <3>3, <3>4, <3>5 DEF Next
  <2> QED BY <2>1 DEF ClusterInv, WaitedInv
<1> QED BY <1>1, ClusterInvariant, PTL DEF Spec, DaemonsAfterPools

\* cmk discover advertises a node only when its pools exist, and in order,
\* whatever the nodes are called.
THEOREM NodesAdvertisedInOrder == Spec => []AdvertisedInOrder
<1>1. ClusterInv => AdvertisedInOrder
  BY DEF ClusterInv
<1> QED BY <1>1, ClusterInvariant, PTL

-----------------------------------------------------------------------------
(* Pools are given once *)

\* A node whose pods stay, and whose giver of pools has given them, keeps both.
LEMMA OnceKept ==
  ASSUME OnceInv,
         \A n \in Nodes : up'[n] = "idle" =>
           /\ up[n] = "idle"
           /\ "pools" \in marks'[n] => "pools" \in marks[n]
           /\ \A p \in PodNames : p[1] = n =>
                /\ pod'[p] = "terminating" => pod[p] = "terminating"
                /\ pod[p] # "no" /\ cont[p]["init"] = "ok" =>
                     pod'[p] # "no" /\ cont'[p]["init"] = "ok"
  PROVE  OnceInv'
BY DEF OnceInv

\* A step of cluster-init creates a pod only where there is none.
LEMMA CiOnce ==
  ASSUME TypeOK, OnceInv, Ci \/ CiApiFails \/ Rerun
  PROVE  OnceInv'
<1>1. UNCHANGED marks /\ \A n \in Nodes : up'[n] = "idle" => up[n] = "idle"
  BY CiEffect
<1>2. \A p \in PodNames : \/ pod'[p] = pod[p] /\ cont'[p] = cont[p]
                          \/ pod[p] = "no" /\ pod'[p] = "yes"
  <2>1. CASE UNCHANGED <<pod, cont>>
    BY <2>1
  <2>2. CASE CreatePod
    BY <2>2, CreatePodEffect
  <2> QED BY <2>1, <2>2, CiEffect
<1> QED BY <1>1, <1>2, OnceKept

\* No container comes from "ok" to another state, and only init gives pools.
LEMMA ContainerOnce ==
  ASSUME TypeOK, OnceInv, NEW p \in PodNames, NEW c \in OneShot, NEW state,
         NEW given, Becomes(p, c, state, given), pod[p] # "no", cont[p][c] # "ok",
         "pools" \in given => c = "init" /\ state = "ok"
  PROVE  OnceInv'
<1>1. /\ UNCHANGED <<up, pod>> /\ cont'[p][c] = state
      /\ \A q \in PodNames, d \in OneShot :
           ~(q = p /\ d = c) => cont'[q][d] = cont[q][d]
      /\ p[1] \in Nodes /\ marks'[p[1]] = marks[p[1]] \cup given
      /\ \A n \in Nodes : n # p[1] => marks'[n] = marks[n]
  BY BecomesEffect
<1>2. \A q \in PodNames : cont[q]["init"] = "ok" => cont'[q]["init"] = "ok"
  BY <1>1 DEF OneShot
<1>3. CASE "pools" \notin given
  <2>1. \A n \in Nodes : "pools" \in marks'[n] => "pools" \in marks[n]
    BY <1>1, <1>3
  <2> QED BY <1>1, <1>2, <2>1, OnceKept
<1>4. CASE "pools" \in given
  <2>1. pod'[p] # "no" /\ cont'[p]["init"] = "ok"
    BY <1>1, <1>4
  <2>2. SUFFICES ASSUME NEW n \in Nodes, up'[n] = "idle"
        PROVE  /\ \A q \in PodNames : q[1] = n => pod'[q] # "terminating"
               /\ "pools" \in marks'[n] =>
                    \E q \in PodNames : q[1] = n /\ pod'[q] # "no" /\ cont'[q]["init"] = "ok"
    BY DEF OnceInv
  <2>3. CASE n = p[1]
    BY <1>1, <2>1, <2>2, <2>3 DEF OnceInv
  <2>4. CASE n # p[1]
    BY <1>1, <1>2, <2>2, <2>4 DEF OnceInv
  <2> QED BY <2>3, <2>4
<1> QED BY <1>3, <1>4

\* A pod comes to its end only when uninstall has deleted it.
LEMMA PodOnce ==
  ASSUME TypeOK, OnceInv, NEW p \in PodNames,
         Pod(p) \/ DiscoverApiFails(p) \/ Terminated(p)
  PROVE  OnceInv'
<1> USE DEF OneShot
<1>1. CASE RunInit(p) \/ RunInstall(p)
  BY <1>1, ContainerOnce DEF RunInit, RunInstall, May
<1>2. CASE DiscoverPools(p)
  BY <1>2, ContainerOnce DEF DiscoverPools, May
<1>3. CASE PatchCapacity(p) \/ PatchNonIsolcpus(p) \/ PatchLabel(p) \/ PatchTaint(p)
  BY <1>3, ContainerOnce DEF PatchCapacity, PatchNonIsolcpus, PatchLabel, PatchTaint, May
<1>4. CASE DiscoverApiFails(p)
  BY <1>4, ContainerOnce DEF DiscoverApiFails, May, Discovering
<1>5. CASE Terminated(p)
  <2>1. /\ UNCHANGED <<up, marks>> /\ pod[p] = "terminating" /\ pod'[p] = "no"
        /\ \A q \in PodNames : q # p => pod'[q] = pod[q] /\ cont'[q] = cont[q]
    BY <1>5, TerminatedEffect
  <2>2. p[1] \in Nodes /\ up[p[1]] # "idle"
    BY <2>1, NamesFacts DEF OnceInv
  <2> QED BY <2>1, <2>2, OnceKept
<1> QED BY <1>1, <1>2, <1>3, <1>4, <1>5 DEF Pod

\* While nobody uninstalls a node, no command list gives it pools twice, however
\* often cluster-init is run: only the pod of another list, which the names do
\* not stop, initialises a node again (CreatePod, RunInit).
THEOREM PoolsAreGivenOnce == Spec => PoolsGivenOnce
<1>1. Init => OnceInv
  BY DEF Init, OnceInv
<1>2. TypeOK /\ OnceInv /\ [Next]_vars => OnceInv'
  <2> SUFFICES ASSUME TypeOK, OnceInv, [Next]_vars PROVE OnceInv'
    OBVIOUS
  <2>1. CASE UNCHANGED vars
    BY <2>1 DEF vars, OnceInv
  <2>2. CASE \E d \in DsNames : DsStarts(d) \/ OldTerminated(d)
    BY <2>2 DEF DsStarts, OldTerminated, OnceInv, ciVars
  <2>3. CASE \E n \in Uninstalls : Uninstall(n)
    <3>1. PICK n \in Uninstalls : Uninstall(n)
      BY <2>3
    <3>2. n \in Nodes
      BY BoundsAssumption
    <3>3. /\ UNCHANGED cont /\ up'[n] # "idle"
          /\ \A m \in Nodes : m # n => up'[m] = up[m] /\ marks'[m] = marks[m]
          /\ \A p \in PodNames : p[1] # n => pod'[p] = pod[p]
      BY <3>1, <3>2, UninstallEffect
    <3> QED BY <3>3, OnceKept
  <2> QED BY <2>1, <2>2, <2>3, CiOnce, PodOnce DEF Next
<1>3. OnceInv =>
        [\A p \in PodNames :
           "pools" \in marks[p[1]] /\ cont[p]["init"] = "run" /\ cont'[p]["init"] = "ok"
             => \/ up[p[1]] # "idle"
                \/ \E q \in PodNames \ {p} : q[1] = p[1] /\ cont[q]["init"] = "ok"]_vars
  BY NamesFacts DEF OnceInv
<1> QED BY <1>1, <1>2, <1>3, ClusterTypeCorrect, PTL DEF Spec, PoolsGivenOnce

-----------------------------------------------------------------------------
(* cluster-init advances *)

\* A later stage, or the next host or part of the same, is nearer to the end.
LEMMA Nearer ==
  ASSUME NEW W \in Nat, NEW s \in 0..6, NEW t \in 0..6,
         NEW i \in 1..W, NEW j \in 1..W,
         t < s \/ (t = s /\ j = i + 1)
  PROVE  t * W + (W - j) < s * W + (W - i) /\ t * W + (W - j) \in Nat
<1>1. t * W + (W - j) \in Nat
  <2>1. t * W \in Nat
    OBVIOUS
  <2> QED BY <2>1
<1>2. CASE t < s
  <2>1. (t + 1) * W <= s * W
    <3>1. t + 1 <= s
      BY <1>2
    <3> QED BY <3>1
  <2>2. (t + 1) * W = t * W + W
    OBVIOUS
  <2> QED BY <1>1, <2>1, <2>2
<1>3. CASE t = s /\ j = i + 1
  BY <1>3
<1> QED BY <1>1, <1>2, <1>3

\* No step of cluster-init repeats another: it ends after as many steps as
\* StepsLeft says, if each wait comes to an end (all actions of Ci).
THEOREM ClusterInitAdvances == Spec => CiAdvances
<1>1. TypeOK => [Ci => StepsLeft' < StepsLeft /\ StepsLeft' \in Nat]_vars
  <2> SUFFICES ASSUME TypeOK, Ci
               PROVE  StepsLeft' < StepsLeft /\ StepsLeft' \in Nat
    OBVIOUS
  <2> DEFINE W == Len(Hosts) + Len(WebhookParts)
  <2>1. TypeOK'
    BY CiType
  <2>2. W \in Nat /\ k \in 1..W /\ k' \in 1..W
    BY <2>1, HostsFacts, PartsFacts DEF TypeOK
  <2>3. Stage \in 0..6 /\ Stage' \in 0..6
    BY <2>1 DEF Stage, TypeOK
  <2>4. Stage' < Stage \/ (Stage' = Stage /\ k' = k + 1)
    BY DEF Ci, CheckArgs, CreatePod, WaitPod, WaitPodFails, CreateDs, WaitDs,
           DeployWebhook, Abort, CiGoto, NextHost, AfterPods, Stage
  <2>5. StepsLeft = Stage * W + (W - k) /\ StepsLeft' = Stage' * W + (W - k')
    BY DEF StepsLeft
  <2> QED BY <2>2, <2>3, <2>4, <2>5, Nearer
<1> QED BY <1>1, ClusterTypeCorrect, PTL DEF CiAdvances

-----------------------------------------------------------------------------
(* cluster-init waits for what is there *)

\* A step of cluster-init comes to a wait only with everything created.
LEMMA CiThere ==
  ASSUME TypeOK, ThereInv, Ci \/ CiApiFails \/ Rerun
  PROVE  ThereInv'
<1> USE HostsFacts DEF Abort, CiGoto, NextHost, Ended
<1>1. CASE CreatePod
  <2>1. /\ ci = "createPods" /\ k \in 1..Len(Hosts) /\ UNCHANGED <<cmds, ds, up>>
        /\ ci' \in {"createPods", "waitPods", "aborted"}
        /\ ci' = "createPods" => k' = k + 1
        /\ ci' = "waitPods" => k = Len(Hosts)
    BY <1>1, CreatePodEffect
  <2>2. \A n : ThePod(n)' = ThePod(n) /\ TheDs(n)' = TheDs(n)
    BY <2>1, SameNames
  <2>3. /\ \A p \in PodNames : pod[p] = "yes" => pod'[p] = "yes"
        /\ ci' # "aborted" => pod'[ThePod(Hosts[k])] = "yes"
    BY <1>1, CreatePodEffect
  <2>4. \A p \in PodNames, c \in {"init", "install"} :
          cont'[p][c] = cont[p][c] \/ cont'[p][c] \in {"run", "off"}
    <3>1. \A p \in PodNames : cont'[p] = cont[p] \/
            cont'[p] = [c \in OneShot |-> IF c \in InitCmds THEN "run" ELSE "off"]
      BY <1>1, CreatePodEffect
    <3> QED BY <3>1 DEF OneShot
  <2>5. ci' # "aborted" => \A i \in 1..k : pod'[ThePod(Hosts[i])] = "yes"
    <3>1. \A i \in 1..k : (i \in 1..(k - 1) \/ i = k) /\ Hosts[i] \in Nodes
      BY <2>1
    <3>2. \A n \in Nodes : ThePod(n) \in PodNames
      BY NamesFacts DEF TypeOK
    <3> QED BY <2>1, <2>3, <3>1, <3>2 DEF ThereInv
  <2>6. /\ ci' = "createPods" => \A i \in 1..(k' - 1) : pod'[ThePod(Hosts[i])] = "yes"
        /\ ci' = "waitPods" => \A n \in HostSet : pod'[ThePod(n)] = "yes"
    BY <2>1, <2>5 DEF HostSet
  <2>7. \A p \in PodNames, c \in {"init", "install"} :
          cont'[p][c] \in {"off", "run", "ok", "failed"}
    BY <2>4 DEF ThereInv
  <2>8. ci' \notin {"createDs", "waitDs"} /\ (~Ended' => \A n \in Nodes : up'[n] \in {"idle", "again"})
    BY <2>1 DEF ThereInv
  <2> QED BY <2>2, <2>6, <2>7, <2>8 DEF ThereInv
<1>2. CASE CreateDs
  <2>1. /\ ci = "createDs" /\ k \in 1..Len(Hosts) /\ UNCHANGED <<cmds, cont, up>>
        /\ ci' \in {"createDs", "waitDs", "aborted"}
        /\ ci' = "createDs" => k' = k + 1
        /\ ci' = "waitDs" => k = Len(Hosts)
    BY <1>2, CreateDsEffect
  <2>2. \A n : ThePod(n)' = ThePod(n) /\ TheDs(n)' = TheDs(n)
    BY <2>1, SameNames
  <2>3. /\ \A d \in DsNames : ds[d] # "no" => ds'[d] # "no"
        /\ ci' # "aborted" => ds'[TheDs(Hosts[k])] # "no"
    BY <1>2, CreateDsEffect
  <2>4. ci' # "aborted" => \A i \in 1..k : ds'[TheDs(Hosts[i])] # "no"
    <3>1. \A i \in 1..k : (i \in 1..(k - 1) \/ i = k) /\ Hosts[i] \in Nodes
      BY <2>1
    <3>2. \A n \in Nodes : TheDs(n) \in DsNames
      BY NamesFacts DEF TypeOK
    <3> QED BY <2>1, <2>3, <3>1, <3>2 DEF ThereInv
  <2>5. /\ ci' = "createDs" => \A i \in 1..(k' - 1) : ds'[TheDs(Hosts[i])] # "no"
        /\ ci' = "waitDs" => \A n \in HostSet : ds'[TheDs(n)] # "no"
    BY <2>1, <2>4 DEF HostSet
  <2>6. ci' \notin {"createPods", "waitPods"}
        /\ (~Ended' => \A n \in Nodes : up'[n] \in {"idle", "again"})
    BY <2>1 DEF ThereInv
  <2>7. \A p \in PodNames, c \in {"init", "install"} :
          cont'[p][c] \in {"off", "run", "ok", "failed"}
    BY <2>1 DEF ThereInv
  <2> QED BY <2>2, <2>5, <2>6, <2>7 DEF ThereInv
<1>3. CASE CheckArgs \/ WaitPod \/ WaitPodFails \/ WaitDs \/ CiApiFails
  <2> USE DEF nodeVars
  <2>1. UNCHANGED <<cmds, pod, cont, ds, up>>
    BY <1>3 DEF CheckArgs, WaitPod, WaitPodFails, WaitDs, CiApiFails
  <2>2. /\ ~Ended
        /\ ci' \in {"createPods", "createDs"} => k' = 1
        /\ ci' = "waitPods" => ci = "waitPods"
        /\ ci' = "waitDs" => ci = "waitDs"
    BY <1>3 DEF CheckArgs, WaitPod, WaitPodFails, WaitDs, CiApiFails, AfterPods
  <2>3. 1..(1 - 1) = {}
    OBVIOUS
  <2>4. \A n : ThePod(n)' = ThePod(n) /\ TheDs(n)' = TheDs(n)
    BY <2>1, SameNames
  <2> QED BY <2>1, <2>2, <2>3, <2>4 DEF ThereInv
<1>4. CASE DeployWebhook
  <2>1. UNCHANGED <<pod, cont, ds, up>> /\ ci = "webhook"
        /\ ci' \in {"webhook", "done", "aborted"}
    BY <1>4 DEF DeployWebhook, nodeVars
  <2> QED BY <2>1 DEF ThereInv
<1>5. CASE Rerun
  BY <1>5 DEF Rerun, ThereInv, nodeVars
<1> QED BY <1>1, <1>2, <1>3, <1>4, <1>5 DEF Ci

\* A step on a node deletes nothing while cluster-init goes on.
LEMMA OthersThere ==
  ASSUME TypeOK, ThereInv, UNCHANGED <<cmds, ci, k, up>>,
         \A p \in PodNames : pod[p] = "yes" => pod'[p] = "yes",
         \A p \in PodNames, c \in {"init", "install"} :
           cont'[p][c] = cont[p][c] \/ cont'[p][c] \in {"off", "ok", "failed"},
         \A d \in DsNames : ds[d] # "no" => ds'[d] # "no"
  PROVE  ThereInv'
<1>1. \A n : ThePod(n)' = ThePod(n) /\ TheDs(n)' = TheDs(n)
  BY SameNames
<1>2. \A n \in Nodes : ThePod(n) \in PodNames /\ TheDs(n) \in DsNames
  BY NamesFacts DEF TypeOK
<1>3. \A p \in PodNames, c \in {"init", "install"} :
        cont'[p][c] \in {"off", "run", "ok", "failed"}
  BY DEF ThereInv
<1>4. ~Ended' => \A n \in Nodes : up'[n] \in {"idle", "again"}
  BY DEF ThereInv, Ended
<1>5. k \in 1 .. (IF ci = "webhook" THEN Len(WebhookParts) ELSE Len(Hosts))
  BY DEF TypeOK
<1>6. ci \in {"createPods", "createDs"} => \A i \in 1..(k - 1) : Hosts[i] \in Nodes
  BY <1>5, HostsFacts
<1>7. /\ ci' = "createPods" => \A i \in 1..(k' - 1) : pod'[ThePod(Hosts[i])] = "yes"
      /\ ci' = "waitPods" => \A n \in HostSet : pod'[ThePod(n)] = "yes"
  BY <1>2, <1>6, HostsFacts DEF ThereInv
<1>8. /\ ci' = "createDs" => \A i \in 1..(k' - 1) : ds'[TheDs(Hosts[i])] # "no"
      /\ ci' = "waitDs" => \A n \in HostSet : ds'[TheDs(n)] # "no"
  BY <1>2, <1>6, HostsFacts DEF ThereInv
<1> QED BY <1>1, <1>3, <1>4, <1>7, <1>8 DEF ThereInv

LEMMA PodThere ==
  ASSUME TypeOK, ThereInv, NEW p \in PodNames,
         Pod(p) \/ DiscoverApiFails(p) \/ Terminated(p)
  PROVE  ThereInv'
<1> USE DEF OneShot
<1>1. ASSUME NEW c \in OneShot, NEW state, NEW given, Becomes(p, c, state, given),
             c # "discover" => state \in {"ok", "failed"}
      PROVE  ThereInv'
  BY <1>1, BecomesEffect, OthersThere
<1>2. CASE RunInit(p) \/ RunInstall(p)
  BY <1>1, <1>2 DEF RunInit, RunInstall
<1>3. CASE \/ DiscoverPools(p) \/ PatchCapacity(p) \/ PatchNonIsolcpus(p)
           \/ PatchLabel(p) \/ PatchTaint(p) \/ DiscoverApiFails(p)
  BY <1>1, <1>3 DEF DiscoverPools, PatchCapacity, PatchNonIsolcpus, PatchLabel,
     PatchTaint, DiscoverApiFails
<1>4. CASE Terminated(p)
  BY <1>4, TerminatedEffect, OthersThere DEF NoContainers
<1> QED BY <1>2, <1>3, <1>4 DEF Pod

LEMMA DsThere ==
  ASSUME TypeOK, ThereInv, NEW d \in DsNames, DsStarts(d) \/ OldTerminated(d)
  PROVE  ThereInv'
<1>1. UNCHANGED <<cmds, ci, k, up, pod, cont>>
  BY DEF DsStarts, OldTerminated, ciVars
<1>2. \A e \in DsNames : ds[e] # "no" => ds'[e] # "no"
  BY DEF DsStarts, OldTerminated, TypeOK
<1> QED BY <1>1, <1>2, OthersThere

\* uninstall runs only when cluster-init has ended.
LEMMA UninstallThere ==
  ASSUME TypeOK, ThereInv, NEW n \in Nodes, Uninstall(n)
  PROVE  ThereInv'
<1>1. UNCHANGED <<ci, cont>> /\ (up[n] \in {"idle", "again"} => Ended)
  BY UninstallEffect
<1>2. Ended
  BY <1>1 DEF ThereInv
<1> QED BY <1>1, <1>2 DEF ThereInv, Ended

\* A pod that is there has ended, or one of its containers goes on: after init,
\* the others do.
LEMMA PodGoesOn ==
  ASSUME TypeOK, ThereInv, NEW p \in PodNames, pod[p] = "yes"
  PROVE  Phase(p) \in {"Succeeded", "Failed"} \/ Runs(p)
<1> USE DEF OneShot
<1>1. \A c \in OneShot :
        cont[p][c] \notin {"off", "ok", "failed"} => cont[p][c] \in Discovering
  BY DEF TypeOK
<1>2. CASE cont[p]["init"] \in {"run", "failed"}
  BY <1>2 DEF Phase, Runs, May
<1>3. CASE cont[p]["init"] \in {"off", "ok"}
  <2>1. CASE \A c \in OneShot : cont[p][c] \in {"off", "ok", "failed"}
    BY <2>1 DEF Phase
  <2>2. CASE \E c \in OneShot : cont[p][c] \notin {"off", "ok", "failed"}
    <3>1. PICK c \in OneShot : cont[p][c] \notin {"off", "ok", "failed"}
      BY <2>2
    <3>2. May(p, c, cont[p][c])
      BY <1>3 DEF May, Initialised
    <3> QED BY <1>1, <1>3, <3>1, <3>2 DEF Runs, ThereInv
  <2> QED BY <2>1, <2>2
<1> QED BY <1>2, <1>3 DEF ThereInv

\* Whatever fails and however often it is run, with whatever commands,
\* cluster-init never polls for a pod or a daemon set that is not there or that
\* has nothing left to do (WaitPod, WaitDs); no assumption on names is needed.
THEOREM WaitsForWhatIsThere == Spec => []NeverInVain
<1>1. Init => ThereInv
  BY DEF Init, ThereInv, NoContainers, OneShot
<1>2. TypeOK /\ ThereInv /\ [Next]_vars => ThereInv'
  <2> SUFFICES ASSUME TypeOK, ThereInv, [Next]_vars PROVE ThereInv'
    OBVIOUS
  <2>1. CASE UNCHANGED vars
    BY <2>1, OthersThere DEF vars
  <2>2. CASE Next
    BY <2>2, CiThere, PodThere, DsThere, UninstallThere, BoundsAssumption DEF Next
  <2> QED BY <2>1, <2>2
<1>3. TypeOK /\ ThereInv => NeverInVain
  <2> SUFFICES ASSUME TypeOK, ThereInv PROVE NeverInVain
    OBVIOUS
  <2>1. ci \in {"waitPods", "waitDs"} => Hosts[k] \in HostSet /\ Hosts[k] \in Nodes
    BY HostsFacts DEF TypeOK
  <2>2. ci = "waitPods" =>
          \/ Phase(ThePod(Hosts[k])) \in {"Succeeded", "Failed"}
          \/ Runs(ThePod(Hosts[k]))
    <3>1. ci = "waitPods" => ThePod(Hosts[k]) \in PodNames
      BY <2>1, NamesFacts DEF TypeOK
    <3> QED BY <2>1, <3>1, PodGoesOn DEF ThereInv
  <2> QED BY <2>1, <2>2 DEF NeverInVain, ThereInv
<1> QED BY <1>1, <1>2, <1>3, ClusterTypeCorrect, PTL DEF Spec

-----------------------------------------------------------------------------
(* Success means ready *)

\* Nobody has begun to uninstall n since this cluster-init was started.
UpOk(n) == up[n] \in {"idle", "again"}

\* The pod of n is of this run, and what discover has given stays.
CreatedOk(n) ==
  UpOk(n) =>
    LET state == cont[ThePod(n)]["discover"]
    IN  /\ pod[ThePod(n)] = "yes"
        /\ state \in {"non-isolcpus", "label", "taint", "ok"} => "capacity" \in marks[n]
        /\ state \in {"label", "taint", "ok"} /\ NonIsolcpus => "non-isolcpus" \in marks[n]
        /\ state = "ok" /\ ~NoTaint => "taint" \in marks[n]

FinishedOk(n) ==
  UpOk(n) => \A c \in OneShot \cap InitCmds : cont[ThePod(n)][c] = "ok"

DsOk(n) == UpOk(n) => ds[TheDs(n)] # "no"

DsReady(n) ==
  UpOk(n) => \/ ds[TheDs(n)] = "Running"
             \/ ds[TheDs(n)] = "Pending" /\ up[n] = "again"

\* The hosts whose pod, or daemon set, this run has created or waited for.
Passed(at, after) ==
  IF ci = at THEN {Hosts[i] : i \in 1 .. (k - 1)}
  ELSE IF ci \in after THEN HostSet
  ELSE {}

AfterCreate == {"waitPods", "createDs", "waitDs", "webhook", "done"}

ReadyInv ==
  /\ ~Ended => \A n \in Nodes : UpOk(n)
  /\ \A d \in old : up[d[1]] # "idle"
  /\ InitCmds # {} =>
       /\ \A n \in Passed("createPods", AfterCreate) : CreatedOk(n)
       /\ \A n \in Passed("waitPods", AfterCreate \ {"waitPods"}) : FinishedOk(n)
  /\ StayCmds # {} =>
       /\ \A n \in Passed("createDs", {"waitDs", "webhook", "done"}) : DsOk(n)
       /\ \A n \in Passed("waitDs", {"webhook", "done"}) : DsReady(n)
  /\ ci = "webhook" => {WebhookParts[i] : i \in 1 .. (k - 1)} \subseteq webhook
  /\ ci = "done" => {WebhookParts[i] : i \in 1 .. Len(WebhookParts)} \subseteq webhook

\* The hosts passed grow by one, or become all of them.
LEMMA PassedGrows ==
  ASSUME TypeOK, NEW at, NEW after, at \notin after, ci = at, at # "webhook",
         NEW next \in after, NextHost(next)
  PROVE  Passed(at, after)' \subseteq Passed(at, after) \cup {Hosts[k]}
<1>1. k \in 1..Len(Hosts) /\ Len(Hosts) \in Nat
  BY HostsFacts DEF TypeOK
<1>2. CASE k < Len(Hosts)
  <2>1. ci' = at /\ k' = k + 1
    BY <1>2 DEF NextHost
  <2> QED BY <1>1, <2>1 DEF Passed
<1>3. CASE ~(k < Len(Hosts))
  <2>1. ci' = next /\ k = Len(Hosts)
    BY <1>1, <1>3 DEF NextHost, CiGoto
  <2>2. HostSet = {Hosts[i] : i \in 1 .. (k - 1)} \cup {Hosts[k]}
    BY <1>1, <2>1 DEF HostSet
  <2> QED BY <2>1, <2>2 DEF Passed
<1> QED BY <1>2, <1>3

\* What is known of a host stays if its own pod and daemon set do, and its node
\* loses nothing.
LEMMA KeptReady ==
  ASSUME UNCHANGED cmds, NEW m, up'[m] = up[m], marks[m] \subseteq marks'[m]
  PROVE  /\ pod'[ThePod(m)] = pod[ThePod(m)] /\ cont'[ThePod(m)] = cont[ThePod(m)] =>
              (CreatedOk(m) => CreatedOk(m)') /\ (FinishedOk(m) => FinishedOk(m)')
         /\ ds'[TheDs(m)] = ds[TheDs(m)] =>
              (DsOk(m) => DsOk(m)') /\ (DsReady(m) => DsReady(m)')
<1>1. /\ InitCmds' = InitCmds
      /\ \A n : ThePod(n)' = ThePod(n) /\ TheDs(n)' = TheDs(n)
  BY SameNames
<1>2. ASSUME pod'[ThePod(m)] = pod[ThePod(m)], cont'[ThePod(m)] = cont[ThePod(m)]
      PROVE  (CreatedOk(m) => CreatedOk(m)') /\ (FinishedOk(m) => FinishedOk(m)')
  <2>1. CreatedOk(m) => CreatedOk(m)'
    BY <1>1, <1>2 DEF CreatedOk, UpOk
  <2>2. FinishedOk(m) => FinishedOk(m)'
    BY <1>1, <1>2 DEF FinishedOk, UpOk
  <2> QED BY <2>1, <2>2
<1>3. ASSUME ds'[TheDs(m)] = ds[TheDs(m)]
      PROVE  (DsOk(m) => DsOk(m)') /\ (DsReady(m) => DsReady(m)')
  BY <1>1, <1>3 DEF DsOk, DsReady, UpOk
<1> QED BY <1>2, <1>3

\* What a step on a node keeps of what is known of host m.
Kept(m) ==
  /\ CreatedOk(m) => CreatedOk(m)'
  /\ CreatedOk(m) /\ FinishedOk(m) => FinishedOk(m)'
  /\ DsOk(m) => DsOk(m)'
  /\ DsReady(m) => DsReady(m)'

\* A step of a container leaves the host as ready as it was.
LEMMA ContainerKeepsReady ==
  ASSUME TypeOK, NEW p \in PodNames, NEW c \in OneShot, NEW state, NEW given,
         Becomes(p, c, state, given), cont[p][c] \notin {"ok", "failed", "off"},
         NEW m \in Nodes,
         p = ThePod(m) /\ c = "discover" /\ CreatedOk(m) /\ UpOk(m) =>
           /\ state \in {"non-isolcpus", "label", "taint", "ok"} => "capacity" \in marks'[m]
           /\ state \in {"label", "taint", "ok"} /\ NonIsolcpus => "non-isolcpus" \in marks'[m]
           /\ state = "ok" /\ ~NoTaint => "taint" \in marks'[m]
  PROVE  Kept(m)
<1>1. /\ UNCHANGED <<cmds, pod, ds, up>> /\ cont'[p][c] = state
      /\ \A q \in PodNames, d \in OneShot :
           ~(q = p /\ d = c) => cont'[q][d] = cont[q][d]
      /\ marks[m] \subseteq marks'[m]
  BY BecomesEffect
<1>2. /\ InitCmds' = InitCmds /\ ThePod(m)' = ThePod(m)
  BY <1>1, SameNames
<1>3. ThePod(m) \in PodNames
  BY NamesFacts DEF TypeOK
<1>4. CreatedOk(m) => CreatedOk(m)'
  <2>1. SUFFICES ASSUME CreatedOk(m), UpOk(m) PROVE CreatedOk(m)'
    BY <1>1 DEF CreatedOk, UpOk
  <2>2. CASE ThePod(m) = p /\ c = "discover"
    BY <1>1, <1>2, <2>1, <2>2 DEF CreatedOk
  <2>3. CASE ~(ThePod(m) = p /\ c = "discover")
    <3>1. cont'[ThePod(m)]["discover"] = cont[ThePod(m)]["discover"]
      BY <1>1, <1>3, <2>3 DEF OneShot
    <3> QED BY <1>1, <1>2, <2>1, <3>1 DEF CreatedOk, UpOk
  <2> QED BY <2>2, <2>3
<1>5. FinishedOk(m) => FinishedOk(m)'
  <2>1. SUFFICES ASSUME FinishedOk(m), UpOk(m) PROVE FinishedOk(m)'
    BY <1>1 DEF FinishedOk, UpOk
  <2>2. \A d \in OneShot \cap InitCmds : cont[ThePod(m)][d] = "ok"
    BY <2>1 DEF FinishedOk
  <2>3. \A d \in OneShot \cap InitCmds : ~(ThePod(m) = p /\ d = c)
    BY <2>2
  <2> QED BY <1>1, <1>2, <1>3, <2>2, <2>3 DEF FinishedOk
<1>6. (DsOk(m) => DsOk(m)') /\ (DsReady(m) => DsReady(m)')
  BY <1>1, KeptReady
<1> QED BY <1>4, <1>5, <1>6 DEF Kept

\* A step of a pod, or its end, leaves the host as ready as it was.
LEMMA PodKeepsReady ==
  ASSUME TypeOK, NEW p \in PodNames,
         Pod(p) \/ DiscoverApiFails(p) \/ Terminated(p),
         NEW m \in Nodes
  PROVE  Kept(m)
<1> USE DEF OneShot, UpOk
<1>1. \A c \in OneShot : \A state, given : Becomes(p, c, state, given) =>
        marks[m] \subseteq marks'[m] /\ (p[1] = m => given \subseteq marks'[m])
  BY BecomesEffect
<1>2. p = ThePod(m) => p[1] = m
  BY NamesFacts
<1>3. CASE RunInit(p) \/ RunInstall(p)
  BY <1>3, ContainerKeepsReady DEF RunInit, RunInstall, May
<1>4. CASE DiscoverPools(p)
  BY <1>4, ContainerKeepsReady DEF DiscoverPools, May
<1>5. CASE PatchCapacity(p)
  <2>1. p[1] = m => "capacity" \in marks'[m]
    BY <1>1, <1>5 DEF PatchCapacity
  <2> QED BY <1>2, <1>5, <2>1, ContainerKeepsReady DEF PatchCapacity, May
<1>6. CASE PatchNonIsolcpus(p)
  <2>1. marks[m] \subseteq marks'[m] /\ (p[1] = m => "non-isolcpus" \in marks'[m])
    BY <1>1, <1>6 DEF PatchNonIsolcpus
  <2>2. p = ThePod(m) /\ CreatedOk(m) /\ UpOk(m) => "capacity" \in marks'[m]
    BY <1>6, <2>1 DEF PatchNonIsolcpus, May, CreatedOk
  <2> QED BY <1>2, <1>6, <2>1, <2>2, ContainerKeepsReady DEF PatchNonIsolcpus, May
<1>7. CASE PatchLabel(p)
  <2>1. marks[m] \subseteq marks'[m]
    BY <1>1, <1>7 DEF PatchLabel
  <2>2. p = ThePod(m) /\ CreatedOk(m) /\ UpOk(m) =>
          "capacity" \in marks'[m] /\ (NonIsolcpus => "non-isolcpus" \in marks'[m])
    BY <1>7, <2>1 DEF PatchLabel, May, CreatedOk
  <2>3. (IF NoTaint THEN "ok" ELSE "taint") = "ok" => NoTaint
    OBVIOUS
  <2> QED BY <1>7, <2>2, <2>3, ContainerKeepsReady DEF PatchLabel, May
<1>8. CASE PatchTaint(p)
  <2>1. marks[m] \subseteq marks'[m] /\ (p[1] = m => "taint" \in marks'[m])
    BY <1>1, <1>8 DEF PatchTaint
  <2>2. p = ThePod(m) /\ CreatedOk(m) /\ UpOk(m) =>
          "capacity" \in marks'[m] /\ (NonIsolcpus => "non-isolcpus" \in marks'[m])
    BY <1>8, <2>1 DEF PatchTaint, May, CreatedOk
  <2> QED BY <1>2, <1>8, <2>1, <2>2, ContainerKeepsReady DEF PatchTaint, May
<1>9. CASE DiscoverApiFails(p)
  BY <1>9, ContainerKeepsReady DEF DiscoverApiFails, May, Discovering
<1>10. CASE Terminated(p)
  <2>1. /\ UNCHANGED <<cmds, ds, marks, up>> /\ pod[p] = "terminating"
        /\ \A q \in PodNames : q # p => pod'[q] = pod[q] /\ cont'[q] = cont[q]
    BY <1>10, TerminatedEffect
  <2>2. ThePod(m) \in PodNames
    BY NamesFacts DEF TypeOK
  <2>3. CreatedOk(m) /\ UpOk(m) => ThePod(m) # p
    BY <2>1 DEF CreatedOk
  <2>4. CASE UpOk(m)
    BY <2>1, <2>2, <2>3, <2>4, KeptReady DEF Kept
  <2>5. CASE ~UpOk(m)
    <3>1. ~UpOk(m)'
      BY <2>1, <2>5
    <3> QED BY <3>1 DEF Kept, CreatedOk, FinishedOk, DsOk, DsReady
  <2> QED BY <2>4, <2>5
<1> QED BY <1>3, <1>4, <1>5, <1>6, <1>7, <1>8, <1>9, <1>10 DEF Pod

LEMMA DsKeepsReady ==
  ASSUME TypeOK, NEW d \in DsNames, DsStarts(d) \/ OldTerminated(d), NEW m \in Nodes
  PROVE  UNCHANGED <<ciVars, up>> /\ old' \subseteq old /\ Kept(m)
<1>1. UNCHANGED <<ciVars, pod, cont, marks, up>> /\ old' \subseteq old
  BY DEF DsStarts, OldTerminated
<1>2. \A e \in DsNames : ds'[e] = ds[e] \/ (ds'[e] = "Running" /\ ds[e] # "no")
  BY DEF DsStarts, OldTerminated, TypeOK
<1>3. UNCHANGED cmds /\ TheDs(m) \in DsNames
  BY <1>1, NamesFacts DEF TypeOK, ciVars
<1>4. (CreatedOk(m) => CreatedOk(m)') /\ (FinishedOk(m) => FinishedOk(m)')
  BY <1>1, <1>3, KeptReady
<1>5. (DsOk(m) => DsOk(m)') /\ (DsReady(m) => DsReady(m)')
  <2>1. TheDs(m)' = TheDs(m)
    BY <1>3, SameNames
  <2> QED BY <1>1, <1>2, <1>3, <2>1 DEF DsOk, DsReady, UpOk
<1> QED BY <1>1, <1>4, <1>5 DEF Kept

\* uninstall touches only its own node, of which nothing is claimed any more.
LEMMA UninstallKeepsReady ==
  ASSUME TypeOK, NEW n \in Nodes, Uninstall(n), NEW m \in Nodes
  PROVE  Kept(m)
<1>1. /\ UNCHANGED <<cmds, cont>> /\ up'[n] \notin {"idle", "again"}
      /\ \A x \in Nodes : x # n => up'[x] = up[x] /\ marks'[x] = marks[x]
      /\ \A p \in PodNames : p[1] # n => pod'[p] = pod[p]
      /\ \A d \in DsNames : d[1] # n => ds'[d] = ds[d]
  BY UninstallEffect
<1>2. CASE m = n
  <2>1. ~UpOk(m)'
    BY <1>1, <1>2 DEF UpOk
  <2> QED BY <2>1 DEF Kept, CreatedOk, FinishedOk, DsOk, DsReady
<1>3. CASE m # n
  <2>1. /\ ThePod(m) \in PodNames /\ ThePod(m)[1] = m
        /\ TheDs(m) \in DsNames /\ TheDs(m)[1] = m
    BY NamesFacts DEF TypeOK
  <2>2. pod'[ThePod(m)] = pod[ThePod(m)] /\ ds'[TheDs(m)] = ds[TheDs(m)]
    BY <1>1, <1>3, <2>1
  <2> QED BY <1>1, <1>3, <2>2, KeptReady DEF Kept
<1> QED BY <1>2, <1>3

\* Hosts that have been waited for have been created, and are nodes.
LEMMA PassedFacts ==
  ASSUME TypeOK
  PROVE  /\ \A at, after : at # "webhook" => Passed(at, after) \subseteq HostSet
         /\ Passed("waitPods", AfterCreate \ {"waitPods"})
              \subseteq Passed("createPods", AfterCreate)
         /\ Passed("waitDs", {"webhook", "done"})
              \subseteq Passed("createDs", {"waitDs", "webhook", "done"})
         /\ HostSet \subseteq Nodes
<1>1. ci # "webhook" => {Hosts[i] : i \in 1 .. (k - 1)} \subseteq HostSet
  BY HostsFacts DEF TypeOK, HostSet
<1> QED BY <1>1, HostsFacts DEF Passed, AfterCreate

\* A step that cluster-init does not take and that keeps what is known of every
\* host keeps the invariant.
LEMMA OthersReady ==
  ASSUME TypeOK, ReadyInv, UNCHANGED <<cmds, ci, k, webhook>>,
         \A m \in Nodes : Kept(m),
         ~Ended => UNCHANGED up,
         \A d \in old' : up'[d[1]] # "idle"
  PROVE  ReadyInv'
<1>1. /\ \A at, after : Passed(at, after)' = Passed(at, after)
      /\ InitCmds' = InitCmds /\ StayCmds' = StayCmds
  BY SameNames DEF Passed
<1>2. ~Ended' => \A m \in Nodes : UpOk(m)'
  BY DEF Ended, UpOk, ReadyInv
<1>3. InitCmds' # {} =>
       /\ \A m \in Passed("createPods", AfterCreate)' : CreatedOk(m)'
       /\ \A m \in Passed("waitPods", AfterCreate \ {"waitPods"})' : FinishedOk(m)'
  BY <1>1, PassedFacts DEF ReadyInv, Kept
<1>4. StayCmds' # {} =>
       /\ \A m \in Passed("createDs", {"waitDs", "webhook", "done"})' : DsOk(m)'
       /\ \A m \in Passed("waitDs", {"webhook", "done"})' : DsReady(m)'
  BY <1>1, PassedFacts DEF ReadyInv, Kept
<1>5. /\ ci' = "webhook" => {WebhookParts[i] : i \in 1 .. (k' - 1)} \subseteq webhook'
      /\ ci' = "done" => {WebhookParts[i] : i \in 1 .. Len(WebhookParts)} \subseteq webhook'
  BY DEF ReadyInv
<1> HIDE DEF AfterCreate
<1> QED BY <1>2, <1>3, <1>4, <1>5 DEF ReadyInv

\* The steps on the nodes keep what is known of every host.
LEMMA PodReady ==
  ASSUME TypeOK, ReadyInv, NEW p \in PodNames,
         Pod(p) \/ DiscoverApiFails(p) \/ Terminated(p)
  PROVE  ReadyInv'
<1>1. UNCHANGED <<cmds, ci, k, webhook, up, old>>
  BY DEF Pod, RunInit, RunInstall, DiscoverPools, PatchCapacity, PatchNonIsolcpus,
     PatchLabel, PatchTaint, DiscoverApiFails, Terminated, Becomes, ciVars
<1>2. \A d \in old' : up'[d[1]] # "idle"
  BY <1>1 DEF ReadyInv
<1>3. \A m \in Nodes : Kept(m)
  BY PodKeepsReady
<1> QED BY <1>1, <1>2, <1>3, OthersReady

LEMMA DsStepReady ==
  ASSUME TypeOK, ReadyInv, NEW d \in DsNames, DsStarts(d) \/ OldTerminated(d)
  PROVE  ReadyInv'
<1>1. UNCHANGED <<cmds, ci, k, webhook, up>> /\ old' \subseteq old
  BY DEF DsStarts, OldTerminated, ciVars
<1>2. \A e \in old' : up'[e[1]] # "idle"
  BY <1>1 DEF ReadyInv
<1>3. \A m \in Nodes : Kept(m)
  BY DsKeepsReady
<1> QED BY <1>1, <1>2, <1>3, OthersReady

LEMMA UninstallReady ==
  ASSUME TypeOK, ReadyInv, NEW n \in Nodes, Uninstall(n)
  PROVE  ReadyInv'
<1>1. /\ UNCHANGED <<cmds, ci, k, webhook>>
      /\ up[n] \in {"idle", "again"} => Ended
      /\ up'[n] \notin {"idle", "again"}
      /\ \A m \in Nodes : m # n => up'[m] = up[m]
      /\ \A d \in old' : d \in old \/ d[1] = n
  BY UninstallEffect
<1>2. Ended
  BY <1>1 DEF ReadyInv, UpOk
<1>3. \A d \in old' : up'[d[1]] # "idle"
  <2>1. \A d \in old' : d \in DsNames
    BY UninstallType DEF TypeOK
  <2> QED BY <1>1, <2>1, NamesFacts DEF ReadyInv
<1>4. \A m \in Nodes : Kept(m)
  BY UninstallKeepsReady
<1> QED BY <1>1, <1>2, <1>3, <1>4, OthersReady

\* A step of cluster-init that goes to a step where nothing is claimed.
LEMMA RestartReady ==
  ASSUME ReadyInv, ci' \in {"check", "aborted"}, old' = old,
         \A d \in old : up'[d[1]] = "idle" => up[d[1]] = "idle",
         ci' = "check" => \A n \in Nodes : up'[n] \in {"idle", "again"}
  PROVE  ReadyInv'
<1>1. \A at, after : at \notin {"check", "aborted"} /\ after \cap {"check", "aborted"} = {}
        => Passed(at, after)' = {}
  BY DEF Passed
<1>2. /\ ~Ended' => \A n \in Nodes : UpOk(n)'
      /\ \A d \in old' : up'[d[1]] # "idle"
  BY DEF ReadyInv, Ended, UpOk
<1>3. /\ Passed("createPods", AfterCreate)' = {}
      /\ Passed("waitPods", AfterCreate \ {"waitPods"})' = {}
      /\ Passed("createDs", {"waitDs", "webhook", "done"})' = {}
      /\ Passed("waitDs", {"webhook", "done"})' = {}
  BY <1>1 DEF AfterCreate
<1>4. ci' # "webhook" /\ ci' # "done"
  OBVIOUS
<1> HIDE DEF AfterCreate
<1> QED BY <1>2, <1>3, <1>4 DEF ReadyInv

\* What is claimed of a node depends on its state, and this run's commands, only.
LEMMA Unmoved ==
  ASSUME UNCHANGED <<cmds, up>>
  PROVE  \A n :
         /\ UNCHANGED <<marks, pod, cont>> => (CreatedOk(n)' <=> CreatedOk(n))
         /\ UNCHANGED cont => (FinishedOk(n)' <=> FinishedOk(n))
         /\ UNCHANGED ds => (DsOk(n)' <=> DsOk(n)) /\ (DsReady(n)' <=> DsReady(n))
<1> TAKE n
<1>1. InitCmds' = InitCmds /\ ThePod(n)' = ThePod(n) /\ TheDs(n)' = TheDs(n)
  BY SameNames
<1>2. UNCHANGED <<marks, pod, cont>> => (CreatedOk(n)' <=> CreatedOk(n))
  BY <1>1 DEF CreatedOk, UpOk
<1>3. UNCHANGED cont => (FinishedOk(n)' <=> FinishedOk(n))
  BY <1>1 DEF FinishedOk, UpOk
<1>4. UNCHANGED ds => (DsOk(n)' <=> DsOk(n)) /\ (DsReady(n)' <=> DsReady(n))
  BY <1>1 DEF DsOk, DsReady, UpOk
<1> QED BY <1>2, <1>3, <1>4

\* While cluster-init runs, four claims about the hosts are all that can change.
LEMMA ReadyStep ==
  ASSUME ReadyInv, ~Ended, UNCHANGED <<cmds, old, up>>,
         InitCmds # {} =>
           /\ \A n \in Passed("createPods", AfterCreate)' : CreatedOk(n)'
           /\ \A n \in Passed("waitPods", AfterCreate \ {"waitPods"})' : FinishedOk(n)',
         StayCmds # {} =>
           /\ \A n \in Passed("createDs", {"waitDs", "webhook", "done"})' : DsOk(n)'
           /\ \A n \in Passed("waitDs", {"webhook", "done"})' : DsReady(n)',
         ci' = "webhook" => {WebhookParts[i] : i \in 1 .. (k' - 1)} \subseteq webhook',
         ci' = "done" =>
           {WebhookParts[i] : i \in 1 .. Len(WebhookParts)} \subseteq webhook'
  PROVE  ReadyInv'
<1>1. /\ \A n \in Nodes : UpOk(n)'
      /\ \A d \in old' : up'[d[1]] # "idle"
  BY DEF ReadyInv, UpOk
<1>2. InitCmds' = InitCmds /\ StayCmds' = StayCmds
  BY SameNames
<1> HIDE DEF AfterCreate
<1> QED BY <1>1, <1>2 DEF ReadyInv

\* The hosts with a pod of this run grow by the host that gets one.
LEMMA CreatePodReady ==
  ASSUME TypeOK, ReadyInv, CreatePod, ~Abort
  PROVE  ReadyInv'
<1> PICK n \in HostSet : n = Hosts[k]
  BY CreatePodEffect
<1>1. /\ ci = "createPods" /\ n \in Nodes /\ ThePod(n) \in PodNames /\ ~Ended
      /\ UNCHANGED <<cmds, webhook, ds, old, marks, up>>
      /\ NextHost("waitPods") /\ pod'[ThePod(n)] = "yes"
      /\ cont'[ThePod(n)]["discover"] \in {"run", "off"}
      /\ \A p \in PodNames \ {ThePod(n)} : pod'[p] = pod[p] /\ cont'[p] = cont[p]
  BY CreatePodEffect DEF Ended, OneShot
<1>2. Passed("createPods", AfterCreate)' \subseteq Passed("createPods", AfterCreate) \cup {n}
  BY <1>1, PassedGrows DEF AfterCreate
<1>3. CreatedOk(n)' /\ \A m \in Nodes \ {n} : CreatedOk(m) => CreatedOk(m)'
  <2>1. CreatedOk(n)'
    <3>1. ThePod(n)' = ThePod(n)
      BY <1>1, SameNames
    <3> QED BY <1>1, <3>1 DEF CreatedOk
  <2>2. ASSUME NEW m \in Nodes \ {n} PROVE CreatedOk(m) => CreatedOk(m)'
    <3>1. ThePod(m) \in PodNames \ {ThePod(n)}
      <4>1. ThePod(m)[1] = m /\ ThePod(n)[1] = n /\ ThePod(m) \in PodNames
        BY NamesFacts DEF TypeOK
      <4> QED BY <4>1
    <3> QED BY <1>1, <3>1, KeptReady
  <2> QED BY <2>1, <2>2
<1>4. ci' \in {"createPods", "waitPods"} /\ (ci' = "waitPods" => k' = 1)
  BY <1>1 DEF NextHost, CiGoto
<1>5. /\ Passed("waitPods", AfterCreate \ {"waitPods"})' = {}
      /\ Passed("createDs", {"waitDs", "webhook", "done"})' = {}
      /\ Passed("waitDs", {"webhook", "done"})' = {}
  <2>1. 1 .. (1 - 1) = {}
    OBVIOUS
  <2> QED BY <1>4, <2>1 DEF Passed, AfterCreate
<1>6. Passed("createPods", AfterCreate) \subseteq Nodes
  BY PassedFacts
<1>7. InitCmds # {} =>
        \A m \in Passed("createPods", AfterCreate)' : CreatedOk(m)'
  <2>1. InitCmds # {} => \A m \in Passed("createPods", AfterCreate) : CreatedOk(m)
    BY DEF ReadyInv
  <2> QED BY <1>2, <1>3, <1>6, <2>1
<1> QED BY <1>1, <1>4, <1>5, <1>7, ReadyStep

\* With names of their own, a host is passed when its own pod has succeeded.
LEMMA WaitPodReady ==
  ASSUME UniqueNames, TypeOK, ContainersInv, ReadyInv, WaitPod
  PROVE  ReadyInv'
<1> PICK n \in HostSet : n = Hosts[k]
  BY HostsFacts DEF WaitPod, TypeOK, HostSet
<1>1. /\ ci = "waitPods" /\ n \in Nodes
      /\ UNCHANGED <<cmds, webhook, pod, cont, ds, old, marks, up>> /\ ~Ended
      /\ NextHost(AfterPods)
  BY HostsFacts DEF WaitPod, Ended, CiGoto, NextHost, nodeVars
<1>2. AfterPods \in {"createDs", "webhook"}
      /\ (StayCmds # {} => AfterPods = "createDs")
  BY DEF AfterPods
<1>3. FinishedOk(n)
  <2>1. Phase(ThePod(n)) = "Succeeded"
    BY <1>1 DEF WaitPod, UniqueNames
  <2>2. ThePod(n) \in PodNames /\ Commands(ThePod(n)[2]) = InitCmds
    BY <1>1, NamesFacts DEF TypeOK
  <2> QED BY <2>1, <2>2, SucceededFinished DEF FinishedOk
<1>4. Passed("waitPods", AfterCreate \ {"waitPods"})'
        \subseteq Passed("waitPods", AfterCreate \ {"waitPods"}) \cup {n}
  BY <1>1, <1>2, PassedGrows DEF AfterCreate
<1>5. ci' \in {"waitPods", AfterPods} /\ (ci' = AfterPods => k' = 1)
  BY <1>1, <1>2 DEF NextHost, CiGoto
<1>6. Passed("createPods", AfterCreate)' = Passed("createPods", AfterCreate)
  BY <1>1, <1>2, <1>5 DEF Passed, AfterCreate
<1>7. 1 .. (1 - 1) = {}
  OBVIOUS
<1>8. StayCmds # {} =>
        /\ Passed("createDs", {"waitDs", "webhook", "done"})' = {}
        /\ Passed("waitDs", {"webhook", "done"})' = {}
  BY <1>2, <1>5, <1>7 DEF Passed
<1>9. \A m : (CreatedOk(m)' <=> CreatedOk(m)) /\ (FinishedOk(m)' <=> FinishedOk(m))
  BY <1>1, Unmoved
<1>10. InitCmds # {} =>
         /\ \A m \in Passed("createPods", AfterCreate)' : CreatedOk(m)'
         /\ \A m \in Passed("waitPods", AfterCreate \ {"waitPods"})' : FinishedOk(m)'
  <2>1. InitCmds # {} =>
          /\ \A m \in Passed("createPods", AfterCreate) : CreatedOk(m)
          /\ \A m \in Passed("waitPods", AfterCreate \ {"waitPods"}) : FinishedOk(m)
    BY DEF ReadyInv
  <2> QED BY <1>3, <1>4, <1>6, <1>9, <2>1
<1>11. ci' # "done" /\ (ci' = "webhook" => {WebhookParts[i] : i \in 1 .. (k' - 1)} = {})
  BY <1>2, <1>5, <1>7
<1> QED BY <1>1, <1>8, <1>10, <1>11, ReadyStep

\* A daemon set is created where there is none; the pods stay as they are.
LEMMA CreateDsReady ==
  ASSUME TypeOK, ReadyInv, CreateDs, ~Abort
  PROVE  ReadyInv'
<1> PICK n \in HostSet : n = Hosts[k]
  BY CreateDsEffect
<1>1. /\ ci = "createDs" /\ n \in Nodes /\ TheDs(n) \in DsNames /\ ~Ended
      /\ UNCHANGED <<cmds, webhook, pod, cont, old, marks, up>>
      /\ NextHost("waitDs") /\ ds'[TheDs(n)] = "Pending"
      /\ \A d \in DsNames \ {TheDs(n)} : ds'[d] = ds[d]
  BY CreateDsEffect DEF Ended
<1>2. Passed("createDs", {"waitDs", "webhook", "done"})'
        \subseteq Passed("createDs", {"waitDs", "webhook", "done"}) \cup {n}
  BY <1>1, PassedGrows
<1>3. DsOk(n)' /\ \A m \in Nodes \ {n} : DsOk(m) => DsOk(m)'
  <2>1. DsOk(n)'
    <3>1. TheDs(n)' = TheDs(n)
      BY <1>1, SameNames
    <3> QED BY <1>1, <3>1 DEF DsOk
  <2>2. ASSUME NEW m \in Nodes \ {n} PROVE DsOk(m) => DsOk(m)'
    <3>1. TheDs(m) \in DsNames \ {TheDs(n)}
      <4>1. TheDs(m)[1] = m /\ TheDs(n)[1] = n /\ TheDs(m) \in DsNames
        BY NamesFacts DEF TypeOK
      <4> QED BY <4>1
    <3> QED BY <1>1, <3>1, KeptReady
  <2> QED BY <2>1, <2>2
<1>4. ci' \in {"createDs", "waitDs"} /\ (ci' = "waitDs" => k' = 1)
  BY <1>1 DEF NextHost, CiGoto
<1>5. 1 .. (1 - 1) = {}
  OBVIOUS
<1>6. /\ Passed("createPods", AfterCreate)' = Passed("createPods", AfterCreate)
      /\ Passed("waitPods", AfterCreate \ {"waitPods"})'
           = Passed("waitPods", AfterCreate \ {"waitPods"})
      /\ Passed("waitDs", {"webhook", "done"})' = {}
  BY <1>1, <1>4, <1>5 DEF Passed, AfterCreate
<1>7. \A m : (CreatedOk(m)' <=> CreatedOk(m)) /\ (FinishedOk(m)' <=> FinishedOk(m))
  BY <1>1, Unmoved
<1>8. InitCmds # {} =>
        /\ \A m \in Passed("createPods", AfterCreate)' : CreatedOk(m)'
        /\ \A m \in Passed("waitPods", AfterCreate \ {"waitPods"})' : FinishedOk(m)'
  <2>1. InitCmds # {} =>
          /\ \A m \in Passed("createPods", AfterCreate) : CreatedOk(m)
          /\ \A m \in Passed("waitPods", AfterCreate \ {"waitPods"}) : FinishedOk(m)
    BY DEF ReadyInv
  <2> QED BY <1>6, <1>7, <2>1
<1>9. Passed("createDs", {"waitDs", "webhook", "done"}) \subseteq Nodes
  BY PassedFacts
<1>10. StayCmds # {} =>
         \A m \in Passed("createDs", {"waitDs", "webhook", "done"})' : DsOk(m)'
  <2>1. StayCmds # {} =>
          \A m \in Passed("createDs", {"waitDs", "webhook", "done"}) : DsOk(m)
    BY DEF ReadyInv
  <2> QED BY <1>2, <1>3, <1>9, <2>1
<1> QED BY <1>1, <1>4, <1>6, <1>8, <1>10, ReadyStep

\* A host is passed when its daemons run, those of this run or of an old one.
LEMMA WaitDsReady ==
  ASSUME UniqueNames, TypeOK, ReadyInv, WaitDs
  PROVE  ReadyInv'
<1> PICK n \in HostSet : n = Hosts[k]
  BY HostsFacts DEF WaitDs, TypeOK, HostSet
<1>1. /\ ci = "waitDs" /\ n \in Nodes
      /\ UNCHANGED <<cmds, webhook, pod, cont, ds, old, marks, up>> /\ ~Ended
      /\ NextHost("webhook") /\ (ds[TheDs(n)] = "Running" \/ TheDs(n) \in old)
  BY HostsFacts DEF WaitDs, Ended, CiGoto, NextHost, UniqueNames, nodeVars
<1>2. StayCmds # {} => DsReady(n)
  <2>1. StayCmds # {} => DsOk(n)
    BY <1>1 DEF ReadyInv, Passed
  <2>2. TheDs(n) \in old => up[n] # "idle"
    BY NamesFacts DEF ReadyInv
  <2>3. ds[TheDs(n)] \in {"no", "Pending", "Running"}
    BY <1>1, NamesFacts DEF TypeOK
  <2> QED BY <1>1, <2>1, <2>2, <2>3 DEF DsOk, DsReady, UpOk
<1>3. Passed("waitDs", {"webhook", "done"})'
        \subseteq Passed("waitDs", {"webhook", "done"}) \cup {n}
  BY <1>1, PassedGrows
<1>4. ci' \in {"waitDs", "webhook"} /\ (ci' = "webhook" => k' = 1)
  BY <1>1 DEF NextHost, CiGoto
<1>5. /\ Passed("createPods", AfterCreate)' = Passed("createPods", AfterCreate)
      /\ Passed("waitPods", AfterCreate \ {"waitPods"})'
           = Passed("waitPods", AfterCreate \ {"waitPods"})
      /\ Passed("createDs", {"waitDs", "webhook", "done"})'
           = Passed("createDs", {"waitDs", "webhook", "done"})
  BY <1>1, <1>4 DEF Passed, AfterCreate
<1>6. \A m : /\ (CreatedOk(m)' <=> CreatedOk(m)) /\ (FinishedOk(m)' <=> FinishedOk(m))
             /\ (DsOk(m)' <=> DsOk(m)) /\ (DsReady(m)' <=> DsReady(m))
  BY <1>1, Unmoved
<1>7. InitCmds # {} =>
        /\ \A m \in Passed("createPods", AfterCreate)' : CreatedOk(m)'
        /\ \A m \in Passed("waitPods", AfterCreate \ {"waitPods"})' : FinishedOk(m)'
  <2>1. InitCmds # {} =>
          /\ \A m \in Passed("createPods", AfterCreate) : CreatedOk(m)
          /\ \A m \in Passed("waitPods", AfterCreate \ {"waitPods"}) : FinishedOk(m)
    BY DEF ReadyInv
  <2> QED BY <1>5, <1>6, <2>1
<1>8. StayCmds # {} =>
        /\ \A m \in Passed("createDs", {"waitDs", "webhook", "done"})' : DsOk(m)'
        /\ \A m \in Passed("waitDs", {"webhook", "done"})' : DsReady(m)'
  <2>1. StayCmds # {} =>
          /\ \A m \in Passed("createDs", {"waitDs", "webhook", "done"}) : DsOk(m)
          /\ \A m \in Passed("waitDs", {"webhook", "done"}) : DsReady(m)
    BY DEF ReadyInv
  <2> QED BY <1>2, <1>3, <1>5, <1>6, <2>1
<1>9. ci' # "done" /\ (ci' = "webhook" => {WebhookParts[i] : i \in 1 .. (k' - 1)} = {})
  <2>1. 1 .. (1 - 1) = {}
    OBVIOUS
  <2> QED BY <1>4, <2>1
<1> QED BY <1>1, <1>7, <1>8, <1>9, ReadyStep

\* The webhook's objects come one after the other; the hosts stay as they are.
LEMMA WebhookReady ==
  ASSUME TypeOK, ReadyInv, DeployWebhook, ~Abort
  PROVE  ReadyInv'
<1>1. /\ ci = "webhook" /\ k \in 1..5 /\ webhook' = webhook \cup {WebhookParts[k]}
      /\ UNCHANGED <<cmds, pod, cont, ds, old, marks, up>> /\ ~Ended
      /\ \/ ci' = "webhook" /\ k' = k + 1
         \/ ci' = "done" /\ k = 5
  BY PartsFacts DEF DeployWebhook, TypeOK, CiGoto, Ended, nodeVars
<1>2. /\ Passed("createPods", AfterCreate)' = Passed("createPods", AfterCreate)
      /\ Passed("waitPods", AfterCreate \ {"waitPods"})'
           = Passed("waitPods", AfterCreate \ {"waitPods"})
      /\ Passed("createDs", {"waitDs", "webhook", "done"})'
           = Passed("createDs", {"waitDs", "webhook", "done"})
      /\ Passed("waitDs", {"webhook", "done"})' = Passed("waitDs", {"webhook", "done"})
  BY <1>1 DEF Passed, AfterCreate
<1>3. \A m : /\ (CreatedOk(m)' <=> CreatedOk(m)) /\ (FinishedOk(m)' <=> FinishedOk(m))
             /\ (DsOk(m)' <=> DsOk(m)) /\ (DsReady(m)' <=> DsReady(m))
  BY <1>1, Unmoved
<1>4. InitCmds # {} =>
        /\ \A m \in Passed("createPods", AfterCreate)' : CreatedOk(m)'
        /\ \A m \in Passed("waitPods", AfterCreate \ {"waitPods"})' : FinishedOk(m)'
  <2>1. InitCmds # {} =>
          /\ \A m \in Passed("createPods", AfterCreate) : CreatedOk(m)
          /\ \A m \in Passed("waitPods", AfterCreate \ {"waitPods"}) : FinishedOk(m)
    BY DEF ReadyInv
  <2> QED BY <1>2, <1>3, <2>1
<1>5. StayCmds # {} =>
        /\ \A m \in Passed("createDs", {"waitDs", "webhook", "done"})' : DsOk(m)'
        /\ \A m \in Passed("waitDs", {"webhook", "done"})' : DsReady(m)'
  <2>1. StayCmds # {} =>
          /\ \A m \in Passed("createDs", {"waitDs", "webhook", "done"}) : DsOk(m)
          /\ \A m \in Passed("waitDs", {"webhook", "done"}) : DsReady(m)
    BY DEF ReadyInv
  <2> QED BY <1>2, <1>3, <2>1
<1>6. {WebhookParts[i] : i \in 1 .. k} \subseteq webhook'
  <2>1. {WebhookParts[i] : i \in 1 .. (k - 1)} \subseteq webhook
    BY <1>1 DEF ReadyInv
  <2>2. \A i \in 1 .. k : i \in 1 .. (k - 1) \/ i = k
    BY <1>1
  <2> QED BY <1>1, <2>1, <2>2
<1>7. /\ ci' = "webhook" => {WebhookParts[i] : i \in 1 .. (k' - 1)} \subseteq webhook'
      /\ ci' = "done" => {WebhookParts[i] : i \in 1 .. Len(WebhookParts)} \subseteq webhook'
  BY <1>1, <1>6, PartsFacts
<1> QED BY <1>1, <1>4, <1>5, <1>7, ReadyStep

\* Each step of cluster-init adds what it has created or waited for.
LEMMA CiReady ==
  ASSUME UniqueNames, ClusterInv, ReadyInv, Ci \/ CiApiFails \/ Rerun
  PROVE  ReadyInv'
<1>1. TypeOK /\ ContainersInv
  BY DEF ClusterInv
<1>2. ASSUME Abort, up' = up, old' = old PROVE ReadyInv'
  BY <1>2, RestartReady DEF Abort, CiGoto
<1>3. CASE CheckArgs /\ ~Abort
  <2>1. /\ ci' \in {"createPods", "createDs", "webhook"} /\ k' = 1
        /\ InitCmds # {} => ci' = "createPods"
        /\ StayCmds # {} => ci' \in {"createPods", "createDs"}
        /\ UNCHANGED <<cmds, old, up>> /\ ~Ended
    BY <1>3 DEF CheckArgs, CiGoto, AfterPods, Ended, nodeVars
  <2>2. 1 .. (1 - 1) = {}
    OBVIOUS
  <2>3. /\ InitCmds # {} =>
             /\ Passed("createPods", AfterCreate)' = {}
             /\ Passed("waitPods", AfterCreate \ {"waitPods"})' = {}
        /\ StayCmds # {} =>
             /\ Passed("createDs", {"waitDs", "webhook", "done"})' = {}
             /\ Passed("waitDs", {"webhook", "done"})' = {}
    BY <2>1, <2>2 DEF Passed, AfterCreate
  <2>4. ci' = "webhook" => {WebhookParts[i] : i \in 1 .. (k' - 1)} = {}
    BY <2>1, <2>2
  <2> QED BY <2>1, <2>3, <2>4, ReadyStep
<1>4. CASE (CreatePod \/ CreateDs \/ DeployWebhook) /\ ~Abort
  BY <1>1, <1>4, CreatePodReady, CreateDsReady, WebhookReady
<1>5. CASE (CheckArgs \/ CreatePod \/ CreateDs \/ DeployWebhook) /\ Abort
  BY <1>2, <1>5 DEF CheckArgs, CreatePod, CreateDs, DeployWebhook, nodeVars
<1>6. CASE WaitPod \/ WaitDs
  BY <1>1, <1>6, WaitPodReady, WaitDsReady
<1>7. CASE WaitPodFails \/ CiApiFails
  BY <1>2, <1>7 DEF WaitPodFails, CiApiFails, nodeVars
<1>8. CASE Rerun
  <2>1. /\ ci' = "check" /\ old' = old
        /\ \A n \in Nodes : up'[n] \in {"idle", "again"}
        /\ \A n \in Nodes : up'[n] = "idle" => up[n] = "idle"
    BY <1>8 DEF Rerun, nodeVars
  <2>2. \A d \in old : d[1] \in Nodes
    BY <1>1, NamesFacts DEF TypeOK
  <2> QED BY <2>1, <2>2, RestartReady
<1> QED BY <1>3, <1>4, <1>5, <1>6, <1>7, <1>8 DEF Ci

\* cluster-init's success means that every host can serve pods, whatever has
\* failed before and was tried again, with the same commands or others, unless a
\* name starts with another's.
THEOREM SuccessIsReady == ASSUME UniqueNames PROVE Spec => []ReadyWhenDone
<1>1. Init => ReadyInv
  BY DEF Init, ReadyInv, Passed, Ended, UpOk, AfterCreate
<1>2. ClusterInv /\ ReadyInv /\ [Next]_vars => ReadyInv'
  <2> SUFFICES ASSUME ClusterInv, ReadyInv, [Next]_vars PROVE ReadyInv'
    OBVIOUS
  <2>1. CASE UNCHANGED vars
    <3>1. /\ UNCHANGED <<cmds, ci, k, webhook, up, old, pod, cont, ds, marks>>
      BY <2>1 DEF vars
    <3>2. \A m \in Nodes : Kept(m)
      BY <3>1, Unmoved DEF Kept
    <3>3. \A d \in old' : up'[d[1]] # "idle"
      BY <3>1 DEF ReadyInv
    <3> QED BY <3>1, <3>2, <3>3, OthersReady DEF ClusterInv
  <2>2. CASE Next
    BY <2>2, CiReady, PodReady, DsStepReady, UninstallReady, BoundsAssumption
       DEF Next, ClusterInv
  <2> QED BY <2>1, <2>2
<1>3. ClusterInv /\ ReadyInv => ReadyWhenDone
  <2> SUFFICES ASSUME ClusterInv, ReadyInv, ci = "done" PROVE ReadyWhenDone
    BY DEF ReadyWhenDone
  <2>1. webhook = {WebhookParts[i] : i \in 1 .. Len(WebhookParts)}
    <3>1. {WebhookParts[i] : i \in 1 .. 5}
            = {"secret", "configmap", "service", "deployment", "config"}
      <4>1. /\ WebhookParts[1] = "secret" /\ WebhookParts[2] = "configmap"
            /\ WebhookParts[3] = "service" /\ WebhookParts[4] = "deployment"
            /\ WebhookParts[5] = "config"
        BY DEF WebhookParts
      <4>2. 1 .. 5 = {1, 2, 3, 4, 5}
        OBVIOUS
      <4> QED BY <4>1, <4>2
    <3> QED BY <3>1, PartsFacts DEF ClusterInv, TypeOK, ReadyInv
  <2>2. ASSUME NEW n \in HostSet, up[n] \in {"idle", "again"}
        PROVE  /\ "discover" \in InitCmds =>
                    /\ "capacity" \in marks[n]
                    /\ NonIsolcpus => "non-isolcpus" \in marks[n]
                    /\ ~NoTaint => "taint" \in marks[n]
               /\ StayCmds # {} =>
                    \/ ds[TheDs(n)] = "Running"
                    \/ ds[TheDs(n)] = "Pending" /\ up[n] = "again"
    <3>1. /\ InitCmds # {} => CreatedOk(n) /\ FinishedOk(n)
          /\ StayCmds # {} => DsReady(n)
      BY DEF ReadyInv, Passed, AfterCreate
    <3>2. "discover" \in InitCmds => "discover" \in OneShot \cap InitCmds
      BY DEF OneShot
    <3> QED BY <2>2, <3>1, <3>2 DEF CreatedOk, FinishedOk, DsReady, UpOk
  <2> QED BY <2>1, <2>2 DEF ReadyWhenDone
<1> QED BY <1>1, <1>2, <1>3, ClusterInvariant, PTL DEF Spec
=============================================================================
