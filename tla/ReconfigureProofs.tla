-------------------------- MODULE ReconfigureProofs --------------------------
(***************************************************************************)
(* Proofs about Reconfigure: what the new configuration may do to the      *)
(* processes of a node, for any cores, layouts, processes and faults.      *)
(***************************************************************************)
EXTENDS Reconfigure, FiniteSetTheorems, TLAPS

-----------------------------------------------------------------------------
(* Configurations *)

\* What a configuration is made of.
LEMMA ConfigFacts ==
  ASSUME NEW c \in Configs
  PROVE  /\ DOMAIN c \subseteq List /\ IsFiniteSet(DOMAIN c)
         /\ c \in [DOMAIN c -> SUBSET Pids]
         /\ \A l \in DOMAIN c : l.cores \subseteq Cores /\ l.cores # {}
         /\ \A l, m \in DOMAIN c : l.cores \cap m.cores # {} => l = m
<1>1. PICK pl \in Plans : c \in [pl.lists -> SUBSET Pids]
  BY DEF Configs
<1>2. DOMAIN c = pl.lists
  BY <1>1
<1>3. \A l \in List : l.cores \subseteq Cores
  BY DEF List
<1> QED BY <1>1, <1>2, <1>3, PlansAssumption DEF IsLayout

\* Tasks for the lists of a layout are a configuration.
LEMMA InConfigs ==
  ASSUME NEW pl \in Plans, NEW c \in [pl.lists -> SUBSET Pids]
  PROVE  c \in Configs
BY DEF Configs

\* Other tasks for the same lists are one, too.
LEMMA SameLists ==
  ASSUME NEW c \in Configs, NEW d \in [DOMAIN c -> SUBSET Pids]
  PROVE  d \in Configs
<1>1. PICK pl \in Plans : c \in [pl.lists -> SUBSET Pids]
  BY DEF Configs
<1>2. DOMAIN c = pl.lists
  BY <1>1
<1> QED BY <1>1, <1>2, InConfigs

\* Processes with the same cores have the same lists.
LEMMA SameCores ==
  ASSUME NEW c \in Configs, NEW p \in Pids, NEW q \in Pids,
         CoresIn(c, p) = CoresIn(c, q)
  PROVE  ListsOf(c, p) = ListsOf(c, q)
<1>1. ASSUME NEW r \in Pids, NEW s \in Pids, CoresIn(c, r) = CoresIn(c, s),
             NEW l \in ListsOf(c, r)
      PROVE  l \in ListsOf(c, s)
  <2>1. PICK x : x \in l.cores
    BY ConfigFacts DEF ListsOf
  <2>2. x \in CoresIn(c, s)
    BY <1>1, <2>1 DEF CoresIn
  <2>3. PICK m \in ListsOf(c, s) : x \in m.cores
    BY <2>2 DEF CoresIn
  <2>4. l \in DOMAIN c /\ m \in DOMAIN c
    BY DEF ListsOf
  <2>5. l = m
    BY <2>1, <2>3, <2>4, ConfigFacts
  <2> QED BY <2>3, <2>5
<1>2. \A l : l \in ListsOf(c, p) <=> l \in ListsOf(c, q)
  BY <1>1
<1> QED BY <1>2

-----------------------------------------------------------------------------
(* Moves from one configuration to another *)

\* The lists of a process in the new configuration are those that its old ones
\* have become.
LEMMA MovedLists ==
  ASSUME NEW c \in Configs, NEW d \in Configs, NEW f \in [InUse(c) -> DOMAIN d],
         Moves(f, InUse(c), c, d), NEW p \in Pids
  PROVE  /\ \A g \in ListsOf(c, p) : g \in InUse(c) /\ f[g] \in ListsOf(d, p)
         /\ \A l \in ListsOf(d, p) : \E g \in ListsOf(c, p) : f[g] = l
<1>1. \A g \in ListsOf(c, p) : g \in InUse(c) /\ f[g] \in ListsOf(d, p)
  BY DEF ListsOf, InUse, Moves
<1>2. ASSUME NEW l \in ListsOf(d, p) PROVE \E g \in ListsOf(c, p) : f[g] = l
  <2>1. l \in DOMAIN d /\ p \in d[l]
    BY DEF ListsOf
  <2>2. PICK g \in InUse(c) : f[g] = l
    BY <2>1 DEF Moves
  <2>3. g \in DOMAIN c /\ d[l] = c[g]
    BY <2>2 DEF Moves, InUse
  <2> QED BY <2>1, <2>2, <2>3 DEF ListsOf
<1> QED BY <1>1, <1>2

\* Moved grants are grants that isolate could have made.
LEMMA MovesGrants ==
  ASSUME NEW c \in Configs, NEW d \in Configs, NEW f \in [InUse(c) -> DOMAIN d],
         Moves(f, InUse(c), c, d), Grants(c)
  PROVE  Grants(d)
<1>1. ASSUME NEW l \in DOMAIN d, l.pool \in ExclusivePools
      PROVE  Cardinality(d[l]) <= 1
  <2>1. CASE d[l] = {}
    BY <2>1, FS_EmptySet
  <2>2. CASE d[l] # {}
    <3>1. PICK g \in InUse(c) : f[g] = l
      BY <2>2 DEF Moves
    <3>2. g \in DOMAIN c /\ g.pool = l.pool /\ d[l] = c[g]
      BY <3>1 DEF Moves, InUse
    <3> QED BY <1>1, <3>2 DEF Grants
  <2> QED BY <2>1, <2>2
<1>2. ASSUME NEW p \in Pids, NEW l \in ListsOf(d, p), NEW m \in ListsOf(d, p)
      PROVE  l.pool = m.pool /\ (l.pool \notin ExclusivePools => l = m)
  <2>1. PICK g \in ListsOf(c, p) : f[g] = l
    BY MovedLists
  <2>2. PICK h \in ListsOf(c, p) : f[h] = m
    BY MovedLists
  <2>3. g \in InUse(c) /\ h \in InUse(c)
    BY MovedLists
  <2>4. g.pool = l.pool /\ h.pool = m.pool
    BY <2>1, <2>2, <2>3 DEF Moves
  <2>5. g.pool = h.pool /\ (g.pool \notin ExclusivePools => g = h)
    BY DEF Grants
  <2> QED BY <2>1, <2>2, <2>4, <2>5
<1> QED BY <1>1, <1>2 DEF Grants

\* A process has as many lists of a pool as before.
LEMMA MovesShares ==
  ASSUME NEW c \in Configs, NEW d \in Configs, NEW f \in [InUse(c) -> DOMAIN d],
         Moves(f, InUse(c), c, d), NEW p \in Pids, NEW pool \in Pools
  PROVE  Share(d, p, pool) = Share(c, p, pool)
<1> DEFINE S == {l \in ListsOf(c, p) : l.pool = pool}
           T == {l \in ListsOf(d, p) : l.pool = pool}
           b == [l \in S |-> f[l]]
<1>1. \A g \in S : g \in InUse(c) /\ f[g].pool = g.pool
  BY MovedLists DEF Moves
<1>2. \A g \in S : f[g] \in T
  BY <1>1, MovedLists
<1>3. \A g, h \in S : f[g] = f[h] => g = h
  BY <1>1 DEF Moves
<1>4. ASSUME NEW l \in T PROVE \E g \in S : f[g] = l
  <2>1. PICK g \in ListsOf(c, p) : f[g] = l
    BY MovedLists
  <2>2. g \in InUse(c)
    BY MovedLists
  <2>3. g.pool = l.pool
    BY <2>1, <2>2 DEF Moves
  <2> QED BY <2>1, <2>3
<1>5. b \in Bijection(S, T)
  <2>1. b \in [S -> T]
    BY <1>2
  <2>2. b \in Injection(S, T)
    BY <2>1, <1>3 DEF Injection, IsInjective
  <2>3. b \in Surjection(S, T)
    BY <2>1, <1>4 DEF Surjection
  <2> QED BY <2>2, <2>3 DEF Bijection
<1>6. IsFiniteSet(S)
  <2>1. S \in SUBSET DOMAIN c
    BY DEF ListsOf
  <2> QED BY <2>1, ConfigFacts, FS_Subset
<1>7. Cardinality(T) = Cardinality(S)
  <2> HIDE DEF S, T, b
  <2>1. ExistsBijection(S, T)
    BY <1>5 DEF ExistsBijection
  <2> QED BY <2>1, <1>6, FS_Bijection
<1> QED BY <1>7 DEF Share

\* Processes with the same lists have the same lists afterwards.
LEMMA MovesAlike ==
  ASSUME NEW c \in Configs, NEW d \in Configs, NEW f \in [InUse(c) -> DOMAIN d],
         Moves(f, InUse(c), c, d), NEW p \in Pids, NEW q \in Pids,
         ListsOf(c, p) = ListsOf(c, q)
  PROVE  ListsOf(d, p) = ListsOf(d, q)
<1>1. \A l : l \in ListsOf(d, p) <=> l \in ListsOf(d, q)
  BY MovedLists
<1> QED BY <1>1

-----------------------------------------------------------------------------
(* Type correctness *)

\* The initial values have their types.
LEMMA InitType == Init => TypeOK
<1> SUFFICES ASSUME Init PROVE TypeOK
  OBVIOUS
<1>1. config \in Configs /\ plan \in Plans
  <2>1. plan \in Plans
    BY BeforeAssumption DEF Init
  <2>2. PICK pl \in Before : config \in [pl.lists -> SUBSET Pids]
    BY DEF Init
  <2> QED BY <2>1, <2>2, BeforeAssumption, InConfigs
<1>2. granted \in [Pids -> SUBSET Cores]
  <2>1. \A p \in Pids : CoresIn(config, p) \subseteq Cores
    BY <1>1, ConfigFacts DEF CoresIn, ListsOf
  <2> QED BY <2>1 DEF Init
<1>3. affinity \in [Pids -> SUBSET Cores]
  BY <1>2 DEF Init
<1>4. /\ cData \in Configs /\ newCores \in [Pids -> SUBSET Cores]
      /\ settled \subseteq Pids /\ stubbed \in Stubs /\ runs \in 0 .. MaxRuns
      /\ target \in {Empty({})}
      /\ clistMismatch \subseteq DOMAIN config /\ socketMismatch \subseteq DOMAIN config
      /\ pods \subseteq Pids /\ missed \subseteq Pids
  BY <1>1, LateAssumption, RunsAssumption DEF Init
<1> QED BY <1>1, <1>2, <1>3, <1>4 DEF Init, TypeOK

\* The end of the process clears its variables.
LEMMA GoneType ==
  ASSUME TypeOK, Gone, config' = config
  PROVE  /\ target' \in Configs \cup {Empty({})} /\ cData' \in Configs
         /\ newCores' \in [Pids -> SUBSET Cores]
         /\ clistMismatch' \subseteq DOMAIN config'
         /\ socketMismatch' \subseteq DOMAIN config'
         /\ pods' \subseteq Pids /\ bound' \in BOOLEAN /\ ok' \in BOOLEAN
         /\ step' = "end"
BY DEF Gone, TypeOK

\* While lists are matched, the new configuration has the lists of the plan.
LEMMA TargetConfig ==
  ASSUME ReconfigureInv, step \in {"repatch", "lists", "match"} \cup Moving
  PROVE  target \in Configs
<1>1. DOMAIN target = plan.lists /\ plan \in Plans
  BY DEF ReconfigureInv, LayoutInv, TypeOK
<1>2. CASE target = Empty({})
  <2>1. target \in [plan.lists -> SUBSET Pids]
    BY <1>1, <1>2 DEF Empty
  <2> QED BY <1>1, <2>1, InConfigs
<1> QED BY <1>1, <1>2 DEF ReconfigureInv, TypeOK

\* A list that is given a place has a place that is there.
LEMMA PlaceType ==
  ASSUME TypeOK, target \in Configs, NEW g \in DOMAIN config,
         NEW l \in Free(g), Place(g, l)
  PROVE  target' \in Configs /\ newCores' \in [Pids -> SUBSET Cores]
<1>1. l \in DOMAIN target
  BY DEF Free, OnSocket
<1>2. config[g] \subseteq Pids
  BY ConfigFacts DEF TypeOK
<1>3. target' \in [DOMAIN target -> SUBSET Pids]
  BY <1>1, <1>2, ConfigFacts DEF Place
<1>4. l.cores \subseteq Cores
  BY <1>1, ConfigFacts
<1>5. newCores' \in [Pids -> SUBSET Cores]
  BY <1>4 DEF Place, TypeOK
<1> QED BY <1>3, <1>5, SameLists

\* A step of matching keeps the types.
LEMMA MatchType ==
  ASSUME ReconfigureInv, Match
  PROVE  TypeOK'
<1>1. TypeOK
  BY DEF ReconfigureInv
<1> USE DEF conf, mapVars, node
<1>2. CASE MatchLists
  <2>1. target \in Configs
    BY <1>2, TargetConfig DEF MatchLists
  <2>2. target' \in Configs
    <3>1. \A l \in Kept : config[l] \subseteq Pids
      BY <1>1, ConfigFacts DEF Kept, InUse, TypeOK
    <3>2. target' \in [DOMAIN target -> SUBSET Pids]
      BY <1>2, <3>1 DEF MatchLists
    <3> QED BY <2>1, <3>2, SameLists
  <2>3. newCores' \in [Pids -> SUBSET Cores]
    <3>1. \A l \in Kept : l.cores \subseteq Cores
      BY <2>1, ConfigFacts DEF Kept
    <3>2. \A p \in Pids : UNION {l.cores : l \in Kept \cap ListsOf(config, p)}
                            \subseteq Cores
      BY <3>1
    <3> QED BY <1>2, <3>2 DEF MatchLists
  <2>4. clistMismatch' \subseteq DOMAIN config /\ socketMismatch' \subseteq DOMAIN config
    BY <1>2 DEF MatchLists, InUse
  <2> QED BY <1>1, <1>2, <2>2, <2>3, <2>4 DEF MatchLists, Goto, TypeOK
<1>3. CASE \E g \in DOMAIN config : MatchSocket(g)
  <2>1. PICK g \in DOMAIN config : MatchSocket(g)
    BY <1>3
  <2>2. target \in Configs
    BY <2>1, TargetConfig DEF MatchSocket
  <2>3. target' \in Configs /\ newCores' \in [Pids -> SUBSET Cores]
    <3>1. CASE UNCHANGED <<target, newCores>>
      BY <1>1, <2>2, <3>1 DEF TypeOK
    <3>2. CASE \E l \in Free(g) : Place(g, l)
      BY <1>1, <2>2, <3>2, PlaceType
    <3> QED BY <2>1, <3>1, <3>2 DEF MatchSocket
  <2>4. clistMismatch' \subseteq DOMAIN config /\ socketMismatch' \subseteq DOMAIN config
    BY <1>1, <2>1 DEF MatchSocket, TypeOK
  <2> QED BY <1>1, <2>1, <2>3, <2>4 DEF MatchSocket, TypeOK
<1>4. CASE MatchOtherSocket
  BY <1>1, <1>4 DEF MatchOtherSocket, Raise, TypeOK
<1>5. CASE Matched
  <2>1. target \in Configs
    BY <1>5, TargetConfig DEF Matched
  <2> QED BY <1>1, <1>5, <2>1 DEF Matched, Goto, TypeOK
<1> QED BY <1>2, <1>3, <1>4, <1>5 DEF Match

\* A step keeps the types.
LEMMA StepType ==
  ASSUME ReconfigureInv, Next
  PROVE  TypeOK'
<1>1. TypeOK
  BY DEF ReconfigureInv
<1> USE DEF conf, mapVars, node
<1>2. CASE CreatePod
  <2>1. runs' \in 0 .. MaxRuns
    BY <1>1, <1>2, RunsAssumption DEF CreatePod, TypeOK
  <2> QED BY <1>1, <1>2, <2>1 DEF CreatePod, TypeOK
<1>3. CASE WaitPod \/ DeletePod
  BY <1>1, <1>3 DEF WaitPod, DeletePod, TypeOK
<1>4. CASE Lock
  BY <1>1, <1>4 DEF Lock, Goto, TypeOK
<1>5. CASE CheckProcesses \/ ConfigureFails \/ Repatch
  BY <1>1, <1>5 DEF CheckProcesses, ConfigureFails, Repatch, Goto, Raise, TypeOK
<1>6. CASE Configure
  <2>1. target' \in Configs
    <3>1. Empty(plan.lists) \in [plan.lists -> SUBSET Pids]
      BY DEF Empty
    <3> QED BY <1>1, <1>6, <3>1, InConfigs DEF Configure, TypeOK
  <2> QED BY <1>1, <1>6, <2>1 DEF Configure, Goto, TypeOK
<1>7. CASE Publish
  BY <1>1, <1>7 DEF Publish, Goto, Raise, TypeOK
<1>8. CASE ListPods \/ Executed
  BY <1>1, <1>8 DEF ListPods, Executed, Goto, Raise, TypeOK
<1>9. CASE \E p \in Pids : Execute(p)
  <2>1. PICK p \in Pids : Execute(p)
    BY <1>9
  <2>2. affinity' \in [Pids -> SUBSET Cores]
    BY <1>1, <2>1 DEF Execute, TypeOK
  <2>3. missed' \subseteq Pids /\ pods' \subseteq Pids
    BY <1>1, <2>1 DEF Execute, TypeOK
  <2> QED BY <1>1, <2>1, <2>2, <2>3 DEF Execute, TypeOK
<1>10. CASE Unlock
  <2>1. clistMismatch \subseteq DOMAIN cData /\ socketMismatch \subseteq DOMAIN cData
    BY <1>1 DEF ReconfigureInv, MovedInv, Unplaced, TypeOK
  <2> QED BY <1>1, <1>10, <2>1 DEF Unlock, TypeOK
<1>11. CASE UnlockFails \/ Kill
  BY <1>1, <1>11, GoneType DEF UnlockFails, Kill, TypeOK
<1>12. CASE Cleanup
  <2>1. map' \in BOOLEAN /\ pod' \in {"Succeeded", "Failed"}
    BY <1>1, <1>12 DEF Cleanup, TypeOK
  <2> QED BY <1>1, <1>12, <2>1, GoneType DEF Cleanup, TypeOK
<1>13. CASE \E p \in Pids : Settle(p)
  BY <1>1, <1>13 DEF Settle, TypeOK
<1> QED BY <1>2, <1>3, <1>4, <1>5, <1>6, <1>7, <1>8, <1>9, <1>10, <1>11, <1>12,
           <1>13, MatchType
        DEF Next, ReconfigureStep

-----------------------------------------------------------------------------
(* The inductive invariant *)

\* It holds at first.
LEMMA InitInv == Init => ReconfigureInv
<1> SUFFICES ASSUME Init PROVE ReconfigureInv
  OBVIOUS
<1>1. TypeOK
  BY InitType
<1>2. GrantsKept
  BY DEF Init, GrantsKept
<1>3. StepInv /\ CopyInv /\ LayoutInv /\ MatchInv /\ MovedInv /\ NewCoresInv
  BY DEF Init, StepInv, CopyInv, LayoutInv, MatchInv, MovedInv, NewCoresInv, Inside,
         Moving
<1>4. TrackInv
  BY DEF Init, TrackInv
<1>5. StuckInv
  BY DEF Init, StuckInv, Moving
<1> QED BY <1>1, <1>2, <1>3, <1>4, <1>5 DEF ReconfigureInv

\* The place in the program agrees with the pod, the lock, and the copy.
LEMMA StepStep ==
  ASSUME ReconfigureInv, Next
  PROVE  StepInv' /\ CopyInv'
<1> USE DEF ReconfigureInv, StepInv, CopyInv, Inside, Moving, conf, mapVars, node,
            Goto, Raise, Gone
<1>1. CASE CreatePod \/ WaitPod \/ DeletePod
  BY <1>1 DEF CreatePod, WaitPod, DeletePod
<1>2. CASE Lock \/ CheckProcesses \/ ConfigureFails \/ Configure \/ Repatch
  BY <1>2 DEF Lock, CheckProcesses, ConfigureFails, Configure, Repatch
<1>3. CASE MatchLists \/ MatchOtherSocket \/ Matched
  BY <1>3 DEF MatchLists, MatchOtherSocket, Matched
<1>4. CASE \E g \in DOMAIN config : MatchSocket(g)
  BY <1>4 DEF MatchSocket
<1>5. CASE Publish \/ ListPods \/ Executed
  BY <1>5 DEF Publish, ListPods, Executed
<1>6. CASE \E p \in Pids : Execute(p) \/ Settle(p)
  BY <1>6 DEF Execute, Settle
<1>7. CASE Unlock \/ UnlockFails \/ Cleanup \/ Kill
  BY <1>7 DEF Unlock, UnlockFails, Cleanup, Kill
<1> QED BY <1>1, <1>2, <1>3, <1>4, <1>5, <1>6, <1>7 DEF Next, ReconfigureStep, Match

\* The lists of the configuration are those that were asked for.
LEMMA LayoutStep ==
  ASSUME ReconfigureInv, Next
  PROVE  LayoutInv'
<1> USE DEF ReconfigureInv, LayoutInv, StepInv, CopyInv, Moving, conf, mapVars, node,
            Goto, Raise, Gone
<1>1. CASE CreatePod \/ WaitPod \/ DeletePod
  BY <1>1 DEF CreatePod, WaitPod, DeletePod
<1>2. CASE Lock \/ CheckProcesses \/ ConfigureFails \/ Configure \/ Repatch
  BY <1>2 DEF Lock, CheckProcesses, ConfigureFails, Configure, Repatch, Empty
<1>3. CASE MatchLists \/ MatchOtherSocket \/ Matched
  BY <1>3 DEF MatchLists, MatchOtherSocket, Matched
<1>4. CASE \E g \in DOMAIN config : MatchSocket(g)
  BY <1>4 DEF MatchSocket, Place
<1>5. CASE Publish \/ ListPods \/ Executed
  BY <1>5 DEF Publish, ListPods, Executed
<1>6. CASE \E p \in Pids : Execute(p) \/ Settle(p)
  BY <1>6 DEF Execute, Settle
<1>7. CASE Unlock \/ UnlockFails \/ Cleanup \/ Kill
  BY <1>7 DEF Unlock, UnlockFails, Cleanup, Kill
<1> QED BY <1>1, <1>2, <1>3, <1>4, <1>5, <1>6, <1>7 DEF Next, ReconfigureStep, Match

-----------------------------------------------------------------------------
(* Matching lists *)

\* First the lists that are there again.
LEMMA MatchListsStep ==
  ASSUME ReconfigureInv, MatchLists
  PROVE  MatchInv' /\ NewCoresInv'
<1> DEFINE f == [g \in Kept |-> g]
<1>1. /\ step' = "match" /\ config' = config /\ DOMAIN target' = DOMAIN target
      /\ \A l \in DOMAIN target : target'[l] = IF l \in Kept THEN config[l] ELSE {}
  BY DEF MatchLists, Goto
<1>2. /\ clistMismatch' \cup socketMismatch' = InUse(config) \ Kept
      /\ clistMismatch' \cap socketMismatch' = {}
  BY DEF MatchLists
<1>3. Unplaced' = InUse(config') \ DOMAIN target'
  BY <1>1, <1>2 DEF Unplaced, Kept
<1>4. Placed' = Kept
  BY <1>1, <1>2 DEF Placed, Unplaced, Kept, InUse
<1>5. f \in [Kept -> DOMAIN target]
  BY DEF Kept
<1>6. Moves(f, Kept, config, target')
  BY <1>1 DEF Moves, Kept
<1>7. MatchInv'
  BY <1>1, <1>2, <1>3, <1>4, <1>5, <1>6 DEF MatchInv
<1>8. NewCoresInv'
  <2>1. ASSUME NEW p \in Pids PROVE newCores'[p] = CoresIn(target', p)
    <3>1. newCores'[p] = UNION {l.cores : l \in Kept \cap ListsOf(config, p)}
      BY DEF MatchLists
    <3>2. ListsOf(target', p) = Kept \cap ListsOf(config, p)
      BY <1>1 DEF ListsOf, Kept, InUse
    <3> QED BY <3>1, <3>2 DEF CoresIn
  <2> QED BY <1>1, <2>1 DEF NewCoresInv
<1> QED BY <1>7, <1>8

\* Then the others, one after the other, where a list of the socket is free.
LEMMA MatchSocketStep ==
  ASSUME ReconfigureInv, NEW g \in DOMAIN config, MatchSocket(g)
  PROVE  MatchInv' /\ NewCoresInv'
<1>1. /\ step = "match" /\ step' = "match" /\ config' = config
      /\ g \in clistMismatch /\ clistMismatch' = clistMismatch \ {g}
  BY DEF MatchSocket
<1>2. /\ Unplaced \subseteq InUse(config) \ DOMAIN target
      /\ clistMismatch \cap socketMismatch = {}
  BY <1>1 DEF ReconfigureInv, MatchInv
<1>3. \A p \in Pids : newCores[p] = CoresIn(target, p)
  BY <1>1 DEF ReconfigureInv, NewCoresInv
<1>4. PICK f \in [Placed -> DOMAIN target] : Moves(f, Placed, config, target)
  BY <1>1 DEF ReconfigureInv, MatchInv
<1>5. CASE /\ socketMismatch' = socketMismatch \cup {g}
           /\ UNCHANGED <<target, newCores>>
  <2>1. Unplaced' = Unplaced
    BY <1>1, <1>5 DEF Unplaced
  <2>2. Placed' = Placed
    BY <1>1, <2>1 DEF Placed
  <2>3. clistMismatch' \cap socketMismatch' = {}
    BY <1>1, <1>2, <1>5
  <2>4. MatchInv'
    BY <1>1, <1>2, <1>4, <1>5, <2>1, <2>2, <2>3 DEF MatchInv
  <2>5. NewCoresInv'
    BY <1>1, <1>3, <1>5 DEF NewCoresInv
  <2> QED BY <2>4, <2>5
<1>6. CASE (\E l \in Free(g) : Place(g, l)) /\ UNCHANGED socketMismatch
  <2>1. PICK l \in Free(g) : Place(g, l)
    BY <1>6
  <2>2. l \in DOMAIN target /\ l.pool = g.pool /\ target[l] = {}
    BY DEF Free, OnSocket
  <2>3. /\ DOMAIN target' = DOMAIN target /\ target'[l] = config[g]
        /\ \A m \in DOMAIN target : m # l => target'[m] = target[m]
    <3>1. target \in [DOMAIN target -> SUBSET Pids]
      BY <1>1, TargetConfig, ConfigFacts
    <3> QED BY <2>1, <2>2, <3>1 DEF Place
  <2>4. g \in InUse(config) /\ g \notin DOMAIN target /\ g \notin Placed
    BY <1>1, <1>2 DEF Unplaced, Placed
  <2>5. Unplaced' = Unplaced \ {g}
    BY <1>1, <1>2, <1>6 DEF Unplaced
  <2>6. Placed' = Placed \cup {g}
    BY <1>1, <2>4, <2>5 DEF Placed
  <2> DEFINE e == [h \in Placed \cup {g} |-> IF h = g THEN l ELSE f[h]]
  <2>7. e \in [Placed \cup {g} -> DOMAIN target]
    BY <2>2
  <2>8. \A h \in Placed : f[h] # l /\ e[h] = f[h]
    <3>1. \A h \in Placed : config[h] # {}
      BY DEF Placed, InUse
    <3>2. \A h \in Placed : target[f[h]] = config[h]
      BY <1>4 DEF Moves
    <3> QED BY <2>2, <2>4, <3>1, <3>2
  <2>9. Moves(e, Placed \cup {g}, config, target')
    <3>1. \A h, i \in Placed \cup {g} : e[h] = e[i] => h = i
      BY <1>4, <2>8 DEF Moves
    <3>2. \A h \in Placed \cup {g} : e[h].pool = h.pool /\ target'[e[h]] = config[h]
      <4>1. e[g].pool = g.pool /\ target'[e[g]] = config[g]
        BY <2>2, <2>3
      <4>2. ASSUME NEW h \in Placed
            PROVE  e[h].pool = h.pool /\ target'[e[h]] = config[h]
        <5>1. f[h] \in DOMAIN target /\ f[h] # l /\ e[h] = f[h]
          BY <1>4, <2>8
        <5>2. f[h].pool = h.pool /\ target[f[h]] = config[h]
          BY <1>4 DEF Moves
        <5> QED BY <2>3, <5>1, <5>2
      <4> QED BY <4>1, <4>2
    <3>3. \A h \in (Placed \cup {g}) \cap DOMAIN target' : e[h] = h
      BY <1>4, <2>3, <2>4, <2>8 DEF Moves
    <3>4. ASSUME NEW m \in DOMAIN target', target'[m] # {}
          PROVE  \E h \in Placed \cup {g} : e[h] = m
      <4>1. CASE m = l
        BY <4>1
      <4>2. CASE m # l
        <5>1. PICK h \in Placed : f[h] = m
          BY <1>4, <2>3, <3>4, <4>2 DEF Moves
        <5> QED BY <2>8, <5>1
      <4> QED BY <4>1, <4>2
    <3> QED BY <3>1, <3>2, <3>3, <3>4 DEF Moves
  <2>10. MatchInv'
    <3> HIDE DEF e
    <3>1. clistMismatch' \cap socketMismatch' = {}
      BY <1>1, <1>2, <1>6
    <3>2. Unplaced' \subseteq InUse(config') \ DOMAIN target'
      BY <1>1, <1>2, <2>3, <2>5
    <3>3. \E x \in [Placed' -> DOMAIN target'] : Moves(x, Placed', config', target')
      BY <1>1, <2>3, <2>6, <2>7, <2>9
    <3> QED BY <3>1, <3>2, <3>3 DEF MatchInv
  <2>11. NewCoresInv'
    <3>1. ASSUME NEW p \in Pids PROVE newCores'[p] = CoresIn(target', p)
      <4>1. CASE p \in config[g]
        <5>1. newCores'[p] = CoresIn(target, p) \cup l.cores
          BY <1>3, <2>1, <4>1 DEF Place
        <5>2. ListsOf(target', p) = ListsOf(target, p) \cup {l}
          BY <2>2, <2>3, <4>1 DEF ListsOf
        <5> QED BY <5>1, <5>2 DEF CoresIn
      <4>2. CASE p \notin config[g]
        <5>1. newCores'[p] = CoresIn(target, p)
          BY <1>3, <2>1, <4>2 DEF Place
        <5>2. ListsOf(target', p) = ListsOf(target, p)
          BY <2>2, <2>3, <4>2 DEF ListsOf
        <5> QED BY <5>1, <5>2 DEF CoresIn
      <4> QED BY <4>1, <4>2
    <3> QED BY <1>1, <3>1 DEF NewCoresInv
  <2> QED BY <2>10, <2>11
<1> QED BY <1>5, <1>6 DEF MatchSocket

\* In the end every list in use has a place.
LEMMA MatchedMoves ==
  ASSUME ReconfigureInv, Matched
  PROVE  /\ target \in Configs /\ Unplaced = {}
         /\ \E f \in [InUse(config) -> DOMAIN target] :
              Moves(f, InUse(config), config, target)
<1>1. Unplaced = {} /\ step = "match"
  BY DEF Matched, Unplaced
<1>2. Placed = InUse(config)
  BY <1>1 DEF Placed
<1> QED BY <1>1, <1>2, TargetConfig DEF ReconfigureInv, MatchInv

\* The other steps leave the matching alone, or end it.
LEMMA MatchingStep ==
  ASSUME ReconfigureInv, Next
  PROVE  MatchInv' /\ NewCoresInv'
<1>1. CASE MatchLists
  BY <1>1, MatchListsStep
<1>2. CASE \E g \in DOMAIN config : MatchSocket(g)
  BY <1>2, MatchSocketStep
<1>3. CASE Publish \/ ListPods \/ Executed \/ Matched
  BY <1>3 DEF Publish, ListPods, Executed, Matched, Goto, Raise, MatchInv,
              NewCoresInv, Moving, ReconfigureInv, conf, mapVars, node
<1>4. CASE \E p \in Pids : Execute(p)
  BY <1>4 DEF Execute, MatchInv, NewCoresInv, Moving, ReconfigureInv
<1>5. CASE UNCHANGED <<step, config, conf>>
  <2>1. UNCHANGED <<step, config, target, newCores, clistMismatch, socketMismatch>>
    BY <1>5 DEF conf
  <2>2. Unplaced' = Unplaced /\ Placed' = Placed /\ InUse(config)' = InUse(config)
    BY <2>1 DEF Unplaced, Placed, InUse
  <2>3. MatchInv'
    BY <2>1, <2>2 DEF MatchInv, ReconfigureInv
  <2>4. NewCoresInv'
    BY <2>1 DEF NewCoresInv, ReconfigureInv
  <2> QED BY <2>3, <2>4
<1>6. CASE CreatePod \/ WaitPod \/ DeletePod \/ \E p \in Pids : Settle(p)
  <2>1. UNCHANGED <<config, conf>> /\ (step' = step \/ step' \in {"lock", "off"})
    BY <1>6 DEF CreatePod, WaitPod, DeletePod, Settle
  <2>2. CASE step' \in {"lock", "off"}
    BY <2>2 DEF MatchInv, NewCoresInv, Moving
  <2> QED BY <1>5, <2>1, <2>2
<1>7. CASE \/ Lock \/ CheckProcesses \/ ConfigureFails \/ Configure \/ Repatch
           \/ MatchOtherSocket \/ Unlock \/ UnlockFails \/ Cleanup \/ Kill
  <2>1. step' \notin {"match"} \cup Moving
    BY <1>7 DEF Lock, CheckProcesses, ConfigureFails, Configure, Repatch,
         MatchOtherSocket, Unlock, UnlockFails, Cleanup, Kill, Goto, Raise, Gone,
         Moving
  <2> QED BY <2>1 DEF MatchInv, NewCoresInv
<1> QED BY <1>1, <1>2, <1>3, <1>4, <1>5, <1>6, <1>7 DEF Next, ReconfigureStep, Match

-----------------------------------------------------------------------------
(* What is written, and where the processes run *)

\* unlock() writes what was read, or what it was moved to.
LEMMA MovedStep ==
  ASSUME ReconfigureInv, Next
  PROVE  MovedInv' /\ GrantsKept'
<1>1. CASE Matched
  <2>1. /\ target \in Configs /\ Unplaced = {}
        /\ \E f \in [InUse(config) -> DOMAIN target] :
             Moves(f, InUse(config), config, target)
    BY <1>1, MatchedMoves
  <2>2. Grants(target)
    BY <2>1, MovesGrants DEF ReconfigureInv, TypeOK, GrantsKept
  <2>3. /\ config' = config /\ cData' = target
        /\ UNCHANGED <<clistMismatch, socketMismatch>>
    BY <1>1 DEF Matched
  <2>4. Unplaced' = {} /\ InUse(config)' = InUse(config)
    BY <2>1, <2>3 DEF Unplaced, InUse
  <2> QED BY <2>1, <2>2, <2>3, <2>4 DEF MovedInv, GrantsKept, ReconfigureInv
<1>2. CASE cData' = config'
  <2>1. config' = config \/ config' = cData
    BY DEF Next, ReconfigureStep, Match, CreatePod, WaitPod, DeletePod, Lock,
         CheckProcesses, ConfigureFails, Configure, Repatch, MatchLists,
         MatchSocket, MatchOtherSocket, Matched, Publish, ListPods, Execute,
         Executed, Unlock, UnlockFails, Cleanup, Kill, Settle
  <2> QED BY <1>2, <2>1 DEF MovedInv, GrantsKept, ReconfigureInv
<1>3. CASE UNCHANGED <<config, cData, clistMismatch, socketMismatch>>
  <2>1. Unplaced' = Unplaced /\ InUse(config)' = InUse(config)
    BY <1>3 DEF Unplaced, InUse
  <2> QED BY <1>3, <2>1 DEF MovedInv, GrantsKept, ReconfigureInv
<1>4. CASE \/ CreatePod \/ WaitPod \/ DeletePod \/ CheckProcesses \/ ConfigureFails
           \/ Configure \/ Repatch \/ MatchOtherSocket \/ Publish \/ ListPods
           \/ Executed \/ \E p \in Pids : Execute(p) \/ Settle(p)
  BY <1>3, <1>4 DEF CreatePod, WaitPod, DeletePod, CheckProcesses, ConfigureFails,
       Configure, Repatch, MatchOtherSocket, Publish, ListPods, Executed, Execute,
       Settle, conf
<1>5. CASE Lock \/ Unlock \/ UnlockFails \/ Cleanup \/ Kill
  BY <1>2, <1>5 DEF Lock, Unlock, UnlockFails, Cleanup, Kill, Gone
<1>6. CASE MatchLists \/ \E g \in DOMAIN config : MatchSocket(g)
  <2>1. cData = config
    BY <1>6 DEF MatchLists, MatchSocket, ReconfigureInv, CopyInv, Moving
  <2>2. UNCHANGED <<cData, config>>
    BY <1>6 DEF MatchLists, MatchSocket
  <2> QED BY <1>2, <2>1, <2>2
<1> QED BY <1>1, <1>4, <1>5, <1>6 DEF Next, ReconfigureStep, Match

\* reaffinitize moves a process to its new cores, even if it takes another one
\* for itself.
LEMMA ExecuteTrack ==
  ASSUME ReconfigureInv, NEW p \in Pids, Execute(p)
  PROVE  TrackInv'
<1>1. /\ step = "exec" /\ locked /\ p \in pods /\ pods' = pods \ {p}
      /\ config \in Configs /\ cData \in Configs /\ Grants(config)
      /\ cData = target /\ affinity \in [Pids -> SUBSET Cores]
      /\ \A q \in Pids : newCores[q] = CoresIn(cData, q)
  BY DEF Execute, ReconfigureInv, StepInv, CopyInv, NewCoresInv, Moving, Inside,
         TypeOK, GrantsKept
<1>2. /\ UNCHANGED <<config, cData, settled, granted>>
      /\ missed \subseteq missed'
      /\ \A q \in Pids \ {p} : affinity'[q] = affinity[q]
  BY <1>1 DEF Execute
<1>3. \A q \in Pids \ missed :
        LET c == IF q \in pods THEN config ELSE cData
        IN  IF q \in settled THEN affinity[q] = CoresIn(c, q)
                             ELSE affinity[q] = Cores /\ granted[q] = CoresIn(c, q)
  BY <1>1 DEF ReconfigureInv, TrackInv, Inside
<1>4. ASSUME p \notin missed'
      PROVE  p \in settled /\ affinity'[p] = CoresIn(cData, p)
  <2>1. PICK q \in Pids : /\ affinity[p] = CoresIn(config, q)
                          /\ affinity' = [affinity EXCEPT ![p] = newCores[q]]
    BY <1>4 DEF Execute
  <2>2. p \notin missed
    BY <1>2, <1>4
  <2>3. p \in settled
    BY <1>4 DEF Execute
  <2>4. CoresIn(config, p) = CoresIn(config, q)
    BY <1>1, <1>3, <2>1, <2>2, <2>3
  <2>5. ListsOf(config, p) = ListsOf(config, q)
    BY <1>1, <2>4, SameCores
  <2>6. ListsOf(cData, p) = ListsOf(cData, q)
    <3>1. CASE cData = config
      BY <2>5, <3>1
    <3>2. CASE cData # config
      <4>1. PICK f \in [InUse(config) -> DOMAIN cData] :
                   Moves(f, InUse(config), config, cData)
        BY <3>2 DEF ReconfigureInv, MovedInv
      <4> QED BY <1>1, <2>5, <4>1, MovesAlike
    <3> QED BY <3>1, <3>2
  <2>7. affinity'[p] = CoresIn(cData, p)
    BY <1>1, <2>1, <2>6 DEF CoresIn
  <2> QED BY <2>3, <2>7
<1> QED BY <1>1, <1>2, <1>3, <1>4 DEF TrackInv

\* Every step leaves the processes on the cores they should have.
LEMMA TrackStep ==
  ASSUME ReconfigureInv, Next
  PROVE  TrackInv'
<1> USE DEF ReconfigureInv, StepInv, CopyInv, Inside, Moving, conf, mapVars, node,
            Goto, Raise, Gone, TrackInv
<1>1. CASE CreatePod \/ WaitPod \/ DeletePod
  BY <1>1 DEF CreatePod, WaitPod, DeletePod
<1>2. CASE Lock \/ CheckProcesses \/ ConfigureFails \/ Configure \/ Repatch
  BY <1>2 DEF Lock, CheckProcesses, ConfigureFails, Configure, Repatch
<1>3. CASE MatchLists \/ MatchOtherSocket
  BY <1>3 DEF MatchLists, MatchOtherSocket
<1>4. CASE Matched
  BY <1>4 DEF Matched
<1>5. CASE \E g \in DOMAIN config : MatchSocket(g)
  BY <1>5 DEF MatchSocket
<1>6. CASE Publish \/ ListPods \/ Executed
  BY <1>6 DEF Publish, ListPods, Executed
<1>7. CASE \E p \in Pids : Execute(p)
  BY <1>7, ExecuteTrack
<1>8. CASE \E p \in Pids : Settle(p)
  BY <1>8 DEF Settle, TypeOK
<1>9. CASE Unlock
  BY <1>9 DEF Unlock
<1>10. CASE UnlockFails \/ Cleanup \/ Kill
  BY <1>10 DEF UnlockFails, Cleanup, Kill
<1> QED BY <1>1, <1>2, <1>3, <1>4, <1>5, <1>6, <1>7, <1>8, <1>9, <1>10
        DEF Next, ReconfigureStep, Match

\* A run that raises in add_node_er() has nothing to write, and fails.
LEMMA StuckStep ==
  ASSUME ReconfigureInv, Next
  PROVE  StuckInv'
<1> USE DEF ReconfigureInv, StuckInv, StepInv, CopyInv, Inside, Moving, conf, mapVars,
            node, Goto, Raise, Gone
<1>1. CASE CreatePod \/ WaitPod \/ DeletePod
  BY <1>1 DEF CreatePod, WaitPod, DeletePod
<1>2. CASE Lock \/ CheckProcesses \/ ConfigureFails \/ Configure \/ Repatch
  BY <1>2 DEF Lock, CheckProcesses, ConfigureFails, Configure, Repatch
<1>3. CASE MatchLists \/ MatchOtherSocket \/ Matched
  BY <1>3 DEF MatchLists, MatchOtherSocket, Matched
<1>4. CASE \E g \in DOMAIN config : MatchSocket(g)
  BY <1>4 DEF MatchSocket
<1>5. CASE Publish \/ ListPods \/ Executed
  BY <1>5 DEF Publish, ListPods, Executed
<1>6. CASE \E p \in Pids : Execute(p) \/ Settle(p)
  BY <1>6 DEF Execute, Settle
<1>7. CASE Unlock \/ UnlockFails \/ Cleanup \/ Kill
  BY <1>7 DEF Unlock, UnlockFails, Cleanup, Kill
<1> QED BY <1>1, <1>2, <1>3, <1>4, <1>5, <1>6, <1>7 DEF Next, ReconfigureStep, Match

-----------------------------------------------------------------------------
(* The theorems *)

\* The inductive invariant.
THEOREM ReconfigureInvariant == Spec => []ReconfigureInv
<1>1. ReconfigureInv /\ [Next]_vars => ReconfigureInv'
  <2> SUFFICES ASSUME ReconfigureInv, [Next]_vars PROVE ReconfigureInv'
    OBVIOUS
  <2>1. CASE Next
    <3>1. TypeOK'
      BY <2>1, StepType
    <3>2. StepInv' /\ CopyInv' /\ LayoutInv'
      BY <2>1, StepStep, LayoutStep
    <3>3. MatchInv' /\ NewCoresInv'
      BY <2>1, MatchingStep
    <3>4. MovedInv' /\ GrantsKept' /\ TrackInv' /\ StuckInv'
      BY <2>1, MovedStep, TrackStep, StuckStep
    <3> QED BY <3>1, <3>2, <3>3, <3>4 DEF ReconfigureInv
  <2>2. CASE UNCHANGED vars
    <3> USE DEF vars, conf, mapVars, node
    <3>1. TypeOK' /\ GrantsKept' /\ StepInv' /\ CopyInv' /\ LayoutInv'
      BY <2>2 DEF ReconfigureInv, TypeOK, GrantsKept, StepInv, CopyInv, LayoutInv
    <3>2. Unplaced' = Unplaced /\ Placed' = Placed /\ InUse(config)' = InUse(config)
      BY <2>2 DEF Unplaced, Placed, InUse
    <3>3. MatchInv' /\ MovedInv'
      BY <2>2, <3>2 DEF ReconfigureInv, MatchInv, MovedInv
    <3>4. NewCoresInv' /\ TrackInv' /\ StuckInv'
      BY <2>2 DEF ReconfigureInv, NewCoresInv, TrackInv, StuckInv
    <3> QED BY <3>1, <3>3, <3>4 DEF ReconfigureInv
  <2> QED BY <2>1, <2>2
<1> QED BY <1>1, InitInv, PTL DEF Spec

\* Type correctness of Reconfigure.
THEOREM TypeCorrect == Spec => []TypeOK
<1>1. ReconfigureInv => TypeOK
  BY DEF ReconfigureInv
<1> QED BY <1>1, ReconfigureInvariant, PTL

\* What reconfigure writes isolate could have granted.
THEOREM GrantsStay == Spec => []GrantsKept
<1>1. ReconfigureInv => GrantsKept
  BY DEF ReconfigureInv
<1> QED BY <1>1, ReconfigureInvariant, PTL

\* With the lock free, a process that was not missed runs on its cores.
THEOREM ConfigIsTruthful == Spec => []Truthful
<1>1. ReconfigureInv => Truthful
  <2> SUFFICES ASSUME ReconfigureInv, ~locked, NEW p \in settled \ missed
               PROVE  affinity[p] = CoresIn(config, p)
    BY DEF Truthful
  <2>1. cData = config /\ p \in Pids
    BY DEF ReconfigureInv, StepInv, CopyInv, Inside, Moving, TypeOK
  <2> QED BY <2>1 DEF ReconfigureInv, TrackInv
<1> QED BY <1>1, ReconfigureInvariant, PTL

\* Success means that the node has the layout asked for, and no map is left.
THEOREM SuccessHasHappened == Spec => []SuccessIsReal
<1>1. ReconfigureInv => SuccessIsReal
  BY DEF ReconfigureInv, LayoutInv, SuccessIsReal
<1> QED BY <1>1, ReconfigureInvariant, PTL

\* The configuration changes only by a move, to what is in the copy.
LEMMA ConfigChanges ==
  ASSUME ReconfigureInv, [Next]_vars, config' # config
  PROVE  /\ config' = cData /\ config \in Configs /\ cData \in Configs
         /\ \E f \in [InUse(config) -> DOMAIN cData] :
              Moves(f, InUse(config), config, cData)
<1>1. CASE Unlock
  BY <1>1 DEF Unlock, ReconfigureInv, MovedInv, TypeOK
<1>2. CASE ~Unlock
  BY <1>2 DEF Next, ReconfigureStep, Match, CreatePod, WaitPod, DeletePod, Lock,
       CheckProcesses, ConfigureFails, Configure, Repatch, MatchLists,
       MatchSocket, MatchOtherSocket, Matched, Publish, ListPods, Execute,
       Executed, UnlockFails, Cleanup, Kill, Settle, vars
<1> QED BY <1>1, <1>2

\* No process loses or gains a list of any pool.
THEOREM SharesStay == Spec => SharesKept
<1> DEFINE Same == [\A p \in Pids : \A pool \in Pools :
                      Share(config', p, pool) = Share(config, p, pool)]_config
<1>1. ReconfigureInv /\ [Next]_vars => Same
  <2> SUFFICES ASSUME ReconfigureInv, [Next]_vars, config' # config,
                      NEW p \in Pids, NEW pool \in Pools
               PROVE  Share(config', p, pool) = Share(config, p, pool)
    OBVIOUS
  <2> QED BY ConfigChanges, MovesShares
<1> QED BY <1>1, ReconfigureInvariant, PTL DEF Spec, SharesKept

\* A list that is there before and after keeps its tasks.
THEOREM ListsStayIfPossible == Spec => StaysIfPossible
<1> DEFINE Stays == [\A l \in InUse(config) :
                       l \in DOMAIN config' => config'[l] = config[l]]_config
<1>1. ReconfigureInv /\ [Next]_vars => Stays
  <2> SUFFICES ASSUME ReconfigureInv, [Next]_vars, config' # config,
                      NEW l \in InUse(config), l \in DOMAIN config'
               PROVE  config'[l] = config[l]
    OBVIOUS
  <2>1. PICK f \in [InUse(config) -> DOMAIN cData] :
               config' = cData /\ Moves(f, InUse(config), config, cData)
    BY ConfigChanges
  <2> QED BY <2>1 DEF Moves
<1> QED BY <1>1, ReconfigureInvariant, PTL DEF Spec, StaysIfPossible

\* Every change of the configuration moves whole lists, each with its tasks, to
\* different lists of the same pool.
THEOREM ConfigMovesWhole ==
  Spec => [][\E f \in [InUse(config) -> DOMAIN config'] :
               Moves(f, InUse(config), config, config')]_config
<1> DEFINE Whole == [\E f \in [InUse(config) -> DOMAIN config'] :
                       Moves(f, InUse(config), config, config')]_config
<1>1. ReconfigureInv /\ [Next]_vars => Whole
  BY ConfigChanges
<1> QED BY <1>1, ReconfigureInvariant, PTL DEF Spec

\* As the program runs, the layout of a node is never changed, and no
\* reconfigure_setup comes to its end with success.
THEOREM AsItIsNothingDone == Spec => NothingDone
<1> DEFINE Nothing == ["add_node_er" \notin stubbed =>
                         config' = config /\ setup' # "done"]_vars
<1>1. ReconfigureInv /\ ReconfigureInv' /\ [Next]_vars => Nothing
  <2> SUFFICES ASSUME ReconfigureInv, ReconfigureInv', [Next]_vars,
                      "add_node_er" \notin stubbed
               PROVE  config' = config /\ setup' # "done"
    OBVIOUS
  <2>1. stubbed' = stubbed
    BY DEF Next, ReconfigureStep, Match, CreatePod, WaitPod, DeletePod, Lock,
       CheckProcesses, ConfigureFails, Configure, Repatch, MatchLists,
       MatchSocket, MatchOtherSocket, Matched, Publish, ListPods, Execute,
       Executed, Unlock, UnlockFails, Cleanup, Kill, Settle, vars
  <2>2. cData = config /\ setup' # "done"
    BY <2>1 DEF ReconfigureInv, StuckInv
  <2> QED BY <2>2, ConfigChanges
<1> QED BY <1>1, ReconfigureInvariant, PTL DEF Spec, NothingDone

-----------------------------------------------------------------------------
(* Every run comes to an end *)

\* The places are numbered, and what is left at a place can be counted.
LEMMA LeftCounted ==
  ASSUME TypeOK, TypeOK'
  PROVE  /\ Rank \in Nat /\ Within \in Nat
         /\ Rank' \in Nat /\ Within' \in Nat
<1>1. Rank \in Nat /\ Rank' \in Nat
  BY DEF TypeOK, Rank
<1>2. IsFiniteSet(clistMismatch) /\ IsFiniteSet(clistMismatch')
  BY ConfigFacts, FS_Subset DEF TypeOK
<1>3. IsFiniteSet(pods) /\ IsFiniteSet(pods')
  BY PidsAssumption, FS_Subset DEF TypeOK
<1>4. Within \in Nat
  BY <1>2, <1>3, FS_CardinalityType DEF Within
<1>5. Within' \in Nat
  BY <1>2, <1>3, FS_CardinalityType DEF Within
<1> QED BY <1>1, <1>4, <1>5

\* A set with an element less counts less.
LEMMA OneLess ==
  ASSUME NEW S, NEW e \in S, IsFiniteSet(S)
  PROVE  Cardinality(S \ {e}) < Cardinality(S)
<1>1. Cardinality(S \ {e}) = Cardinality(S) - 1
  BY FS_RemoveElement
<1>2. Cardinality(S) \in Nat
  BY FS_CardinalityType
<1> QED BY <1>1, <1>2

\* A step of reconfigure comes nearer to its end.
LEMMA StepNearer ==
  ASSUME ReconfigureInv, ReconfigureInv', ReconfigureStep
  PROVE  Nearer
<1>1. TypeOK /\ TypeOK'
  BY DEF ReconfigureInv
<1>2. Rank \in Nat /\ Within \in Nat /\ Rank' \in Nat /\ Within' \in Nat
  BY <1>1, LeftCounted
<1>3. CASE \E p \in Pids : Execute(p)
  <2>1. PICK p \in Pids : Execute(p)
    BY <1>3
  <2>2. step = "exec" /\ step' = "exec" /\ p \in pods /\ pods' = pods \ {p}
    BY <2>1 DEF Execute
  <2>3. IsFiniteSet(pods)
    BY <1>1, PidsAssumption, FS_Subset DEF TypeOK
  <2>4. Within' < Within
    BY <2>2, <2>3, OneLess DEF Within
  <2> QED BY <1>2, <2>2, <2>4 DEF Nearer, Rank
<1>4. CASE \E g \in DOMAIN config : MatchSocket(g)
  <2>1. PICK g \in DOMAIN config : MatchSocket(g)
    BY <1>4
  <2>2. /\ step = "match" /\ step' = "match" /\ g \in clistMismatch
        /\ clistMismatch' = clistMismatch \ {g}
    BY <2>1 DEF MatchSocket
  <2>3. IsFiniteSet(clistMismatch)
    BY <1>1, ConfigFacts, FS_Subset DEF TypeOK
  <2>4. Within' < Within
    BY <2>2, <2>3, OneLess DEF Within
  <2> QED BY <1>2, <2>2, <2>4 DEF Nearer, Rank
<1>5. CASE ~(\E p \in Pids : Execute(p)) /\ ~(\E g \in DOMAIN config : MatchSocket(g))
  <2>1. Rank' < Rank
    BY <1>5 DEF ReconfigureStep, Match, CheckProcesses, ConfigureFails, Configure,
       Repatch, MatchLists, MatchOtherSocket, Matched, Publish, ListPods, Executed,
       Unlock, UnlockFails, Cleanup, Goto, Raise, Gone, Rank
  <2> QED BY <1>2, <2>1 DEF Nearer
<1> QED BY <1>3, <1>4, <1>5

\* Nobody else takes a run back.
LEMMA OthersStay ==
  ASSUME ReconfigureInv, ReconfigureInv', [Next]_vars, ~ReconfigureStep,
         step \notin {"off", "lock", "end"}
  PROVE  Nearer \/ UNCHANGED <<step, Within>>
<1>1. pod = "Running"
  BY DEF ReconfigureInv, StepInv
<1>2. CASE UNCHANGED <<step, clistMismatch, pods>>
  BY <1>2 DEF Within
<1>3. CASE Kill
  <2>1. TypeOK /\ TypeOK'
    BY DEF ReconfigureInv
  <2>2. Rank' = 0 /\ Rank > 0
    BY <1>3, <2>1 DEF Kill, Gone, Rank, TypeOK
  <2>3. Rank \in Nat /\ Rank' \in Nat /\ Within' \in Nat
    BY <2>1, LeftCounted
  <2> QED BY <2>2, <2>3 DEF Nearer
<1>4. CASE CreatePod \/ WaitPod \/ DeletePod \/ Lock \/ UNCHANGED vars
           \/ \E p \in Pids : Settle(p)
  BY <1>1, <1>2, <1>4 DEF CreatePod, WaitPod, DeletePod, Lock, Settle, conf, vars
<1> QED BY <1>3, <1>4 DEF Next

\* A run that has the lock has only so many steps left, for any number of
\* processes and lists and whatever fails.
THEOREM RunsAdvance == Spec => RunAdvances
<1> DEFINE Advances == [step \notin {"off", "lock", "end"} =>
                          /\ ReconfigureStep => Nearer
                          /\ Nearer \/ UNCHANGED <<step, Within>>]_vars
<1>1. ReconfigureInv /\ ReconfigureInv' /\ [Next]_vars => Advances
  BY StepNearer, OthersStay
<1> QED BY <1>1, ReconfigureInvariant, PTL DEF Spec, RunAdvances
=============================================================================
