-------------------------- MODULE InitPoolsProofs --------------------------
(***************************************************************************)
(* Proofs about InitPools, for every machine, request and mode: types, the *)
(* separation of the cpu lists, that isolated cores stay where they were   *)
(* asked for, and, by counting with Ranks, the sizes of the pools, why     *)
(* init may fail, and the balance of the sockets.                          *)
(***************************************************************************)
EXTENDS InitPools, Ranks, TLAPS

\* The cpu lists are written once, by the last step, from the pools.
WrittenInv == lists = IF step = "done" THEN CoreLists \cup PoolLists ELSE {}

\* Without SST-CP every step takes from isolated cores for exclusive and
\* shared, and from the others for the other two pools.
KeptInv ==
  in.isolated # {} /\ ~in.sstCp =>
    \A c \in Cores :
      /\ pool[c] \in {"exclusive", "shared"} => c \in in.isolated
      /\ pool[c] \in {"exclusive-non-isolcpus", "infra"} => c \notin in.isolated

PoolsInv == TypeOK /\ WrittenInv /\ KeptInv

-----------------------------------------------------------------------------
(* What the lists contain *)

\* The lists have the types of the configmap.
LEMMA ListsTyped ==
  ASSUME pool \in [Cores -> Pools \cup {None}]
  PROVE  CoreLists \cup PoolLists
           \subseteq [pool: Pools, socket: {SocketOf[c] : c \in Cores},
                      cores: SUBSET Cores]
<1>1. CoreLists \subseteq [pool: Pools, socket: {SocketOf[c] : c \in Cores},
                          cores: SUBSET Cores]
  BY DEF CoreLists, Pools, ExclusivePools
<1>2. PoolLists \subseteq [pool: Pools, socket: {SocketOf[c] : c \in Cores},
                          cores: SUBSET Cores]
  BY DEF PoolLists, Pools, ExclusivePools
<1> QED BY <1>1, <1>2

\* A core is in a list of its own pool and socket only.
LEMMA InItsList ==
  ASSUME NEW l \in CoreLists \cup PoolLists, NEW c \in l.cores
  PROVE  c \in Cores /\ pool[c] = l.pool /\ SocketOf[c] = l.socket
<1>1. CASE l \in CoreLists
  BY <1>1 DEF CoreLists
<1>2. CASE l \in PoolLists
  BY <1>2 DEF PoolLists
<1> QED BY <1>1, <1>2

\* Two lists that share a core are the same list.
LEMMA OneListPerCore ==
  ASSUME NEW l \in CoreLists \cup PoolLists, NEW m \in CoreLists \cup PoolLists,
         NEW c \in l.cores, c \in m.cores
  PROVE  l = m
<1>1. pool[c] = l.pool /\ SocketOf[c] = l.socket
  BY InItsList
<1>2. pool[c] = m.pool /\ SocketOf[c] = m.socket
  BY InItsList
<1>3. CASE l \in CoreLists
  <2>1. l.pool \in {"exclusive", "exclusive-non-isolcpus"}
    BY <1>3 DEF CoreLists
  <2>2. m \in CoreLists
    BY <2>1, <1>1, <1>2 DEF PoolLists
  <2> QED BY <1>3, <2>2 DEF CoreLists
<1>4. CASE l \in PoolLists
  <2>1. l.pool \in {"shared", "infra"}
    BY <1>4 DEF PoolLists
  <2>2. m \in PoolLists
    BY <2>1, <1>1, <1>2 DEF CoreLists
  <2> QED BY <1>4, <2>2, <1>1, <1>2 DEF PoolLists
<1> QED BY <1>3, <1>4

\* The cores are finitely many numbers, and so are those of a set of them.
LEMMA CoresFinite ==
  /\ Cores \subseteq Nat
  /\ \A S \in SUBSET Cores : IsFiniteSet(S) /\ Cardinality(S) \in Nat
<1>1. IsFiniteSet(Cores) /\ Cores = 0 .. (Cardinality(Cores) - 1)
  BY CoresAssumption
<1>2. Cores \subseteq Nat
  <2>1. Cardinality(Cores) \in Nat
    BY <1>1, FS_CardinalityType
  <2> QED BY <1>1, <2>1
<1>3. \A S \in SUBSET Cores : IsFiniteSet(S) /\ Cardinality(S) \in Nat
  BY <1>1, FS_Subset, FS_CardinalityType
<1> QED BY <1>2, <1>3

\* Lists that have cores, and none in common, are no more than the cores.
LEMMA ListsFinite ==
  ASSUME NEW ls, \A l \in ls : l.cores # {} /\ l.cores \subseteq Cores,
         \A l, m \in ls : l.cores \cap m.cores # {} => l = m
  PROVE  IsFiniteSet(ls)
<1> DEFINE f == [l \in ls |-> CHOOSE c \in Cores : c \in l.cores]
<1>1. \A l \in ls : f[l] \in Cores /\ f[l] \in l.cores
  OBVIOUS
<1>2. f \in [ls -> Cores]
  BY <1>1
<1> HIDE DEF f
<1>3. f \in Injection(ls, Cores)
  BY <1>1, <1>2 DEF Injection, IsInjective
<1> QED BY <1>3, CoresAssumption, FS_Injection DEF ExistsInjection

-----------------------------------------------------------------------------
(* The steps *)

\* Every step but the last leaves the configmap unwritten.
LEMMA StartHolds == Init => PoolsInv
<1> SUFFICES ASSUME Init PROVE PoolsInv
  OBVIOUS
<1>1. IsInput(in)
  BY InputsAssumption DEF Init
<1>2. TypeOK
  BY <1>1 DEF Init, TypeOK, None
<1>3. WrittenInv
  BY DEF Init, WrittenInv
<1>4. KeptInv
  BY DEF Init, KeptInv, None
<1> QED BY <1>2, <1>3, <1>4 DEF PoolsInv

\* A step that raises changes nothing but the step.
LEMMA RaiseHolds ==
  ASSUME PoolsInv, step # "done", Raise
  PROVE  PoolsInv'
<1>1. TypeOK'
  BY DEF PoolsInv, TypeOK, Raise, SocketOf
<1>2. WrittenInv'
  BY DEF PoolsInv, WrittenInv, Raise
<1>3. KeptInv'
  BY DEF PoolsInv, KeptInv, Raise
<1> QED BY <1>1, <1>2, <1>3 DEF PoolsInv

\* A pool may take any cores that suit it.
LEMMA TakeHolds ==
  ASSUME PoolsInv, step # "done", NEW S, NEW name \in Pools,
         NEW next \in {"shared", "nonIsol", "infra", "store"}, Take(S, name, next),
         in.isolated # {} /\ ~in.sstCp =>
           \A c \in S \cap Cores :
             (c \in in.isolated) <=> (name \in {"exclusive", "shared"})
  PROVE  PoolsInv'
<1>1. TypeOK'
  BY DEF PoolsInv, TypeOK, Take, SocketOf
<1>2. WrittenInv'
  BY DEF PoolsInv, WrittenInv, Take
<1>3. KeptInv'
  BY DEF PoolsInv, TypeOK, KeptInv, Take, Pools, ExclusivePools
<1> QED BY <1>1, <1>2, <1>3 DEF PoolsInv

\* The cores that are free are some of those the pool may take.
LEMMA FirstFreeInside ==
  ASSUME NEW n, NEW S, NEW mode
  PROVE  FirstFree(n, S, mode) \subseteq S
BY DEF FirstFree, Unassigned

LEMMA CheckHolds == PoolsInv /\ Check => PoolsInv'
<1> SUFFICES ASSUME PoolsInv, Check PROVE PoolsInv'
  OBVIOUS
<1>1. CASE Raise
  BY <1>1, RaiseHolds DEF Check
<1>2. CASE step' = "exclusive" /\ UNCHANGED <<in, pool, lists>>
  <2>1. TypeOK'
    BY <1>2 DEF PoolsInv, TypeOK, SocketOf
  <2>2. WrittenInv'
    BY <1>2 DEF PoolsInv, WrittenInv, Check
  <2>3. KeptInv'
    BY <1>2 DEF PoolsInv, KeptInv
  <2> QED BY <2>1, <2>2, <2>3 DEF PoolsInv
<1> QED BY <1>1, <1>2 DEF Check

LEMMA AssignExclusiveHolds == PoolsInv /\ AssignExclusive => PoolsInv'
<1> SUFFICES ASSUME PoolsInv, AssignExclusive PROVE PoolsInv'
  OBVIOUS
<1>1. CASE Raise
  BY <1>1, RaiseHolds DEF AssignExclusive
<1>2. CASE ~Raise
  <2> DEFINE S == FirstFree(in.numExclusive, ExclusiveCores, in.exclusiveMode)
  <2>1. Take(S, "exclusive", "shared")
    BY <1>2 DEF AssignExclusive, Assign
  <2>2. in.isolated # {} /\ ~in.sstCp => ExclusiveCores \subseteq in.isolated
    BY DEF ExclusiveCores, Branch
  <2>3. S \subseteq ExclusiveCores
    BY FirstFreeInside
  <2> HIDE DEF S
  <2> QED BY <2>1, <2>2, <2>3, TakeHolds DEF AssignExclusive, Pools, ExclusivePools
<1> QED BY <1>1, <1>2

LEMMA AssignSharedHolds == PoolsInv /\ AssignShared => PoolsInv'
<1> SUFFICES ASSUME PoolsInv, AssignShared PROVE PoolsInv'
  OBVIOUS
<1>1. CASE Raise
  BY <1>1, RaiseHolds DEF AssignShared
<1>2. CASE ~Raise
  <2> DEFINE S == FirstFree(in.numShared, SharedCores, in.sharedMode)
             next == IF Branch = "all" THEN "infra" ELSE "nonIsol"
  <2>1. Take(S, "shared", next)
    BY <1>2 DEF AssignShared, Assign
  <2>2. in.isolated # {} /\ ~in.sstCp => SharedCores \subseteq in.isolated
    BY DEF SharedCores, Branch
  <2>3. S \subseteq SharedCores
    BY FirstFreeInside
  <2>4. next \in {"shared", "nonIsol", "infra", "store"}
    OBVIOUS
  <2> HIDE DEF S, next
  <2> QED BY <2>1, <2>2, <2>3, <2>4, TakeHolds DEF AssignShared, Pools, ExclusivePools
<1> QED BY <1>1, <1>2

LEMMA AssignNonIsolHolds == PoolsInv /\ AssignNonIsol => PoolsInv'
<1> SUFFICES ASSUME PoolsInv, AssignNonIsol PROVE PoolsInv'
  OBVIOUS
<1>1. CASE Raise
  BY <1>1, RaiseHolds DEF AssignNonIsol
<1>2. CASE ~Raise
  <2>1. Take(in.nonIsol, "exclusive-non-isolcpus", "infra")
    BY <1>2 DEF AssignNonIsol
  <2>2. \A c \in in.nonIsol \cap Cores : c \notin in.isolated
    BY <1>2 DEF AssignNonIsol
  <2> QED BY <2>1, <2>2, TakeHolds DEF AssignNonIsol, Pools, ExclusivePools
<1> QED BY <1>1, <1>2

LEMMA AssignInfraHolds == PoolsInv /\ AssignInfra => PoolsInv'
<1> SUFFICES ASSUME PoolsInv, AssignInfra PROVE PoolsInv'
  OBVIOUS
<1>1. CASE Raise
  BY <1>1, RaiseHolds DEF AssignInfra
<1>2. CASE ~Raise
  <2>1. Take(Unassigned(InfraCores), "infra", "store")
    BY <1>2 DEF AssignInfra
  <2>2. in.isolated # {} /\ ~in.sstCp =>
          Unassigned(InfraCores) \cap in.isolated = {}
    BY DEF InfraCores, Branch, Unassigned
  <2> QED BY <2>1, <2>2, TakeHolds DEF AssignInfra, Pools, ExclusivePools
<1> QED BY <1>1, <1>2

LEMMA StoreHolds == PoolsInv /\ Store => PoolsInv'
<1> SUFFICES ASSUME PoolsInv, Store PROVE PoolsInv'
  OBVIOUS
<1>1. /\ lists' = CoreLists \cup PoolLists /\ step' = "done"
      /\ in' = in /\ pool' = pool
  BY DEF Store
<1>2. TypeOK'
  BY <1>1, ListsTyped DEF PoolsInv, TypeOK, SocketOf
<1>3. WrittenInv'
  BY <1>1 DEF WrittenInv, CoreLists, PoolLists, SocketOf
<1>4. KeptInv'
  BY <1>1 DEF PoolsInv, KeptInv
<1> QED BY <1>2, <1>3, <1>4 DEF PoolsInv

\* PoolsInv is an invariant of cmk init.
THEOREM PoolsInvariant == Spec => []PoolsInv
<1>1. PoolsInv /\ [Next]_vars => PoolsInv'
  <2> SUFFICES ASSUME PoolsInv, [Next]_vars PROVE PoolsInv'
    OBVIOUS
  <2>1. CASE UNCHANGED vars
    BY <2>1 DEF vars, PoolsInv, TypeOK, WrittenInv, KeptInv, CoreLists, PoolLists,
                SocketOf
  <2> QED
    BY <2>1, CheckHolds, AssignExclusiveHolds, AssignSharedHolds,
       AssignNonIsolHolds, AssignInfraHolds, StoreHolds DEF Next
<1> QED BY <1>1, StartHolds, PTL DEF Spec

\* Type correctness of cmk init.
THEOREM TypeCorrect == Spec => []TypeOK
<1>1. PoolsInv => TypeOK
  BY DEF PoolsInv
<1> QED BY <1>1, PoolsInvariant, PTL

\* Whatever the machine and the request, init writes a layout, and no list of it
\* crosses a socket.
THEOREM ListsAreSeparate == Spec => []ListsSeparate
<1>1. PoolsInv => ListsSeparate
  <2> SUFFICES ASSUME PoolsInv PROVE ListsSeparate
    OBVIOUS
  <2>1. lists \subseteq CoreLists \cup PoolLists
    BY DEF PoolsInv, WrittenInv
  <2>2. \A l \in lists : \A c \in l.cores : SocketOf[c] = l.socket
    BY <2>1, InItsList
  <2>3. \A l, m \in lists : l.cores \cap m.cores # {} => l = m
    BY <2>1, OneListPerCore
  <2>4. \A l \in lists : l.cores # {}
    BY <2>1 DEF CoreLists, PoolLists
  <2>5. lists \subseteq List
    <3>1. {SocketOf[c] : c \in Cores} \subseteq Nat
      BY DEF PoolsInv, TypeOK, IsInput, SocketOf
    <3> QED BY <3>1 DEF PoolsInv, TypeOK, List
  <2>6. IsFiniteSet(lists)
    BY <2>3, <2>4, <2>5, ListsFinite DEF List
  <2> QED BY <2>2, <2>3, <2>4, <2>5, <2>6 DEF ListsSeparate, IsLayout
<1> QED BY <1>1, PoolsInvariant, PTL

\* Without SST-CP, init gives isolated cores to the exclusive and shared pools
\* only and no other cores to these, for any machine and request.
THEOREM IsolatedStay == Spec => []IsolatedKept
<1>1. PoolsInv => IsolatedKept
  <2> SUFFICES ASSUME PoolsInv, step = "done", in.isolated # {}, ~in.sstCp
      PROVE  /\ CoresOf("exclusive") \cup CoresOf("shared") \subseteq in.isolated
             /\ (CoresOf("infra") \cup CoresOf("exclusive-non-isolcpus"))
                  \cap in.isolated = {}
    BY DEF IsolatedKept
  <2>1. lists \subseteq CoreLists \cup PoolLists
    BY DEF PoolsInv, WrittenInv
  <2>2. ASSUME NEW p, NEW c \in CoresOf(p) PROVE c \in Cores /\ pool[c] = p
    BY <2>1, InItsList DEF CoresOf, ListsOf
  <2>3. \A c \in Cores :
          /\ pool[c] \in {"exclusive", "shared"} => c \in in.isolated
          /\ pool[c] \in {"exclusive-non-isolcpus", "infra"} => c \notin in.isolated
    BY DEF PoolsInv, KeptInv
  <2> QED BY <2>2, <2>3
<1> QED BY <1>1, PoolsInvariant, PTL

-----------------------------------------------------------------------------
(* The order of the cores *)

\* On one socket the spread takes the cores by their ids.
LEMMA TurnGrows ==
  ASSUME NEW S \in SUBSET Cores
  PROVE  /\ \A c \in S : Turn(c, S) \in Nat
         /\ \A c, d \in S : SocketOf[d] = SocketOf[c] /\ d < c
                             => Turn(d, S) < Turn(c, S)
<1> DEFINE lower(c) == {d \in S : SocketOf[d] = SocketOf[c] /\ d < c}
<1>1. \A c \in S : IsFiniteSet(lower(c)) /\ Cardinality(lower(c)) \in Nat
  BY CoresFinite
<1>2. ASSUME NEW c \in S, NEW d \in S, SocketOf[d] = SocketOf[c], d < c
      PROVE  Cardinality(lower(d)) < Cardinality(lower(c))
  <2>1. c \in Nat /\ \A e \in S : e \in Nat
    BY CoresFinite
  <2>2. lower(d) \subseteq lower(c) /\ d \in lower(c) /\ d \notin lower(d)
    <3>1. ASSUME NEW e \in lower(d) PROVE e \in lower(c)
      <4>1. e \in S /\ SocketOf[e] = SocketOf[d] /\ e < d
        OBVIOUS
      <4>2. e < c
        BY <1>2, <2>1, <4>1
      <4> QED BY <1>2, <4>1, <4>2
    <3>2. d \notin lower(d)
      BY <2>1
    <3> QED BY <1>2, <3>1, <3>2
  <2> HIDE DEF lower
  <2>3. /\ Cardinality(lower(d)) <= Cardinality(lower(c))
        /\ Cardinality(lower(d)) # Cardinality(lower(c))
    BY <1>1, <2>2, FS_Subset
  <2> QED BY <1>1, <2>3
<1> QED BY <1>1, <1>2 DEF Turn

\* The order in which assign takes cores is a strict total order.
LEMMA BeforeOrders ==
  ASSUME IsInput(in), NEW S \in SUBSET Cores, NEW U \in SUBSET S, NEW mode
  PROVE  Orders({e \in U \X U : Before(e[1], e[2], S, mode)}, U)
<1>1. /\ \A c \in S : c \in Nat /\ SocketOf[c] \in Nat /\ Turn(c, S) \in Nat
      /\ \A c, d \in S : SocketOf[d] = SocketOf[c] /\ d < c
                          => Turn(d, S) < Turn(c, S)
  BY CoresFinite, TurnGrows DEF IsInput, SocketOf
<1>2. ASSUME NEW c \in S, NEW d \in S, c # d
      PROVE  Before(c, d, S, mode) \/ Before(d, c, S, mode)
  <2>1. PackedBefore(c, d) \/ PackedBefore(d, c)
    BY <1>1, <1>2 DEF PackedBefore
  <2>2. SpreadBefore(c, d, S) \/ SpreadBefore(d, c, S)
    BY <1>1, <1>2 DEF SpreadBefore
  <2> QED BY <2>1, <2>2 DEF Before
<1>3. ASSUME NEW c \in S, NEW d \in S, NEW e \in S,
             Before(c, d, S, mode), Before(d, e, S, mode)
      PROVE  Before(c, e, S, mode)
  <2>1. PackedBefore(c, d) /\ PackedBefore(d, e) => PackedBefore(c, e)
    BY <1>1 DEF PackedBefore
  <2>2. SpreadBefore(c, d, S) /\ SpreadBefore(d, e, S) => SpreadBefore(c, e, S)
    BY <1>1 DEF SpreadBefore
  <2> QED BY <1>3, <2>1, <2>2 DEF Before
<1>4. ASSUME NEW c \in S PROVE ~Before(c, c, S, mode)
  BY <1>1 DEF Before, PackedBefore, SpreadBefore
<1> HIDE DEF Before
<1> QED BY <1>2, <1>3, <1>4 DEF Orders

\* The first n cores of S that are in U.
FirstOf(n, U, S, mode) ==
  {c \in U : Cardinality({d \in U : Before(d, c, S, mode)}) < n}

\* There are n of them, if U has as many.
LEMMA FirstOfSize ==
  ASSUME IsInput(in), NEW S \in SUBSET Cores, NEW U \in SUBSET S, NEW mode,
         NEW n \in Nat, n <= Cardinality(U)
  PROVE  Cardinality(FirstOf(n, U, S, mode)) = n
<1> DEFINE R == {e \in U \X U : Before(e[1], e[2], S, mode)}
<1>1. \A c \in U : Below(c, R, U) = {d \in U : Before(d, c, S, mode)}
  BY DEF Below
<1>2. Lowest(n, R, U) = FirstOf(n, U, S, mode)
  BY <1>1 DEF Lowest, FirstOf
<1>3. Orders(R, U) /\ IsFiniteSet(U)
  BY BeforeOrders, CoresFinite
<1>4. Cardinality(Lowest(n, R, U)) = n
  <2> HIDE DEF R
  <2> QED BY <1>3, LowestSize
<1> QED BY <1>2, <1>4

-----------------------------------------------------------------------------
(* The sizes of the pools *)

Taken(p) == {c \in Cores : pool[c] = p}

\* The pools that no step has filled yet are empty.
FilledInv ==
  /\ step = "nonIsol" => in.isolated # {}
  /\ \A c \in Cores :
       /\ step \in {"check", "exclusive"} => pool[c] = None
       /\ step = "shared" => pool[c] \in {None, "exclusive"}
       /\ step = "nonIsol" => pool[c] \in {None, "exclusive", "shared"}
       /\ step = "infra" =>
            /\ pool[c] \in {None, "exclusive", "shared", "exclusive-non-isolcpus"}
            /\ in.isolated = {} => pool[c] # "exclusive-non-isolcpus"

\* The others have what was asked for.
SizedInv ==
  /\ step \in {"shared", "nonIsol", "infra", "store", "done"} =>
       /\ Taken("exclusive") =
            FirstOf(in.numExclusive, ExclusiveCores, ExclusiveCores, in.exclusiveMode)
       /\ Cardinality(Taken("exclusive")) = in.numExclusive
  /\ step \in {"nonIsol", "infra", "store", "done"} =>
       Cardinality(Taken("shared")) = in.numShared
  /\ step \in {"infra", "store", "done"} /\ in.isolated # {} =>
       Taken("exclusive-non-isolcpus") = in.nonIsol
  /\ step \in {"store", "done"} => Taken("infra") # {}

CountInv == PoolsInv /\ FilledInv /\ SizedInv /\ FailsOnlyIfImpossible

\* A step of assign takes as many free cores as it was asked for.
LEMMA FirstFreeSize ==
  ASSUME IsInput(in), NEW S \in SUBSET Cores, NEW mode, NEW n \in Nat,
         ~(Cardinality(Unassigned(S)) < n)
  PROVE  /\ Cardinality(FirstFree(n, S, mode)) = n
         /\ FirstFree(n, S, mode) \subseteq Unassigned(S)
<1>1. Unassigned(S) \in SUBSET S
  BY DEF Unassigned
<1>2. n <= Cardinality(Unassigned(S))
  BY <1>1, CoresFinite
<1>3. FirstFree(n, S, mode) = FirstOf(n, Unassigned(S), S, mode)
  BY DEF FirstFree, FirstOf
<1>4. Cardinality(FirstOf(n, Unassigned(S), S, mode)) = n
  BY <1>1, <1>2, FirstOfSize
<1>5. FirstFree(n, S, mode) \subseteq Unassigned(S)
  BY DEF FirstFree
<1> QED BY <1>3, <1>4, <1>5

\* The cores taken are those of the pool, if it was empty, and no others change.
LEMMA TakeFills ==
  ASSUME NEW S, S \subseteq Unassigned(Cores), NEW name \in Pools, NEW next,
         Take(S, name, next), TypeOK, \A c \in Cores : pool[c] # name
  PROVE  /\ Taken(name)' = S
         /\ \A p \in Pools \ {name} : Taken(p)' = Taken(p)
BY DEF Take, Taken, Unassigned, TypeOK, Pools, ExclusivePools, None

\* The cores each pool may take.
LEMMA MayTake ==
  ASSUME IsInput(in)
  PROVE  ExclusiveCores \subseteq Cores /\ SharedCores \subseteq Cores
         /\ InfraCores \subseteq Cores
BY DEF IsInput, ExclusiveCores, SharedCores, InfraCores, EppCores, Branch

\* Without SST the exclusive and the shared pool take from the same cores.
LEMMA SameCores ==
  ASSUME ~in.sstCp, in.bf = {}
  PROVE  /\ SharedCores = ExclusiveCores
         /\ ExclusiveCores = IF in.isolated = {} THEN Cores ELSE in.isolated
         /\ InfraCores = Cores \ in.isolated
BY DEF SharedCores, ExclusiveCores, InfraCores, Branch

\* The input stays, and with it what the exclusive pool takes.
LEMMA SameInput ==
  ASSUME in' = in
  PROVE  FirstOf(in.numExclusive, ExclusiveCores, ExclusiveCores, in.exclusiveMode)'
           = FirstOf(in.numExclusive, ExclusiveCores, ExclusiveCores, in.exclusiveMode)
<1>1. EppValues' = EppValues /\ Branch' = Branch
  BY DEF EppValues, Branch
<1>2. \A k : EppCores(k)' = EppCores(k)
  BY <1>1 DEF EppCores
<1>3. \A c, d : PackedBefore(c, d)' <=> PackedBefore(c, d)
  BY DEF PackedBefore, SocketOf
<1>4. \A c, S : Turn(c, S)' = Turn(c, S)
  BY DEF Turn, SocketOf
<1>5. \A c, d, S, mode : Before(c, d, S, mode)' <=> Before(c, d, S, mode)
  BY <1>3, <1>4 DEF Before, SpreadBefore, SocketOf
<1>6. ExclusiveCores' = ExclusiveCores
  BY <1>1, <1>2, <1>3 DEF ExclusiveCores
<1>7. \A n, U, S, mode : FirstOf(n, U, S, mode)' = FirstOf(n, U, S, mode)
  BY <1>5 DEF FirstOf
<1> QED BY <1>6, <1>7

\* What a step keeps that fills no pool: the sizes, and the shape.
LEMMA KeepsSizes ==
  ASSUME in' = in, pool' = pool
  PROVE  /\ \A p : Taken(p)' = Taken(p)
         /\ FirstOf(in.numExclusive, ExclusiveCores, ExclusiveCores, in.exclusiveMode)'
              = FirstOf(in.numExclusive, ExclusiveCores, ExclusiveCores, in.exclusiveMode)
BY SameInput DEF Taken

\* A step that raises is left with what the request says.
LEMMA RaiseCounts ==
  ASSUME CountInv, Raise,
         ~in.sstCp /\ in.bf = {} =>
           \/ Cardinality(ExclusiveCores) < Requested
           \/ Cardinality(Cores \ in.isolated)
                <= (IF in.isolated = {} THEN Requested ELSE Cardinality(in.nonIsol))
           \/ in.isolated # {} /\ ~(in.nonIsol \subseteq Cores \ in.isolated)
  PROVE  FilledInv' /\ SizedInv' /\ FailsOnlyIfImpossible'
<1>1. in' = in /\ step' = "error"
  BY DEF Raise
<1>2. ASSUME ~in.sstCp, in.bf = {} PROVE ExclusiveCores' = ExclusiveCores
  BY <1>1, <1>2 DEF ExclusiveCores, Branch
<1> QED BY <1>1, <1>2 DEF FilledInv, SizedInv, FailsOnlyIfImpossible, Requested

LEMMA CheckCounts ==
  CountInv /\ Check => FilledInv' /\ SizedInv' /\ FailsOnlyIfImpossible'
<1> SUFFICES ASSUME CountInv, Check
             PROVE  FilledInv' /\ SizedInv' /\ FailsOnlyIfImpossible'
  OBVIOUS
<1>1. CASE Raise
  <2>1. ~in.sstCp /\ in.bf = {} => in.isolated # {} /\ Cardinality(in.isolated) < Requested
    BY <1>1 DEF Check, Branch, Raise
  <2> QED BY <1>1, <2>1, SameCores, RaiseCounts
<1>2. CASE step' = "exclusive" /\ UNCHANGED <<in, pool, lists>>
  BY <1>2 DEF Check, CountInv, FilledInv, SizedInv, FailsOnlyIfImpossible
<1> QED BY <1>1, <1>2 DEF Check

LEMMA AssignExclusiveCounts ==
  CountInv /\ AssignExclusive => FilledInv' /\ SizedInv' /\ FailsOnlyIfImpossible'
<1> SUFFICES ASSUME CountInv, AssignExclusive
             PROVE  FilledInv' /\ SizedInv' /\ FailsOnlyIfImpossible'
  OBVIOUS
<1>1. /\ IsInput(in) /\ TypeOK /\ step = "exclusive"
      /\ \A c \in Cores : pool[c] = None
      /\ ExclusiveCores \in SUBSET Cores
      /\ in.numExclusive \in Nat /\ in.numShared \in Nat
  BY MayTake DEF CountInv, PoolsInv, TypeOK, FilledInv, AssignExclusive, IsInput
<1>2. Unassigned(ExclusiveCores) = ExclusiveCores
  BY <1>1 DEF Unassigned
<1>3. Cardinality(ExclusiveCores) \in Nat
  BY <1>1, CoresFinite
<1>4. CASE Cardinality(ExclusiveCores) < in.numExclusive
  <2>1. Raise
    BY <1>2, <1>4 DEF AssignExclusive, Assign
  <2>2. Cardinality(ExclusiveCores) < Requested
    BY <1>1, <1>3, <1>4 DEF Requested
  <2> QED BY <2>1, <2>2, RaiseCounts
<1>5. CASE ~(Cardinality(ExclusiveCores) < in.numExclusive)
  <2> DEFINE S == FirstFree(in.numExclusive, ExclusiveCores, in.exclusiveMode)
  <2>1. Take(S, "exclusive", "shared")
    BY <1>2, <1>5 DEF AssignExclusive, Assign
  <2>2. Cardinality(S) = in.numExclusive /\ S \subseteq Unassigned(ExclusiveCores)
    BY <1>1, <1>2, <1>5, FirstFreeSize
  <2>3. S = FirstOf(in.numExclusive, ExclusiveCores, ExclusiveCores, in.exclusiveMode)
    BY <1>2 DEF FirstFree, FirstOf
  <2> HIDE DEF S
  <2>4. Taken("exclusive")' = S
    BY <1>1, <2>1, <2>2, TakeFills DEF Unassigned, Pools, ExclusivePools, None
  <2>5. in' = in /\ step' = "shared"
    BY <2>1 DEF Take
  <2>6. \A c \in Cores : pool'[c] \in {None, "exclusive"}
    BY <1>1, <2>1 DEF Take
  <2>7. SizedInv'
    BY <2>2, <2>3, <2>4, <2>5, SameInput DEF SizedInv
  <2>8. FilledInv' /\ FailsOnlyIfImpossible'
    BY <2>5, <2>6 DEF FilledInv, FailsOnlyIfImpossible
  <2> QED BY <2>7, <2>8
<1> QED BY <1>4, <1>5

LEMMA AssignSharedCounts ==
  CountInv /\ AssignShared => FilledInv' /\ SizedInv' /\ FailsOnlyIfImpossible'
<1> SUFFICES ASSUME CountInv, AssignShared
             PROVE  FilledInv' /\ SizedInv' /\ FailsOnlyIfImpossible'
  OBVIOUS
<1>1. /\ IsInput(in) /\ TypeOK /\ step = "shared"
      /\ \A c \in Cores : pool[c] \in {None, "exclusive"}
      /\ SharedCores \in SUBSET Cores
      /\ in.numExclusive \in Nat /\ in.numShared \in Nat
      /\ Taken("exclusive") =
           FirstOf(in.numExclusive, ExclusiveCores, ExclusiveCores, in.exclusiveMode)
      /\ Cardinality(Taken("exclusive")) = in.numExclusive
  BY MayTake DEF CountInv, PoolsInv, TypeOK, FilledInv, SizedInv, AssignShared, IsInput
<1>2. Cardinality(Unassigned(SharedCores)) \in Nat
  BY <1>1, CoresFinite DEF Unassigned
<1>3. CASE Cardinality(Unassigned(SharedCores)) < in.numShared
  <2>1. Raise
    BY <1>3 DEF AssignShared, Assign
  <2>2. ASSUME ~in.sstCp, in.bf = {}
        PROVE  Cardinality(ExclusiveCores) < Requested
    <3>1. /\ SharedCores = Unassigned(SharedCores) \cup Taken("exclusive")
          /\ Unassigned(SharedCores) \cap Taken("exclusive") = {}
      <4>1. Taken("exclusive") \subseteq SharedCores
        BY <1>1, <2>2, SameCores DEF FirstOf
      <4> QED BY <1>1, <4>1 DEF Unassigned, Taken, None
    <3>2. IsFiniteSet(Unassigned(SharedCores)) /\ IsFiniteSet(Taken("exclusive"))
      BY <1>1, CoresFinite DEF Unassigned, Taken
    <3>3. Cardinality(SharedCores)
            = Cardinality(Unassigned(SharedCores)) + in.numExclusive - Cardinality({})
      BY <1>1, <3>1, <3>2, FS_Union
    <3>4. Cardinality({}) = 0
      BY FS_EmptySet
    <3> QED BY <1>1, <1>2, <1>3, <2>2, <3>3, <3>4, SameCores DEF Requested
  <2> QED BY <2>1, <2>2, RaiseCounts
<1>4. CASE ~(Cardinality(Unassigned(SharedCores)) < in.numShared)
  <2> DEFINE S == FirstFree(in.numShared, SharedCores, in.sharedMode)
             next == IF Branch = "all" THEN "infra" ELSE "nonIsol"
  <2>1. Take(S, "shared", next)
    BY <1>4 DEF AssignShared, Assign
  <2>2. Cardinality(S) = in.numShared /\ S \subseteq Unassigned(SharedCores)
    BY <1>1, <1>4, FirstFreeSize
  <2>3. (next = "infra" /\ in.isolated = {}) \/ (next = "nonIsol" /\ in.isolated # {})
    BY DEF Branch
  <2> HIDE DEF S, next
  <2>4. Taken("shared")' = S /\ Taken("exclusive")' = Taken("exclusive")
    BY <1>1, <2>1, <2>2, TakeFills DEF Unassigned, Pools, ExclusivePools, None
  <2>5. in' = in /\ step' = next
    BY <2>1 DEF Take
  <2>6. \A c \in Cores : pool'[c] \in {None, "exclusive", "shared"}
    BY <1>1, <2>1 DEF Take
  <2>7. SizedInv'
    BY <1>1, <2>2, <2>3, <2>4, <2>5, SameInput DEF SizedInv
  <2>8. FilledInv' /\ FailsOnlyIfImpossible'
    BY <2>3, <2>5, <2>6 DEF FilledInv, FailsOnlyIfImpossible, None
  <2> QED BY <2>7, <2>8
<1> QED BY <1>3, <1>4

LEMMA AssignNonIsolCounts ==
  CountInv /\ AssignNonIsol => FilledInv' /\ SizedInv' /\ FailsOnlyIfImpossible'
<1> SUFFICES ASSUME CountInv, AssignNonIsol
             PROVE  FilledInv' /\ SizedInv' /\ FailsOnlyIfImpossible'
  OBVIOUS
<1>1. /\ IsInput(in) /\ TypeOK /\ step = "nonIsol"
      /\ \A c \in Cores : pool[c] \in {None, "exclusive", "shared"}
      /\ in.isolated # {} /\ in.isolated \subseteq Cores
  BY DEF CountInv, PoolsInv, TypeOK, FilledInv, AssignNonIsol, IsInput
<1>2. CASE Raise
  <2>1. ~in.sstCp => in.isolated # {} /\ ~(in.nonIsol \subseteq Cores \ in.isolated)
    <3> SUFFICES ASSUME ~in.sstCp
                 PROVE  in.isolated # {} /\ ~(in.nonIsol \subseteq Cores \ in.isolated)
      OBVIOUS
    <3>1. PICK c \in in.nonIsol :
            c \notin Cores \/ (c \in Cores /\ (pool[c] # None \/ c \in in.isolated))
      BY <1>2 DEF AssignNonIsol, Raise, Take
    <3>2. c \in Cores /\ pool[c] # None => c \in in.isolated
      BY <1>1 DEF CountInv, PoolsInv, KeptInv
    <3> QED BY <1>1, <3>1, <3>2
  <2> QED BY <1>2, <2>1, RaiseCounts
<1>3. CASE ~Raise
  <2>1. /\ Take(in.nonIsol, "exclusive-non-isolcpus", "infra")
        /\ in.nonIsol \subseteq Unassigned(Cores)
    BY <1>3 DEF AssignNonIsol, Unassigned
  <2>2. /\ Taken("exclusive-non-isolcpus")' = in.nonIsol
        /\ Taken("exclusive")' = Taken("exclusive")
        /\ Taken("shared")' = Taken("shared")
    <3>1. Pools \ {"exclusive-non-isolcpus"} = {"exclusive", "shared", "infra"}
      BY DEF Pools, ExclusivePools
    <3>2. "exclusive-non-isolcpus" \in Pools
      BY DEF Pools, ExclusivePools
    <3>3. \A c \in Cores : pool[c] # "exclusive-non-isolcpus"
      BY <1>1 DEF None
    <3> QED BY <1>1, <2>1, <3>1, <3>2, <3>3, TakeFills
  <2>3. in' = in /\ step' = "infra"
    BY <2>1 DEF Take
  <2>4. \A c \in Cores : pool'[c] \in {None, "exclusive", "shared", "exclusive-non-isolcpus"}
    BY <1>1, <2>1 DEF Take
  <2>5. SizedInv'
    BY <1>1, <2>2, <2>3, SameInput DEF SizedInv, CountInv
  <2>6. FilledInv' /\ FailsOnlyIfImpossible'
    BY <1>1, <2>3, <2>4 DEF FilledInv, FailsOnlyIfImpossible, None
  <2> QED BY <2>5, <2>6
<1> QED BY <1>2, <1>3

LEMMA AssignInfraCounts ==
  CountInv /\ AssignInfra => FilledInv' /\ SizedInv' /\ FailsOnlyIfImpossible'
<1> SUFFICES ASSUME CountInv, AssignInfra
             PROVE  FilledInv' /\ SizedInv' /\ FailsOnlyIfImpossible'
  OBVIOUS
<1>1. /\ IsInput(in) /\ TypeOK /\ step = "infra"
      /\ \A c \in Cores :
           /\ pool[c] \in {None, "exclusive", "shared", "exclusive-non-isolcpus"}
           /\ in.isolated = {} => pool[c] # "exclusive-non-isolcpus"
  BY DEF CountInv, PoolsInv, TypeOK, FilledInv, AssignInfra
<1>2. CASE Unassigned(InfraCores) = {}
  <2>1. ASSUME ~in.sstCp, in.bf = {}, in.isolated = {}
        PROVE  Cardinality(Cores \ in.isolated) <= Requested
    <3>1. Cores = Taken("exclusive") \cup Taken("shared")
          /\ Taken("exclusive") \cap Taken("shared") = {}
      BY <1>1, <1>2, <2>1, SameCores DEF Unassigned, Taken
    <3>2. IsFiniteSet(Taken("exclusive")) /\ IsFiniteSet(Taken("shared"))
      BY CoresFinite DEF Taken
    <3>3. Cardinality(Taken("exclusive")) = in.numExclusive
          /\ Cardinality(Taken("shared")) = in.numShared
      BY <1>1 DEF CountInv, SizedInv
    <3>4. Cardinality(Cores) = in.numExclusive + in.numShared - Cardinality({})
      BY <3>1, <3>2, <3>3, FS_Union
    <3>5. Cardinality({}) = 0 /\ in.numExclusive \in Nat /\ in.numShared \in Nat
      BY <1>1, FS_EmptySet DEF IsInput
    <3>6. Cores \ in.isolated = Cores /\ Cardinality(Cores) \in Nat
      BY <2>1, CoresFinite
    <3>7. Cardinality(Cores) = Requested
      BY <3>4, <3>5 DEF Requested
    <3>8. Cardinality(Cores \ in.isolated) = Cardinality(Cores)
      BY <3>6
    <3> QED BY <3>6, <3>7, <3>8
  <2>2. ASSUME ~in.sstCp, in.bf = {}, in.isolated # {}
        PROVE  Cardinality(Cores \ in.isolated) <= Cardinality(in.nonIsol)
    <3>1. in.nonIsol = Taken("exclusive-non-isolcpus")
      BY <1>1, <2>2 DEF CountInv, SizedInv
    <3>2. ASSUME NEW c \in Cores \ in.isolated PROVE pool[c] = "exclusive-non-isolcpus"
      <4>1. pool[c] # None
        BY <1>2, <2>2, SameCores DEF Unassigned
      <4>2. pool[c] \notin {"exclusive", "shared"}
        BY <2>2 DEF CountInv, PoolsInv, KeptInv
      <4> QED BY <1>1, <4>1, <4>2
    <3>3. Cores \ in.isolated \subseteq in.nonIsol
      BY <3>1, <3>2 DEF Taken
    <3>4. IsFiniteSet(in.nonIsol)
      BY <3>1, CoresFinite DEF Taken
    <3> QED BY <3>3, <3>4, FS_Subset
  <2>3. Raise
    BY <1>2 DEF AssignInfra
  <2> QED BY <2>1, <2>2, <2>3, RaiseCounts
<1>3. CASE Unassigned(InfraCores) # {}
  <2> DEFINE S == Unassigned(InfraCores)
  <2>1. Take(S, "infra", "store")
    BY <1>3 DEF AssignInfra
  <2>2. S \subseteq Unassigned(Cores) /\ S # {}
    BY <1>1, <1>3, MayTake DEF Unassigned
  <2> HIDE DEF S
  <2>3. /\ Taken("infra")' = S
        /\ \A p \in Pools \ {"infra"} : Taken(p)' = Taken(p)
    BY <1>1, <2>1, <2>2, TakeFills DEF Pools, ExclusivePools, None
  <2>4. in' = in /\ step' = "store"
    BY <2>1 DEF Take
  <2>5. SizedInv'
    BY <1>1, <2>2, <2>3, <2>4, SameInput DEF SizedInv, CountInv, Pools, ExclusivePools
  <2>6. FilledInv' /\ FailsOnlyIfImpossible'
    BY <2>4 DEF FilledInv, FailsOnlyIfImpossible
  <2> QED BY <2>5, <2>6
<1> QED BY <1>2, <1>3

LEMMA StoreCounts ==
  CountInv /\ Store => FilledInv' /\ SizedInv' /\ FailsOnlyIfImpossible'
<1> SUFFICES ASSUME CountInv, Store
             PROVE  FilledInv' /\ SizedInv' /\ FailsOnlyIfImpossible'
  OBVIOUS
<1>1. in' = in /\ pool' = pool /\ step = "store" /\ step' = "done"
  BY DEF Store
<1>2. SizedInv'
  BY <1>1, KeepsSizes DEF CountInv, SizedInv
<1> QED BY <1>1, <1>2 DEF FilledInv, FailsOnlyIfImpossible

\* What each step takes is what was asked for, and init raises for no other
\* reason than the request.
THEOREM CountInvariant == Spec => []CountInv
<1>1. Init => CountInv
  BY StartHolds DEF Init, CountInv, FilledInv, SizedInv, FailsOnlyIfImpossible
<1>2. CountInv /\ PoolsInv' /\ [Next]_vars => CountInv'
  <2> SUFFICES ASSUME CountInv, PoolsInv', [Next]_vars PROVE CountInv'
    OBVIOUS
  <2>1. CASE UNCHANGED vars
    <3>1. in' = in /\ pool' = pool /\ step' = step
      BY <2>1 DEF vars
    <3>2. SizedInv'
      BY <3>1, KeepsSizes DEF CountInv, SizedInv
    <3>3. FilledInv'
      BY <3>1 DEF CountInv, FilledInv
    <3>4. FailsOnlyIfImpossible'
      <4>1. ~in.sstCp /\ in.bf = {} => ExclusiveCores' = ExclusiveCores
        BY <3>1 DEF ExclusiveCores, Branch
      <4> QED BY <3>1, <4>1 DEF CountInv, FailsOnlyIfImpossible, Requested
    <3> QED BY <3>2, <3>3, <3>4 DEF CountInv
  <2> QED
    BY <2>1, CheckCounts, AssignExclusiveCounts, AssignSharedCounts,
       AssignNonIsolCounts, AssignInfraCounts, StoreCounts DEF Next, CountInv
<1> QED BY <1>1, <1>2, PoolsInvariant, PTL DEF Spec

\* init fails only for a request that the machine cannot serve (without the
\* features of SST), for any machine and request.
THEOREM FailsForCause == Spec => []FailsOnlyIfImpossible
<1>1. CountInv => FailsOnlyIfImpossible
  BY DEF CountInv
<1> QED BY <1>1, CountInvariant, PTL

\* A core in an exclusive pool is a list of its own, and the cores of the other
\* pools are in the lists of these.
LEMMA ListsHoldPools ==
  ASSUME PoolsInv, step = "done"
  PROVE  /\ \A p \in {"shared", "infra", "exclusive-non-isolcpus"} : CoresOf(p) = Taken(p)
         /\ CoresOf("exclusive") = Taken("exclusive")
         /\ ListsOf("exclusive") = {[pool |-> "exclusive", socket |-> SocketOf[c],
                                     cores |-> {c}] : c \in Taken("exclusive")}
<1>1. lists = CoreLists \cup PoolLists
  BY DEF PoolsInv, WrittenInv
<1>2. ASSUME NEW p, NEW c \in CoresOf(p) PROVE c \in Taken(p)
  BY <1>1, InItsList DEF CoresOf, ListsOf, Taken
<1>3. ASSUME NEW p \in {"shared", "infra"}, NEW c \in Taken(p) PROVE c \in CoresOf(p)
  <2> DEFINE l == [pool |-> p, socket |-> SocketOf[c],
                   cores |-> {d \in Cores : pool[d] = p /\ SocketOf[d] = SocketOf[c]}]
  <2>1. l.pool = p /\ c \in l.cores
    BY <1>3 DEF Taken
  <2>2. c \in Cores /\ l.cores # {}
    BY <1>3, <2>1 DEF Taken
  <2>3. l \in PoolLists
    <3> DEFINE list(q, s) == [pool |-> q, socket |-> s,
                              cores |-> {d \in Cores : pool[d] = q /\ SocketOf[d] = s}]
    <3>1. PoolLists = {m \in {list(q, s) : q \in {"shared", "infra"},
                                          s \in {SocketOf[d] : d \in Cores}} :
                         m.cores # {}}
      BY DEF PoolLists
    <3>2. l = list(p, SocketOf[c])
      OBVIOUS
    <3> HIDE DEF l, list
    <3> QED BY <1>3, <2>2, <3>1, <3>2
  <2> HIDE DEF l
  <2> QED BY <1>1, <2>1, <2>3 DEF CoresOf, ListsOf
<1>4. ASSUME NEW p \in {"exclusive", "exclusive-non-isolcpus"}, NEW c \in Taken(p)
      PROVE  c \in CoresOf(p)
  <2> DEFINE l == [pool |-> pool[c], socket |-> SocketOf[c], cores |-> {c}]
  <2>1. l \in CoreLists /\ l.pool = p /\ c \in l.cores
    BY <1>4 DEF CoreLists, Taken
  <2> HIDE DEF l
  <2> QED BY <1>1, <2>1 DEF CoresOf, ListsOf
<1>5. ListsOf("exclusive") = {[pool |-> "exclusive", socket |-> SocketOf[c],
                               cores |-> {c}] : c \in Taken("exclusive")}
  <2>1. \A l \in PoolLists : l.pool # "exclusive"
    BY DEF PoolLists
  <2> QED BY <1>1, <2>1 DEF ListsOf, CoreLists, Taken
<1> QED BY <1>2, <1>3, <1>4, <1>5

\* What init writes has the size that was asked for, in every branch and
\* for any machine.
THEOREM SizesAreRequested == Spec => []SizesAsRequested
<1>1. CountInv => SizesAsRequested
  <2> SUFFICES ASSUME CountInv, step = "done" PROVE SizesAsRequested
    BY DEF SizesAsRequested
  <2>1. PoolsInv /\ SizedInv
    BY DEF CountInv
  <2>2. Cardinality(ListsOf("exclusive")) = in.numExclusive
    <3> DEFINE T == Taken("exclusive")
               list(c) == [pool |-> "exclusive", socket |-> SocketOf[c], cores |-> {c}]
               f == [c \in T |-> list(c)]
    <3>1. ListsOf("exclusive") = {list(c) : c \in T}
      BY <2>1, ListsHoldPools
    <3>2. IsFiniteSet(T) /\ Cardinality(T) = in.numExclusive
      BY <2>1, CoresFinite DEF Taken, SizedInv
    <3>3. \A c, d : list(c) = list(d) => c = d
      <4>1. \A c : list(c).cores = {c}
        OBVIOUS
      <4> HIDE DEF list
      <4> QED BY <4>1
    <3> HIDE DEF T, list
    <3>4. f \in Bijection(T, ListsOf("exclusive"))
      BY <3>1, <3>3 DEF Bijection, Injection, Surjection, IsInjective
    <3> HIDE DEF f
    <3> QED BY <3>2, <3>4, FS_Bijection DEF ExistsBijection
  <2>3. Cardinality(CoresOf("shared")) = in.numShared
    BY <2>1, ListsHoldPools DEF SizedInv
  <2>4. in.isolated # {} => CoresOf("exclusive-non-isolcpus") = in.nonIsol
    BY <2>1, ListsHoldPools DEF SizedInv
  <2>5. ListsOf("infra") # {}
    <3>1. CoresOf("infra") # {}
      BY <2>1, ListsHoldPools DEF SizedInv
    <3> QED BY <3>1 DEF CoresOf
  <2> QED BY <2>2, <2>3, <2>4, <2>5 DEF SizesAsRequested
<1> QED BY <1>1, CountInvariant, PTL

-----------------------------------------------------------------------------
(* The balance of the spread *)

OnSocket(s, S) == {c \in S : SocketOf[c] = s}

\* A socket gives m of its cores in its first m turns.
LEMMA TurnsSize ==
  ASSUME IsInput(in), NEW S \in SUBSET Cores, NEW s, NEW m \in Nat,
         m <= Cardinality(OnSocket(s, S))
  PROVE  Cardinality({c \in OnSocket(s, S) : Turn(c, S) < m}) = m
<1> DEFINE U == OnSocket(s, S)
           R == {e \in U \X U : e[1] < e[2]}
<1>1. U \in SUBSET Cores /\ IsFiniteSet(U) /\ \A c \in U : c \in Nat
  BY CoresFinite DEF OnSocket
<1>2. Orders(R, U)
  <2> HIDE DEF U
  <2> QED BY <1>1 DEF Orders
<1>3. \A c \in U : Below(c, R, U) = {d \in S : SocketOf[d] = SocketOf[c] /\ d < c}
  BY DEF Below, OnSocket
<1>4. \A c \in U : Cardinality(Below(c, R, U)) = Turn(c, S)
  <2> HIDE DEF R, U
  <2> QED BY <1>3 DEF Turn
<1>5. Lowest(m, R, U) = {c \in U : Turn(c, S) < m}
  <2> HIDE DEF R, U
  <2> QED BY <1>4 DEF Lowest
<1>6. Cardinality(Lowest(m, R, U)) = m
  <2> HIDE DEF R
  <2> QED BY <1>1, <1>2, LowestSize
<1> QED BY <1>5, <1>6

\* A core before one that is taken is taken.
LEMMA FirstOfClosed ==
  ASSUME IsInput(in), NEW S \in SUBSET Cores, NEW mode, NEW n \in Nat,
         NEW c \in FirstOf(n, S, S, mode), NEW d \in S, Before(d, c, S, mode)
  PROVE  d \in FirstOf(n, S, S, mode)
<1> DEFINE R == {e \in S \X S : Before(e[1], e[2], S, mode)}
<1>1. Orders(R, S) /\ IsFiniteSet(S) /\ Cardinality(S) \in Nat
  BY BeforeOrders, CoresFinite
<1>2. c \in S /\ Cardinality({e \in S : Before(e, c, S, mode)}) < n
  BY DEF FirstOf
<1>3. <<d, c>> \in R
  BY <1>2
<1>4. \A x \in S : Below(x, R, S) = {e \in S : Before(e, x, S, mode)}
  BY DEF Below
<1> HIDE DEF R
<1>5. /\ Cardinality(Below(d, R, S)) < Cardinality(Below(c, R, S))
      /\ Cardinality(Below(d, R, S)) \in 0 .. (Cardinality(S) - 1)
      /\ Cardinality(Below(c, R, S)) \in 0 .. (Cardinality(S) - 1)
  BY <1>1, <1>2, <1>3, RankBounds
<1>6. Cardinality(Below(c, R, S)) < n
  BY <1>2, <1>4
<1>7. Cardinality(Below(d, R, S)) < n
  BY <1>1, <1>5, <1>6
<1> QED BY <1>4, <1>7 DEF FirstOf

\* In spread mode the cores a socket gives are its first ones, and a socket
\* that has one to spare has given at most one less than any other.
LEMMA SpreadIsEven ==
  ASSUME IsInput(in), in.bf = {}, NEW S \in SUBSET Cores, NEW n \in Nat,
         NEW s, NEW t, NEW X, X = FirstOf(n, S, S, "spread"),
         OnSocket(s, X) # OnSocket(s, S)
  PROVE  Cardinality(OnSocket(s, X)) >= Cardinality(OnSocket(t, X)) - 1
<1> DEFINE k == Cardinality(OnSocket(s, X))
<1>1. X \subseteq S /\ X \in SUBSET Cores
  BY DEF FirstOf
<1>2. \A x : \A Y \in SUBSET Cores : /\ OnSocket(x, Y) \subseteq Y
                                   /\ IsFiniteSet(OnSocket(x, Y))
                                   /\ Cardinality(OnSocket(x, Y)) \in Nat
  BY CoresFinite DEF OnSocket
<1>3. k \in Nat
  BY <1>1, <1>2
<1>4. \A c \in S : Turn(c, S) \in Nat
  BY TurnGrows
<1>5. \A x : OnSocket(x, X) \subseteq OnSocket(x, S)
  BY <1>1 DEF OnSocket
<1> HIDE DEF k
<1>6. PICK c \in OnSocket(s, S) : c \notin X /\ Turn(c, S) < k + 1
  <2> DEFINE L == {c \in OnSocket(s, S) : Turn(c, S) < k + 1}
  <2>1. k + 1 <= Cardinality(OnSocket(s, S))
    <3>1. k <= Cardinality(OnSocket(s, S)) /\ k # Cardinality(OnSocket(s, S))
      BY <1>2, <1>5, FS_Subset DEF k
    <3>2. Cardinality(OnSocket(s, S)) \in Nat
      BY <1>2
    <3> QED BY <1>3, <3>1, <3>2
  <2>2. Cardinality(L) = k + 1
    BY <1>3, <2>1, TurnsSize
  <2>3. ~(L \subseteq OnSocket(s, X))
    <3> HIDE DEF L
    <3>1. ASSUME L \subseteq OnSocket(s, X) PROVE Cardinality(L) <= k
      BY <1>1, <1>2, <3>1, FS_Subset DEF k
    <3> QED BY <1>3, <2>2, <3>1
  <2>4. PICK c \in L : c \notin OnSocket(s, X)
    BY <2>3
  <2>5. c \in OnSocket(s, S) /\ Turn(c, S) < k + 1 /\ c \notin X
    BY <2>4 DEF OnSocket
  <2> QED BY <2>5
<1>7. OnSocket(t, X) \subseteq {d \in OnSocket(t, S) : Turn(d, S) < k + 1}
  <2> SUFFICES ASSUME NEW d \in OnSocket(t, X)
               PROVE  d \in OnSocket(t, S) /\ Turn(d, S) < k + 1
    OBVIOUS
  <2>1. d \in X /\ d \in S /\ c \in S /\ d \in OnSocket(t, S)
    BY <1>1, <1>5 DEF OnSocket
  <2>2. ~Before(c, d, S, "spread")
    BY <1>6, <2>1, FirstOfClosed
  <2>3. ~(Turn(c, S) < Turn(d, S))
    BY <2>2 DEF Before, SpreadBefore
  <2> QED BY <1>3, <1>4, <1>6, <2>1, <2>3
<1>8. Cardinality(OnSocket(t, X)) <= k + 1
  <2>1. CASE k + 1 <= Cardinality(OnSocket(t, S))
    <3> DEFINE L == {d \in OnSocket(t, S) : Turn(d, S) < k + 1}
    <3>1. Cardinality(L) = k + 1
      BY <1>3, <2>1, TurnsSize
    <3>2. IsFiniteSet(L)
      BY <1>2, FS_Subset
    <3> HIDE DEF L
    <3> QED BY <1>7, <3>1, <3>2, FS_Subset DEF L
  <2>2. CASE ~(k + 1 <= Cardinality(OnSocket(t, S)))
    <3>1. Cardinality(OnSocket(t, X)) <= Cardinality(OnSocket(t, S))
      BY <1>2, <1>5, FS_Subset
    <3>2. /\ Cardinality(OnSocket(t, S)) \in Nat
          /\ Cardinality(OnSocket(t, X)) \in Nat
      BY <1>1, <1>2
    <3> QED BY <1>3, <2>2, <3>1, <3>2
  <2> QED BY <2>1, <2>2
<1>9. Cardinality(OnSocket(t, X)) \in Nat
  BY <1>1, <1>2
<1> QED BY <1>3, <1>8, <1>9 DEF k

\* The spread mode takes the sockets in turn, on any machine: one that has a
\* core to spare gives at most one list less than another.
THEOREM SpreadIsBalanced == Spec => []SpreadBalanced
<1>1. CountInv => SpreadBalanced
  <2> SUFFICES ASSUME CountInv, step = "done", in.exclusiveMode = "spread",
                      in.bf = {}, NEW s, NEW t,
                      OnSocket(s, CoresOf("exclusive")) # OnSocket(s, ExclusiveCores)
               PROVE  Cardinality(OnSocket(s, CoresOf("exclusive")))
                        >= Cardinality(OnSocket(t, CoresOf("exclusive"))) - 1
    BY DEF SpreadBalanced, OnSocket
  <2>1. PoolsInv /\ SizedInv /\ IsInput(in)
    BY DEF CountInv, PoolsInv, TypeOK
  <2>2. CoresOf("exclusive") =
          FirstOf(in.numExclusive, ExclusiveCores, ExclusiveCores, "spread")
    BY <2>1, ListsHoldPools DEF SizedInv
  <2>3. ExclusiveCores \in SUBSET Cores /\ in.numExclusive \in Nat
    BY <2>1, MayTake DEF IsInput
  <2> QED BY <2>1, <2>2, <2>3, SpreadIsEven
<1> QED BY <1>1, CountInvariant, PTL
=============================================================================
