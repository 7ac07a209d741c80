------------------------------ MODULE InitPools ------------------------------
(***************************************************************************)
(* `cmk init` on one node (intel/init.py): which physical core goes to     *)
(* which pool, and the cpu lists that intel/config.py then writes to the   *)
(* node's configmap. One action per step of configure(); any of them may   *)
(* raise, and then no configmap is written.                                *)
(*                                                                         *)
(* A core is its core id. It is isolated (or SST-BF) if all its cpus are;  *)
(* a partially isolated core only causes a warning.                        *)
(***************************************************************************)
EXTENDS Layouts

CONSTANT
  Inputs      \* command lines and platforms:
              \*   socketOf:     the socket of each core
              \*   isolated, bf: sets of cores (bf = {} without SST-BF)
              \*   sstCp, epp:   the SST-CP label, each core's EPP rank from 1
              \*   numExclusive, numShared, exclusiveMode, sharedMode
              \*   nonIsol:      --excl-non-isolcpus, {} when it is -1

None == "none"

\* Core ids are numbered from 0.
ASSUME CoresAssumption == IsFiniteSet(Cores) /\ Cores = 0 .. (Cardinality(Cores) - 1)

IsInput(i) ==
  /\ i.socketOf \in [Cores -> Nat] /\ i.epp \in [Cores -> Nat]
  /\ i.isolated \subseteq Cores /\ i.bf \subseteq Cores
  /\ i.numExclusive \in Nat /\ i.numShared \in Nat
  /\ i.nonIsol \subseteq Nat

ASSUME InputsAssumption == \A i \in Inputs : IsInput(i)

VARIABLES
  in,        \* the input of this run
  step,      \* the step of configure() that comes next
  pool,      \* Core.pool
  lists      \* the cpu lists of the configmap: [pool, socket, cores]

vars == <<in, step, pool, lists>>

SocketOf == in.socketOf

Init ==
  /\ in \in Inputs
  /\ step = "check"
  /\ pool = [c \in Cores |-> None]
  /\ lists = {}

-----------------------------------------------------------------------------
(* The order of the cores *)

\* allocate_packed: socket after socket.
PackedBefore(d, c) ==
  \/ SocketOf[d] < SocketOf[c]
  \/ SocketOf[d] = SocketOf[c] /\ d < c

\* The turn in which allocate_spread takes c, when it goes round the sockets.
Turn(c, S) == Cardinality({d \in S : SocketOf[d] = SocketOf[c] /\ d < c})

SpreadBefore(d, c, S) ==
  \/ Turn(d, S) < Turn(c, S)
  \/ Turn(d, S) = Turn(c, S) /\ SocketOf[d] < SocketOf[c]

\* assign sorts the SST-BF cores to the front and keeps the order otherwise.
Before(d, c, S, mode) ==
  IF (d \in in.bf) # (c \in in.bf) THEN d \in in.bf
  ELSE IF mode = "spread" THEN SpreadBefore(d, c, S)
  ELSE PackedBefore(d, c)

Unassigned(S) == {c \in S : pool[c] = None}

\* Mutant: the sort is dropped for SST-BF and the packed order always used.
FirstFreePacked(n, S, mode) ==
  {c \in Unassigned(S) :
     Cardinality({d \in Unassigned(S) : PackedBefore(d, c)}) < n}

FirstFree(n, S, mode) ==
  {c \in Unassigned(S) :
     Cardinality({d \in Unassigned(S) : Before(d, c, S, mode)}) < n}

-----------------------------------------------------------------------------
(* The branch of configure() and the cores each pool may take *)

Branch ==
  IF in.isolated = {} THEN "all"
  ELSE IF in.sstCp THEN "sst-cp"
  ELSE IF in.isolated \cap in.bf # {} THEN "sst-bf"
  ELSE "isolated"

Requested == in.numExclusive + in.numShared

\* The EPP values present, and the cores of the k-th, the highest power first.
EppValues == {in.epp[c] : c \in Cores}
EppCores(k) == {c \in Cores : Cardinality({v \in EppValues : v < in.epp[c]}) = k - 1}

\* check_sst_cp_isolated_cores; with two values get_epp_cores returns None for
\* a pool of no cores, over which configure() then iterates.
SstCpFails ==
  CASE Cardinality(EppValues) = 3 ->
         \/ Cardinality(EppCores(1)) # in.numExclusive
         \/ Cardinality(EppCores(2)) # in.numShared
    [] Cardinality(EppValues) = 2 ->
         \/ Cardinality(EppCores(1)) # Requested
         \/ in.numExclusive = 0 \/ in.numShared = 0
    [] OTHER -> TRUE

ExclusiveCores ==
  CASE Branch = "all" -> Cores
    [] Branch = "isolated" -> in.isolated
    [] Branch = "sst-bf" -> in.isolated \cap in.bf
    [] Branch = "sst-cp" ->
         IF Cardinality(EppValues) = 3 THEN EppCores(1)
         ELSE {c \in EppCores(1) :
                 Cardinality({d \in EppCores(1) : PackedBefore(d, c)}) < in.numExclusive}

SharedCores ==
  CASE Branch = "all" -> Cores
    [] Branch \in {"isolated", "sst-bf"} -> in.isolated
    [] Branch = "sst-cp" -> EppCores(IF Cardinality(EppValues) = 3 THEN 2 ELSE 1)

\* Mutant: every core that is left over.
InfraCoresAll == Cores

InfraCores ==
  CASE Branch = "all" -> Cores
    [] Branch \in {"isolated", "sst-bf"} -> Cores \ in.isolated
    [] Branch = "sst-cp" -> EppCores(Cardinality(EppValues))

-----------------------------------------------------------------------------
(* configure() *)

Raise == step' = "error" /\ UNCHANGED <<in, pool, lists>>

Take(S, name, next) ==
  /\ pool' = [c \in Cores |-> IF c \in S THEN name ELSE pool[c]]
  /\ step' = next
  /\ UNCHANGED <<in, lists>>

Check ==
  /\ step = "check"
  /\ IF \/ in.isolated # {} /\ Cardinality(in.isolated) < Requested
        \/ Branch = "sst-cp" /\ SstCpFails
       THEN Raise
       ELSE step' = "exclusive" /\ UNCHANGED <<in, pool, lists>>

\* Mutant: one core is always kept back.
AssignSpare(S, mode, name, count, next) ==
  IF Cardinality(Unassigned(S)) <= count
    THEN Raise
    ELSE Take(FirstFree(count, S, mode), name, next)

\* Mutant: as many as there are is good enough.
AssignAvailable(S, mode, name, count, next) ==
  Take(FirstFree(count, S, mode), name, next)

\* assign with a count.
Assign(S, mode, name, count, next) ==
  IF Cardinality(Unassigned(S)) < count
    THEN Raise
    ELSE Take(FirstFree(count, S, mode), name, next)

AssignExclusive ==
  /\ step = "exclusive"
  /\ Assign(ExclusiveCores, in.exclusiveMode, "exclusive", in.numExclusive, "shared")

AssignShared ==
  /\ step = "shared"
  /\ Assign(SharedCores, in.sharedMode, "shared", in.numShared,
            IF Branch = "all" THEN "infra" ELSE "nonIsol")

\* check_excl_non_isolcpus and assign_excl_non_isolcpus.
AssignNonIsol ==
  /\ step = "nonIsol"
  /\ IF \/ \E c \in in.nonIsol : c \notin Cores
        \/ \E c \in in.nonIsol \cap Cores : pool[c] # None \/ c \in in.isolated
       THEN Raise
       ELSE Take(in.nonIsol, "exclusive-non-isolcpus", "infra")

AssignInfra ==
  /\ step = "infra"
  /\ IF Unassigned(InfraCores) = {}
       THEN Raise
       ELSE Take(Unassigned(InfraCores), "infra", "store")

\* Mutant: the cores of all sockets in one list.
PoolListsFlat ==
  {[pool |-> p, socket |-> 0, cores |-> {c \in Cores : pool[c] = p}] :
     p \in {"shared", "infra"}}

\* Mutant: the cores that are left over get a list of their own.
PoolListsUnassigned ==
  {l \in {[pool |-> p, socket |-> s,
           cores |-> {c \in Cores : pool[c] = p /\ SocketOf[c] = s}] :
            p \in {"shared", "infra", None}, s \in {SocketOf[c] : c \in Cores}} :
     l.cores # {}}

\* update_configmap_shared: the cores of a socket are one list.
PoolLists ==
  {l \in {[pool |-> p, socket |-> s,
           cores |-> {c \in Cores : pool[c] = p /\ SocketOf[c] = s}] :
            p \in {"shared", "infra"}, s \in {SocketOf[c] : c \in Cores}} :
     l.cores # {}}

\* update_configmap_exclusive: every core is a list.
CoreLists ==
  {[pool |-> pool[c], socket |-> SocketOf[c], cores |-> {c}] :
     c \in {d \in Cores : pool[d] \in {"exclusive", "exclusive-non-isolcpus"}}}

Store ==
  /\ step = "store"
  /\ lists' = CoreLists \cup PoolLists
  /\ step' = "done"
  /\ UNCHANGED <<in, pool>>

Next == \/ Check
        \/ AssignExclusive \/ AssignShared \/ AssignNonIsol \/ AssignInfra
        \/ Store

Spec == Init /\ [][Next]_vars

-----------------------------------------------------------------------------
(* Properties *)

ListsOf(p) == {l \in lists : l.pool = p}
CoresOf(p) == UNION {l.cores : l \in ListsOf(p)}

\* Every variable has its type.
TypeOK ==
  /\ IsInput(in)
  /\ step \in {"check", "exclusive", "shared", "nonIsol", "infra", "store",
               "done", "error"}
  /\ pool \in [Cores -> Pools \cup {None}]
  /\ lists \subseteq [pool: Pools, socket: {SocketOf[c] : c \in Cores},
                      cores: SUBSET Cores]

\* What init writes has the size that was asked for, in every branch: so many
\* exclusive lists of one core, so many shared cores, all of the cores of
\* --excl-non-isolcpus if there are isolated ones, and something for infra.
SizesAsRequested ==
  step = "done" =>
    /\ Cardinality(ListsOf("exclusive")) = in.numExclusive
    /\ Cardinality(CoresOf("shared")) = in.numShared
    /\ in.isolated # {} => CoresOf("exclusive-non-isolcpus") = in.nonIsol
    /\ ListsOf("infra") # {}

\* What init writes is a layout as reconfigure and isolate rely on it: no core
\* is in two lists, no list is empty, and none crosses a socket.
ListsSeparate ==
  /\ IsLayout(lists)
  /\ \A l \in lists : \A c \in l.cores : SocketOf[c] = l.socket

\* Where the machine has isolated cores (and no SST-CP), the exclusive and
\* shared pools consist of isolated cores only, and the leftover ones go
\* nowhere (docs/cli.md): neither to infra nor to exclusive-non-isolcpus.
IsolatedKept ==
  step = "done" /\ in.isolated # {} /\ ~in.sstCp =>
    /\ CoresOf("exclusive") \cup CoresOf("shared") \subseteq in.isolated
    /\ (CoresOf("infra") \cup CoresOf("exclusive-non-isolcpus")) \cap in.isolated = {}

\* A request that fails could not be served: a machine without SST features
\* has too few isolated cores (or cores), none that is left for infra, or
\* cannot give the cores of --excl-non-isolcpus.
FailsOnlyIfImpossible ==
  step = "error" /\ ~in.sstCp /\ in.bf = {} =>
    \/ Cardinality(ExclusiveCores) < Requested
    \/ Cardinality(Cores \ in.isolated)
         <= (IF in.isolated = {} THEN Requested ELSE Cardinality(in.nonIsol))
    \/ in.isolated # {} /\ ~(in.nonIsol \subseteq Cores \ in.isolated)

\* The spread mode gives the sockets exclusive lists in turn: one has fewer
\* than another by more than one only if its cores are used up.
SpreadBalanced ==
  step = "done" /\ in.exclusiveMode = "spread" /\ in.bf = {} /\ ~in.sstCp =>
    \A s, t \in {SocketOf[c] : c \in Cores} :
      LET Used(x) == {c \in CoresOf("exclusive") : SocketOf[c] = x}
          Usable(x) == {c \in ExclusiveCores : SocketOf[c] = x}
      IN  \/ Cardinality(Used(s)) >= Cardinality(Used(t)) - 1
          \/ Used(s) = Usable(s)
=============================================================================
