------------------------------- MODULE CmkNode -------------------------------
(***************************************************************************)
(* The CPU manager on one node: the configmap that holds the node's cpu    *)
(* lists with the pids using them, the lock kept in its "Owner"            *)
(* annotation (intel/config.py), and the processes that read and write it  *)
(* under that lock:                                                        *)
(*   - wrappers: `cmk isolate`, which takes cpu lists, registers its pid   *)
(*     in them and runs the user's command (intel/isolate.py);             *)
(*   - reconcilers: `cmk reconcile`, which drops the pids that no longer   *)
(*     exist (intel/reconcile.py);                                         *)
(*   - readers: `cmk discover` and `cmk reconfigure`, which lock, read and *)
(*     unlock with the data they read (intel/discover.py, and what         *)
(*     intel/reconfigure.py amounts to: see README).                       *)
(* The API server is external: list returns the current object, a patch    *)
(* that carries the resourceVersion it was read with is refused if the     *)
(* object has been written since, a patch without one is always applied.   *)
(***************************************************************************)
EXTENDS Integers, FiniteSets

CONSTANTS
  CLists,        \* the cpu lists of the configmap, numbered in its order
  PoolOf,        \* the pool of each cpu list
  SocketOf,      \* the socket key of each cpu list, <<"int", n>> in the yaml
  CoresOf,       \* the cores of each cpu list
  Wrappers, Reconcilers, Readers,
  Requests,      \* [pool, socket, n]: --pool, --socket-id, CMK_NUM_CORES
  Pids, NoPid,   \* host pids; NoPid: the process does not exist
  AlienPids,     \* pids that processes unknown to CMK may take
  Free,          \* the Owner annotation ""
  Entrypoints,   \* wrappers that are PID 1 of their container
  Restartable,   \* processes that their pod's policy starts again
  KillPoints,    \* <<process, pc value>>: where it may be killed
  ApiFaults      \* "fail": a call fails; "lost": applied, the answer lost

Procs == Wrappers \cup Reconcilers \cup Readers

Data == [CLists -> SUBSET Pids]

PCs == {"idle", "get", "patch", "cs", "scan", "unlock", "leave",
        "spawn", "arm", "wait", "exit", "sleep", "dead"}

AnySocket == <<"str", -1>>

ASSUME CListsAssumption == CLists \subseteq Nat /\ IsFiniteSet(CLists)

\* What init sees to (InitPools): no core is in two cpu lists.
ASSUME CoresAssumption ==
  \A cl, dl \in CLists : CoresOf[cl] \cap CoresOf[dl] # {} => cl = dl

ASSUME ProcsAssumption ==
  /\ Wrappers \cap Reconcilers = {}
  /\ Wrappers \cap Readers = {}
  /\ Reconcilers \cap Readers = {}
  /\ Free \notin Procs

ASSUME PidsAssumption ==
  NoPid \notin Pids /\ AlienPids \subseteq Pids /\ IsFiniteSet(Pids)

ASSUME RequestsAssumption == \A r \in Requests : r.n \in Int

VARIABLES
  owner, data,   \* the configmap: its Owner annotation and its task lists
  fresh,         \* processes whose copy has the current resourceVersion
  pc,            \* where each process is
  local,         \* Config.c_data: the copy a process works on
  todo,          \* <<cpu list, pid>> entries reconcile has still to look up
  req,           \* the command line of each wrapper
  pid,           \* the host pid of each wrapper, NoPid when not running
  clists,        \* the cpu lists a wrapper, or its child, was given
  child,         \* wrappers whose child process is running
  alien          \* pids held by processes unknown to CMK

cm    == <<owner, data, fresh>>
procs == <<pc, local, todo, req, pid, clists, child>>
vars  == <<owner, data, fresh, pc, local, todo, req, pid, clists, child, alien>>

NoTasks == [cl \in CLists |-> {}]

Init ==
  /\ owner = Free
  /\ data = NoTasks
  /\ fresh = {}
  /\ pc = [p \in Procs |-> "idle"]
  /\ local = [p \in Procs |-> NoTasks]
  /\ todo = [p \in Procs |-> {}]
  /\ req \in [Wrappers -> Requests]
  /\ pid = [p \in Procs |-> NoPid]
  /\ clists = [p \in Procs |-> {}]
  /\ child = {}
  /\ alien = {}

-----------------------------------------------------------------------------
(* Processes of the host *)

\* Process.exists looks for the pid in the host's procfs.
LivePids == ({pid[w] : w \in Wrappers} \ {NoPid}) \cup alien

Goto(p, label) == pc' = [pc EXCEPT ![p] = label]

\* p is gone. Its child goes with it only if p was the PID 1 of the container.
Dies(p) ==
  LET orphaned == p \in child \ Entrypoints
  IN  /\ Goto(p, "dead")
      /\ local' = [local EXCEPT ![p] = NoTasks]
      /\ todo' = [todo EXCEPT ![p] = {}]
      /\ pid' = [pid EXCEPT ![p] = NoPid]
      /\ clists' = IF orphaned THEN clists ELSE [clists EXCEPT ![p] = {}]
      /\ child' = IF orphaned THEN child ELSE child \ {p}
      /\ UNCHANGED <<req, alien>>

\* The kernel gives a new wrapper any pid that is not in use.
Start(p) ==
  /\ \/ pc[p] = "idle"
     \/ pc[p] = "dead" /\ p \in Restartable \ child
  /\ Goto(p, "get")
  /\ IF p \in Wrappers
       THEN \E k \in Pids \ LivePids : pid' = [pid EXCEPT ![p] = k]
       ELSE UNCHANGED pid
  /\ UNCHANGED <<cm, local, todo, req, clists, child, alien>>

\* SIGKILL, the OOM killer, a TERM while no handler is installed.
Kill(p) ==
  /\ <<p, pc[p]>> \in KillPoints
  /\ pc[p] \notin {"idle", "dead"}
  /\ Dies(p)
  /\ fresh' = fresh \ {p}
  /\ UNCHANGED <<owner, data>>

AlienStart(k) ==
  /\ k \notin LivePids
  /\ alien' = alien \cup {k}
  /\ UNCHANGED <<cm, procs>>

AlienExit(k) ==
  /\ k \in alien
  /\ alien' = alien \ {k}
  /\ UNCHANGED <<cm, procs>>

-----------------------------------------------------------------------------
(* Config.lock and Config.unlock *)

\* One poll that finds the lock free; the others sleep and change nothing.
Get(p) ==
  /\ pc[p] = "get"
  /\ owner = Free
  /\ local' = [local EXCEPT ![p] = data]
  /\ fresh' = fresh \cup {p}
  /\ Goto(p, "patch")
  /\ UNCHANGED <<owner, data, todo, req, pid, clists, child, alien>>

\* Mutant: a patch without the resourceVersion.
LockPatchAlways(p) ==
  /\ owner' = p
  /\ data' = local[p]
  /\ fresh' = {}

\* The patch of lock() is the object as read, resourceVersion included.
LockPatch(p) ==
  /\ p \in fresh
  /\ owner' = p
  /\ data' = local[p]
  /\ fresh' = {}

\* The patch of unlock() is a new object: it is never refused.
UnlockPatch(p) ==
  /\ owner' = Free
  /\ data' = local[p]
  /\ fresh' = {}

Entries(d) == {e \in CLists \X Pids : e[2] \in d[e[1]]}

Lock(p) ==
  /\ pc[p] = "patch"
  /\ LockPatch(p)
  /\ IF p \in Reconcilers
       THEN Goto(p, "scan") /\ todo' = [todo EXCEPT ![p] = Entries(local[p])]
       ELSE Goto(p, "cs") /\ UNCHANGED todo
  /\ UNCHANGED <<local, req, pid, clists, child, alien>>

\* Mutants: the conflict is taken for a success; the unlock() of the finally
\* clause is sent although lock() failed.
LockConflictIgnored(p) ==
  /\ pc[p] = "patch"
  /\ p \notin fresh
  /\ IF p \in Reconcilers
       THEN Goto(p, "scan") /\ todo' = [todo EXCEPT ![p] = Entries(local[p])]
       ELSE Goto(p, "cs") /\ UNCHANGED todo
  /\ UNCHANGED <<cm, local, req, pid, clists, child, alien>>

LockConflictUnlocks(p) ==
  /\ pc[p] = "patch"
  /\ p \notin fresh
  /\ UnlockPatch(p)
  /\ Dies(p)

\* The patch is refused: sys.exit(1), and the unlock() of isolate's finally
\* fails on self.c = None before it sends anything.
LockConflict(p) ==
  /\ pc[p] = "patch"
  /\ p \notin fresh
  /\ Dies(p)
  /\ UNCHANGED cm

Unlock(p) ==
  /\ pc[p] = "unlock"
  /\ UnlockPatch(p)
  /\ Goto(p, IF p \in Reconcilers THEN "sleep" ELSE "spawn")
  /\ local' = [local EXCEPT ![p] = NoTasks]
  /\ UNCHANGED <<todo, req, pid, clists, child, alien>>

\* The finally clause of a wrapper that raised, or a reader that is done.
UnlockAndLeave(p) ==
  /\ pc[p] = "leave"
  /\ UnlockPatch(p)
  /\ Dies(p)

\* An ApiException on any of these calls ends the process.
ApiFails(p) ==
  /\ "fail" \in ApiFaults
  /\ pc[p] \in {"get", "patch", "unlock", "leave"}
  /\ Dies(p)
  /\ fresh' = fresh \ {p}
  /\ UNCHANGED <<owner, data>>

\* The patch is applied but the process sees an error, and ends.
ApiAnswerLost(p) ==
  /\ "lost" \in ApiFaults
  /\ \/ pc[p] = "patch" /\ LockPatch(p)
     \/ pc[p] \in {"unlock", "leave"} /\ UnlockPatch(p)
  /\ Dies(p)

-----------------------------------------------------------------------------
(* cmk isolate *)

ExclusivePools == {"exclusive", "exclusive-non-isolcpus"}

Exclusive == {cl \in CLists : PoolOf[cl] \in ExclusivePools}

SocketAware == {"exclusive", "shared", "exclusive-non-isolcpus"}

\* Pool.get_core_lists(selected_socket). A socket is selected by the string of
\* the command line, while the keys the yaml gives back are integers.
CoreLists(r) ==
  {cl \in CLists : /\ PoolOf[cl] = r.pool
                   /\ \/ r.socket = AnySocket
                      \/ r.pool \notin SocketAware
                      \/ SocketOf[cl] = r.socket}

\* Mutant: one too many.
FirstInclusive(n, S) == {c \in S : Cardinality({d \in S : d < c}) <= n}

First(n, S) == {c \in S : Cardinality({d \in S : d < c}) < n}

\* Mutant: the lists that are in use are not left out.
ChoicesOfAll(r, d) ==
  LET lists == CoreLists(r)
  IN  IF r.pool \in ExclusivePools
        THEN {S \in {First(r.n, lists)} : r.n > 0 /\ Cardinality(lists) >= r.n}
        ELSE {{cl} : cl \in lists}

\* The sets of cpu lists the selection may return; {} when it raises.
Choices(r, d) ==
  LET lists == CoreLists(r)
      avail == {cl \in lists : d[cl] = {}}
  IN  IF r.pool \in ExclusivePools
        THEN {S \in {First(r.n, avail)} : r.n > 0 /\ Cardinality(avail) >= r.n}
        ELSE {{cl} : cl \in lists}

Select(w) ==
  /\ pc[w] = "cs"
  /\ \E S \in Choices(req[w], local[w]) :
        /\ clists' = [clists EXCEPT ![w] = S]
        /\ local' = [local EXCEPT ![w] = [cl \in CLists |->
                       IF cl \in S THEN @[cl] \cup {pid[w]} ELSE @[cl]]]
  /\ Goto(w, "unlock")
  /\ UNCHANGED <<cm, todo, req, pid, child, alien>>

\* Mutant: wait, with the lock, until lists become free.
SelectFailsRetry(w) ==
  /\ pc[w] = "cs"
  /\ Choices(req[w], local[w]) = {}
  /\ UNCHANGED vars

\* Mutant: the unlock() is no part of a finally clause.
SelectFailsDies(w) ==
  /\ pc[w] = "cs"
  /\ Choices(req[w], local[w]) = {}
  /\ Dies(w)
  /\ UNCHANGED cm

\* KeyError, ValueError or SystemError: unlock and let it propagate.
SelectFails(w) ==
  /\ pc[w] = "cs"
  /\ Choices(req[w], local[w]) = {}
  /\ Goto(w, "leave")
  /\ UNCHANGED <<cm, local, todo, req, pid, clists, child, alien>>

Spawn(w) ==
  /\ pc[w] = "spawn"
  /\ child' = child \cup {w}
  /\ Goto(w, "arm")
  /\ UNCHANGED <<cm, local, todo, req, pid, clists, alien>>

\* cpu_affinity or Popen raises: straight to the finally clause.
SpawnFails(w) ==
  /\ pc[w] = "spawn"
  /\ Goto(w, "exit")
  /\ UNCHANGED <<cm, local, todo, req, pid, clists, child, alien>>

\* signal.signal(SIGTERM, child.terminate)
Arm(w) ==
  /\ pc[w] = "arm"
  /\ Goto(w, "wait")
  /\ UNCHANGED <<cm, local, todo, req, pid, clists, child, alien>>

ChildExit(w) ==
  /\ w \in child
  /\ child' = child \ {w}
  /\ clists' = IF pid[w] = NoPid THEN [clists EXCEPT ![w] = {}] ELSE clists
  /\ UNCHANGED <<cm, pc, local, todo, req, pid, alien>>

WaitReturns(w) ==
  /\ pc[w] = "wait"
  /\ w \notin child
  /\ Goto(w, "exit")
  /\ UNCHANGED <<cm, local, todo, req, pid, clists, child, alien>>

\* child.terminate takes no argument but a handler is called with two: the
\* TypeError interrupts child.wait() and the child hears nothing.
Term(w) ==
  /\ pc[w] = "wait"
  /\ Goto(w, "exit")
  /\ UNCHANGED <<cm, local, todo, req, pid, clists, child, alien>>

\* The finally clause builds config.Config without the namespace: TypeError,
\* before the lock is taken and the pid removed.
Finally(w) ==
  /\ pc[w] = "exit"
  /\ Dies(w)
  /\ UNCHANGED cm

-----------------------------------------------------------------------------
(* cmk reconcile *)

\* Mutants: every pid is reclaimed; remove_task is given the pid as an integer
\* and finds no string equal to it.
CheckEntryBlind(r) ==
  /\ pc[r] = "scan"
  /\ \E e \in todo[r] :
        /\ todo' = [todo EXCEPT ![r] = @ \ {e}]
        /\ local' = [local EXCEPT ![r][e[1]] = @ \ {e[2]}]
  /\ UNCHANGED <<cm, pc, req, pid, clists, child, alien>>

CheckEntryIntPid(r) ==
  /\ pc[r] = "scan"
  /\ \E e \in todo[r] : todo' = [todo EXCEPT ![r] = @ \ {e}]
  /\ UNCHANGED <<cm, pc, local, req, pid, clists, child, alien>>

\* generate_report looks the pids up one after the other; reclaim_cpu_lists
\* then removes, from the copy, those that were missing.
CheckEntry(r) ==
  /\ pc[r] = "scan"
  /\ \E e \in todo[r] :
        /\ todo' = [todo EXCEPT ![r] = @ \ {e}]
        /\ local' = IF e[2] \in LivePids
                      THEN local
                      ELSE [local EXCEPT ![r][e[1]] = @ \ {e[2]}]
  /\ UNCHANGED <<cm, pc, req, pid, clists, child, alien>>

ScanDone(r) ==
  /\ pc[r] = "scan"
  /\ todo[r] = {}
  /\ Goto(r, "unlock")
  /\ UNCHANGED <<cm, local, todo, req, pid, clists, child, alien>>

\* After the report is published and the interval has passed.
NextCycle(r) ==
  /\ pc[r] = "sleep"
  /\ Goto(r, "get")
  /\ UNCHANGED <<cm, local, todo, req, pid, clists, child, alien>>

\* Publishing the report raises, or the interval is 0: reconcile ends.
EndCycle(r) ==
  /\ pc[r] = "sleep"
  /\ Dies(r)
  /\ UNCHANGED cm

-----------------------------------------------------------------------------
(* cmk discover, cmk reconfigure *)

Read(p) ==
  /\ pc[p] = "cs"
  /\ Goto(p, "leave")
  /\ UNCHANGED <<cm, local, todo, req, pid, clists, child, alien>>

-----------------------------------------------------------------------------
Common(p) ==
  \/ Start(p) \/ Kill(p)
  \/ Get(p) \/ Lock(p) \/ LockConflict(p)
  \/ Unlock(p) \/ UnlockAndLeave(p)
  \/ ApiFails(p) \/ ApiAnswerLost(p)

Isolate(w) ==
  \/ Select(w) \/ SelectFails(w)
  \/ Spawn(w) \/ SpawnFails(w) \/ Arm(w)
  \/ ChildExit(w) \/ WaitReturns(w) \/ Term(w) \/ Finally(w)

Reconcile(r) == CheckEntry(r) \/ ScanDone(r) \/ NextCycle(r) \/ EndCycle(r)

Next ==
  \/ \E p \in Procs : Common(p)
  \/ \E w \in Wrappers : Isolate(w)
  \/ \E r \in Reconcilers : Reconcile(r)
  \/ \E p \in Readers : Read(p)
  \/ \E k \in AlienPids : AlienStart(k) \/ AlienExit(k)

Spec == Init /\ [][Next]_vars

\* A process that is scheduled takes its next step. Reconcile sleeps between
\* two cycles for far longer than the second between two polls, so a poll of
\* the others that finds the lock free again and again succeeds (SF); the
\* others run once, so reconcile needs no such assumption (WF). Faults, signals
\* and the end of a child are never forced.
Advance(p) ==
  \/ Lock(p) \/ LockConflict(p) \/ Unlock(p) \/ UnlockAndLeave(p)
  \/ p \in Wrappers /\ (\/ Select(p) \/ SelectFails(p) \/ Spawn(p) \/ Arm(p)
                        \/ WaitReturns(p) \/ Finally(p))
  \/ p \in Reconcilers /\ (CheckEntry(p) \/ ScanDone(p) \/ NextCycle(p))
  \/ p \in Readers /\ Read(p)

Fairness ==
  /\ \A p \in Procs : WF_vars(Advance(p))
  /\ \A p \in Wrappers \cup Readers : SF_vars(Get(p))
  /\ \A r \in Reconcilers : WF_vars(Get(r)) /\ WF_vars(Start(r))

FairSpec == Spec /\ Fairness

\* `cmk init` on a node that is in use: config.new patches the configmap with
\* the pools as at installation, no tasks and Owner "", and takes no lock.
InitAgain ==
  /\ owner' = Free
  /\ data' = NoTasks
  /\ fresh' = {}
  /\ UNCHANGED <<procs, alien>>

SpecInitAgain == Init /\ [][Next \/ InitAgain]_vars

-----------------------------------------------------------------------------
(* Properties *)

\* Every variable has its type.
TypeOK ==
  /\ owner \in Procs \cup {Free}
  /\ data \in Data
  /\ fresh \subseteq Procs
  /\ pc \in [Procs -> PCs]
  /\ local \in [Procs -> Data]
  /\ todo \in [Procs -> SUBSET (CLists \X Pids)]
  /\ req \in [Wrappers -> Requests]
  /\ pid \in [Procs -> Pids \cup {NoPid}]
  /\ clists \in [Procs -> SUBSET CLists]
  /\ child \subseteq Wrappers
  /\ alien \subseteq AlienPids

Holds(p) == pc[p] \in {"cs", "scan", "unlock", "leave"}

\* The lock of config.py: between the patch of lock() that succeeded and the
\* one of unlock(), a process is alone in the section and the annotation names
\* it, whatever polls, conflicts, kills and API faults happen around it.
LockExclusive ==
  \A p \in Procs : Holds(p) => /\ owner = p
                               /\ \A q \in Procs : Holds(q) => q = p

\* A wrapper whose pid is in the configmap and that still runs.
Registered(w) == pc[w] \in {"spawn", "arm", "wait", "exit"}

\* No update is lost and reconcile reclaims nothing that is in use: as long as
\* a wrapper that got its lists runs, each of them still shows its pid.
GrantRecorded ==
  \A w \in Wrappers : Registered(w) => \A cl \in clists[w] : pid[w] \in data[cl]

\* isolate never gives a cpu list of an exclusive pool to two running
\* wrappers, although it reads the lists before it writes them and pids are
\* used again by other processes.
GrantsDisjoint ==
  \A v, w \in Wrappers :
     v # w /\ Registered(v) /\ Registered(w)
       => clists[v] \cap clists[w] \cap Exclusive = {}

\* The users of a wrapper's cpu lists: itself, and the command it started, which
\* may outlive it.
Uses(w, cl) == (Registered(w) \/ w \in child) /\ cl \in clists[w]

\* What the user of an exclusive pool relies on: the cores of its lists are used
\* by nobody else's list, exclusive or not, until the command that isolate
\* started has ended.
CpusUsedOnce ==
  \A v, w \in Wrappers : v # w =>
     \A cl \in Exclusive, dl \in CLists :
        Uses(v, cl) /\ Uses(w, dl) => CoresOf[cl] \cap CoresOf[dl] = {}

\* What a wrapper was given fits its command line: CMK_NUM_CORES counts in the
\* exclusive pools only, and there a number that is not positive gives nothing.
AsRequested(w) ==
  /\ \A cl \in clists[w] : PoolOf[cl] = req[w].pool
  /\ IF req[w].pool \in ExclusivePools
       THEN req[w].n >= 1 /\ Cardinality(clists[w]) = req[w].n
       ELSE Cardinality(clists[w]) = 1

\* A wrapper that runs has, in an exclusive pool, exactly CMK_NUM_CORES lists,
\* at least one; in another pool a single one, whatever CMK_NUM_CORES says (also
\* 0, though docs/cli.md:497-502 has it count there too); all of the requested
\* pool. In spite of restarts and of the copies it has waited with.
GrantMatchesRequest == \A w \in Wrappers : Registered(w) => AsRequested(w)

\* The configmap belongs to the holder of the lock: the owner of a held lock
\* changes, and the task lists change at all, only by the unlock() of the
\* process that holds it. Not by a refused lock(), not by the unlock() of a
\* finally clause whose lock() failed, not by the death of the holder.
OnlyHolderWrites ==
  [][(owner # Free /\ owner' # owner) \/ data' # data
       => owner # Free /\ owner' = Free /\ pc[owner] \in {"unlock", "leave"}]_vars

\* Refinement: with its entries held from the unlock() that registers its pid
\* until it ends, isolate and reconcile implement the atomic operations of
\* CpuGrants: whatever interleaves, each unlock() is one of them, applied to
\* the configmap as it is then.
Held == [w \in Wrappers |-> IF Registered(w) THEN clists[w] \X {pid[w]} ELSE {}]

Grants == INSTANCE CpuGrants WITH held <- Held, tasks <- Entries(data)

GrantsSpec == Grants!Spec

\* A pid of a process that no longer exists leaves the task list of its cpu
\* lists, unless a new process comes to have that pid.
DeadTasksReclaimed ==
  \A cl \in CLists, k \in Pids :
     (k \in data[cl] /\ k \notin LivePids) ~> (k \notin data[cl] \/ k \in LivePids)

\* Why, in two steps. No copy, however old, brings the pid of a dead process back
\* into a configmap that is without it.
Gone(k) == \A cl \in CLists : k \notin data[cl]

DeadStayGone(k) == [](Gone(k) /\ [](k \notin LivePids) => []Gone(k))

\* And a reconcile that takes the lock after the death writes, at its unlock(),
\* a configmap without the pid: its copy has it only in entries that are still
\* to be looked up.
Scanned(r, k) ==
  pc[r] \in {"scan", "unlock"} =>
    \A cl \in CLists :
       k \in local[r][cl] => pc[r] = "scan" /\ <<cl, k>> \in todo[r]

ScanReclaims(r, k) ==
  [](~Holds(r) /\ [](k \notin LivePids) => [][Unlock(r) => Gone(k)']_vars)

\* Who has taken the lock is alive and will give it back: if nobody is killed
\* in the section and no call fails, the annotation never names a process that
\* is not between its lock() and its unlock().
LockHasHolder == owner # Free => Holds(owner)

\* The steps that a process still has in the section, reconcile one for each
\* entry that it has to look up. Whatever the others do meanwhile, each step of
\* its own brings it nearer to unlock().
HoldLeft(p) ==
  IF Holds(p)
    THEN [cs |-> 2, scan |-> 2 + Cardinality(todo[p]), unlock |-> 1, leave |-> 1][pc[p]]
    ELSE 0

HolderAdvances ==
  [][\A p \in Procs : Holds(p) =>
       /\ HoldLeft(p) \in Nat /\ HoldLeft(p)' \in Nat
       /\ HoldLeft(p)' <= HoldLeft(p)
       /\ Advance(p) => HoldLeft(p)' < HoldLeft(p)]_vars

\* isolate comes to an end of its wait for the lock: it runs the command or
\* it is gone.
IsolateDecides ==
  \A w \in Wrappers : pc[w] = "get" ~> pc[w] \in {"wait", "dead"}

-----------------------------------------------------------------------------
(* Why they hold: the parts of an inductive invariant *)

\* A copy with the current version is the configmap, and the lock is free.
FreshInv ==
  \A p \in fresh : pc[p] = "patch" /\ owner = Free /\ local[p] = data

HolderInv == \A p \in Procs : Holds(p) => owner = p

\* Where each kind of process may be.
RoleInv ==
  /\ \A w \in Wrappers : pc[w] \notin {"scan", "sleep"}
  /\ \A r \in Reconcilers : pc[r] \in {"idle", "get", "patch", "scan",
                                       "unlock", "sleep", "dead"}
  /\ \A p \in Readers : pc[p] \in {"idle", "get", "patch", "cs", "leave", "dead"}

\* What a holder is about to write back: the configmap unchanged,
CopyInv == \A p \in Procs : pc[p] \in {"cs", "leave"} => local[p] = data

\* with the pid of a wrapper in lists of which the exclusive ones were empty,
SelectedInv ==
  \A w \in Wrappers : pc[w] = "unlock" =>
     \A cl \in CLists :
        local[w][cl] = IF cl \in clists[w] THEN data[cl] \cup {pid[w]} ELSE data[cl]

SelectedFreeInv ==
  \A w \in Wrappers : pc[w] = "unlock" =>
     \A cl \in clists[w] \cap Exclusive : data[cl] = {}

\* or without pids of which none belongs to a running wrapper.
ReclaimInv ==
  \A r \in Reconcilers : pc[r] \in {"scan", "unlock"} =>
     \A cl \in CLists :
        /\ local[r][cl] \subseteq data[cl]
        /\ \A w \in Wrappers :
              Registered(w) /\ cl \in clists[w] => pid[w] \in local[r][cl]

\* Running wrappers have pids, all different.
PidInv ==
  /\ \A w \in Wrappers : pc[w] \notin {"idle", "dead"} => pid[w] # NoPid
  /\ \A v, w \in Wrappers : pid[v] = pid[w] /\ pid[w] # NoPid => v = w

\* The lists of a wrapper that has not unlocked yet.
RequestInv == \A w \in Wrappers : pc[w] = "unlock" => AsRequested(w)

\* An exclusive cpu list has one task at most.
OneTaskInv == \A cl \in Exclusive : \A k, l \in data[cl] : k = l

\* A child whose wrapper is its container's PID 1 does not outlive it.
ChildInv == \A w \in child \cap Entrypoints : Registered(w)

NodeInv ==
  /\ TypeOK
  /\ FreshInv /\ HolderInv /\ RoleInv
  /\ CopyInv /\ SelectedInv /\ SelectedFreeInv /\ ReclaimInv
  /\ PidInv /\ OneTaskInv /\ GrantRecorded /\ ChildInv

-----------------------------------------------------------------------------
(* What the documentation says and the code does not do *)

\* isolate locks "to avoid two isolate commands simultaneously making updates
\* to the CMK configuration configmap" (intel/config.py).
OneIsolateUpdates ==
  \A v, w \in Wrappers : Holds(v) /\ Holds(w) => v = w

\* CMK_LOCK_TIMEOUT is the "maximum duration, in seconds, to hold the cmk
\* configuration directory lock file" (docs/cli.md): a lock that is taken is free
\* again later, whatever becomes of the process that took it.
LockFreedAgain == owner # Free ~> owner = Free
=============================================================================
