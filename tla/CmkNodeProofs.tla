---------------------------- MODULE CmkNodeProofs ----------------------------
(***************************************************************************)
(* Proofs about CmkNode, for any number of processes, cpu lists and pids.  *)
(***************************************************************************)
EXTENDS CmkNode, Ranks, TLAPS

USE ProcsAssumption, PidsAssumption DEF Procs

(* The operators of the model *)

\* The selection stays within the cpu lists of the configmap, and the lists of
\* exclusive pools it returns have no task in the copy it looked at.
LEMMA ChoicesProps ==
  ASSUME NEW r, NEW d, NEW S \in Choices(r, d)
  PROVE  /\ S \subseteq CLists
         /\ \A cl \in S \cap Exclusive : d[cl] = {}
<1> DEFINE lists == CoreLists(r)
           avail == {cl \in lists : d[cl] = {}}
<1>1. lists \subseteq CLists /\ \A cl \in lists : PoolOf[cl] = r.pool
  BY DEF CoreLists
<1>2. CASE r.pool \in ExclusivePools
  <2>1. S = First(r.n, avail)
    BY <1>2 DEF Choices
  <2>2. S \subseteq avail
    BY <2>1 DEF First
  <2> QED BY <1>1, <2>2
<1>3. CASE r.pool \notin ExclusivePools
  <2>1. PICK cl \in lists : S = {cl}
    BY <1>3 DEF Choices
  <2> QED BY <1>1, <1>3, <2>1 DEF Exclusive
<1> QED BY <1>2, <1>3

\* A process that dies keeps the types of the variables that its death changes.
LEMMA DiesType ==
  ASSUME TypeOK, NEW p \in Procs, Dies(p)
  PROVE  /\ pc' \in [Procs -> PCs]
         /\ local' \in [Procs -> Data]
         /\ todo' \in [Procs -> SUBSET (CLists \X Pids)]
         /\ req' \in [Wrappers -> Requests]
         /\ pid' \in [Procs -> Pids \cup {NoPid}]
         /\ clists' \in [Procs -> SUBSET CLists]
         /\ child' \subseteq Wrappers
         /\ alien' \subseteq AlienPids
<1>1. NoTasks \in Data
  BY DEF NoTasks, Data
<1> QED BY <1>1 DEF TypeOK, Dies, Goto, PCs

-----------------------------------------------------------------------------
(* Type correctness *)

\* The initial values have their types.
LEMMA InitType == Init => TypeOK
<1>1. NoTasks \in Data
  BY DEF NoTasks, Data
<1> QED BY <1>1 DEF Init, TypeOK, PCs

-----------------------------------------------------------------------------
(* The invariant, action by action *)

\* A process that dies, whatever its place, without a write to the configmap.
LEMMA DeathStep ==
  ASSUME NodeInv, NEW p \in Procs, Dies(p), fresh' = fresh \ {p},
         UNCHANGED <<owner, data>>
  PROVE  NodeInv'
<1> USE DEF NodeInv, Dies, Goto
<1>1. TypeOK'
  BY DiesType DEF TypeOK
<1>2. pc'[p] = "dead" /\ pid'[p] = NoPid /\ p \notin fresh'
  BY DEF TypeOK
<1>3. \A q \in Procs : q # p => /\ pc'[q] = pc[q] /\ pid'[q] = pid[q]
                               /\ local'[q] = local[q] /\ clists'[q] = clists[q]
  BY DEF TypeOK
<1> HIDE DEF Dies
<1>4. FreshInv'
  BY <1>2, <1>3 DEF FreshInv, TypeOK
<1>5. HolderInv'
  BY <1>2, <1>3 DEF HolderInv, Holds
<1>6. RoleInv'
  BY <1>2, <1>3 DEF RoleInv
<1>7. CopyInv'
  BY <1>2, <1>3 DEF CopyInv
<1>8. SelectedInv'
  BY <1>2, <1>3 DEF SelectedInv
<1>9. SelectedFreeInv'
  BY <1>2, <1>3 DEF SelectedFreeInv
<1>10. ReclaimInv'
  BY <1>2, <1>3 DEF ReclaimInv, Registered
<1>11. PidInv'
  BY <1>2, <1>3 DEF PidInv
<1>12. OneTaskInv'
  BY DEF OneTaskInv
<1>13. GrantRecorded'
  BY <1>2, <1>3 DEF GrantRecorded, Registered
<1>14. ChildInv'
  BY <1>2, <1>3 DEF ChildInv, Dies, Registered, TypeOK
<1> QED BY <1>1, <1>4, <1>5, <1>6, <1>7, <1>8, <1>9, <1>10, <1>11, <1>12, <1>13, <1>14

\* A process whose next step only moves it on, not into a place about which
\* the invariant says more than it said of the old one.
LEMMA MoveStep ==
  ASSUME NodeInv, NEW p \in Procs, NEW label \in PCs, Goto(p, label),
         UNCHANGED <<owner, data, fresh, local, todo, req, pid, clists, alien>>,
         child' \subseteq Wrappers, child' \subseteq child \cup {p},
         child' = child \/ label = "arm",
         Registered(p) => label \in {"spawn", "arm", "wait", "exit"},
         pc[p] \notin {"idle", "dead", "patch"},
         label \notin {"idle", "dead", "patch"},
         \/ ~Holds(p) /\ label \notin {"cs", "scan", "unlock", "leave"}
         \/ pc[p] = "cs" /\ label = "leave"
         \/ pc[p] = "scan" /\ label = "unlock" /\ p \in Reconcilers,
         p \in Wrappers => label \notin {"scan", "sleep"},
         p \in Reconcilers => label \in {"get", "unlock", "sleep"},
         p \in Readers => label \in {"get", "leave"},
         p \in Wrappers /\ label \in {"spawn", "arm", "wait", "exit"}
           => Registered(p)
  PROVE  NodeInv'
<1> USE DEF NodeInv, Goto
<1>1. TypeOK'
  BY DEF TypeOK
<1>2. pc'[p] = label
  BY DEF TypeOK
<1>3. \A q \in Procs : q # p => pc'[q] = pc[q]
  BY DEF TypeOK
<1>4. FreshInv'
  BY <1>2, <1>3 DEF FreshInv, TypeOK
<1>5. HolderInv'
  BY <1>2, <1>3 DEF HolderInv, Holds
<1>6. RoleInv'
  BY <1>2, <1>3 DEF RoleInv
<1>7. CopyInv'
  BY <1>2, <1>3 DEF CopyInv, Holds
<1>8. SelectedInv'
  BY <1>2, <1>3 DEF SelectedInv
<1>9. SelectedFreeInv'
  BY <1>2, <1>3 DEF SelectedFreeInv
<1>10. ReclaimInv'
  BY <1>2, <1>3 DEF ReclaimInv, Registered, Holds
<1>11. PidInv'
  BY <1>2, <1>3 DEF PidInv
<1>12. OneTaskInv'
  BY DEF OneTaskInv
<1>13. GrantRecorded'
  BY <1>2, <1>3 DEF GrantRecorded, Registered
<1>14. ChildInv'
  BY <1>2, <1>3 DEF ChildInv, Registered
<1> QED BY <1>1, <1>4, <1>5, <1>6, <1>7, <1>8, <1>9, <1>10, <1>11, <1>12, <1>13, <1>14

\* The kernel gives a wrapper that starts a pid nobody has.
LEMMA StartStep ==
  ASSUME NodeInv, NEW p \in Procs, Start(p)
  PROVE  NodeInv'
<1> USE DEF NodeInv, Start, Goto, cm
<1>1. pc'[p] = "get" /\ pc[p] \in {"idle", "dead"}
  BY DEF TypeOK
<1>2. \A q \in Procs : q # p => pc'[q] = pc[q] /\ pid'[q] = pid[q]
  BY DEF TypeOK
<1>3. TypeOK'
  BY DEF TypeOK, PCs
<1>4. p \in Wrappers => pid'[p] \in Pids \ LivePids
  BY DEF TypeOK
<1>5. UNCHANGED <<owner, data, fresh, local, todo, clists>>
  OBVIOUS
<1> HIDE DEF Start
<1>6. FreshInv'
  BY <1>1, <1>2, <1>5 DEF FreshInv, TypeOK
<1>7. HolderInv'
  BY <1>1, <1>2, <1>5 DEF HolderInv, Holds
<1>8. RoleInv'
  BY <1>1, <1>2 DEF RoleInv
<1>9. CopyInv'
  BY <1>1, <1>2, <1>5 DEF CopyInv
<1>10. SelectedInv'
  BY <1>1, <1>2, <1>5 DEF SelectedInv
<1>11. SelectedFreeInv'
  BY <1>1, <1>2, <1>5 DEF SelectedFreeInv
<1>12. ReclaimInv'
  BY <1>1, <1>2, <1>5 DEF ReclaimInv, Registered
<1>13. PidInv'
  BY <1>1, <1>2, <1>4 DEF PidInv, LivePids
<1>14. OneTaskInv'
  BY <1>5 DEF OneTaskInv
<1>15. GrantRecorded'
  BY <1>1, <1>2, <1>5 DEF GrantRecorded, Registered
<1>16. ChildInv'
  BY <1>1, <1>2 DEF ChildInv, Start, Registered, TypeOK
<1> QED BY <1>3, <1>6, <1>7, <1>8, <1>9, <1>10, <1>11, <1>12, <1>13, <1>14, <1>15, <1>16

\* A poll reads the configmap while nobody holds the lock.
LEMMA GetStep ==
  ASSUME NodeInv, NEW p \in Procs, Get(p)
  PROVE  NodeInv'
<1> USE DEF NodeInv, Get, Goto
<1>1. pc'[p] = "patch" /\ pc[p] = "get" /\ local'[p] = data
  BY DEF TypeOK
<1>2. \A q \in Procs : q # p => pc'[q] = pc[q] /\ local'[q] = local[q]
  BY DEF TypeOK
<1>3. TypeOK'
  BY DEF TypeOK, PCs
<1>6. FreshInv'
  BY <1>1, <1>2 DEF FreshInv, TypeOK
<1>7. HolderInv'
  BY <1>1, <1>2 DEF HolderInv, Holds
<1>8. RoleInv'
  BY <1>1, <1>2 DEF RoleInv
<1>9. CopyInv'
  BY <1>1, <1>2 DEF CopyInv
<1>10. SelectedInv'
  BY <1>1, <1>2 DEF SelectedInv
<1>11. SelectedFreeInv'
  BY <1>1, <1>2 DEF SelectedFreeInv
<1>12. ReclaimInv'
  BY <1>1, <1>2 DEF ReclaimInv, Registered
<1>13. PidInv'
  BY <1>1, <1>2 DEF PidInv
<1>14. OneTaskInv'
  BY DEF OneTaskInv
<1>15. GrantRecorded'
  BY <1>1, <1>2 DEF GrantRecorded, Registered
<1>16. ChildInv'
  BY <1>1, <1>2 DEF ChildInv, Registered, TypeOK
<1> QED BY <1>3, <1>6, <1>7, <1>8, <1>9, <1>10, <1>11, <1>12, <1>13, <1>14, <1>15, <1>16

\* When the patch of lock() is accepted nobody holds the lock and the copy is
\* the configmap, so that only the annotation changes.
LEMMA LockPatchFacts ==
  ASSUME NodeInv, NEW p \in Procs, LockPatch(p)
  PROVE  /\ pc[p] = "patch" /\ owner = Free /\ local[p] = data
         /\ data' = data /\ owner' = p /\ fresh' = {}
         /\ \A q \in Procs : ~Holds(q)
BY DEF NodeInv, FreshInv, HolderInv, LockPatch

\* An accepted patch of lock() makes its process the holder.
LEMMA LockStep ==
  ASSUME NodeInv, NEW p \in Procs, Lock(p)
  PROVE  NodeInv'
<1>1. /\ pc[p] = "patch" /\ owner = Free /\ local[p] = data
      /\ data' = data /\ owner' = p /\ fresh' = {}
      /\ \A q \in Procs : ~Holds(q)
  BY LockPatchFacts DEF Lock
<1> USE DEF NodeInv, Goto
<1>2. pc'[p] = IF p \in Reconcilers THEN "scan" ELSE "cs"
  BY DEF Lock, TypeOK
<1>3. \A q \in Procs : q # p => pc'[q] = pc[q]
  BY DEF Lock, TypeOK
<1>4. UNCHANGED <<local, req, pid, clists, child, alien>>
  BY DEF Lock
<1>5. TypeOK'
  <2>1. Entries(local[p]) \subseteq CLists \X Pids
    BY DEF Entries
  <2>2. todo' \in [Procs -> SUBSET (CLists \X Pids)] /\ pc' \in [Procs -> PCs]
    BY <2>1 DEF Lock, TypeOK, PCs
  <2> QED BY <1>1, <1>4, <2>2 DEF TypeOK
<1>6. FreshInv'
  BY <1>1 DEF FreshInv
<1>7. HolderInv'
  BY <1>1, <1>2, <1>3 DEF HolderInv, Holds
<1>8. RoleInv'
  BY <1>2, <1>3 DEF RoleInv
<1>9. CopyInv'
  BY <1>1, <1>2, <1>3, <1>4 DEF CopyInv
<1>10. SelectedInv'
  BY <1>1, <1>2, <1>3, <1>4 DEF SelectedInv
<1>11. SelectedFreeInv'
  BY <1>1, <1>2, <1>3, <1>4 DEF SelectedFreeInv
<1>12. ReclaimInv'
  BY <1>1, <1>2, <1>3, <1>4 DEF ReclaimInv, Registered, GrantRecorded
<1>13. PidInv'
  BY <1>1, <1>2, <1>3, <1>4 DEF PidInv
<1>14. OneTaskInv'
  BY <1>1 DEF OneTaskInv
<1>15. GrantRecorded'
  BY <1>1, <1>2, <1>3, <1>4 DEF GrantRecorded, Registered
<1>16. ChildInv'
  BY <1>1, <1>2, <1>3, <1>4 DEF ChildInv, Registered, TypeOK
<1> QED BY <1>5, <1>6, <1>7, <1>8, <1>9, <1>10, <1>11, <1>12, <1>13, <1>14, <1>15, <1>16

\* The configmap an unlock() leaves behind: every running wrapper is still in
\* its lists, the one that unlocks is now too, exclusive lists have one task.
LEMMA UnlockPatchFacts ==
  ASSUME NodeInv, NEW p \in Procs, pc[p] \in {"unlock", "leave"}, UnlockPatch(p)
  PROVE  /\ owner' = Free /\ fresh' = {} /\ data' \in Data
         /\ \A q \in Procs : q # p => ~Holds(q)
         /\ pc[p] = "unlock" => p \in Wrappers \cup Reconcilers
         /\ \A cl \in Exclusive : \A k, l \in data'[cl] : k = l
         /\ \A w \in Wrappers : Registered(w)
               => \A cl \in clists[w] : pid[w] \in data'[cl]
         /\ p \in Wrappers /\ pc[p] = "unlock"
               => \A cl \in clists[p] : pid[p] \in data'[cl]
<1> USE DEF NodeInv, UnlockPatch
<1>1. data' \in Data /\ \A q \in Procs : q # p => ~Holds(q)
  BY DEF TypeOK, HolderInv, Holds
<1>2. pc[p] = "unlock" => p \in Wrappers \cup Reconcilers
  BY DEF RoleInv
<1>3. CASE pc[p] = "leave"
  BY <1>1, <1>2, <1>3 DEF CopyInv, OneTaskInv, GrantRecorded
<1>4. CASE pc[p] = "unlock" /\ p \in Wrappers
  <2>1. \A cl \in CLists : data'[cl] =
           IF cl \in clists[p] THEN data[cl] \cup {pid[p]} ELSE data[cl]
    BY <1>4 DEF SelectedInv
  <2>2. \A cl \in clists[p] \cap Exclusive : data[cl] = {}
    BY <1>4 DEF SelectedFreeInv
  <2>3. \A w \in Procs : clists[w] \subseteq CLists
    BY DEF TypeOK
  <2>4. \A cl \in Exclusive : \A k, l \in data'[cl] : k = l
    BY <2>1, <2>2 DEF OneTaskInv, Exclusive
  <2>5. \A w \in Wrappers : Registered(w)
           => \A cl \in clists[w] : pid[w] \in data'[cl]
    BY <2>1, <2>3 DEF GrantRecorded
  <2>6. \A cl \in clists[p] : pid[p] \in data'[cl]
    BY <2>1, <2>3
  <2> HIDE DEF NodeInv
  <2>7. owner' = Free /\ fresh' = {}
    OBVIOUS
  <2> QED BY <1>1, <1>2, <1>4, <2>4, <2>5, <2>6, <2>7
<1>5. CASE pc[p] = "unlock" /\ p \in Reconcilers
  <2>1. \A cl \in CLists :
           /\ data'[cl] \subseteq data[cl]
           /\ \A w \in Wrappers : Registered(w) /\ cl \in clists[w]
                                    => pid[w] \in data'[cl]
    BY <1>5 DEF ReclaimInv
  <2>2. \A w \in Procs : clists[w] \subseteq CLists
    BY DEF TypeOK
  <2>3. \A cl \in Exclusive : \A k, l \in data'[cl] : k = l
    BY <2>1 DEF OneTaskInv, Exclusive
  <2> QED BY <1>1, <1>2, <1>5, <2>1, <2>2, <2>3
<1> QED BY <1>2, <1>3, <1>4, <1>5

\* unlock() by a process that goes on: reconcile, or a wrapper with its lists.
LEMMA UnlockStep ==
  ASSUME NodeInv, NEW p \in Procs, Unlock(p)
  PROVE  NodeInv'
<1>1. pc[p] = "unlock" /\ UnlockPatch(p)
  BY DEF Unlock
<1>2. /\ owner' = Free /\ fresh' = {} /\ data' \in Data
      /\ \A q \in Procs : q # p => ~Holds(q)
      /\ p \in Wrappers \cup Reconcilers
      /\ \A cl \in Exclusive : \A k, l \in data'[cl] : k = l
      /\ \A w \in Wrappers : Registered(w)
            => \A cl \in clists[w] : pid[w] \in data'[cl]
      /\ p \in Wrappers => \A cl \in clists[p] : pid[p] \in data'[cl]
  BY <1>1, UnlockPatchFacts
<1> USE DEF NodeInv, Unlock, Goto
<1>3. pc'[p] = IF p \in Reconcilers THEN "sleep" ELSE "spawn"
  BY DEF TypeOK
<1>4. \A q \in Procs : q # p => pc'[q] = pc[q] /\ local'[q] = local[q]
  BY DEF TypeOK
<1>5. UNCHANGED <<todo, req, pid, clists, child, alien>>
  OBVIOUS
<1>6. TypeOK'
  <2>1. NoTasks \in Data
    BY DEF NoTasks, Data
  <2> QED BY <1>2, <2>1 DEF TypeOK, PCs
<1> HIDE DEF Unlock
<1>7. FreshInv'
  BY <1>2 DEF FreshInv
<1>8. HolderInv'
  BY <1>2, <1>3, <1>4 DEF HolderInv, Holds
<1>9. RoleInv'
  BY <1>2, <1>3, <1>4 DEF RoleInv
<1>10. CopyInv'
  BY <1>2, <1>3, <1>4 DEF CopyInv, Holds
<1>11. SelectedInv'
  BY <1>2, <1>3, <1>4 DEF SelectedInv, Holds
<1>12. SelectedFreeInv'
  BY <1>2, <1>3, <1>4 DEF SelectedFreeInv, Holds
<1>13. ReclaimInv'
  BY <1>2, <1>3, <1>4 DEF ReclaimInv, Holds
<1>14. PidInv'
  BY <1>1, <1>3, <1>4, <1>5 DEF PidInv
<1>15. OneTaskInv'
  BY <1>2 DEF OneTaskInv, Exclusive
<1>16. GrantRecorded'
  BY <1>2, <1>3, <1>4, <1>5 DEF GrantRecorded, Registered
<1>17. ChildInv'
  BY <1>1, <1>3, <1>4, <1>5 DEF ChildInv, Registered, TypeOK
<1> QED BY <1>6, <1>7, <1>8, <1>9, <1>10, <1>11, <1>12, <1>13, <1>14, <1>15, <1>16, <1>17

\* A write by a process that ends with it: nobody holds the lock afterwards.
LEMMA LastWriteStep ==
  ASSUME NodeInv, NEW p \in Procs, Dies(p), fresh' = {}, data' \in Data,
         owner' \in Procs \cup {Free},
         \A q \in Procs : q # p => ~Holds(q),
         \A cl \in Exclusive : \A k, l \in data'[cl] : k = l,
         \A w \in Wrappers : Registered(w)
            => \A cl \in clists[w] : pid[w] \in data'[cl]
  PROVE  NodeInv'
<1> USE DEF NodeInv, Dies, Goto
<1>1. TypeOK'
  BY DiesType DEF TypeOK
<1>2. pc'[p] = "dead" /\ pid'[p] = NoPid
  BY DEF TypeOK
<1>3. \A q \in Procs : q # p => /\ pc'[q] = pc[q] /\ pid'[q] = pid[q]
                               /\ local'[q] = local[q] /\ clists'[q] = clists[q]
  BY DEF TypeOK
<1> HIDE DEF Dies
<1>4. FreshInv'
  BY DEF FreshInv
<1>5. HolderInv'
  BY <1>2, <1>3 DEF HolderInv, Holds
<1>6. RoleInv'
  BY <1>2, <1>3 DEF RoleInv
<1>7. CopyInv'
  BY <1>2, <1>3 DEF CopyInv, Holds
<1>8. SelectedInv'
  BY <1>2, <1>3 DEF SelectedInv, Holds
<1>9. SelectedFreeInv'
  BY <1>2, <1>3 DEF SelectedFreeInv, Holds
<1>10. ReclaimInv'
  BY <1>2, <1>3 DEF ReclaimInv, Holds
<1>11. PidInv'
  BY <1>2, <1>3 DEF PidInv
<1>12. OneTaskInv'
  BY DEF OneTaskInv, Exclusive
<1>13. GrantRecorded'
  BY <1>2, <1>3 DEF GrantRecorded, Registered
<1>14. ChildInv'
  BY <1>2, <1>3 DEF ChildInv, Dies, Registered, TypeOK
<1> QED BY <1>1, <1>4, <1>5, <1>6, <1>7, <1>8, <1>9, <1>10, <1>11, <1>12, <1>13, <1>14

\* unlock() by a process that ends with it: a finally clause, a lost answer.
LEMMA UnlockAndDieStep ==
  ASSUME NodeInv, NEW p \in Procs, pc[p] \in {"unlock", "leave"},
         UnlockPatch(p), Dies(p)
  PROVE  NodeInv'
BY UnlockPatchFacts, LastWriteStep

\* lock() whose answer is lost: the annotation names a process that is gone.
LEMMA LockAndDieStep ==
  ASSUME NodeInv, NEW p \in Procs, LockPatch(p), Dies(p)
  PROVE  NodeInv'
<1>1. /\ data' = data /\ owner' = p /\ fresh' = {}
      /\ \A q \in Procs : ~Holds(q)
  BY LockPatchFacts
<1>2. /\ data' \in Data
      /\ \A cl \in Exclusive : \A k, l \in data'[cl] : k = l
      /\ \A w \in Wrappers : Registered(w)
            => \A cl \in clists[w] : pid[w] \in data'[cl]
  BY <1>1 DEF NodeInv, TypeOK, OneTaskInv, GrantRecorded
<1> QED BY <1>1, <1>2, LastWriteStep

\* Every step of Common preserves the invariant.
LEMMA CommonStep ==
  ASSUME NodeInv, NEW p \in Procs, Common(p)
  PROVE  NodeInv'
<1>1. CASE Start(p)
  BY <1>1, StartStep
<1>2. CASE Kill(p)
  BY <1>2, DeathStep DEF Kill
<1>3. CASE Get(p)
  BY <1>3, GetStep
<1>4. CASE Lock(p)
  BY <1>4, LockStep
<1>5. CASE LockConflict(p)
  <2>1. fresh' = fresh \ {p}
    BY <1>5 DEF LockConflict, cm
  <2> QED BY <1>5, <2>1, DeathStep DEF LockConflict, cm
<1>6. CASE Unlock(p)
  BY <1>6, UnlockStep
<1>7. CASE UnlockAndLeave(p)
  BY <1>7, UnlockAndDieStep DEF UnlockAndLeave
<1>8. CASE ApiFails(p)
  BY <1>8, DeathStep DEF ApiFails
<1>9. CASE ApiAnswerLost(p)
  BY <1>9, LockAndDieStep, UnlockAndDieStep DEF ApiAnswerLost
<1> QED BY <1>1, <1>2, <1>3, <1>4, <1>5, <1>6, <1>7, <1>8, <1>9 DEF Common

\* The selection adds the wrapper's pid to the lists it was given, and only in
\* the copy; the exclusive ones among them have no task in the configmap.
LEMMA SelectStep ==
  ASSUME NodeInv, NEW w \in Wrappers, Select(w)
  PROVE  NodeInv'
<1> USE DEF NodeInv, Goto, cm
<1>1. pc[w] = "cs" /\ local[w] = data /\ pid[w] \in Pids
  BY DEF Select, CopyInv, PidInv, TypeOK
<1>2. PICK S \in Choices(req[w], local[w]) :
         /\ clists' = [clists EXCEPT ![w] = S]
         /\ local' = [local EXCEPT ![w] = [cl \in CLists |->
                        IF cl \in S THEN @[cl] \cup {pid[w]} ELSE @[cl]]]
  BY DEF Select
<1>3. S \subseteq CLists /\ \A cl \in S \cap Exclusive : data[cl] = {}
  BY <1>1, <1>2, ChoicesProps
<1>4. /\ pc'[w] = "unlock" /\ clists'[w] = S
      /\ \A cl \in CLists : local'[w][cl] =
            IF cl \in S THEN data[cl] \cup {pid[w]} ELSE data[cl]
  BY <1>1, <1>2 DEF Select, TypeOK
<1>5. \A q \in Procs : q # w => /\ pc'[q] = pc[q] /\ local'[q] = local[q]
                               /\ clists'[q] = clists[q]
  BY <1>2 DEF Select, TypeOK
<1>6. UNCHANGED <<owner, data, fresh, todo, req, pid, child, alien>>
  BY DEF Select
<1>7. TypeOK'
  <2>1. pc' \in [Procs -> PCs]
    BY DEF Select, TypeOK, PCs
  <2>2. [cl \in CLists |-> IF cl \in S THEN data[cl] \cup {pid[w]} ELSE data[cl]]
          \in Data
    BY <1>1 DEF TypeOK, Data
  <2>3. local' \in [Procs -> Data]
    BY <1>1, <1>2, <2>2 DEF TypeOK
  <2>4. clists' \in [Procs -> SUBSET CLists]
    BY <1>2, <1>3 DEF TypeOK
  <2> QED BY <1>6, <2>1, <2>3, <2>4 DEF TypeOK
<1>8. FreshInv'
  BY <1>1, <1>4, <1>5, <1>6 DEF FreshInv, TypeOK
<1>9. HolderInv'
  BY <1>1, <1>4, <1>5, <1>6 DEF HolderInv, Holds
<1>10. RoleInv'
  BY <1>4, <1>5 DEF RoleInv
<1>11. CopyInv'
  BY <1>4, <1>5, <1>6 DEF CopyInv
<1>12. SelectedInv'
  BY <1>4, <1>5, <1>6 DEF SelectedInv
<1>13. SelectedFreeInv'
  BY <1>3, <1>4, <1>5, <1>6 DEF SelectedFreeInv
<1>14. ReclaimInv'
  BY <1>4, <1>5, <1>6 DEF ReclaimInv, Registered
<1>15. PidInv'
  BY <1>1, <1>4, <1>5, <1>6 DEF PidInv
<1>16. OneTaskInv'
  BY <1>6 DEF OneTaskInv
<1>17. GrantRecorded'
  BY <1>4, <1>5, <1>6 DEF GrantRecorded, Registered
<1>18. ChildInv'
  BY <1>1, <1>4, <1>5, <1>6 DEF ChildInv, Registered, TypeOK
<1> QED BY <1>7, <1>8, <1>9, <1>10, <1>11, <1>12, <1>13, <1>14, <1>15, <1>16, <1>17, <1>18

\* The end of a child gives up the lists of an orphan, nothing else.
LEMMA ChildExitStep ==
  ASSUME NodeInv, NEW w \in Wrappers, ChildExit(w)
  PROVE  NodeInv'
<1> USE DEF NodeInv, cm
<1>1. UNCHANGED <<owner, data, fresh, pc, local, todo, req, pid, alien>>
  BY DEF ChildExit
<1>2. TypeOK'
  BY DEF ChildExit, TypeOK
<1>3. \A v \in Wrappers : pid[v] # NoPid => clists'[v] = clists[v]
  BY DEF ChildExit, TypeOK
<1>4. \A v \in Wrappers : Registered(v) \/ pc[v] = "unlock" => pid[v] # NoPid
  BY DEF PidInv, Registered
<1>5. FreshInv' /\ HolderInv' /\ RoleInv' /\ CopyInv'
  BY <1>1 DEF FreshInv, HolderInv, Holds, RoleInv, CopyInv
<1>6. SelectedInv' /\ SelectedFreeInv'
  BY <1>1, <1>3, <1>4 DEF SelectedInv, SelectedFreeInv
<1>7. ReclaimInv'
  BY <1>1, <1>3, <1>4 DEF ReclaimInv, Registered
<1>8. PidInv' /\ OneTaskInv'
  BY <1>1 DEF PidInv, OneTaskInv
<1>9. GrantRecorded'
  BY <1>1, <1>3, <1>4 DEF GrantRecorded, Registered
<1>10. ChildInv'
  BY <1>1 DEF ChildExit, ChildInv, Registered
<1> QED BY <1>2, <1>5, <1>6, <1>7, <1>8, <1>9, <1>10

\* Every step of isolate preserves the invariant.
LEMMA IsolateStep ==
  ASSUME NodeInv, NEW w \in Wrappers, Isolate(w)
  PROVE  NodeInv'
<1> USE DEF cm, Goto, Holds, Registered, PCs
<1>1. child \subseteq Wrappers /\ w \notin Reconcilers /\ w \notin Readers
  BY DEF NodeInv, TypeOK
<1>2. CASE Select(w)
  BY <1>2, SelectStep
<1>3. CASE SelectFails(w)
  BY <1>1, <1>3, MoveStep DEF SelectFails
<1>4. CASE Spawn(w)
  BY <1>1, <1>4, MoveStep DEF Spawn
<1>5. CASE SpawnFails(w)
  BY <1>1, <1>5, MoveStep DEF SpawnFails
<1>6. CASE Arm(w)
  BY <1>1, <1>6, MoveStep DEF Arm
<1>7. CASE ChildExit(w)
  BY <1>7, ChildExitStep
<1>8. CASE WaitReturns(w)
  BY <1>1, <1>8, MoveStep DEF WaitReturns
<1>9. CASE Term(w)
  BY <1>1, <1>9, MoveStep DEF Term
<1>10. CASE Finally(w)
  <2>1. fresh' = fresh \ {w}
    BY <1>10 DEF Finally, NodeInv, FreshInv
  <2> QED BY <1>10, <2>1, DeathStep DEF Finally
<1> QED BY <1>2, <1>3, <1>4, <1>5, <1>6, <1>7, <1>8, <1>9, <1>10 DEF Isolate

\* Looking an entry up removes at most a pid that nobody has, and a running
\* wrapper has its pid.
LEMMA CheckEntryStep ==
  ASSUME NodeInv, NEW r \in Reconcilers, CheckEntry(r)
  PROVE  NodeInv'
<1> USE DEF NodeInv, cm
<1>1. PICK e \in todo[r] :
        /\ todo' = [todo EXCEPT ![r] = @ \ {e}]
        /\ local' = IF e[2] \in LivePids
                      THEN local
                      ELSE [local EXCEPT ![r][e[1]] = @ \ {e[2]}]
  BY DEF CheckEntry
<1>2. /\ pc[r] = "scan"
      /\ UNCHANGED <<owner, data, fresh, pc, req, pid, clists, child, alien>>
  BY DEF CheckEntry
<1>3. e[1] \in CLists /\ e[2] \in Pids
  BY <1>1 DEF TypeOK
<1>4. local' \in [Procs -> Data]
  BY <1>1, <1>3 DEF TypeOK, Data
<1>5. todo' \in [Procs -> SUBSET (CLists \X Pids)]
  BY <1>1 DEF TypeOK
<1>6. TypeOK'
  BY <1>2, <1>4, <1>5 DEF TypeOK
<1>7. \A q \in Procs : q # r => local'[q] = local[q]
  BY <1>1 DEF TypeOK
<1>8. \A cl \in CLists :
        /\ local'[r][cl] \subseteq local[r][cl]
        /\ \A k \in local[r][cl] : k \in LivePids => k \in local'[r][cl]
  BY <1>1, <1>3 DEF TypeOK, Data
<1>9. \A w \in Wrappers : Registered(w) => pid[w] \in LivePids
  BY DEF PidInv, Registered, LivePids
<1>10. FreshInv'
  BY <1>2, <1>7 DEF FreshInv, TypeOK
<1>11. HolderInv' /\ RoleInv' /\ PidInv' /\ OneTaskInv' /\ GrantRecorded' /\ ChildInv'
  BY <1>2 DEF HolderInv, Holds, RoleInv, PidInv, OneTaskInv, GrantRecorded, ChildInv, Registered
<1>12. CopyInv' /\ SelectedInv' /\ SelectedFreeInv'
  BY <1>2, <1>7 DEF CopyInv, SelectedInv, SelectedFreeInv
<1>13. ReclaimInv'
  <2>1. \A q \in Reconcilers : q # r /\ pc[q] \in {"scan", "unlock"}
          => local'[q] = local[q]
    BY <1>7
  <2>2. \A cl \in CLists : local'[r][cl] \subseteq data[cl]
    BY <1>2, <1>8 DEF ReclaimInv
  <2>3. \A cl \in CLists, w \in Wrappers :
          Registered(w) /\ cl \in clists[w] => pid[w] \in local'[r][cl]
    BY <1>2, <1>8, <1>9 DEF ReclaimInv
  <2> QED BY <1>2, <2>1, <2>2, <2>3 DEF ReclaimInv, Registered
<1> QED BY <1>6, <1>10, <1>11, <1>12, <1>13

\* Every step of reconcile preserves the invariant.
LEMMA ReconcileStep ==
  ASSUME NodeInv, NEW r \in Reconcilers, Reconcile(r)
  PROVE  NodeInv'
<1> USE DEF cm, Goto, Holds, Registered, PCs
<1>1. child \subseteq Wrappers /\ r \notin Wrappers /\ r \notin Readers
  BY DEF NodeInv, TypeOK
<1>2. CASE CheckEntry(r)
  BY <1>2, CheckEntryStep
<1>3. CASE ScanDone(r)
  BY <1>1, <1>3, MoveStep DEF ScanDone
<1>4. CASE NextCycle(r)
  BY <1>1, <1>4, MoveStep DEF NextCycle
<1>5. CASE EndCycle(r)
  <2>1. fresh' = fresh \ {r}
    BY <1>5 DEF EndCycle, NodeInv, FreshInv
  <2> QED BY <1>5, <2>1, DeathStep DEF EndCycle
<1> QED BY <1>2, <1>3, <1>4, <1>5 DEF Reconcile

\* The step of a reader preserves the invariant.
LEMMA ReadStep ==
  ASSUME NodeInv, NEW p \in Readers, Read(p)
  PROVE  NodeInv'
<1>1. child \subseteq Wrappers /\ p \notin Wrappers /\ p \notin Reconcilers
  BY DEF NodeInv, TypeOK
<1> QED BY <1>1, MoveStep DEF Read, cm, Goto, Holds, Registered, PCs

\* The processes of others come and go without any part of the invariant.
LEMMA AlienStep ==
  ASSUME NodeInv, NEW k \in AlienPids, AlienStart(k) \/ AlienExit(k)
  PROVE  NodeInv'
<1> USE DEF NodeInv, AlienStart, AlienExit, cm, procs
<1>1. TypeOK'
  BY DEF TypeOK
<1>2. UNCHANGED <<owner, data, fresh, pc, local, todo, req, pid, clists, child>>
  OBVIOUS
<1>3. FreshInv' /\ HolderInv' /\ RoleInv' /\ CopyInv'
  BY <1>2 DEF FreshInv, HolderInv, Holds, RoleInv, CopyInv
<1>4. SelectedInv' /\ SelectedFreeInv' /\ ReclaimInv'
  BY <1>2 DEF SelectedInv, SelectedFreeInv, ReclaimInv, Registered
<1>5. PidInv' /\ OneTaskInv' /\ GrantRecorded' /\ ChildInv'
  BY <1>2 DEF PidInv, OneTaskInv, GrantRecorded, ChildInv, Registered
<1> QED BY <1>1, <1>3, <1>4, <1>5

\* The invariant holds initially: no copy, no holder, no task.
LEMMA InitInv == Init => NodeInv
<1>1. Init => TypeOK
  BY InitType
<1>2. Init => FreshInv /\ HolderInv /\ RoleInv /\ CopyInv
  BY DEF Init, FreshInv, HolderInv, Holds, RoleInv, CopyInv
<1>3. Init => SelectedInv /\ SelectedFreeInv /\ ReclaimInv
  BY DEF Init, SelectedInv, SelectedFreeInv, ReclaimInv
<1>4. Init => PidInv /\ OneTaskInv /\ GrantRecorded /\ ChildInv
  BY DEF Init, PidInv, OneTaskInv, GrantRecorded, ChildInv, Registered, Exclusive, NoTasks
<1> QED BY <1>1, <1>2, <1>3, <1>4 DEF NodeInv

\* The invariant is about vars only.
LEMMA StutterStep == NodeInv /\ UNCHANGED vars => NodeInv'
<1> SUFFICES ASSUME NodeInv, UNCHANGED vars PROVE NodeInv'
  OBVIOUS
<1> USE DEF NodeInv, vars
<1>1. TypeOK'
  BY DEF TypeOK
<1>2. FreshInv' /\ HolderInv' /\ RoleInv' /\ CopyInv'
  BY DEF FreshInv, HolderInv, Holds, RoleInv, CopyInv
<1>3. SelectedInv' /\ SelectedFreeInv' /\ ReclaimInv'
  BY DEF SelectedInv, SelectedFreeInv, ReclaimInv, Registered
<1>4. PidInv' /\ OneTaskInv' /\ GrantRecorded' /\ ChildInv'
  BY DEF PidInv, OneTaskInv, GrantRecorded, ChildInv, Registered
<1> QED BY <1>1, <1>2, <1>3, <1>4

\* The invariant is inductive.
LEMMA NextInv == NodeInv /\ [Next]_vars => NodeInv'
<1> SUFFICES ASSUME NodeInv, [Next]_vars PROVE NodeInv'
  OBVIOUS
<1>1. ASSUME NEW p \in Procs, Common(p) PROVE NodeInv'
  BY <1>1, CommonStep
<1>2. ASSUME NEW w \in Wrappers, Isolate(w) PROVE NodeInv'
  BY <1>2, IsolateStep
<1>3. ASSUME NEW r \in Reconcilers, Reconcile(r) PROVE NodeInv'
  BY <1>3, ReconcileStep
<1>4. ASSUME NEW p \in Readers, Read(p) PROVE NodeInv'
  BY <1>4, ReadStep
<1>5. ASSUME NEW k \in AlienPids, AlienStart(k) \/ AlienExit(k) PROVE NodeInv'
  BY <1>5, AlienStep
<1>6. CASE UNCHANGED vars
  BY <1>6, StutterStep
<1> QED BY <1>1, <1>2, <1>3, <1>4, <1>5, <1>6 DEF Next

-----------------------------------------------------------------------------
(* The theorems *)

\* The parts of NodeInv hold in every reachable state (all of CmkNode).
THEOREM NodeInvariant == Spec => []NodeInv
BY InitInv, NextInv, PTL DEF Spec

\* Every variable keeps its type, whatever the processes do (all of CmkNode).
THEOREM TypeCorrect == Spec => []TypeOK
<1>1. NodeInv => TypeOK
  BY DEF NodeInv
<1> QED BY <1>1, NodeInvariant, PTL

\* Config.lock and Config.unlock exclude each other's sections.
THEOREM LockIsExclusive == Spec => []LockExclusive
<1>1. NodeInv => LockExclusive
  BY DEF NodeInv, LockExclusive, HolderInv
<1> QED BY <1>1, NodeInvariant, PTL

\* No lock-protected update loses the pid of a running wrapper, and reconcile
\* does not remove it.
THEOREM GrantsStayRecorded == Spec => []GrantRecorded
<1>1. NodeInv => GrantRecorded
  BY DEF NodeInv
<1> QED BY <1>1, NodeInvariant, PTL

\* Two wrappers on one exclusive list would both be its only task, and have
\* the same pid.
LEMMA InvDisjoint == NodeInv => GrantsDisjoint
<1> SUFFICES ASSUME NodeInv,
                    NEW v \in Wrappers, NEW w \in Wrappers, v # w,
                    Registered(v), Registered(w),
                    NEW cl \in clists[v] \cap clists[w] \cap Exclusive
             PROVE  FALSE
  BY DEF GrantsDisjoint
<1>1. pid[v] \in data[cl] /\ pid[w] \in data[cl]
  BY DEF NodeInv, GrantRecorded
<1>2. pid[v] = pid[w]
  BY <1>1 DEF NodeInv, OneTaskInv
<1> QED BY <1>2 DEF NodeInv, PidInv, Registered

\* isolate gives an exclusive cpu list to one running wrapper only.
THEOREM GrantsAreDisjoint == Spec => []GrantsDisjoint
BY InvDisjoint, NodeInvariant, PTL

\* Where every wrapper is its container's PID 1, the cores of an exclusive list
\* are used by one wrapper and its command only: another list that has one of
\* them would be the same list.
THEOREM CpusAreUsedOnce ==
  ASSUME Wrappers \subseteq Entrypoints
  PROVE  Spec => []CpusUsedOnce
<1>1. NodeInv => CpusUsedOnce
  <2> SUFFICES ASSUME NodeInv, NEW v \in Wrappers, NEW w \in Wrappers, v # w,
                      NEW cl \in Exclusive, NEW dl \in CLists,
                      Uses(v, cl), Uses(w, dl)
               PROVE  CoresOf[cl] \cap CoresOf[dl] = {}
    BY DEF CpusUsedOnce
  <2>1. Registered(v) /\ Registered(w) /\ cl \in clists[v] /\ dl \in clists[w]
    BY DEF Uses, NodeInv, ChildInv
  <2>2. cl # dl
    BY <2>1, InvDisjoint DEF GrantsDisjoint
  <2> QED BY <2>2, CoresAssumption DEF Exclusive
<1> QED BY <1>1, NodeInvariant, PTL

-----------------------------------------------------------------------------
(* The lock and the configmap are its holder's *)

\* A step that ends a lock, or changes the task lists, is the unlock() of the
\* holder; the patch of lock() writes the lists it finds.
LEMMA OwnerStep ==
  ASSUME NodeInv, Next, (owner # Free /\ owner' # owner) \/ data' # data
  PROVE  owner # Free /\ owner' = Free /\ pc[owner] \in {"unlock", "leave"}
<1> USE DEF cm, procs
<1> DEFINE Goal == owner # Free /\ owner' = Free /\ pc[owner] \in {"unlock", "leave"}
<1>1. ASSUME NEW p \in Procs, Common(p)
      PROVE  Goal
  <2>1. \/ LockPatch(p)
        \/ pc[p] \in {"unlock", "leave"} /\ UnlockPatch(p)
        \/ owner' = owner /\ data' = data
    BY <1>1 DEF Common, Start, Kill, Get, Lock, LockConflict, Unlock,
                UnlockAndLeave, ApiFails, ApiAnswerLost
  <2>2. ~LockPatch(p)
    BY LockPatchFacts
  <2>3. pc[p] \in {"unlock", "leave"} => owner = p
    BY <1>1 DEF NodeInv, HolderInv, Holds
  <2> QED BY <2>1, <2>2, <2>3 DEF UnlockPatch
<1>2. ASSUME NEW w \in Wrappers, Isolate(w) PROVE FALSE
  BY <1>2 DEF Isolate, Select, SelectFails, Spawn, SpawnFails, Arm, ChildExit,
              WaitReturns, Term, Finally
<1>3. ASSUME NEW r \in Reconcilers, Reconcile(r) PROVE FALSE
  BY <1>3 DEF Reconcile, CheckEntry, ScanDone, NextCycle, EndCycle
<1>4. ASSUME NEW p \in Readers, Read(p) PROVE FALSE
  BY <1>4 DEF Read
<1>5. ASSUME NEW k \in AlienPids, AlienStart(k) \/ AlienExit(k) PROVE FALSE
  BY <1>5 DEF AlienStart, AlienExit
<1> QED BY <1>1, <1>2, <1>3, <1>4, <1>5 DEF Next

\* Nothing but the unlock() of its holder ends a lock or changes the task
\* lists: no conflict, no failed call, no death.
THEOREM HolderAloneWrites == Spec => OnlyHolderWrites
<1>1. NodeInv /\ [Next]_vars
        => [(owner # Free /\ owner' # owner) \/ data' # data
              => owner # Free /\ owner' = Free /\ pc[owner] \in {"unlock", "leave"}]_vars
  BY OwnerStep
<1> QED BY <1>1, NodeInvariant, PTL DEF Spec, OnlyHolderWrites

\* A step of p that leaves the owner alone keeps a holder, if p is none or
\* stays between lock() and unlock().
LEMMA HolderKept ==
  ASSUME TypeOK, LockHasHolder, owner' = owner, NEW p \in Procs,
         \A q \in Procs \ {p} : pc'[q] = pc[q],
         Holds(p) => Holds(p)'
  PROVE  LockHasHolder'
BY DEF TypeOK, LockHasHolder, Holds

\* Steps of a process off the lock, or of one that goes on with the lock.
LEMMA HolderMoves ==
  ASSUME TypeOK, LockHasHolder, owner' = owner, NEW p \in Procs, NEW label \in PCs,
         Goto(p, label),
         Holds(p) => label \in {"cs", "scan", "unlock", "leave"}
  PROVE  LockHasHolder'
<1>1. pc'[p] = label /\ \A q \in Procs \ {p} : pc'[q] = pc[q]
  BY DEF Goto, TypeOK
<1> QED BY <1>1, HolderKept DEF Holds

\* Without a death in the section, only unlock() leaves it.
LEMMA HolderStep ==
  ASSUME \A k \in KillPoints : k[2] \notin {"cs", "scan", "unlock", "leave"},
         ApiFaults = {},
         NodeInv, LockHasHolder, Next
  PROVE  LockHasHolder'
<1> USE DEF cm, procs, NodeInv
<1>1. ASSUME NEW p \in Procs, Common(p) PROVE LockHasHolder'
  <2>1. CASE Start(p)
    BY <2>1, HolderMoves DEF Start, Holds, PCs
  <2>2. CASE Kill(p)
    <3>1. ~Holds(p)
      BY <2>2 DEF Kill, Holds
    <3> QED BY <2>2, <3>1, HolderMoves DEF Kill, Dies, PCs
  <2>3. CASE Get(p)
    BY <2>3, HolderMoves DEF Get, Holds, PCs
  <2>4. CASE Lock(p)
    BY <2>4 DEF Lock, LockPatch, Goto, Holds, TypeOK, LockHasHolder
  <2>5. CASE LockConflict(p)
    BY <2>5, HolderMoves DEF LockConflict, Dies, Holds, PCs
  <2>6. CASE Unlock(p) \/ UnlockAndLeave(p)
    BY <2>6 DEF Unlock, UnlockAndLeave, UnlockPatch, LockHasHolder
  <2> QED BY <1>1, <2>1, <2>2, <2>3, <2>4, <2>5, <2>6
             DEF Common, ApiFails, ApiAnswerLost
<1>2. ASSUME NEW w \in Wrappers, Isolate(w) PROVE LockHasHolder'
  <2>1. CASE ChildExit(w)
    BY <2>1 DEF ChildExit, LockHasHolder, Holds
  <2>2. CASE Select(w) \/ SelectFails(w)
    BY <2>2, HolderMoves DEF Select, SelectFails, PCs
  <2>3. CASE Spawn(w) \/ SpawnFails(w) \/ Arm(w) \/ WaitReturns(w) \/ Term(w)
             \/ Finally(w)
    <3>1. \E label \in PCs : Goto(w, label) /\ ~Holds(w) /\ owner' = owner
      BY <2>3 DEF Spawn, SpawnFails, Arm, WaitReturns, Term, Finally, Dies, Holds, PCs
    <3> QED BY <3>1, HolderMoves
  <2> QED BY <1>2, <2>1, <2>2, <2>3 DEF Isolate
<1>3. ASSUME NEW r \in Reconcilers, Reconcile(r) PROVE LockHasHolder'
  <2>1. CASE CheckEntry(r)
    BY <2>1 DEF CheckEntry, LockHasHolder, Holds
  <2>2. CASE ScanDone(r) \/ NextCycle(r) \/ EndCycle(r)
    BY <2>2, HolderMoves DEF ScanDone, NextCycle, EndCycle, Dies, Holds, PCs
  <2> QED BY <1>3, <2>1, <2>2 DEF Reconcile
<1>4. ASSUME NEW p \in Readers, Read(p) PROVE LockHasHolder'
  BY <1>4, HolderMoves DEF Read, Holds, PCs
<1>5. ASSUME NEW k \in AlienPids, AlienStart(k) \/ AlienExit(k) PROVE LockHasHolder'
  BY <1>5 DEF AlienStart, AlienExit, LockHasHolder, Holds
<1> QED BY <1>1, <1>2, <1>3, <1>4, <1>5 DEF Next

\* The safety half of "the lock is freed again": if nobody is killed in the
\* section and no call fails, the owner of a held lock is there to unlock it.
THEOREM LockAlwaysHasHolder ==
  ASSUME \A k \in KillPoints : k[2] \notin {"cs", "scan", "unlock", "leave"},
         ApiFaults = {}
  PROVE  Spec => []LockHasHolder
<1>1. Init => LockHasHolder
  BY DEF Init, LockHasHolder
<1>2. NodeInv /\ LockHasHolder /\ [Next]_vars => LockHasHolder'
  BY HolderStep DEF vars, LockHasHolder, Holds
<1> QED BY <1>1, <1>2, NodeInvariant, PTL DEF Spec

-----------------------------------------------------------------------------
(* The steps of a holder *)

\* A step of one process leaves the places of the others, their copies, and what
\* they have to look up.
LEMMA OthersKeepPlace ==
  ASSUME TypeOK, [Next]_vars, NEW p \in Procs,
         ~UNCHANGED <<pc[p], todo[p], local[p]>>
  PROVE  \/ Common(p)
         \/ p \in Wrappers /\ Isolate(p)
         \/ p \in Reconcilers /\ Reconcile(p)
         \/ p \in Readers /\ Read(p)
<1>1. ASSUME NEW q \in Procs, q # p, Common(q) PROVE UNCHANGED <<pc[p], todo[p], local[p]>>
  BY <1>1 DEF Common, Start, Kill, Get, Lock, LockConflict, Unlock, UnlockAndLeave,
     ApiFails, ApiAnswerLost, Dies, Goto, TypeOK, cm
<1>2. ASSUME NEW q \in Wrappers, q # p, Isolate(q) PROVE UNCHANGED <<pc[p], todo[p], local[p]>>
  BY <1>2 DEF Isolate, Select, SelectFails, Spawn, SpawnFails, Arm, ChildExit,
     WaitReturns, Term, Finally, Dies, Goto, TypeOK
<1>3. ASSUME NEW q \in Reconcilers, q # p, Reconcile(q)
      PROVE  UNCHANGED <<pc[p], todo[p], local[p]>>
  BY <1>3 DEF Reconcile, CheckEntry, ScanDone, NextCycle, EndCycle, Dies, Goto, TypeOK
<1>4. ASSUME NEW q \in Readers, q # p, Read(q) PROVE UNCHANGED <<pc[p], todo[p], local[p]>>
  BY <1>4 DEF Read, Goto, TypeOK
<1>5. ASSUME NEW k \in AlienPids, AlienStart(k) \/ AlienExit(k)
      PROVE  UNCHANGED <<pc[p], todo[p], local[p]>>
  BY <1>5 DEF AlienStart, AlienExit, procs
<1>6. UNCHANGED vars => UNCHANGED <<pc[p], todo[p], local[p]>>
  BY DEF vars
<1> QED BY <1>1, <1>2, <1>3, <1>4, <1>5, <1>6 DEF Next

\* What is left is a number.
LEMMA HoldLeftIsNat ==
  ASSUME TypeOK, NEW p \in Procs
  PROVE  IsFiniteSet(todo[p]) /\ HoldLeft(p) \in Nat
<1>1. IsFiniteSet(CLists \X Pids)
  BY CListsAssumption, FS_Product
<1>2. todo[p] \in SUBSET (CLists \X Pids)
  BY DEF TypeOK
<1>3. IsFiniteSet(todo[p]) /\ Cardinality(todo[p]) \in Nat
  BY <1>1, <1>2, FS_Subset, FS_CardinalityType
<1> QED BY <1>3 DEF HoldLeft, Holds

\* Its own steps bring a holder nearer to the end of the section.
LEMMA HolderComesNearer ==
  ASSUME TypeOK, TypeOK', [Next]_vars, NEW p \in Procs, Holds(p),
         ~UNCHANGED <<pc[p], todo[p]>>
  PROVE  HoldLeft(p)' < HoldLeft(p)
<1>1. HoldLeft(p) \in Nat /\ IsFiniteSet(todo[p]) /\ Cardinality(todo[p]) \in Nat
  BY HoldLeftIsNat, FS_CardinalityType
<1>2. HoldLeft(p) >= 1
  BY <1>1 DEF HoldLeft, Holds
<1>3. pc'[p] \notin {"cs", "scan", "unlock", "leave"} => HoldLeft(p)' = 0
  BY DEF HoldLeft, Holds
<1>4. pc'[p] \in {"unlock", "leave"} => HoldLeft(p)' = 1
  BY DEF HoldLeft, Holds
<1>5. pc[p] \in {"cs", "scan"} => HoldLeft(p) >= 2
  BY <1>1 DEF HoldLeft, Holds
<1>6. CASE Common(p)
  <2>1. pc'[p] \notin {"cs", "scan", "unlock", "leave"}
    BY <1>6 DEF Common, Start, Kill, Get, Lock, LockConflict, Unlock, UnlockAndLeave,
       ApiFails, ApiAnswerLost, Dies, Goto, TypeOK, Holds
  <2> QED BY <1>1, <1>2, <1>3, <2>1
<1>7. CASE p \in Wrappers /\ Isolate(p)
  <2>1. \/ pc[p] = "cs" /\ pc'[p] \in {"unlock", "leave"}
        \/ UNCHANGED <<pc, todo>>
    BY <1>7 DEF Isolate, Select, SelectFails, Spawn, SpawnFails, Arm, ChildExit,
       WaitReturns, Term, Finally, Dies, Goto, TypeOK, Holds
  <2> QED BY <1>1, <1>4, <1>5, <2>1
<1>8. CASE p \in Reconcilers /\ Reconcile(p)
  <2>1. CASE CheckEntry(p)
    <3>1. PICK e \in todo[p] : todo' = [todo EXCEPT ![p] = @ \ {e}]
      BY <2>1 DEF CheckEntry
    <3>2. pc[p] = "scan" /\ pc'[p] = "scan" /\ todo'[p] = todo[p] \ {e}
      BY <2>1, <3>1 DEF CheckEntry, TypeOK
    <3>3. Cardinality(todo[p] \ {e}) = Cardinality(todo[p]) - 1
      BY <1>1, FS_RemoveElement
    <3> QED BY <1>1, <3>2, <3>3 DEF HoldLeft, Holds
  <2>2. CASE ScanDone(p)
    <3>1. pc[p] = "scan" /\ pc'[p] = "unlock"
      BY <2>2 DEF ScanDone, Goto, TypeOK
    <3> QED BY <1>1, <1>4, <1>5, <3>1
  <2>3. CASE NextCycle(p) \/ EndCycle(p)
    BY <2>3 DEF NextCycle, EndCycle, Holds
  <2> QED BY <1>8, <2>1, <2>2, <2>3 DEF Reconcile
<1>9. CASE p \in Readers /\ Read(p)
  <2>1. pc[p] = "cs" /\ pc'[p] = "leave"
    BY <1>9 DEF Read, Goto, TypeOK
  <2> QED BY <1>1, <1>4, <1>5, <2>1
<1> QED BY <1>6, <1>7, <1>8, <1>9, OthersKeepPlace

\* A holder's own next step takes it from its place, or from an entry.
LEMMA AdvanceMoves ==
  ASSUME TypeOK, NEW p \in Procs, Holds(p), Advance(p)
  PROVE  ~UNCHANGED <<pc[p], todo[p]>>
<1>1. CASE p \in Reconcilers /\ CheckEntry(p)
  BY <1>1 DEF CheckEntry, TypeOK
<1>2. CASE ~(p \in Reconcilers /\ CheckEntry(p))
  <2>1. pc'[p] # pc[p]
    BY <1>2 DEF Advance, Lock, LockConflict, Unlock, UnlockAndLeave, Select,
       SelectFails, Spawn, Arm, WaitReturns, Finally, ScanDone, NextCycle, Read,
       Dies, Goto, TypeOK, Holds
  <2> QED BY <2>1
<1> QED BY <1>1, <1>2

\* Whoever takes the lock has a bounded number of steps to take before it gives
\* it back, and nobody else can add to them.
THEOREM HoldersAdvance == Spec => HolderAdvances
<1> DEFINE Advances ==
      [\A p \in Procs : Holds(p) =>
         /\ HoldLeft(p) \in Nat /\ HoldLeft(p)' \in Nat
         /\ HoldLeft(p)' <= HoldLeft(p)
         /\ Advance(p) => HoldLeft(p)' < HoldLeft(p)]_vars
<1>1. TypeOK /\ TypeOK' /\ [Next]_vars => Advances
  <2> SUFFICES ASSUME TypeOK, TypeOK', [Next]_vars, NEW p \in Procs, Holds(p)
               PROVE  /\ HoldLeft(p) \in Nat /\ HoldLeft(p)' \in Nat
                      /\ HoldLeft(p)' <= HoldLeft(p)
                      /\ Advance(p) => HoldLeft(p)' < HoldLeft(p)
    OBVIOUS
  <2>1. HoldLeft(p) \in Nat
    BY HoldLeftIsNat
  <2>2. HoldLeft(p)' \in Nat
    <3>1. IsFiniteSet(CLists \X Pids)
      BY CListsAssumption, FS_Product
    <3>2. todo'[p] \in SUBSET (CLists \X Pids)
      BY DEF TypeOK
    <3>3. Cardinality(todo'[p]) \in Nat
      BY <3>1, <3>2, FS_Subset, FS_CardinalityType
    <3> QED BY <3>3 DEF HoldLeft, Holds
  <2>3. CASE UNCHANGED <<pc[p], todo[p]>>
    <3>1. HoldLeft(p)' = HoldLeft(p)
      BY <2>3 DEF HoldLeft, Holds
    <3> QED BY <2>1, <2>3, <3>1, AdvanceMoves
  <2>4. CASE ~UNCHANGED <<pc[p], todo[p]>>
    BY <2>1, <2>2, <2>4, HolderComesNearer
  <2> QED BY <2>1, <2>2, <2>3, <2>4
<1> QED BY <1>1, TypeCorrect, PTL DEF Spec, HolderAdvances

-----------------------------------------------------------------------------
(* isolate gets what it asked for *)

\* The first n of a set of numbers are n.
LEMMA FirstSize ==
  ASSUME NEW S, S \subseteq CLists, NEW n \in Nat, n <= Cardinality(S)
  PROVE  Cardinality(First(n, S)) = n
<1> DEFINE R == {e \in S \X S : e[1] < e[2]}
<1>1. IsFiniteSet(S) /\ S \subseteq Nat
  BY CListsAssumption, FS_Subset
<1>2. Orders(R, S)
  BY <1>1 DEF Orders
<1>3. \A x \in S : Below(x, R, S) = {y \in S : y < x}
  BY DEF Below
<1>4. Lowest(n, R, S) = First(n, S)
  BY <1>3 DEF Lowest, First
<1>5. Cardinality(Lowest(n, R, S)) = n
  <2> HIDE DEF R
  <2> QED BY <1>1, <1>2, LowestSize
<1> QED BY <1>4, <1>5

\* The selection returns lists of the pool: of an exclusive one as many as were
\* asked for, and none is no number to ask for.
LEMMA ChoicesSize ==
  ASSUME NEW r, r.n \in Int, NEW d, NEW S \in Choices(r, d)
  PROVE  /\ \A cl \in S : PoolOf[cl] = r.pool
         /\ IF r.pool \in ExclusivePools
              THEN r.n >= 1 /\ Cardinality(S) = r.n
              ELSE Cardinality(S) = 1
<1> DEFINE avail == {cl \in CoreLists(r) : d[cl] = {}}
<1>1. CoreLists(r) \subseteq CLists /\ \A cl \in CoreLists(r) : PoolOf[cl] = r.pool
  BY DEF CoreLists
<1>2. CASE r.pool \in ExclusivePools
  <2>1. S = First(r.n, avail) /\ r.n > 0 /\ Cardinality(avail) >= r.n
    BY <1>2 DEF Choices
  <2>2. Cardinality(avail) \in Nat
    BY <1>1, CListsAssumption, FS_Subset, FS_CardinalityType
  <2>3. r.n \in Nat /\ r.n <= Cardinality(avail)
    BY <2>1, <2>2
  <2>4. Cardinality(First(r.n, avail)) = r.n
    <3>1. avail \subseteq CLists
      BY <1>1
    <3> HIDE DEF avail
    <3> QED BY <2>3, <3>1, FirstSize
  <2>5. r.n >= 1
    BY <2>1
  <2> QED BY <1>1, <1>2, <2>1, <2>4, <2>5 DEF First
<1>3. CASE r.pool \notin ExclusivePools
  <2>1. PICK cl \in CoreLists(r) : S = {cl}
    BY <1>3 DEF Choices
  <2> QED BY <1>1, <1>3, <2>1, FS_Singleton
<1> QED BY <1>2, <1>3

Sized == RequestInv /\ GrantMatchesRequest

\* A step of p other than the selection leaves lists and requests alone, or p
\* is gone.
LEMMA KeptSized ==
  ASSUME TypeOK, Sized, NEW p \in Procs,
         \A w \in Wrappers \ {p} : pc'[w] = pc[w] /\ clists'[w] = clists[w],
         req' = req,
         p \in Wrappers =>
           \/ pc'[p] \notin {"unlock", "spawn", "arm", "wait", "exit"}
           \/ /\ pc[p] \in {"unlock", "spawn", "arm", "wait", "exit"}
              /\ clists'[p] = clists[p]
  PROVE  Sized'
<1>1. ASSUME NEW w \in Wrappers, pc'[w] \in {"unlock", "spawn", "arm", "wait", "exit"}
      PROVE  AsRequested(w)'
  <2>1. /\ pc[w] \in {"unlock", "spawn", "arm", "wait", "exit"}
        /\ clists'[w] = clists[w]
    BY <1>1
  <2>2. AsRequested(w)
    BY <2>1 DEF Sized, RequestInv, GrantMatchesRequest, Registered
  <2> QED BY <2>1, <2>2 DEF AsRequested
<1> QED BY <1>1 DEF Sized, RequestInv, GrantMatchesRequest, Registered

\* Every step keeps the lists of a wrapper as it asked for them.
LEMMA NextSized == NodeInv /\ Sized /\ [Next]_vars => Sized'
<1> SUFFICES ASSUME NodeInv, TypeOK, Sized, [Next]_vars PROVE Sized'
  BY DEF NodeInv
<1>1. ASSUME NEW p \in Procs, Dies(p) PROVE Sized'
  <2>1. pc'[p] = "dead" /\ req' = req
        /\ \A q \in Procs \ {p} : pc'[q] = pc[q] /\ clists'[q] = clists[q]
    BY <1>1 DEF Dies, Goto, TypeOK
  <2> QED BY <2>1, KeptSized
<1>2. ASSUME NEW p \in Procs, NEW label \in PCs, Goto(p, label),
             clists' = clists, req' = req,
             p \in Wrappers => \/ label \notin {"unlock", "spawn", "arm", "wait", "exit"}
                              \/ pc[p] \in {"unlock", "spawn", "arm", "wait", "exit"}
      PROVE  Sized'
  <2>1. pc'[p] = label /\ \A q \in Procs \ {p} : pc'[q] = pc[q]
    BY <1>2 DEF Goto, TypeOK
  <2> QED BY <1>2, <2>1, KeptSized
<1>3. ASSUME pc' = pc, clists' = clists, req' = req PROVE Sized'
  BY <1>3 DEF Sized, RequestInv, GrantMatchesRequest, Registered, AsRequested
<1>4. ASSUME NEW p \in Procs, Common(p) PROVE Sized'
  <2>1. CASE Start(p) \/ Get(p) \/ Lock(p)
    <3>1. PICK label \in {"get", "patch", "cs", "scan"} : Goto(p, label)
      BY <2>1 DEF Start, Get, Lock
    <3> QED BY <1>2, <2>1, <3>1 DEF Start, Get, Lock, PCs
  <2>2. CASE Unlock(p)
    BY <1>2, <2>2 DEF Unlock, PCs
  <2> QED
    BY <1>1, <1>4, <2>1, <2>2
       DEF Common, Kill, LockConflict, UnlockAndLeave, ApiFails, ApiAnswerLost
<1>5. ASSUME NEW w \in Wrappers, Isolate(w) PROVE Sized'
  <2>1. CASE Select(w)
    <3>1. PICK S \in Choices(req[w], local[w]) : clists' = [clists EXCEPT ![w] = S]
      BY <2>1 DEF Select
    <3>2. pc' = [pc EXCEPT ![w] = "unlock"] /\ req' = req
      BY <2>1 DEF Select, Goto
    <3>3. req[w].n \in Int
      BY RequestsAssumption DEF TypeOK
    <3>4. clists'[w] = S
      BY <3>1 DEF TypeOK
    <3>5. AsRequested(w)'
      BY <3>2, <3>3, <3>4, ChoicesSize DEF AsRequested
    <3>6. ASSUME NEW v \in Wrappers \ {w} PROVE pc'[v] = pc[v] /\ clists'[v] = clists[v]
      BY <3>1, <3>2 DEF TypeOK
    <3>7. ASSUME NEW v \in Wrappers \ {w}, AsRequested(v) PROVE AsRequested(v)'
      BY <3>2, <3>6, <3>7 DEF AsRequested
    <3> QED BY <3>2, <3>5, <3>6, <3>7 DEF Sized, RequestInv, GrantMatchesRequest,
         Registered, TypeOK
  <2>2. CASE ChildExit(w)
    <3>1. pc' = pc /\ req' = req
      BY <2>2 DEF ChildExit
    <3>2. pc[w] \in {"unlock", "spawn", "arm", "wait", "exit"} => pid[w] # NoPid
      BY DEF NodeInv, PidInv
    <3>3. \/ pid[w] = NoPid /\ clists' = [clists EXCEPT ![w] = {}]
          \/ clists' = clists
      BY <2>2 DEF ChildExit
    <3>4. /\ \A v \in Wrappers \ {w} : clists'[v] = clists[v]
          /\ pid[w] # NoPid => clists'[w] = clists[w]
      BY <3>3 DEF TypeOK
    <3> QED BY <3>1, <3>2, <3>4, KeptSized
  <2>3. CASE \/ SelectFails(w) \/ Spawn(w) \/ SpawnFails(w) \/ Arm(w)
             \/ WaitReturns(w) \/ Term(w)
    <3>1. \E label \in {"leave", "arm", "exit", "wait"} :
            /\ Goto(w, label) /\ clists' = clists /\ req' = req
            /\ label # "leave" => pc[w] \in {"spawn", "arm", "wait"}
      BY <2>3 DEF SelectFails, Spawn, SpawnFails, Arm, WaitReturns, Term
    <3> QED BY <1>2, <3>1 DEF PCs
  <2>4. CASE Finally(w)
    BY <1>1, <2>4 DEF Finally
  <2> QED BY <1>5, <2>1, <2>2, <2>3, <2>4 DEF Isolate
<1>6. ASSUME NEW r \in Reconcilers, Reconcile(r) PROVE Sized'
  <2>1. CASE CheckEntry(r)
    BY <1>3, <2>1 DEF CheckEntry
  <2>2. CASE ScanDone(r) \/ NextCycle(r)
    BY <1>2, <2>2 DEF ScanDone, NextCycle, PCs
  <2>3. CASE EndCycle(r)
    BY <1>1, <2>3 DEF EndCycle
  <2> QED BY <1>6, <2>1, <2>2, <2>3 DEF Reconcile
<1>7. ASSUME NEW p \in Readers, Read(p) PROVE Sized'
  BY <1>2, <1>7 DEF Read, PCs
<1>8. ASSUME NEW k \in AlienPids, AlienStart(k) \/ AlienExit(k) PROVE Sized'
  BY <1>3, <1>8 DEF AlienStart, AlienExit, procs
<1>9. CASE UNCHANGED vars
  BY <1>3, <1>9 DEF vars
<1> QED BY <1>4, <1>5, <1>6, <1>7, <1>8, <1>9 DEF Next

\* A wrapper that got lists got them of its pool: of an exclusive one as many as
\* CMK_NUM_CORES says, which is at least one; of another a single one whatever it
\* says. Whatever reconcile and others do between its choice and its end.
THEOREM GrantsMatchRequests == Spec => []GrantMatchesRequest
<1>1. Init => Sized
  BY DEF Init, Sized, RequestInv, GrantMatchesRequest, Registered
<1>2. Sized => GrantMatchesRequest
  BY DEF Sized
<1> QED BY <1>1, <1>2, NextSized, NodeInvariant, PTL DEF Spec

-----------------------------------------------------------------------------
(* CmkNode implements CpuGrants *)

Stutter == Held' = Held /\ data' = data

\* Initially nothing is granted.
LEMMA InitGrants == Init => Grants!Init
BY DEF Init, Grants!Init, Held, Registered, Entries, NoTasks

\* The same lists have the same entries.
LEMMA StutterGrants == Stutter => [Grants!Next]_<<Entries(data), Held>>
BY DEF Stutter, Entries

\* The end of a process gives back what it held.
LEMMA DiesHeld ==
  ASSUME TypeOK, NEW p \in Procs, Dies(p)
  PROVE  /\ p \in Wrappers => Held' = [Held EXCEPT ![p] = {}]
         /\ p \notin Wrappers \/ ~Registered(p) => Held' = Held
<1>1. pc'[p] = "dead"
      /\ \A q \in Procs : q # p => /\ pc'[q] = pc[q] /\ clists'[q] = clists[q]
                                   /\ pid'[q] = pid[q]
  BY DEF Dies, Goto, TypeOK
<1> QED BY <1>1 DEF Held, Registered

\* A process that dies without a write: a drop, or a stutter.
LEMMA DiesGrants ==
  ASSUME TypeOK, NEW p \in Procs, Dies(p), data' = data
  PROVE  [Grants!Next]_<<Entries(data), Held>>
<1>1. CASE p \in Wrappers
  <2>1. Grants!Drop(p)
    BY <1>1, DiesHeld DEF Grants!Drop, Entries
  <2> QED BY <1>1, <2>1 DEF Grants!Next
<1>2. CASE p \notin Wrappers
  BY <1>2, DiesHeld, StutterGrants DEF Stutter
<1> QED BY <1>1, <1>2

\* A step that moves one process between two places where it is registered,
\* or two where it is not, changes nothing that is held.
LEMMA QuietGrants ==
  ASSUME TypeOK, NEW p \in Procs, NEW label \in PCs, Goto(p, label),
         p \in Wrappers =>
           (Registered(p) <=> label \in {"spawn", "arm", "wait", "exit"}),
         \A w \in Wrappers : Registered(w) => clists'[w] = clists[w] /\ pid'[w] = pid[w]
  PROVE  Held' = Held
BY DEF TypeOK, Goto, Held, Registered

\* What a wrapper that has selected writes enters its pid in its lists.
LEMMA UnlockEnters ==
  ASSUME NodeInv, NEW w \in Wrappers, pc[w] = "unlock", UnlockPatch(w)
  PROVE  Grants!Enter(clists[w], pid[w]) /\ clists[w] \subseteq CLists /\ pid[w] \in Pids
<1> USE DEF NodeInv
<1>1. clists[w] \subseteq CLists /\ pid[w] \in Pids
  BY DEF TypeOK, PidInv
<1>2. \A cl \in CLists :
         data'[cl] = IF cl \in clists[w] THEN data[cl] \cup {pid[w]} ELSE data[cl]
  BY DEF SelectedInv, UnlockPatch
<1>3. Entries(data') = Entries(data) \cup clists[w] \X {pid[w]}
  BY <1>1, <1>2 DEF Entries
<1>4. \A e \in Entries(data) : e[1] \notin clists[w] \cap Exclusive
  BY DEF SelectedFreeInv, Entries
<1> QED BY <1>1, <1>3, <1>4 DEF Grants!Enter, Entries

\* What reconcile writes has the entries of the running wrappers.
LEMMA UnlockReclaims ==
  ASSUME NodeInv, NEW r \in Reconcilers, pc[r] = "unlock", UnlockPatch(r), Held' = Held
  PROVE  Grants!Reclaim
<1> USE DEF NodeInv
<1>1. \A cl \in CLists :
        /\ data'[cl] \subseteq data[cl]
        /\ \A w \in Wrappers : Registered(w) /\ cl \in clists[w] => pid[w] \in data'[cl]
  BY DEF ReclaimInv, UnlockPatch
<1>2. Entries(data)' \subseteq Entries(data)
  BY <1>1 DEF Entries
<1>3. ASSUME NEW w \in Wrappers PROVE Held[w] \subseteq Entries(data)'
  <2>1. Registered(w) => clists[w] \subseteq CLists /\ pid[w] \in Pids
    BY DEF TypeOK, PidInv, Registered
  <2> QED BY <1>1, <2>1 DEF Held, Entries
<1> QED BY <1>2, <1>3 DEF Grants!Reclaim

\* The finally clause writes what it has read.
LEMMA LeaveWritesNothing ==
  ASSUME NodeInv, NEW p \in Procs, pc[p] = "leave", UnlockPatch(p)
  PROVE  data' = data
BY DEF NodeInv, CopyInv, UnlockPatch

\* The unlock() of a wrapper that has selected its lists is the grant.
LEMMA UnlockGrants ==
  ASSUME NodeInv, NEW p \in Procs, Unlock(p)
  PROVE  [Grants!Next]_<<Entries(data), Held>>
<1>1. /\ pc[p] = "unlock" /\ UnlockPatch(p) /\ clists' = clists /\ pid' = pid
      /\ pc' = [pc EXCEPT ![p] = IF p \in Reconcilers THEN "sleep" ELSE "spawn"]
  BY DEF Unlock, Goto
<1>2. CASE p \in Wrappers
  <2>1. Held' = [Held EXCEPT ![p] = clists[p] \X {pid[p]}] /\ Held[p] = {}
    BY <1>1, <1>2 DEF Held, Registered, NodeInv, TypeOK
  <2>2. Grants!Grant(p, clists[p], pid[p]) /\ clists[p] \subseteq CLists /\ pid[p] \in Pids
    BY <1>1, <1>2, <2>1, UnlockEnters DEF Grants!Grant
  <2> QED BY <1>2, <2>2 DEF Grants!Next
<1>3. CASE p \in Reconcilers
  <2>1. Held' = Held
    BY <1>1, <1>3 DEF Held, Registered, NodeInv, TypeOK
  <2> QED BY <1>1, <1>3, <2>1, UnlockReclaims DEF Grants!Next
<1>4. p \in Wrappers \cup Reconcilers
  BY <1>1 DEF NodeInv, RoleInv
<1> QED BY <1>2, <1>3, <1>4

\* A patch whose answer is lost: a grant to a process that is gone, a reclaim,
\* or nothing.
LEMMA LostAnswerGrants ==
  ASSUME NodeInv, NEW p \in Procs, ApiAnswerLost(p)
  PROVE  [Grants!Next]_<<Entries(data), Held>>
<1>1. Dies(p) /\ ~Registered(p)
  BY DEF ApiAnswerLost, Registered, LockPatch, NodeInv, FreshInv
<1>2. Held' = Held
  BY <1>1, DiesHeld DEF NodeInv
<1>3. CASE LockPatch(p)
  BY <1>2, <1>3, LockPatchFacts, StutterGrants DEF Stutter
<1>4. CASE pc[p] = "leave" /\ UnlockPatch(p)
  BY <1>2, <1>4, LeaveWritesNothing, StutterGrants DEF Stutter
<1>5. CASE pc[p] = "unlock" /\ UnlockPatch(p) /\ p \in Wrappers
  <2>1. Grants!Abandon(clists[p], pid[p]) /\ clists[p] \subseteq CLists /\ pid[p] \in Pids
    BY <1>2, <1>5, UnlockEnters DEF Grants!Abandon
  <2> QED BY <2>1 DEF Grants!Next
<1>6. CASE pc[p] = "unlock" /\ UnlockPatch(p) /\ p \in Reconcilers
  BY <1>2, <1>6, UnlockReclaims DEF Grants!Next
<1>7. pc[p] = "unlock" => p \in Wrappers \cup Reconcilers
  BY DEF NodeInv, RoleInv
<1> QED BY <1>3, <1>4, <1>5, <1>6, <1>7 DEF ApiAnswerLost

\* Starting, locking, unlocking and dying are operations of CpuGrants.
LEMMA CommonGrants ==
  ASSUME NodeInv, NEW p \in Procs, Common(p)
  PROVE  [Grants!Next]_<<Entries(data), Held>>
<1> USE DEF NodeInv
<1>1. CASE Kill(p) \/ LockConflict(p) \/ ApiFails(p)
  BY <1>1, DiesGrants DEF Kill, LockConflict, ApiFails, cm
<1>2. CASE UnlockAndLeave(p)
  <2>1. data' = data /\ Dies(p)
    BY <1>2, LeaveWritesNothing DEF UnlockAndLeave
  <2> QED BY <2>1, DiesGrants
<1>3. CASE Start(p) \/ Get(p) \/ Lock(p)
  <2>1. PICK label \in {"get", "patch", "cs", "scan"} : Goto(p, label)
    BY <1>3 DEF Start, Get, Lock
  <2>2. ~Registered(p) /\ clists' = clists /\ data' = data
    BY <1>3, LockPatchFacts DEF Start, Get, Lock, Registered, cm
  <2>3. \A w \in Wrappers : Registered(w) => pid'[w] = pid[w]
    BY <1>3, <2>2 DEF Start, Get, Lock, TypeOK
  <2>4. Held' = Held
    BY <2>1, <2>2, <2>3, QuietGrants DEF PCs
  <2> QED BY <2>2, <2>4, StutterGrants DEF Stutter
<1> QED BY <1>1, <1>2, <1>3, UnlockGrants, LostAnswerGrants DEF Common

\* The steps of isolate off the lock drop its lists or stutter.
LEMMA IsolateGrants ==
  ASSUME NodeInv, NEW w \in Wrappers, Isolate(w)
  PROVE  [Grants!Next]_<<Entries(data), Held>>
<1> USE DEF NodeInv, cm
<1>1. CASE Select(w)
  <2>1. /\ \A v \in Wrappers : Registered(v) => clists'[v] = clists[v]
        /\ pid' = pid /\ data' = data
    BY <1>1 DEF Select, Registered, TypeOK
  <2>2. Goto(w, "unlock") /\ ~Registered(w)
    BY <1>1 DEF Select, Registered
  <2>3. Held' = Held
    BY <2>1, <2>2, QuietGrants DEF PCs
  <2> QED BY <2>1, <2>3, StutterGrants DEF Stutter
<1>2. CASE ChildExit(w)
  <2>1. /\ pc' = pc /\ pid' = pid /\ data' = data
        /\ \A v \in Wrappers : Registered(v) => clists'[v] = clists[v]
    BY <1>2 DEF ChildExit, Registered, PidInv, TypeOK
  <2>2. Held' = Held
    BY <2>1 DEF Held, Registered
  <2> QED BY <2>1, <2>2, StutterGrants DEF Stutter
<1>3. CASE Finally(w)
  BY <1>3, DiesGrants DEF Finally
<1>4. CASE SelectFails(w)
  <2>1. /\ Goto(w, "leave") /\ ~Registered(w)
        /\ clists' = clists /\ pid' = pid /\ data' = data
    BY <1>4 DEF SelectFails, Registered
  <2>2. Held' = Held
    BY <2>1, QuietGrants DEF PCs
  <2> QED BY <2>1, <2>2, StutterGrants DEF Stutter
<1>5. CASE Spawn(w) \/ SpawnFails(w) \/ Arm(w) \/ WaitReturns(w) \/ Term(w)
  <2>1. PICK label \in {"arm", "exit", "wait"} : Goto(w, label)
    BY <1>5 DEF Spawn, SpawnFails, Arm, WaitReturns, Term
  <2>2. Registered(w) /\ clists' = clists /\ pid' = pid /\ data' = data
    BY <1>5 DEF Spawn, SpawnFails, Arm, WaitReturns, Term, Registered
  <2>3. Held' = Held
    BY <2>1, <2>2, QuietGrants DEF PCs
  <2> QED BY <2>2, <2>3, StutterGrants DEF Stutter
<1> QED BY <1>1, <1>2, <1>3, <1>4, <1>5 DEF Isolate

\* No step of reconcile off the lock, of a reader or of an alien process
\* changes the configmap.
LEMMA OtherGrants ==
  ASSUME NodeInv,
         \/ \E r \in Reconcilers : Reconcile(r)
         \/ \E p \in Readers : Read(p)
         \/ \E k \in AlienPids : AlienStart(k) \/ AlienExit(k)
  PROVE  [Grants!Next]_<<Entries(data), Held>>
<1>1. \/ \E r \in Reconcilers : EndCycle(r)
      \/ /\ clists' = clists /\ pid' = pid /\ data' = data
         /\ \/ pc' = pc
            \/ \E p \in Procs \ Wrappers, label \in PCs : Goto(p, label)
  BY DEF Reconcile, CheckEntry, ScanDone, NextCycle, Read, AlienStart, AlienExit,
         procs, cm, PCs
<1>2. ASSUME NEW r \in Reconcilers, EndCycle(r)
      PROVE  [Grants!Next]_<<Entries(data), Held>>
  BY <1>2, DiesGrants DEF EndCycle, NodeInv, cm
<1>3. CASE clists' = clists /\ pid' = pid /\ pc' = pc /\ data' = data
  <2>1. Held' = Held
    BY <1>3 DEF Held, Registered
  <2> QED BY <1>3, <2>1, StutterGrants DEF Stutter
<1>4. ASSUME clists' = clists, pid' = pid, data' = data,
             NEW p \in Procs \ Wrappers, NEW label \in PCs, Goto(p, label)
      PROVE  [Grants!Next]_<<Entries(data), Held>>
  <2>1. Held' = Held
    BY <1>4, QuietGrants DEF NodeInv
  <2> QED BY <1>4, <2>1, StutterGrants DEF Stutter
<1> QED BY <1>1, <1>2, <1>3, <1>4

\* isolate and reconcile, with their lock and their copies of the configmap,
\* implement the atomic operations of CpuGrants on its current content.
THEOREM ImplementsGrants == Spec => GrantsSpec
<1>1. NodeInv /\ [Next]_vars => [Grants!Next]_<<Entries(data), Held>>
  <2> SUFFICES ASSUME NodeInv, [Next]_vars PROVE [Grants!Next]_<<Entries(data), Held>>
    OBVIOUS
  <2>1. ASSUME NEW p \in Procs, Common(p) PROVE [Grants!Next]_<<Entries(data), Held>>
    BY <2>1, CommonGrants
  <2>2. ASSUME NEW w \in Wrappers, Isolate(w)
        PROVE  [Grants!Next]_<<Entries(data), Held>>
    BY <2>2, IsolateGrants
  <2>3. CASE UNCHANGED vars
    <3>1. Stutter
      BY <2>3 DEF vars, Stutter, Held, Registered
    <3> QED BY <3>1, StutterGrants
  <2> QED BY <2>1, <2>2, <2>3, OtherGrants DEF Next
<1> QED BY <1>1, InitGrants, NodeInvariant, PTL DEF Spec, GrantsSpec, Grants!Spec

-----------------------------------------------------------------------------
(* What atomic grants promise *)

\* No operation of CpuGrants gives an exclusive list a second entry, or takes
\* one from its holder.
LEMMA ExclusionStep ==
  ASSUME Grants!Exclusion, [Grants!Next]_<<Entries(data), Held>>
  PROVE  Grants!Exclusion'
<1> DEFINE tasks == Entries(data)
<1> USE DEF Grants!Exclusion
<1>h. Held = [w \in Wrappers |-> Held[w]] /\ Held' = [w \in Wrappers |-> Held'[w]]
  BY DEF Held
<1>1. CASE Grants!Reclaim
  BY <1>1 DEF Grants!Reclaim
<1>2. ASSUME NEW w \in Wrappers, Grants!Drop(w) PROVE Grants!Exclusion'
  BY <1>h, <1>2 DEF Grants!Drop
<1>3. ASSUME NEW S \in SUBSET CLists, NEW k \in Pids, Grants!Enter(S, k)
      PROVE  /\ tasks \subseteq tasks' /\ S \X {k} \subseteq tasks'
             /\ \A d, e \in tasks' : d[1] = e[1] /\ d[1] \in Exclusive => d = e
             /\ \A w \in Wrappers : \A d \in Held[w], e \in S \X {k} :
                  d[1] = e[1] => d[1] \notin Exclusive
  BY <1>3 DEF Grants!Enter
<1>4. ASSUME NEW S \in SUBSET CLists, NEW k \in Pids, Grants!Abandon(S, k)
      PROVE  Grants!Exclusion'
  BY <1>3, <1>4 DEF Grants!Abandon
<1>5. ASSUME NEW S \in SUBSET CLists, NEW k \in Pids, NEW w \in Wrappers, Grants!Grant(w, S, k)
      PROVE  Grants!Exclusion'
  <2>1. /\ tasks \subseteq tasks' /\ S \X {k} \subseteq tasks'
        /\ \A d, e \in tasks' : d[1] = e[1] /\ d[1] \in Exclusive => d = e
        /\ \A v \in Wrappers : \A d \in Held[v], e \in S \X {k} :
             d[1] = e[1] => d[1] \notin Exclusive
    BY <1>3, <1>5 DEF Grants!Grant
  <2>2. Held'[w] = S \X {k} /\ \A v \in Wrappers \ {w} : Held'[v] = Held[v]
    BY <1>h, <1>5 DEF Grants!Grant
  <2> QED BY <2>1, <2>2
<1>6. CASE UNCHANGED <<Entries(data), Held>>
  BY <1>6
<1> QED BY <1>1, <1>2, <1>4, <1>5, <1>6 DEF Grants!Next

\* Whatever implements CpuGrants keeps what is held in the configmap, and an
\* exclusive list for one process under one pid; so do isolate and reconcile.
THEOREM GrantsExclude == (GrantsSpec => []Grants!Exclusion) /\ (Spec => []Grants!Exclusion)
<1>1. Grants!Init => Grants!Exclusion
  BY DEF Grants!Init, Grants!Exclusion
<1>2. GrantsSpec => []Grants!Exclusion
  BY <1>1, ExclusionStep, PTL DEF GrantsSpec, Grants!Spec
<1> QED BY <1>2, ImplementsGrants, PTL

-----------------------------------------------------------------------------
(* Dead processes leave the configmap *)

\* Task lists change by the unlock() of a process that has selected or scanned,
\* which writes its copy.
LEMMA WhoWrites ==
  ASSUME NodeInv, [Next]_vars, data' # data
  PROVE  \E p \in Wrappers \cup Reconcilers : pc[p] = "unlock" /\ data' = local[p]
<1>1. Next
  BY DEF vars
<1>2. PICK p \in Procs : Common(p)
  <2>1. ASSUME NEW w \in Wrappers, Isolate(w) PROVE FALSE
    BY <2>1 DEF Isolate, Select, SelectFails, Spawn, SpawnFails, Arm, ChildExit,
                WaitReturns, Term, Finally, cm
  <2>2. ASSUME NEW r \in Reconcilers, Reconcile(r) PROVE FALSE
    BY <2>2 DEF Reconcile, CheckEntry, ScanDone, NextCycle, EndCycle, cm
  <2>3. ASSUME NEW q \in Readers, Read(q) PROVE FALSE
    BY <2>3 DEF Read, cm
  <2>4. ASSUME NEW k \in AlienPids, AlienStart(k) \/ AlienExit(k) PROVE FALSE
    BY <2>4 DEF AlienStart, AlienExit, cm
  <2> QED BY <1>1, <2>1, <2>2, <2>3, <2>4 DEF Next
<1>3. \/ LockPatch(p)
      \/ pc[p] \in {"unlock", "leave"} /\ UnlockPatch(p)
  BY <1>2 DEF Common, Start, Kill, Get, Lock, LockConflict, Unlock,
              UnlockAndLeave, ApiFails, ApiAnswerLost, cm
<1>4. ~LockPatch(p)
  BY LockPatchFacts
<1>5. pc[p] = "unlock" /\ data' = local[p]
  BY <1>3, <1>4, LeaveWritesNothing DEF UnlockPatch
<1>6. p \in Wrappers \cup Reconcilers
  BY <1>5 DEF NodeInv, RoleInv
<1> QED BY <1>5, <1>6

\* Nobody enters a pid but the process that has it, and that is alive.
LEMMA GoneStep ==
  ASSUME NodeInv, [Next]_vars, NEW k, Gone(k), k \notin LivePids
  PROVE  Gone(k)'
<1>1. CASE data' = data
  BY <1>1 DEF Gone
<1>2. CASE data' # data
  <2> PICK p \in Wrappers \cup Reconcilers : pc[p] = "unlock" /\ data' = local[p]
    BY <1>2, WhoWrites
  <2>1. CASE p \in Wrappers
    <3>1. pid[p] # NoPid /\ pid[p] # k
      BY <2>1 DEF NodeInv, PidInv, LivePids
    <3> QED BY <2>1, <3>1 DEF NodeInv, SelectedInv, Gone
  <2>2. CASE p \in Reconcilers
    BY <2>2 DEF NodeInv, ReclaimInv, Gone
  <2> QED BY <2>1, <2>2
<1> QED BY <1>1, <1>2

\* A scan looks up every entry that it has copied, and drops those of the dead.
LEMMA ScannedStep ==
  ASSUME NodeInv, [Next]_vars, NEW r \in Reconcilers, NEW k \in Pids,
         Scanned(r, k), k \notin LivePids
  PROVE  Scanned(r, k)'
<1> TypeOK /\ RoleInv
  BY DEF NodeInv
<1>1. CASE UNCHANGED <<pc[r], todo[r], local[r]>>
  BY <1>1 DEF Scanned
<1>2. CASE Common(r)
  <2>1. CASE Lock(r)
    <3>1. pc'[r] = "scan" /\ todo'[r] = Entries(local[r]) /\ local' = local
      BY <2>1 DEF Lock, Goto, TypeOK
    <3> QED BY <3>1 DEF Scanned, Entries
  <2>2. CASE ~Lock(r)
    <3>1. pc'[r] \notin {"scan", "unlock"}
      BY <1>2, <2>2 DEF Common, Start, Kill, Get, LockConflict, Unlock, UnlockAndLeave,
         ApiFails, ApiAnswerLost, Dies, Goto, TypeOK
    <3> QED BY <3>1 DEF Scanned
  <2> QED BY <2>1, <2>2
<1>3. CASE CheckEntry(r)
  <2>1. PICK e \in todo[r] :
          /\ pc' = pc /\ todo'[r] = todo[r] \ {e}
          /\ local' = IF e[2] \in LivePids
                        THEN local
                        ELSE [local EXCEPT ![r][e[1]] = @ \ {e[2]}]
    BY <1>3 DEF CheckEntry, TypeOK
  <2>2. e \in CLists \X Pids
    BY <2>1 DEF TypeOK
  <2>3. \A cl \in CLists : local'[r][cl] \subseteq local[r][cl]
    BY <2>1, <2>2 DEF TypeOK, Data
  <2>4. e[2] = k => k \notin local'[r][e[1]]
    BY <2>1, <2>2 DEF TypeOK, Data
  <2>5. pc[r] = "scan" /\ pc'[r] = "scan"
    BY <1>3 DEF CheckEntry
  <2>6. ASSUME NEW cl \in CLists, k \in local'[r][cl] PROVE <<cl, k>> \in todo'[r]
    <3>1. <<cl, k>> \in todo[r]
      BY <2>3, <2>5, <2>6 DEF Scanned
    <3>2. <<cl, k>> # e
      BY <2>4, <2>6
    <3> QED BY <2>1, <3>1, <3>2
  <2> QED BY <2>5, <2>6 DEF Scanned
<1>4. CASE ScanDone(r)
  <2>1. pc[r] = "scan" /\ todo[r] = {} /\ local' = local
    BY <1>4 DEF ScanDone
  <2> QED BY <2>1 DEF Scanned
<1>5. CASE NextCycle(r) \/ EndCycle(r)
  <2>1. pc'[r] \notin {"scan", "unlock"}
    BY <1>5 DEF NextCycle, EndCycle, Dies, Goto, TypeOK
  <2> QED BY <2>1 DEF Scanned
<1>6. r \notin Wrappers /\ r \notin Readers
  OBVIOUS
<1> QED BY <1>1, <1>2, <1>3, <1>4, <1>5, <1>6, OthersKeepPlace DEF Reconcile

\* Nothing brings the pid of a dead process back: no copy, however old, is
\* written by anybody else than the holder of the lock.
THEOREM DeadStaysGone ==
  ASSUME NEW k \in Pids
  PROVE  Spec => DeadStayGone(k)
<1> DEFINE Dead == k \notin LivePids
<1>1. NodeInv /\ Gone(k) /\ Dead /\ [Next]_vars => Gone(k)'
  BY GoneStep
<1> HIDE DEF Dead
<1>2. Spec => [](Gone(k) /\ []Dead => []Gone(k))
  BY <1>1, NodeInvariant, PTL DEF Spec
<1> QED BY <1>2 DEF DeadStayGone, Dead

\* A reconcile that takes the lock after a process has died, and gives it back,
\* has reclaimed that process's lists, if its pid is not used again meanwhile.
THEOREM ReconcileReclaims ==
  ASSUME NEW r \in Reconcilers, NEW k \in Pids
  PROVE  Spec => ScanReclaims(r, k)
<1> DEFINE Dead == k \notin LivePids
           S == Scanned(r, k)
           Off == ~Holds(r)
<1>1. Off => S
  BY DEF Scanned, Holds
<1>2. NodeInv /\ S /\ Dead /\ [Next]_vars => S'
  BY ScannedStep
<1>3. S => [Unlock(r) => Gone(k)']_vars
  BY DEF Unlock, UnlockPatch, Gone, Scanned
<1> HIDE DEF Dead, S, Off
<1>4. Spec => [](Off /\ []Dead => [][Unlock(r) => Gone(k)']_vars)
  BY <1>1, <1>2, <1>3, NodeInvariant, PTL DEF Spec
<1> QED BY <1>4 DEF ScanReclaims, Dead, Off
=============================================================================
