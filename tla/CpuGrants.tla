------------------------------ MODULE CpuGrants ------------------------------
(***************************************************************************)
(* What `cmk isolate` and `cmk reconcile` promise, with no lock, no copies *)
(* and no resourceVersions: the configmap changes in whole operations that *)
(* apply to what it holds at that moment. A process is granted a set of    *)
(* cpu lists in one step, of which the exclusive ones had no task, keeps   *)
(* its entries as long as it runs, and gives the lists back when it ends.  *)
(***************************************************************************)
CONSTANTS Wrappers,    \* the `cmk isolate` processes of one node
          CLists,      \* the cpu lists of the node
          Exclusive,   \* those that belong to an exclusive pool
          Pids         \* what an entry may name

VARIABLES
  tasks,     \* the entries <<cpu list, pid>> of the configmap
  held       \* held[w]: the entries of w, while it runs

Init ==
  /\ tasks = {}
  /\ held = [w \in Wrappers |-> {}]

\* The lists of S are entered for the process k, if the exclusive ones are free.
Enter(S, k) ==
  /\ \A e \in tasks : e[1] \notin S \cap Exclusive
  /\ tasks' = tasks \cup S \X {k}

\* w, which holds nothing, gets the lists of S at once.
Grant(w, S, k) ==
  /\ held[w] = {}
  /\ Enter(S, k)
  /\ held' = [held EXCEPT ![w] = S \X {k}]

\* The lists are entered for a process that has died on the way.
Abandon(S, k) ==
  /\ Enter(S, k)
  /\ UNCHANGED held

\* Entries that no running process holds are removed.
Reclaim ==
  /\ tasks' \subseteq tasks
  /\ \A w \in Wrappers : held[w] \subseteq tasks'
  /\ UNCHANGED held

\* w ends; its entries stay until they are reclaimed.
Drop(w) ==
  /\ held' = [held EXCEPT ![w] = {}]
  /\ UNCHANGED tasks

Next ==
  \/ Reclaim
  \/ \E w \in Wrappers : Drop(w)
  \/ \E S \in SUBSET CLists, k \in Pids :
        Abandon(S, k) \/ \E w \in Wrappers : Grant(w, S, k)

Spec == Init /\ [][Next]_<<tasks, held>>

\* What follows: what is held is in the configmap, and an exclusive list is
\* held by one process, under one pid.
Exclusion ==
  /\ \A w \in Wrappers : held[w] \subseteq tasks
  /\ \A d, e \in tasks : d[1] = e[1] /\ d[1] \in Exclusive => d = e
  /\ \A v, w \in Wrappers : v # w =>
        \A d \in held[v], e \in held[w] : d[1] = e[1] => d[1] \notin Exclusive
=============================================================================
