------------------------------- MODULE MCNode -------------------------------
(***************************************************************************)
(* Small nodes for the model checker: cpu lists 1 and 2 are exclusive, on  *)
(* sockets 0 and 1, cpu list 3 is the shared pool.                         *)
(***************************************************************************)
EXTENDS CmkNode, TLC

CONSTANTS p1, p2, p3, w1, w2

MCCLists == 1..3
MCPoolOf == <<"exclusive", "exclusive", "shared">>
MCCoresOf == <<{0}, {1}, {2, 3}>>
MCSocketOf == <<<<"int", 0>>, <<"int", 1>>, <<"int", 0>>>>

Want(pool, n) == [pool |-> pool, socket |-> AnySocket, n |-> n]

\* One exclusive list, both of them, a shared one
MCRequests == {Want("exclusive", 1), Want("exclusive", 2), Want("shared", 1)}

\* CMK_NUM_CORES=0, and 2 in a pool where it counts for nothing; a pool the
\* configmap does not have; --socket-id=0 (a string, while the socket keys of the
\* yaml are numbers)
MixedRequests == {Want("exclusive", 1), Want("exclusive", 2), Want("exclusive", 0),
                  Want("shared", 2), Want("exclusive-non-isolcpus", 1),
                  [Want("exclusive", 1) EXCEPT !.socket = <<"str", 0>>]}

\* A kill anywhere; of a wrapper, but not while it holds the lock; just then.
Anywhere == Procs \X PCs
OnLock == Wrappers \X {"cs", "unlock", "leave"}
OffLock == Wrappers \X (PCs \ {"cs", "unlock", "leave"})

\* The kernel gives any pid that is free; p3 may be an alien's. The wrappers
\* differ in nothing but their names.
Symmetry == Permutations({p1, p2}) \cup Permutations({w1, w2})
=============================================================================
