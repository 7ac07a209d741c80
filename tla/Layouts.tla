------------------------------- MODULE Layouts -------------------------------
(***************************************************************************)
(* The pools of a node as its configmap holds them (intel/config.py): cpu  *)
(* lists, each of a pool and a socket. `cmk init` writes them (InitPools), *)
(* and `cmk reconfigure` replaces them (Reconfigure).                      *)
(***************************************************************************)
EXTENDS Integers, FiniteSets

CONSTANT Cores      \* the core ids of the machine

ExclusivePools == {"exclusive", "exclusive-non-isolcpus"}
Pools == ExclusivePools \cup {"shared", "infra"}

List == [pool: Pools, socket: Nat, cores: SUBSET Cores]

\* What init promises and reconfigure relies on: every list has cores, and a
\* core is in one list only.
IsLayout(ls) ==
  /\ IsFiniteSet(ls) /\ ls \subseteq List
  /\ \A l \in ls : l.cores # {}
  /\ \A l, m \in ls : l.cores \cap m.cores # {} => l = m

=============================================================================
