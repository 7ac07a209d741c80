------------------------------ MODULE MCNodeApi ------------------------------
(***************************************************************************)
(* A daemon and a node report by hand, a node that changes once, a taint   *)
(* with a time and one without.                                            *)
(***************************************************************************)
EXTENDS NodeApi

MCForeign == {"maintenance", "unreachable"}
MCTimed == {"unreachable"}
MCDaemons == {"daemon"}
MCManual == {"manual"}

=============================================================================
