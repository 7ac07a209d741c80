---------------------------- MODULE MCReconfigure ----------------------------
(***************************************************************************)
(* Reconfigure on two sockets of three cores. Layout "a" and layout "b"    *)
(* differ on socket 0: an exclusive list stays, one goes, the shared list  *)
(* is another. "c" has fewer exclusive lists on socket 0 than "a" and more *)
(* on the other, where a list cannot go. "d" has too few of them.          *)
(***************************************************************************)
EXTENDS Reconfigure

L(pool, socket, cores) == [pool |-> pool, socket |-> socket, cores |-> cores]

PlanA == [lists |-> {L("exclusive", 0, {1}), L("exclusive", 0, {2}),
                     L("exclusive", 1, {4}), L("shared", 0, {3}),
                     L("infra", 1, {6})},
          numExclusive |-> 3, numNonIsol |-> 0]

PlanB == [lists |-> {L("exclusive", 0, {2}), L("exclusive", 0, {3}),
                     L("exclusive", 1, {4}), L("shared", 0, {1}),
                     L("exclusive-non-isolcpus", 1, {5}), L("infra", 1, {6})},
          numExclusive |-> 3, numNonIsol |-> 1]

PlanC == [lists |-> {L("exclusive", 0, {1}), L("exclusive", 1, {4}),
                     L("exclusive", 1, {5}), L("shared", 0, {2, 3}),
                     L("infra", 1, {6})},
          numExclusive |-> 3, numNonIsol |-> 0]

PlanD == [lists |-> {L("exclusive", 0, {1}), L("shared", 0, {2, 3}),
                     L("infra", 1, {6})},
          numExclusive |-> 1, numNonIsol |-> 0]

MCCores == 1 .. 6
MCPlans == {PlanA, PlanB, PlanC, PlanD}
MCBefore == {PlanA}
MCPids == {"p1", "p2"}
MCLate == {"p1"}
NoPids == {}
MCStubs == {{}, {"add_node_er", "reaffinitize"}}
NoStubs == {{}}
AllFaults == {"configure", "set_config_map", "get_pods", "exec", "unlock",
              "delete_config_map", "kill"}
NoFaults == {}

=============================================================================
