---------------------------- MODULE MCClusterInit ----------------------------
(***************************************************************************)
(* Two hosts; the default command list, one that has init only, one        *)
(* without one-shot commands but discover, and an invalid one.             *)
(***************************************************************************)
EXTENDS ClusterInit

CONSTANTS n1, n2

MCHosts == <<n1, n2>>

OwnName == [n \in Nodes |-> {n}]

\* As with "node1" and "node10".
FirstNameInBoth == [n \in Nodes |-> IF n = n1 THEN {n1, n2} ELSE {n}]

Default == <<"init", "reconcile", "install", "discover", "nodereport">>

MCCmdLists == {Default, <<"init">>, <<"discover", "reconcile">>,
               <<"discover", "init">>}

\* Where calls fail: at each of the objects that cluster-init creates, half way
\* through the patches of discover and at the last of them, and in uninstall. The
\* proofs are of any set of calls.
SomeCalls ==
  {"createPods", "createDs", "webhook", "non-isolcpus", "taint", "uninstall"}

OnlyDefault == {Default}
=============================================================================
