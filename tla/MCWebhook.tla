------------------------------ MODULE MCWebhook ------------------------------
(***************************************************************************)
(* Pods of one or two containers and up to three init containers, out of   *)
(* containers that ask for nothing, request or limit cores, also 0, or     *)
(* know their number already; and the files an operator may go through,    *)
(* one with an entry that has no name.                                     *)
(***************************************************************************)
EXTENDS Webhook

Excl == "exclusive-cores"
Non == "exclusive-non-isolcpus-cores"

\* NoAmount of both.
None == [er \in {Excl, Non} |-> -1]
Of(er, n) == [None EXCEPT ![er] = n]
User == [name |-> "USER", value |-> 7]
Unnamed == [name |-> "(no name)", value |-> 6]
Proc == [name |-> "CMK_PROC_FS", value |-> 8]

C(requests, limits, env, mapping) ==
  [requests |-> requests, limits |-> limits, env |-> env, mapping |-> mapping]

Plain == C(None, None, <<>>, FALSE)
One == C(Of(Excl, 1), Of(Excl, 1), <<>>, FALSE)
Zero == C(Of(Excl, 0), [None EXCEPT ![Excl] = 2, ![Non] = 3], <<>>, FALSE)
Limit == C(Of(Non, 3), Of(Excl, 2), <<User>>, TRUE)
Known == C(None, Of(Non, 3), <<[name |-> "CMK_NUM_CORES", value |-> 9]>>, FALSE)

P(annotated, containers, initContainers) ==
  [annotated |-> annotated, containers |-> containers,
   initContainers |-> initContainers]

MCPods ==
  {P(FALSE, <<Plain>>, <<One>>), P(FALSE, <<Zero, One>>, <<>>),
   P(FALSE, <<One, Limit>>, <<Plain>>), P(TRUE, <<Known, Limit>>, <<One>>),
   P(TRUE, <<Plain>>, <<Plain, One, Plain>>)}

F(parses, podFits, scalar, hasEnv, env) ==
  [parses |-> parses, podFits |-> podFits, scalar |-> scalar, hasEnv |-> hasEnv,
   env |-> env]

MCFiles ==
  {F(TRUE, TRUE, FALSE, TRUE, <<Proc>>), F(TRUE, TRUE, FALSE, TRUE, <<>>),
   F(TRUE, TRUE, FALSE, TRUE, <<Unnamed>>),
   F(TRUE, TRUE, FALSE, FALSE, <<>>), F(TRUE, TRUE, TRUE, TRUE, <<Proc>>),
   F(TRUE, FALSE, FALSE, TRUE, <<Proc>>), F(FALSE, FALSE, FALSE, FALSE, <<>>)}

=============================================================================
