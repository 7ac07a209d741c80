------------------------------ MODULE Admission ------------------------------
(***************************************************************************)
(* What the mutating webhook promises of a pod that is created: it is      *)
(* admitted as its author asked for it, or wholly mutated.                 *)
(*                                                                         *)
(* A container is [requests, limits, env, mapping]: amounts of the two     *)
(* extended resources of CMK, NoAmount for one that is not named (0 is an  *)
(* amount), its environment, and whether it has a mapping that             *)
(* `perContainer` may want to merge into. Of what perPod and perContainer  *)
(* add, the environment stands for the rest.                               *)
(***************************************************************************)
EXTENDS Integers, Sequences

CONSTANTS
  Pods,   \* [annotated, containers, initContainers]
  Files   \* the mutations file: [parses, podFits, scalar, hasEnv, env]

NumCores == "CMK_NUM_CORES"
Nameless == "(no name)"   \* the name of an entry that has none
Exclusive == "exclusive-cores"
NonIsolcpus == "exclusive-non-isolcpus-cores"
NoAmount == -1
CmkErName == {Exclusive, NonIsolcpus}

VARIABLES
  phase,     \* of the pod: idle (none yet), asked, admitted
  asked,     \* as its author sent it
  admitted,  \* the environments it was admitted with
  mutated    \* it was admitted with a patch

vars == <<phase, asked, admitted, mutated>>

Containers(pod) == pod.containers \o pod.initContainers

Envs(pod) == [i \in 1 .. Len(Containers(pod)) |-> Containers(pod)[i].env]

AsksFor(c, er) == c.requests[er] # NoAmount \/ c.limits[er] # NoAmount

Asks(c) == \E er \in CmkErName : AsksFor(c, er)

Amount(c, er) ==
  IF c.requests[er] # NoAmount THEN c.requests[er] ELSE c.limits[er]

\* A request is preferred to a limit, exclusive cores to the others, whatever
\* the amount; of a container that asks.
Cores(c) == Amount(c, IF AsksFor(c, Exclusive) THEN Exclusive ELSE NonIsolcpus)

\* The init containers are not looked at.
MutationRequired(pod) ==
  \/ pod.annotated
  \/ \E i \in 1 .. Len(pod.containers) : Asks(pod.containers[i])

Has(env, name) == \E i \in 1 .. Len(env) : env[i].name = name

MergedEnv(c, f) == c.env \o (IF f.hasEnv THEN f.env ELSE <<>>)

\* inject_env reads the name of every entry.
Stumbles(c, f) == Asks(c) /\ Has(MergedEnv(c, f), Nameless)

MutatedEnv(c, f) ==
  LET env == MergedEnv(c, f)
  IN  IF ~Asks(c) \/ Has(env, NumCores)
        THEN env
        ELSE Append(env, [name |-> NumCores, value |-> Cores(c)])

Init == phase = "idle" /\ asked \in Pods /\ admitted = <<>> /\ mutated = FALSE

Submit ==
  /\ phase # "asked"
  /\ phase' = "asked" /\ asked' \in Pods
  /\ UNCHANGED <<admitted, mutated>>

AdmitAsAsked ==
  /\ phase = "asked"
  /\ phase' = "admitted" /\ admitted' = Envs(asked) /\ mutated' = FALSE
  /\ UNCHANGED asked

\* Each container with one version of the file; they may differ. All of them are
\* mutated, or a KeyError at an init container, merged by then, ends the
\* mutation: mutate() takes it for the end of the init containers.
AdmitMutated ==
  /\ phase = "asked" /\ MutationRequired(asked)
  /\ phase' = "admitted" /\ mutated' = TRUE
  /\ Len(admitted') = Len(Containers(asked))
  /\ \E done \in Len(asked.containers) .. Len(Containers(asked)) :
       \A i \in 1 .. Len(Containers(asked)) :
         LET c == Containers(asked)[i]
         IN  \/ /\ i <= done
                /\ \E f \in Files : /\ f.parses /\ ~Stumbles(c, f)
                                    /\ admitted'[i] = MutatedEnv(c, f)
             \/ /\ i = done + 1
                /\ \E f \in Files : /\ f.parses /\ Stumbles(c, f)
                                    /\ admitted'[i] = MergedEnv(c, f)
             \/ i > done + 1 /\ admitted'[i] = c.env
  /\ UNCHANGED asked

Next == Submit \/ AdmitAsAsked \/ AdmitMutated

Spec == Init /\ [][Next]_vars

-----------------------------------------------------------------------------
(* What follows *)

\* A container of a pod admitted with a patch still has its own environment, in
\* front, and if it asked for cores, a CMK_NUM_CORES: its author's, the file's or
\* the webhook's. Without one is only an init container that has, or comes after
\* one that has, an entry without a name.
Told ==
  phase = "admitted" /\ mutated =>
    \A i \in 1 .. Len(Containers(asked)) :
      LET c == Containers(asked)[i]
      IN  /\ Len(admitted[i]) >= Len(c.env)
          /\ \A j \in 1 .. Len(c.env) : admitted[i][j] = c.env[j]
          /\ Asks(c) => \/ Has(admitted[i], NumCores)
                        \/ \E k \in Len(asked.containers) + 1 .. i :
                             Has(admitted[k], Nameless)

=============================================================================
