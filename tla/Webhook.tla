------------------------------- MODULE Webhook -------------------------------
(***************************************************************************)
(* The mutating webhook, intel/webhook.py: a server of one thread, asked   *)
(* by the API server about each pod, that merges the mutations of a file   *)
(* into the pod and tells the containers how many cores they have.         *)
(*                                                                         *)
(* yamlreader merges in place and by reference: a container without an     *)
(* environment gets the very list of the loaded file. So an environment is *)
(* a reference into `heap`, and 0 is a container without one.              *)
(***************************************************************************)
EXTENDS Integers, Sequences

CONSTANTS
  Pods, Files,  \* see Admission
  Names,        \* names of environment variables
  MaxPods, MaxEdits, MaxStops   \* bounds: pods, edits of the file, kills

VARIABLES
  phase, asked, admitted, mutated,   \* the API server: see Admission
  body,      \* the review it sends: proper, large (> 10000 bytes), improper
  conn,      \* number of its call
  file,      \* the mutations file
  up,        \* the server runs
  served,    \* the last call it has taken
  at,        \* where the server is
  pod, size, \* the pod and body of the call it serves
  next,      \* the container it comes to next
  envs,      \* the reference of each container's environment
  heap,      \* the environments
  loaded,    \* the reference of perContainer's environment, 0 if it has none
  edits, stops

apiVars == <<phase, asked, admitted, mutated, body, conn>>
podVars == <<pod, size, next, envs, heap, loaded>>
vars == <<apiVars, file, up, served, at, podVars, edits, stops>>

A == INSTANCE Admission

Entry == [name: Names, value: Nat]
Amounts == [A!CmkErName -> Nat \cup {A!NoAmount}]
Container == [requests: Amounts, limits: Amounts, env: Seq(Entry), mapping: BOOLEAN]

ASSUME NamesAssumption == A!NumCores \in Names
ASSUME PodsAssumption ==
  Pods \subseteq [annotated: BOOLEAN, containers: Seq(Container),
                  initContainers: Seq(Container)]
ASSUME FilesAssumption ==
  Files \subseteq [parses: BOOLEAN, podFits: BOOLEAN, scalar: BOOLEAN,
                   hasEnv: BOOLEAN, env: Seq(Entry)]
ASSUME BoundsAssumption == MaxPods \in Nat /\ MaxEdits \in Nat /\ MaxStops \in Nat

Containers == A!Containers(pod)

Init ==
  /\ A!Init
  /\ body = "proper" /\ conn = 0
  /\ file \in Files /\ up = TRUE
  /\ served = 0 /\ at = "idle"
  /\ pod = asked /\ size = body
  /\ next = 1 /\ envs = <<>> /\ heap = <<>> /\ loaded = 0
  /\ edits = 0 /\ stops = 0

-----------------------------------------------------------------------------
(* The API server *)

Submit(b) ==
  /\ A!Submit
  /\ conn < MaxPods
  /\ conn' = conn + 1 /\ body' = b
  /\ UNCHANGED <<file, up, served, at, podVars, edits, stops>>

\* No answer in time, the connection ends, or the status is not 200: the
\* failure policy of the configuration is Ignore.
Ignore ==
  /\ A!AdmitAsAsked
  /\ UNCHANGED <<body, conn, file, up, served, at, podVars, edits, stops>>

\* The operator edits the configmap that the file is mounted from.
Edit ==
  /\ edits < MaxEdits
  /\ file' \in Files \ {file}
  /\ edits' = edits + 1
  /\ UNCHANGED <<apiVars, up, served, at, podVars, stops>>

-----------------------------------------------------------------------------
(* The server *)

\* Mutant: it looks at the pod of the call before.
ReceiveStale ==
  /\ up /\ at = "idle"
  /\ phase = "asked" /\ served < conn
  /\ served' = conn
  /\ pod' = asked /\ size' = body
  /\ heap' = A!Envs(asked)
  /\ envs' = [i \in 1 .. Len(heap') |-> IF heap'[i] = <<>> THEN 0 ELSE i]
  /\ next' = 1 /\ loaded' = 0
  /\ at' = IF body = "improper" THEN "error"
           ELSE IF A!MutationRequired(pod) THEN "perPod" ELSE "skip"
  /\ UNCHANGED <<apiVars, file, up, edits, stops>>

\* do_POST goes on after it has sent 500 for a body that is too large.
Receive ==
  /\ up /\ at = "idle"
  /\ phase = "asked" /\ served < conn
  /\ served' = conn
  /\ pod' = asked /\ size' = body
  /\ heap' = A!Envs(asked)
  /\ envs' = [i \in 1 .. Len(heap') |-> IF heap'[i] = <<>> THEN 0 ELSE i]
  /\ next' = 1 /\ loaded' = 0
  /\ at' = IF body = "improper" THEN "error"
           ELSE IF A!MutationRequired(asked) THEN "perPod" ELSE "skip"
  /\ UNCHANGED <<apiVars, file, up, edits, stops>>

\* load_mutations, each time a list of its own.
Load ==
  /\ file.parses
  /\ loaded' = IF file.hasEnv THEN Len(heap) + 1 ELSE 0

HeapLoaded == IF file.hasEnv THEN Append(heap, file.env) ELSE heap

\* sys.exit() ends serve_forever, and with it the program.
LoadFails ==
  /\ up /\ at \in {"perPod", "container"} /\ ~file.parses
  /\ up' = FALSE /\ at' = "idle"
  /\ UNCHANGED <<apiVars, file, served, podVars, edits, stops>>

MergePod ==
  /\ up /\ at = "perPod"
  /\ Load /\ heap' = HeapLoaded
  /\ at' = IF file.podFits THEN "container" ELSE "error"
  /\ UNCHANGED <<apiVars, file, up, served, pod, size, next, envs, edits, stops>>

\* Mutant: also for a container that names no amount.
InjectAlways(h, r, c) ==
  IF A!Has(h[r], A!NumCores) THEN h
  ELSE [h EXCEPT ![r] = Append(@, [name |-> A!NumCores, value |-> A!Cores(c)])]

\* inject_env: into the list that r refers to, whoever else does.
Inject(h, r, c) ==
  IF ~A!Asks(c) \/ A!Has(h[r], A!NumCores) THEN h
  ELSE [h EXCEPT ![r] = Append(@, [name |-> A!NumCores, value |-> A!Cores(c)])]

\* merge(container, perContainer), for a container with reference r: the heap
\* and the reference that result.
Merge(h, r, l) ==
  IF l = 0 THEN <<h, r>>
  ELSE IF r = 0 THEN <<h, l>>
  ELSE <<[h EXCEPT ![r] = @ \o h[l]], r>>

\* inject_env raises a KeyError at the merged container.
NamelessAt(h, l) ==
  LET merged == Merge(h, envs[next], l)
  IN  A!Asks(Containers[next]) /\ merged[2] # 0
        /\ A!Has(merged[1][merged[2]], A!Nameless)

Apply(h, l) ==
  LET c == Containers[next]
      merged == Merge(h, envs[next], l)
      fresh == merged[2] = 0 /\ A!Asks(c)
      r == IF fresh THEN Len(merged[1]) + 1 ELSE merged[2]
      all == IF fresh THEN Append(merged[1], <<>>) ELSE merged[1]
  IN  /\ heap' = IF r = 0 THEN all ELSE Inject(all, r, c)
      /\ envs' = [envs EXCEPT ![next] = r]

\* Mutant: the mutations are loaded once.
MutateNoReload ==
  /\ up /\ at = "container" /\ next <= Len(Containers)
  /\ ~(file.scalar /\ Containers[next].mapping)
  /\ Apply(heap, loaded)
  /\ next' = next + 1
  /\ UNCHANGED <<apiVars, file, up, served, at, pod, size, loaded, edits, stops>>

Mutate ==
  /\ up /\ at = "container" /\ next <= Len(Containers)
  /\ ~(file.scalar /\ Containers[next].mapping)
  /\ Load /\ ~NamelessAt(HeapLoaded, loaded') /\ Apply(HeapLoaded, loaded')
  /\ next' = next + 1
  /\ UNCHANGED <<apiVars, file, up, served, at, pod, size, edits, stops>>

\* Mutate has merged the container when inject_env raises. do_POST does not catch
\* the KeyError of an ordinary container; mutate() passes over that of an init
\* container, and with it over all that come after, and goes on.
MutateStumbles ==
  /\ up /\ at = "container" /\ next <= Len(Containers)
  /\ ~(file.scalar /\ Containers[next].mapping)
  /\ Load /\ NamelessAt(HeapLoaded, loaded')
  /\ LET merged == Merge(HeapLoaded, envs[next], loaded')
     IN  heap' = merged[1] /\ envs' = [envs EXCEPT ![next] = merged[2]]
  /\ at' = IF next > Len(pod.containers) THEN "reply" ELSE "error"
  /\ UNCHANGED <<apiVars, file, up, served, pod, size, next, edits, stops>>

\* Mutant: the error is logged, and the rest of the pod goes out as it is.
MutateFailsOn ==
  /\ up /\ at = "container" /\ next <= Len(Containers)
  /\ file.parses /\ file.scalar /\ Containers[next].mapping
  /\ at' = "reply"
  /\ UNCHANGED <<apiVars, file, up, served, podVars, edits, stops>>

\* YamlReaderError, MutationError: the containers before it are mutated already.
MutateFails ==
  /\ up /\ at = "container" /\ next <= Len(Containers)
  /\ file.parses /\ file.scalar /\ Containers[next].mapping
  /\ at' = "error"
  /\ UNCHANGED <<apiVars, file, up, served, podVars, edits, stops>>

Mutated ==
  /\ up /\ at = "container" /\ next > Len(Containers)
  /\ at' = "reply"
  /\ UNCHANGED <<apiVars, file, up, served, podVars, edits, stops>>

\* The call is still open; the API server takes no answer of another one.
Open == phase = "asked" /\ served = conn

\* The patch replaces metadata and spec by what the server has made of them.
Patch ==
  /\ up /\ at = "reply" /\ size = "proper" /\ Open
  /\ phase' = "admitted" /\ mutated' = TRUE
  /\ admitted' = [i \in 1 .. Len(envs) |-> IF envs[i] = 0 THEN <<>> ELSE heap[envs[i]]]
  /\ at' = "idle"
  /\ UNCHANGED <<asked, body, conn, file, up, served, podVars, edits, stops>>

Skip ==
  /\ up /\ at = "skip" /\ size = "proper" /\ Open
  /\ A!AdmitAsAsked
  /\ at' = "idle"
  /\ UNCHANGED <<body, conn, file, up, served, podVars, edits, stops>>

\* Mutant: it tries again until somebody takes the answer.
NoAnswerRetries ==
  /\ up /\ at = "error"
  /\ at' = "idle"
  /\ UNCHANGED <<apiVars, file, up, served, podVars, edits, stops>>

\* A status 500, or an answer that nobody waits for any more.
NoAnswer ==
  /\ up
  /\ \/ at = "error"
     \/ at \in {"reply", "skip"} /\ (size # "proper" \/ ~Open)
  /\ at' = "idle"
  /\ UNCHANGED <<apiVars, file, up, served, podVars, edits, stops>>

\* The pod of the server is deleted or its process killed.
Stop ==
  /\ up /\ stops < MaxStops
  /\ up' = FALSE /\ at' = "idle"
  /\ stops' = stops + 1
  /\ UNCHANGED <<apiVars, file, served, podVars, edits>>

\* Its deployment starts it again.
Start ==
  /\ ~up
  /\ up' = TRUE
  /\ UNCHANGED <<apiVars, file, served, at, podVars, edits, stops>>

Serve ==
  \/ Receive \/ LoadFails \/ MergePod
  \/ Mutate \/ MutateStumbles \/ MutateFails \/ Mutated
  \/ Patch \/ Skip \/ NoAnswer

Next ==
  \/ \E b \in {"proper", "large", "improper"} : Submit(b)
  \/ Ignore \/ Edit
  \/ Serve \/ Stop \/ Start

Spec == Init /\ [][Next]_vars

\* The server is scheduled and restarted, and the API server has a time limit.
Fairness == WF_vars(Serve) /\ WF_vars(Start) /\ WF_vars(Ignore)

FairSpec == Spec /\ Fairness

-----------------------------------------------------------------------------
(* Properties *)

TypeOK ==
  /\ phase \in {"idle", "asked", "admitted"} /\ asked \in Pods /\ pod \in Pods
  /\ body \in {"proper", "large", "improper"} /\ size \in {"proper", "large", "improper"}
  /\ mutated \in BOOLEAN /\ up \in BOOLEAN /\ file \in Files
  /\ admitted \in Seq(Seq(Entry)) /\ heap \in Seq(Seq(Entry))
  /\ envs \in Seq(0 .. Len(heap)) /\ loaded \in 0 .. Len(heap)
  /\ at \in {"idle", "perPod", "container", "reply", "skip", "error"}
  /\ conn \in 0 .. MaxPods /\ served \in 0 .. conn
  /\ next \in 1 .. Len(envs) + 1
  /\ edits \in 0 .. MaxEdits /\ stops \in 0 .. MaxStops

\* A pod is admitted as its author asked, or mutated: every container, each told
\* its own number of cores once, but for the init containers from one whose
\* environment has an entry without a name on. Whatever fails on the way, whatever
\* is merged by reference, however late an answer comes.
Promise == A!Spec

\* No two containers of a pod come to share an environment list.
EnvsSeparate ==
  \A i, j \in 1 .. Len(envs) : envs[i] = envs[j] /\ envs[i] # 0 => i = j

\* An answer that is taken is the one to the pod that is asked about, never to the
\* one before: it has a patch just if this pod is annotated or an ordinary
\* container of it names an amount, 0 included. That a pod goes out as it is when
\* only an init container asks is what is_mutation_required does, not what
\* docs/architecture.md:104 says of "any container".
AnsweredRight ==
  [][phase = "asked" /\ phase' = "admitted" /\ at # at'
       => mutated' = A!MutationRequired(asked)]_vars

\* The one thread comes to the end of every call, also of one that the API
\* server has given up, and is free for the next.
Serves == (at # "idle") ~> (at = "idle")

\* Why: a bound on the steps of a call that are left, which each step of the
\* server lowers, and nobody else raises.
Left ==
  LET toCome == Len(envs) + 1 - next
  IN  [idle |-> 0, error |-> 1, reply |-> 1, skip |-> 1,
       container |-> 2 + toCome, perPod |-> 3 + toCome][at]

ServeAdvances ==
  [][at # "idle" =>
       /\ Left \in Nat /\ Left' \in Nat /\ Left' <= Left
       /\ Serve => Left' < Left]_vars

-----------------------------------------------------------------------------
(* Why they hold: the parts of an inductive invariant *)

Working == at \in {"perPod", "container", "reply"}

EnvOf(i) == IF envs[i] = 0 THEN <<>> ELSE heap[envs[i]]

\* A call that is still open is the one about the pod the server looks at.
CallInv == Open => pod = asked

\* It mutates just the pods that require it, and replies after all ordinary
\* containers.
WorkInv ==
  /\ Working => A!MutationRequired(pod)
  /\ at = "skip" => ~A!MutationRequired(pod)
  /\ Working => Len(envs) = Len(Containers)
  /\ at = "reply" => next > Len(pod.containers)

\* The containers before `next` are mutated, the others as they were; but for the
\* init container that ended the mutation, which is merged.
EnvsInv ==
  Working => \A i \in 1 .. Len(Containers) :
    LET c == Containers[i]
    IN  IF i < next
          THEN \E f \in Files : /\ f.parses /\ ~A!Stumbles(c, f)
                                /\ EnvOf(i) = A!MutatedEnv(c, f)
        ELSE IF i = next /\ at = "reply"
          THEN \E f \in Files : /\ f.parses /\ A!Stumbles(c, f)
                                /\ EnvOf(i) = A!MergedEnv(c, f)
        ELSE EnvOf(i) = c.env

WebhookInv == TypeOK /\ CallInv /\ WorkInv /\ EnvsInv /\ EnvsSeparate

=============================================================================
