----------------------------- MODULE MCInitPools -----------------------------
(***************************************************************************)
(* Machines of four cores on two sockets, the core ids interleaved or not. *)
(***************************************************************************)
EXTENDS InitPools

MCCores == 0..3
Interleaved == [c \in MCCores |-> c % 2]
Uneven == [c \in MCCores |-> IF c < 3 THEN 0 ELSE 1]

Modes == {"packed", "spread"}
SameEpp == [c \in MCCores |-> 1]

Machine(socketOf, isolated, bf, sstCp, epp, e, s, em, sm, nonIsol) ==
  [socketOf |-> socketOf, isolated |-> isolated, bf |-> bf, sstCp |-> sstCp,
   epp |-> epp, numExclusive |-> e, numShared |-> s, exclusiveMode |-> em,
   sharedMode |-> sm, nonIsol |-> nonIsol]

\* Every choice of isolated cores and of the counts; a core that is not on the
\* machine in --excl-non-isolcpus, too.
PlainInputs ==
  {Machine(sockets, isolated, {}, FALSE, SameEpp, e, s, em, "packed", nonIsol) :
     sockets \in {Interleaved, Uneven}, isolated \in SUBSET MCCores,
     e \in 0..3, s \in 0..2, em \in Modes, nonIsol \in {{}, {2, 3}, {4}}}

\* With SST-BF cores, isolated or not.
SstBfInputs ==
  {Machine(Interleaved, isolated, bf, FALSE, SameEpp, e, s, em, "spread", {}) :
     isolated \in SUBSET MCCores, bf \in {{0}, {1, 2}, {0, 1, 3}},
     e \in 0..2, s \in 0..2, em \in Modes}

\* With SST-CP: one to four EPP values.
SstCpInputs ==
  {Machine(Interleaved, isolated, {}, TRUE, epp, e, s, "packed", "packed", {}) :
     isolated \in {{1, 2}, MCCores},
     epp \in [MCCores -> 1..4],
     e \in 0..2, s \in 0..2}

AllInputs == PlainInputs \cup SstBfInputs \cup SstCpInputs
=============================================================================
