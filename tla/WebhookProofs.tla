---------------------------- MODULE WebhookProofs ----------------------------
(***************************************************************************)
(* Proofs about Webhook, for any pods, mutations files and number of calls *)
(* and faults: types, that containers never share an environment, and that *)
(* the server implements Admission.                                        *)
(***************************************************************************)
EXTENDS Webhook, SequenceTheorems, TLAPS

Empty(r, h) == IF r = 0 THEN <<>> ELSE h[r]

-----------------------------------------------------------------------------
(* Pods and environments *)

\* The environments of a pod are those of its containers.
LEMMA PodFacts ==
  ASSUME NEW p \in Pods
  PROVE  /\ A!Containers(p) \in Seq(Container)
         /\ Len(p.containers) \in Nat
         /\ Len(p.containers) <= Len(A!Containers(p))
         /\ A!Envs(p) \in Seq(Seq(Entry))
         /\ Len(A!Envs(p)) = Len(A!Containers(p))
         /\ \A i \in 1 .. Len(A!Containers(p)) :
              /\ A!Containers(p)[i] \in Container
              /\ A!Envs(p)[i] = A!Containers(p)[i].env
<1>1. p.containers \in Seq(Container) /\ p.initContainers \in Seq(Container)
  BY PodsAssumption
<1>2. A!Containers(p) \in Seq(Container)
  BY <1>1, ConcatProperties DEF A!Containers
<1> DEFINE n == Len(A!Containers(p))
<1>0. Len(p.containers) \in Nat /\ Len(p.containers) <= n
  <2> DEFINE k == Len(p.containers)
             l == Len(p.initContainers)
  <2>1. k \in Nat /\ l \in Nat
    BY <1>1, LenProperties
  <2>2. n = k + l
    BY <1>1, ConcatProperties DEF A!Containers
  <2> HIDE DEF n, k, l
  <2>3. k <= n
    BY <2>1, <2>2
  <2> QED BY <2>1, <2>3 DEF k
<1>3. n \in Nat /\ \A i \in 1 .. n : A!Containers(p)[i] \in Container
  BY <1>2, ElementOfSeq, LenProperties
<1>4. A!Envs(p) \in [1 .. n -> Seq(Entry)]
  BY <1>3 DEF A!Envs, Container
<1>5. A!Envs(p) \in Seq(Seq(Entry)) /\ Len(A!Envs(p)) = n
  BY <1>3, <1>4, SeqDef, LenProperties
<1> QED BY <1>0, <1>2, <1>3, <1>5 DEF A!Envs

\* A container that asks has a number of cores.
LEMMA CoresFacts ==
  ASSUME NEW c \in Container, A!Asks(c)
  PROVE  A!Cores(c) \in Nat /\ [name |-> A!NumCores, value |-> A!Cores(c)] \in Entry
<1>1. \A er \in A!CmkErName : A!AsksFor(c, er) => A!Amount(c, er) \in Nat
  BY DEF A!AsksFor, A!Amount, A!NoAmount, Container, Amounts
<1>2. A!Cores(c) \in Nat
  BY <1>1 DEF A!Asks, A!Cores, A!CmkErName
<1>3. A!NumCores \in Names
  BY NamesAssumption
<1> QED BY <1>2, <1>3 DEF Entry

\* inject_env changes one list only.
LEMMA InjectFacts ==
  ASSUME NEW h \in Seq(Seq(Entry)), NEW r \in 1 .. Len(h), NEW c \in Container
  PROVE  /\ Inject(h, r, c) \in Seq(Seq(Entry))
         /\ Len(Inject(h, r, c)) = Len(h)
         /\ \A j \in 1 .. Len(h) : j # r => Inject(h, r, c)[j] = h[j]
         /\ Inject(h, r, c)[r] =
              IF ~A!Asks(c) \/ A!Has(h[r], A!NumCores) THEN h[r]
              ELSE Append(h[r], [name |-> A!NumCores, value |-> A!Cores(c)])
<1> DEFINE e == [name |-> A!NumCores, value |-> A!Cores(c)]
           new == Append(h[r], e)
<1>1. h[r] \in Seq(Entry)
  BY ElementOfSeq
<1>3. CASE ~A!Asks(c) \/ A!Has(h[r], A!NumCores)
  BY <1>3 DEF Inject
<1>4. CASE A!Asks(c) /\ ~A!Has(h[r], A!NumCores)
  <2>0. new \in Seq(Entry)
    BY <1>1, <1>4, CoresFacts, AppendProperties
  <2>1. Inject(h, r, c) = [h EXCEPT ![r] = new]
    BY <1>4 DEF Inject
  <2> HIDE DEF new
  <2>2. /\ [h EXCEPT ![r] = new] \in Seq(Seq(Entry))
        /\ Len([h EXCEPT ![r] = new]) = Len(h)
        /\ \A j \in 1 .. Len(h) : j # r => [h EXCEPT ![r] = new][j] = h[j]
        /\ [h EXCEPT ![r] = new][r] = new
    BY <2>0, ExceptSeq
  <2>3. new = Append(h[r], e)
    BY DEF new
  <2> QED BY <1>4, <2>1, <2>2, <2>3
<1> QED BY <1>3, <1>4

\* What load_mutations makes of the environments, and the reference it gives.
WithFile(h, f) == IF f.hasEnv THEN Append(h, f.env) ELSE h
FileRef(h, f) == IF f.hasEnv THEN Len(h) + 1 ELSE 0
FileEnv(f) == IF f.hasEnv THEN f.env ELSE <<>>

MergedHeap(h, f, r) == Merge(WithFile(h, f), r, FileRef(h, f))[1]
MergedRef(h, f, r) == Merge(WithFile(h, f), r, FileRef(h, f))[2]

\* merge puts the environments one after the other, into the container's own
\* list or, if it has none, into the one that was just loaded.
LEMMA MergeFacts ==
  ASSUME NEW h \in Seq(Seq(Entry)), NEW f \in Files, NEW r \in 0 .. Len(h)
  PROVE  /\ MergedHeap(h, f, r) \in Seq(Seq(Entry))
         /\ Len(h) <= Len(MergedHeap(h, f, r))
         /\ MergedRef(h, f, r) \in 0 .. Len(MergedHeap(h, f, r))
         /\ FileRef(h, f) \in 0 .. Len(MergedHeap(h, f, r))
         /\ MergedRef(h, f, r) \in {0, r} \/ MergedRef(h, f, r) > Len(h)
         /\ \A j \in 1 .. Len(h) : j # r => MergedHeap(h, f, r)[j] = h[j]
         /\ Empty(MergedRef(h, f, r), MergedHeap(h, f, r))
              = Empty(r, h) \o FileEnv(f)
<1> DEFINE m == MergedHeap(h, f, r)
           s == MergedRef(h, f, r)
<1> SUFFICES /\ m \in Seq(Seq(Entry)) /\ Len(h) <= Len(m)
             /\ s \in 0 .. Len(m)
             /\ FileRef(h, f) \in 0 .. Len(m)
             /\ s \in {0, r} \/ s > Len(h)
             /\ \A j \in 1 .. Len(h) : j # r => m[j] = h[j]
             /\ Empty(s, m) = Empty(r, h) \o FileEnv(f)
  OBVIOUS
<1> HIDE DEF m, s
<1>1. f.env \in Seq(Entry) /\ f.hasEnv \in BOOLEAN
  BY FilesAssumption
<1>2. Empty(r, h) \in Seq(Entry)
  <2>1. CASE r = 0
    BY <2>1 DEF Empty
  <2>2. CASE r # 0
    <3>1. h[r] \in Seq(Entry)
      BY <2>2, ElementOfSeq, LenProperties
    <3> QED BY <2>2, <3>1 DEF Empty
  <2> QED BY <2>1, <2>2
<1>3. Len(h) \in Nat
  BY LenProperties
<1>4. CASE ~f.hasEnv
  <2>1. WithFile(h, f) = h /\ FileRef(h, f) = 0 /\ FileEnv(f) = <<>>
    BY <1>4 DEF WithFile, FileRef, FileEnv
  <2>2. m = h /\ s = r
    BY <2>1 DEF Merge, MergedHeap, MergedRef, m, s
  <2>3. Empty(r, h) \o <<>> = Empty(r, h)
    BY <1>2, ConcatEmptySeq
  <2> QED BY <1>3, <2>1, <2>2, <2>3
<1>5. CASE f.hasEnv
  <2> DEFINE hl == WithFile(h, f)
  <2>1. hl = Append(h, f.env) /\ FileRef(h, f) = Len(h) + 1 /\ FileEnv(f) = f.env
    BY <1>5 DEF WithFile, FileRef, FileEnv
  <2> HIDE DEF hl
  <2>2. /\ hl \in Seq(Seq(Entry)) /\ Len(hl) = Len(h) + 1
        /\ \A j \in 1 .. Len(h) : hl[j] = h[j]
        /\ hl[Len(h) + 1] = f.env
    BY <1>1, <2>1, AppendProperties
  <2>3. CASE r = 0
    <3>1. m = hl /\ s = Len(h) + 1
      BY <1>3, <2>1, <2>3 DEF Merge, MergedHeap, MergedRef, m, s, hl
    <3>2. <<>> \o f.env = f.env
      BY <1>1, ConcatEmptySeq
    <3>3. Empty(s, m) = f.env /\ Empty(r, h) = <<>>
      BY <1>3, <2>2, <2>3, <3>1 DEF Empty
    <3>4. Empty(s, m) = Empty(r, h) \o FileEnv(f)
      BY <2>1, <3>2, <3>3
    <3> QED BY <1>3, <2>1, <2>2, <2>3, <3>1, <3>4
  <2>4. CASE r # 0
    <3> DEFINE new == h[r] \o f.env
    <3>1. r \in 1 .. Len(h) /\ r \in 1 .. Len(hl)
      BY <1>3, <2>2, <2>4
    <3>2. new \in Seq(Entry)
      <4>1. h[r] \in Seq(Entry)
        BY <3>1, ElementOfSeq
      <4> QED BY <1>1, <4>1, ConcatProperties
    <3>3. hl[r] = h[r]
      BY <2>2, <3>1
    <3>4. m = [hl EXCEPT ![r] = hl[r] \o f.env] /\ s = r
      <4>1. hl[Len(h) + 1] = f.env /\ Len(h) + 1 # 0
        BY <1>3, <2>2
      <4> QED BY <2>1, <2>4, <4>1 DEF Merge, MergedHeap, MergedRef, m, s, hl
    <3>5. m = [hl EXCEPT ![r] = new]
      BY <3>3, <3>4
    <3> HIDE DEF new
    <3>6. /\ m \in Seq(Seq(Entry)) /\ Len(m) = Len(hl)
          /\ \A j \in 1 .. Len(hl) : m[j] = IF j = r THEN new ELSE hl[j]
      BY <2>2, <3>1, <3>2, <3>5, ExceptSeq
    <3>7. Empty(s, m) = h[r] \o f.env /\ Empty(r, h) = h[r]
      BY <2>4, <3>1, <3>4, <3>6 DEF Empty, new
    <3>8. Empty(s, m) = Empty(r, h) \o FileEnv(f)
      BY <2>1, <3>7
    <3>9. \A j \in 1 .. Len(h) : j # r => m[j] = h[j]
      BY <1>3, <2>2, <3>6
    <3>10. s \in 0 .. Len(m) /\ FileRef(h, f) \in 0 .. Len(m) /\ Len(h) <= Len(m)
      BY <1>3, <2>1, <2>2, <3>1, <3>4, <3>6
    <3> QED BY <3>4, <3>6, <3>8, <3>9, <3>10
  <2> QED BY <2>3, <2>4
<1> QED BY <1>4, <1>5

\* Where `merge` has been, there is the merged environment, and inject_env raises
\* just if Admission says that it stumbles.
LEMMA MergedFacts ==
  ASSUME TypeOK, Len(envs) = Len(Containers), next <= Len(Containers), Load,
         EnvOf(next) = Containers[next].env,
         NEW m, NEW s,
         m = Merge(HeapLoaded, envs[next], loaded')[1],
         s = Merge(HeapLoaded, envs[next], loaded')[2]
  PROVE  /\ Containers[next] \in Container /\ envs[next] \in 0 .. Len(heap)
         /\ m \in Seq(Seq(Entry)) /\ Len(heap) <= Len(m)
         /\ s \in 0 .. Len(m) /\ loaded' \in 0 .. Len(m)
         /\ s \in {0, envs[next]} \/ s > Len(heap)
         /\ \A j \in 1 .. Len(heap) : j # envs[next] => m[j] = heap[j]
         /\ Empty(s, m) = A!MergedEnv(Containers[next], file)
         /\ NamelessAt(HeapLoaded, loaded') <=> A!Stumbles(Containers[next], file)
<1> DEFINE c == Containers[next]
           old == envs[next]
<1>1. /\ next \in 1 .. Len(envs) /\ next \in 1 .. Len(Containers)
      /\ file \in Files /\ pod \in Pods /\ heap \in Seq(Seq(Entry))
      /\ envs \in Seq(0 .. Len(heap))
  BY LenProperties DEF TypeOK
<1>2. c \in Container /\ old \in 0 .. Len(heap)
  BY <1>1, PodFacts, ElementOfSeq DEF Containers
<1>3. HeapLoaded = WithFile(heap, file) /\ loaded' = FileRef(heap, file)
  BY DEF Load, HeapLoaded, WithFile, FileRef
<1>4. m = MergedHeap(heap, file, old) /\ s = MergedRef(heap, file, old)
  BY <1>3 DEF MergedHeap, MergedRef
<1>5. Empty(old, heap) = c.env
  BY DEF EnvOf, Empty
<1>6. A!MergedEnv(c, file) = c.env \o FileEnv(file)
  BY DEF A!MergedEnv, FileEnv
<1>7. NamelessAt(HeapLoaded, loaded')
        <=> A!Asks(c) /\ s # 0 /\ A!Has(m[s], A!Nameless)
  BY DEF NamelessAt
<1> HIDE DEF c, old
<1> DEFINE ref == FileRef(heap, file)
           base == Empty(old, heap) \o FileEnv(file)
<1> HIDE DEF ref, base
<1>8. /\ m \in Seq(Seq(Entry)) /\ Len(heap) <= Len(m)
      /\ s \in 0 .. Len(m) /\ ref \in 0 .. Len(m)
      /\ s \in {0, old} \/ s > Len(heap)
      /\ \A j \in 1 .. Len(heap) : j # old => m[j] = heap[j]
      /\ Empty(s, m) = base
  <2>1. heap \in Seq(Seq(Entry)) /\ file \in Files /\ old \in 0 .. Len(heap)
    BY <1>1, <1>2
  <2>2. /\ MergedHeap(heap, file, old) \in Seq(Seq(Entry))
        /\ Len(heap) <= Len(MergedHeap(heap, file, old))
        /\ MergedRef(heap, file, old) \in 0 .. Len(MergedHeap(heap, file, old))
        /\ FileRef(heap, file) \in 0 .. Len(MergedHeap(heap, file, old))
        /\ MergedRef(heap, file, old) \in {0, old} \/ MergedRef(heap, file, old) > Len(heap)
        /\ \A j \in 1 .. Len(heap) : j # old => MergedHeap(heap, file, old)[j] = heap[j]
        /\ Empty(MergedRef(heap, file, old), MergedHeap(heap, file, old))
             = Empty(old, heap) \o FileEnv(file)
    BY <2>1, MergeFacts
  <2> QED BY <1>4, <2>2 DEF ref, base
<1>9. Empty(s, m) = A!MergedEnv(c, file)
  BY <1>5, <1>6, <1>8 DEF base
<1>10. NamelessAt(HeapLoaded, loaded') <=> A!Stumbles(c, file)
  <2>1. CASE s = 0
    <3>1. A!MergedEnv(c, file) = <<>>
      BY <1>9, <2>1 DEF Empty
    <3> QED BY <1>7, <2>1, <3>1 DEF A!Stumbles, A!Has
  <2>2. CASE s # 0
    <3>1. A!MergedEnv(c, file) = m[s]
      BY <1>9, <2>2 DEF Empty
    <3> QED BY <1>7, <2>2, <3>1 DEF A!Stumbles
  <2> QED BY <2>1, <2>2
<1> QED BY <1>2, <1>3, <1>8, <1>9, <1>10 DEF c, old, ref

\* A container that has been merged and told its number of cores has the
\* environment that Admission asks for, and no other container's list changes.
LEMMA ApplyFacts ==
  ASSUME TypeOK, Mutate, Len(envs) = Len(Containers),
         EnvOf(next) = Containers[next].env
  PROVE  /\ heap' \in Seq(Seq(Entry)) /\ Len(heap) <= Len(heap')
         /\ loaded' \in 0 .. Len(heap')
         /\ \A j \in 1 .. Len(heap) : j # envs[next] => heap'[j] = heap[j]
         /\ \E r \in 0 .. Len(heap') :
              /\ envs' = [envs EXCEPT ![next] = r]
              /\ r \in {0, envs[next]} \/ r > Len(heap)
              /\ Empty(r, heap') = A!MutatedEnv(Containers[next], file)
         /\ ~A!Stumbles(Containers[next], file)
<1> DEFINE c == Containers[next]
           old == envs[next]
           merged == Merge(HeapLoaded, old, loaded')
           m == merged[1]
           s == merged[2]
           fresh == s = 0 /\ A!Asks(c)
           r == IF fresh THEN Len(m) + 1 ELSE s
           all == IF fresh THEN Append(m, <<>>) ELSE m
           env == A!MergedEnv(c, file)
<1>1. heap \in Seq(Seq(Entry))
  BY DEF TypeOK
<1>2. Load /\ next <= Len(Containers) /\ ~NamelessAt(HeapLoaded, loaded')
  BY DEF Mutate
<1>3. /\ heap' = IF r = 0 THEN all ELSE Inject(all, r, c)
      /\ envs' = [envs EXCEPT ![next] = r]
  BY DEF Mutate, Apply
<1>4. A!MutatedEnv(c, file) =
        IF ~A!Asks(c) \/ A!Has(env, A!NumCores) THEN env
        ELSE Append(env, [name |-> A!NumCores, value |-> A!Cores(c)])
  BY DEF A!MutatedEnv
<1>5. /\ c \in Container /\ old \in 0 .. Len(heap)
      /\ m \in Seq(Seq(Entry)) /\ Len(heap) <= Len(m)
      /\ s \in 0 .. Len(m) /\ loaded' \in 0 .. Len(m)
      /\ s \in {0, old} \/ s > Len(heap)
      /\ \A j \in 1 .. Len(heap) : j # old => m[j] = heap[j]
      /\ Empty(s, m) = env
      /\ ~A!Stumbles(c, file)
  BY <1>2, MergedFacts
<1> HIDE DEF c, old, merged, m, s
<1>6. Len(heap) \in Nat /\ Len(m) \in Nat
  BY <1>1, <1>5, LenProperties
<1>7. /\ heap' \in Seq(Seq(Entry)) /\ Len(m) <= Len(heap')
      /\ \A j \in 1 .. Len(heap) : j # old => heap'[j] = heap[j]
      /\ r \in 0 .. Len(heap')
      /\ r \in {0, old} \/ r > Len(heap)
      /\ Empty(r, heap') = A!MutatedEnv(c, file)
  <2>1. CASE s = 0 /\ ~A!Asks(c)
    <3>1. r = 0 /\ heap' = m
      BY <1>3, <2>1
    <3>2. Empty(0, m) = env /\ A!MutatedEnv(c, file) = env
      BY <1>4, <1>5, <2>1
    <3> QED BY <1>5, <1>6, <3>1, <3>2 DEF Empty
  <2>2. CASE s = 0 /\ A!Asks(c)
    <3>1. r = Len(m) + 1 /\ all = Append(m, <<>>) /\ heap' = Inject(all, r, c)
      BY <1>3, <1>6, <2>2
    <3>2. env = <<>>
      BY <1>5, <2>2 DEF Empty
    <3>3. <<>> \in Seq(Entry)
      BY EmptySeq
    <3>4. /\ all \in Seq(Seq(Entry)) /\ Len(all) = Len(m) + 1
          /\ \A j \in 1 .. Len(m) : all[j] = m[j]
          /\ all[Len(m) + 1] = <<>>
      BY <1>5, <3>1, <3>3, AppendProperties
    <3>5. ~A!Has(<<>>, A!NumCores)
      BY DEF A!Has
    <3> HIDE DEF all, r, env
    <3>6. r \in 1 .. Len(all)
      BY <1>6, <3>1, <3>4
    <3>7. /\ heap' \in Seq(Seq(Entry)) /\ Len(heap') = Len(m) + 1
          /\ \A j \in 1 .. Len(m) : heap'[j] = m[j]
          /\ heap'[r] = Append(<<>>, [name |-> A!NumCores, value |-> A!Cores(c)])
      <4>1. /\ heap' \in Seq(Seq(Entry)) /\ Len(heap') = Len(all)
            /\ \A j \in 1 .. Len(all) : j # r => heap'[j] = all[j]
            /\ heap'[r] =
                 IF ~A!Asks(c) \/ A!Has(all[r], A!NumCores) THEN all[r]
                 ELSE Append(all[r], [name |-> A!NumCores, value |-> A!Cores(c)])
        BY <1>5, <3>1, <3>4, <3>6, InjectFacts
      <4>2. all[r] = <<>>
        BY <3>1, <3>4
      <4>3. ASSUME NEW j \in 1 .. Len(m) PROVE heap'[j] = m[j]
        <5>1. j \in 1 .. Len(all) /\ j # r
          BY <1>6, <3>1, <3>4
        <5>2. heap'[j] = all[j]
          BY <4>1, <5>1
        <5> QED BY <3>4, <5>2
      <4>4. heap'[r] = Append(<<>>, [name |-> A!NumCores, value |-> A!Cores(c)])
        <5>1. A!Asks(c) /\ ~A!Has(all[r], A!NumCores)
          BY <2>2, <3>5, <4>2
        <5>2. heap'[r] = Append(all[r], [name |-> A!NumCores, value |-> A!Cores(c)])
          BY <4>1, <5>1
        <5> QED BY <4>2, <5>2
      <4> QED BY <3>4, <4>1, <4>3, <4>4
    <3>8. Empty(r, heap') = A!MutatedEnv(c, file)
      <4>1. r # 0
        BY <1>6, <3>1
      <4>2. A!MutatedEnv(c, file) =
              Append(<<>>, [name |-> A!NumCores, value |-> A!Cores(c)])
        BY <1>4, <2>2, <3>2, <3>5
      <4> QED BY <3>7, <4>1, <4>2 DEF Empty
    <3> QED BY <1>5, <1>6, <3>1, <3>7, <3>8
  <2>3. CASE s # 0
    <3>1. r = s /\ all = m /\ heap' = Inject(m, s, c) /\ s \in 1 .. Len(m)
      BY <1>3, <1>5, <1>6, <2>3
    <3>2. m[s] = env
      BY <1>5, <2>3 DEF Empty
    <3> HIDE DEF all, r, env
    <3>3. /\ heap' \in Seq(Seq(Entry)) /\ Len(heap') = Len(m)
          /\ \A j \in 1 .. Len(m) : j # s => heap'[j] = m[j]
          /\ heap'[s] = A!MutatedEnv(c, file)
      BY <1>5, <1>4, <1>5, <3>1, <3>2, InjectFacts
    <3>4. \A j \in 1 .. Len(heap) : j # old => heap'[j] = heap[j]
      BY <1>5, <1>6, <2>3, <3>3
    <3>5. Empty(r, heap') = A!MutatedEnv(c, file)
      BY <2>3, <3>1, <3>3 DEF Empty
    <3> QED BY <1>5, <3>1, <3>3, <3>4, <3>5
  <2> QED BY <1>5, <2>1, <2>2, <2>3
<1> HIDE DEF r, all, env
<1>8. Len(heap) <= Len(heap') /\ loaded' \in 0 .. Len(heap')
  <2>1. Len(heap') \in Nat
    BY <1>7, LenProperties
  <2> QED BY <1>5, <1>6, <1>7, <2>1
<1>9. \E q \in 0 .. Len(heap') :
        /\ envs' = [envs EXCEPT ![next] = q]
        /\ q \in {0, old} \/ q > Len(heap)
        /\ Empty(q, heap') = A!MutatedEnv(c, file)
  <2>1. r \in 0 .. Len(heap')
    BY <1>7
  <2> USE <2>1
  <2> WITNESS r \in 0 .. Len(heap')
  <2> QED BY <1>3, <1>7
<1> QED BY <1>5, <1>7, <1>8, <1>9 DEF c, old

-----------------------------------------------------------------------------
(* The steps *)

\* At first nothing has been asked.
LEMMA StartHolds == Init => WebhookInv
<1> SUFFICES ASSUME Init PROVE WebhookInv
  OBVIOUS
<1> USE DEF Init
<1>1. asked \in Pods /\ phase = "idle" /\ admitted = <<>> /\ mutated = FALSE
  BY DEF A!Init
<1>2. <<>> \in Seq(Seq(Entry)) /\ Len(<<>>) = 0
  BY EmptySeq
<1>3. Len(heap) = 0 /\ <<>> \in Seq(0 .. Len(heap))
  BY <1>2, EmptySeq
<1>4. TypeOK
  <2>1. /\ conn \in 0 .. MaxPods /\ served \in 0 .. conn
        /\ edits \in 0 .. MaxEdits /\ stops \in 0 .. MaxStops
    BY BoundsAssumption
  <2>2. next \in 1 .. Len(envs) + 1 /\ loaded \in 0 .. Len(heap)
    BY <1>2
  <2>3. admitted \in Seq(Seq(Entry)) /\ heap \in Seq(Seq(Entry))
        /\ envs \in Seq(0 .. Len(heap))
    BY <1>1, <1>2, <1>3
  <2> QED BY <1>1, <2>1, <2>2, <2>3 DEF TypeOK
<1>5. CallInv /\ WorkInv /\ EnvsInv
  BY <1>1 DEF CallInv, Open, WorkInv, EnvsInv, Working
<1>6. EnvsSeparate
  BY <1>2 DEF EnvsSeparate
<1> QED BY <1>4, <1>5, <1>6 DEF WebhookInv

\* What a step can do that leaves the pod the server looks at alone.
LEMMA QuietHolds ==
  ASSUME WebhookInv, TypeOK', UNCHANGED podVars,
         at' \in {"idle", "error", at},
         Open' => Open /\ asked' = asked
  PROVE  WebhookInv'
<1> USE DEF podVars
<1>1. CallInv'
  BY DEF WebhookInv, CallInv
<1>2. A!MutationRequired(pod)' <=> A!MutationRequired(pod)
  BY DEF A!MutationRequired
<1>3. Containers' = Containers
  BY DEF Containers
<1>4. WorkInv'
  BY <1>2, <1>3 DEF WebhookInv, WorkInv, Working
<1>5. EnvsInv'
  <2>1. Working' => Working /\ at' = at
    BY DEF Working
  <2>2. \A i : EnvOf(i)' = EnvOf(i)
    BY DEF EnvOf
  <2>3. EnvsInv
    BY DEF WebhookInv
  <2> QED BY <1>3, <2>1, <2>2, <2>3 DEF EnvsInv
<1>6. EnvsSeparate'
  BY DEF WebhookInv, EnvsSeparate
<1> QED BY <1>1, <1>4, <1>5, <1>6 DEF WebhookInv

\* The API server and the operator.
LEMMA OthersHold ==
  ASSUME WebhookInv,
         (\E b \in {"proper", "large", "improper"} : Submit(b)) \/ Ignore \/ Edit
           \/ Stop \/ Start
  PROVE  WebhookInv'
<1> USE BoundsAssumption
<1> USE DEF WebhookInv, TypeOK, podVars, apiVars, Open
<1>1. CASE \E b \in {"proper", "large", "improper"} : Submit(b)
  <2> USE <1>1 DEF Submit, A!Submit
  <2>1. TypeOK'
    OBVIOUS
  <2>2. ~Open'
    OBVIOUS
  <2> QED BY <2>1, <2>2, QuietHolds
<1>2. CASE Ignore
  <2> USE <1>2 DEF Ignore, A!AdmitAsAsked
  <2>1. TypeOK'
    BY PodFacts
  <2>2. Open' => Open /\ asked' = asked
    OBVIOUS
  <2>3. UNCHANGED podVars /\ at' \in {"idle", "error", at}
    OBVIOUS
  <2> QED BY <2>1, <2>2, <2>3, QuietHolds
<1>3. CASE Edit
  <2> USE <1>3 DEF Edit
  <2>1. TypeOK'
    OBVIOUS
  <2>2. Open' => Open /\ asked' = asked
    OBVIOUS
  <2>3. UNCHANGED podVars /\ at' \in {"idle", "error", at}
    OBVIOUS
  <2> QED BY <2>1, <2>2, <2>3, QuietHolds
<1>4. CASE Stop
  <2> USE <1>4 DEF Stop
  <2>1. TypeOK'
    <3>1. stops' \in 0 .. MaxStops
      OBVIOUS
    <3> QED BY <3>1
  <2>2. Open' => Open /\ asked' = asked
    OBVIOUS
  <2>3. UNCHANGED podVars /\ at' \in {"idle", "error", at}
    OBVIOUS
  <2> QED BY <2>1, <2>2, <2>3, QuietHolds
<1>5. CASE Start
  <2> USE <1>5 DEF Start
  <2>1. TypeOK'
    OBVIOUS
  <2>2. Open' => Open /\ asked' = asked
    OBVIOUS
  <2>3. UNCHANGED podVars /\ at' \in {"idle", "error", at}
    OBVIOUS
  <2> QED BY <2>1, <2>2, <2>3, QuietHolds
<1> QED BY <1>1, <1>2, <1>3, <1>4, <1>5

\* The server's steps that end its work on a pod.
LEMMA EndsHold ==
  ASSUME WebhookInv, LoadFails \/ MutateFails \/ Patch \/ Skip \/ NoAnswer
  PROVE  WebhookInv'
<1> USE DEF WebhookInv, TypeOK, podVars, apiVars, Open
<1>1. CASE LoadFails
  <2> USE <1>1 DEF LoadFails
  <2>1. TypeOK'
    OBVIOUS
  <2> QED BY <2>1, QuietHolds
<1>2. CASE MutateFails
  <2> USE <1>2 DEF MutateFails
  <2>1. TypeOK'
    OBVIOUS
  <2> QED BY <2>1, QuietHolds
<1>3. CASE Patch
  <2> USE <1>3 DEF Patch
  <2>1. Len(envs) \in Nat /\ \A i \in 1 .. Len(envs) : envs[i] \in 0 .. Len(heap)
    BY LenProperties, ElementOfSeq
  <2>2. <<>> \in Seq(Entry)
    BY EmptySeq
  <2>3. admitted' \in [1 .. Len(envs) -> Seq(Entry)]
    <3>1. ASSUME NEW i \in 1 .. Len(envs)
          PROVE  (IF envs[i] = 0 THEN <<>> ELSE heap[envs[i]]) \in Seq(Entry)
      <4>1. CASE envs[i] = 0
        BY <2>2, <4>1
      <4>2. CASE envs[i] # 0
        <5>1. envs[i] \in 1 .. Len(heap) /\ heap \in Seq(Seq(Entry))
          BY <2>1, <4>2, LenProperties
        <5> QED BY <4>2, <5>1, ElementOfSeq
      <4> QED BY <4>1, <4>2
    <3> QED BY <3>1
  <2>4. admitted' \in Seq(Seq(Entry))
    BY <2>1, <2>3, SeqDef
  <2>5. TypeOK'
    BY <2>4
  <2>6. UNCHANGED podVars /\ at' = "idle" /\ ~Open'
    OBVIOUS
  <2> QED BY <2>5, <2>6, QuietHolds
<1>4. CASE Skip
  <2> USE <1>4 DEF Skip, A!AdmitAsAsked
  <2>1. TypeOK'
    BY PodFacts
  <2>2. UNCHANGED podVars /\ at' = "idle" /\ ~Open'
    OBVIOUS
  <2> QED BY <2>1, <2>2, QuietHolds
<1>5. CASE NoAnswer
  <2> USE <1>5 DEF NoAnswer
  <2>1. TypeOK'
    OBVIOUS
  <2>2. UNCHANGED podVars /\ at' = "idle"
    OBVIOUS
  <2>3. Open' => Open /\ asked' = asked
    OBVIOUS
  <2> QED BY <2>1, <2>2, <2>3, QuietHolds
<1> QED BY <1>1, <1>2, <1>3, <1>4, <1>5

\* The server starts with the environments as they were asked for.
LEMMA ReceiveHolds == WebhookInv /\ Receive => WebhookInv'
<1> SUFFICES ASSUME WebhookInv, Receive PROVE WebhookInv'
  OBVIOUS
<1> DEFINE n == Len(A!Containers(asked))
<1>1. /\ pod' = asked /\ size' = body /\ heap' = A!Envs(asked)
      /\ envs' = [i \in 1 .. Len(heap') |-> IF heap'[i] = <<>> THEN 0 ELSE i]
      /\ next' = 1 /\ loaded' = 0 /\ served' = conn
      /\ UNCHANGED <<apiVars, file, up, edits, stops>>
  BY DEF Receive
<1>2. /\ asked \in Pods /\ conn \in 0 .. MaxPods
  BY DEF WebhookInv, TypeOK
<1>3. /\ heap' \in Seq(Seq(Entry)) /\ Len(heap') = n /\ n \in Nat
      /\ \A i \in 1 .. n : heap'[i] = A!Containers(asked)[i].env
  BY <1>1, <1>2, PodFacts, LenProperties
<1>4. envs' = [i \in 1 .. n |-> IF heap'[i] = <<>> THEN 0 ELSE i]
  BY <1>1, <1>3
<1> HIDE DEF n
<1>5. envs' \in [1 .. n -> 0 .. n]
  BY <1>3, <1>4
<1>6. envs' \in Seq(0 .. n) /\ Len(envs') = n
  BY <1>3, <1>5, SeqDef, LenProperties
<1>7. at' \in {"error", "perPod", "skip"}
  BY DEF Receive
<1>8. TypeOK'
  <2>1. TypeOK
    BY DEF WebhookInv
  <2>2. next' \in 1 .. Len(envs') + 1 /\ loaded' \in 0 .. Len(heap')
    BY <1>1, <1>3, <1>6
  <2> QED BY <1>1, <1>2, <1>3, <1>6, <1>7, <2>1, <2>2, BoundsAssumption
          DEF TypeOK, apiVars
<1>9. CallInv'
  BY <1>1 DEF CallInv, apiVars
<1>10. WorkInv'
  <2>1. at' = "perPod" => A!MutationRequired(asked)
    BY DEF Receive
  <2>2. at' = "skip" => ~A!MutationRequired(asked)
    BY DEF Receive
  <2>3. A!MutationRequired(pod)' <=> A!MutationRequired(asked)
    BY <1>1 DEF A!MutationRequired
  <2>4. Len(Containers') = n
    BY <1>1 DEF Containers, n
  <2> QED BY <1>6, <1>7, <2>1, <2>2, <2>3, <2>4 DEF WorkInv, Working
<1>11. EnvsInv'
  <2>1. Containers' = A!Containers(asked)
    BY <1>1 DEF Containers
  <2>2. ASSUME NEW i \in 1 .. n PROVE EnvOf(i)' = heap'[i]
    BY <1>3, <1>4 DEF EnvOf
  <2>3. \A i \in 1 .. n : ~(i < next')
    BY <1>1, <1>3
  <2> QED BY <1>3, <1>7, <2>1, <2>2, <2>3 DEF EnvsInv, n
<1>12. EnvsSeparate'
  BY <1>4, <1>6 DEF EnvsSeparate
<1> QED BY <1>8, <1>9, <1>10, <1>11, <1>12 DEF WebhookInv

\* The mutations of the pod are merged; the containers are as they were.
LEMMA MergePodHolds == WebhookInv /\ MergePod => WebhookInv'
<1> SUFFICES ASSUME WebhookInv, MergePod PROVE WebhookInv'
  OBVIOUS
<1>1. /\ TypeOK /\ CallInv /\ WorkInv /\ EnvsInv /\ EnvsSeparate
  BY DEF WebhookInv
<1>2. /\ at = "perPod" /\ at' \in {"container", "error"}
      /\ heap' = WithFile(heap, file) /\ loaded' = FileRef(heap, file)
      /\ UNCHANGED <<apiVars, file, up, served, pod, size, next, envs, edits, stops>>
  BY DEF MergePod, Load, HeapLoaded, WithFile, FileRef
<1>3. /\ heap \in Seq(Seq(Entry)) /\ file \in Files /\ envs \in Seq(0 .. Len(heap))
      /\ pod \in Pods
  BY <1>1 DEF TypeOK
<1>4. file.env \in Seq(Entry) /\ Len(heap) \in Nat
  BY <1>3, FilesAssumption, LenProperties
<1>5. /\ heap' \in Seq(Seq(Entry)) /\ Len(heap) <= Len(heap')
      /\ loaded' \in 0 .. Len(heap')
      /\ \A j \in 1 .. Len(heap) : heap'[j] = heap[j]
  <2>1. CASE file.hasEnv
    <3>1. heap' = Append(heap, file.env) /\ loaded' = Len(heap) + 1
      BY <1>2, <2>1 DEF WithFile, FileRef
    <3> QED BY <1>3, <1>4, <3>1, AppendProperties
  <2>2. CASE ~file.hasEnv
    <3>1. heap' = heap /\ loaded' = 0
      BY <1>2, <2>2 DEF WithFile, FileRef
    <3> QED BY <1>3, <1>4, <3>1
  <2> QED BY <2>1, <2>2
<1>6. Len(heap') \in Nat
  BY <1>5, LenProperties
<1>7. envs' \in Seq(0 .. Len(heap'))
  <2>1. 0 .. Len(heap) \subseteq 0 .. Len(heap')
    BY <1>4, <1>5, <1>6
  <2> QED BY <1>2, <1>3, <2>1, SeqMonotonic
<1>8. TypeOK'
  BY <1>1, <1>2, <1>5, <1>7, BoundsAssumption DEF TypeOK, apiVars
<1>9. CallInv'
  BY <1>1, <1>2 DEF CallInv, Open, apiVars
<1>10. Containers' = Containers /\ (A!MutationRequired(pod)' <=> A!MutationRequired(pod))
  BY <1>2 DEF Containers, A!MutationRequired
<1>11. WorkInv'
  BY <1>1, <1>2, <1>10 DEF WorkInv, Working
<1>12. EnvsInv'
  <2>1. Len(envs) = Len(Containers)
    BY <1>1, <1>2 DEF WorkInv, Working
  <2>2. ASSUME NEW i \in 1 .. Len(Containers) PROVE EnvOf(i)' = EnvOf(i)
    <3>1. envs[i] \in 0 .. Len(heap)
      BY <1>3, <2>1, ElementOfSeq
    <3> QED BY <1>2, <1>4, <1>5, <3>1 DEF EnvOf
  <2> QED BY <1>1, <1>2, <1>10, <2>2 DEF EnvsInv, Working
<1>13. EnvsSeparate'
  BY <1>1, <1>2 DEF EnvsSeparate
<1> QED BY <1>8, <1>9, <1>11, <1>12, <1>13 DEF WebhookInv

\* A step that gives the next container a list of its own, or a new one, leaves
\* the others' environments alone.
LEMMA OneMore ==
  ASSUME TypeOK, EnvsSeparate, Len(envs) = Len(Containers), next <= Len(Containers),
         heap' \in Seq(Seq(Entry)), Len(heap) <= Len(heap'),
         \A j \in 1 .. Len(heap) : j # envs[next] => heap'[j] = heap[j],
         NEW r \in 0 .. Len(heap'),
         envs' = [envs EXCEPT ![next] = r],
         r \in {0, envs[next]} \/ r > Len(heap)
  PROVE  /\ envs' \in Seq(0 .. Len(heap')) /\ Len(envs') = Len(envs)
         /\ Len(envs) \in Nat /\ next \in 1 .. Len(envs)
         /\ \A i \in 1 .. Len(Containers) :
              EnvOf(i)' = IF i = next THEN Empty(r, heap') ELSE EnvOf(i)
         /\ EnvsSeparate'
<1>1. /\ heap \in Seq(Seq(Entry)) /\ envs \in Seq(0 .. Len(heap))
      /\ Len(heap) \in Nat /\ Len(heap') \in Nat /\ Len(envs) \in Nat
      /\ next \in 1 .. Len(envs)
  BY LenProperties DEF TypeOK
<1>2. envs \in Seq(0 .. Len(heap'))
  <2>1. 0 .. Len(heap) \subseteq 0 .. Len(heap')
    BY <1>1
  <2> QED BY <1>1, <2>1, SeqMonotonic
<1>3. /\ envs' \in Seq(0 .. Len(heap')) /\ Len(envs') = Len(envs)
      /\ \A j \in 1 .. Len(envs) : envs'[j] = IF j = next THEN r ELSE envs[j]
  BY <1>1, <1>2, ExceptSeq
<1>4. \A j \in 1 .. Len(envs) : envs[j] \in 0 .. Len(heap)
  BY <1>1, ElementOfSeq
<1>5. \A a, b \in 1 .. Len(envs) : envs[a] = envs[b] /\ envs[a] # 0 => a = b
  BY DEF EnvsSeparate
<1> DEFINE E(i) == IF envs'[i] = 0 THEN <<>> ELSE heap'[envs'[i]]
<1>6. E(next) = Empty(r, heap')
  <2>1. envs'[next] = r
    BY <1>1, <1>3
  <2> QED BY <2>1 DEF Empty
<1>7. ASSUME NEW i \in 1 .. Len(Containers), i # next
      PROVE  E(i) = EnvOf(i)
  <2>1. envs'[i] = envs[i] /\ envs[i] \in 0 .. Len(heap)
    BY <1>3, <1>4, <1>7
  <2>2. envs[i] # 0 => envs[i] # envs[next]
    BY <1>1, <1>5, <1>7
  <2>3. CASE envs[i] = 0
    BY <2>1, <2>3 DEF EnvOf
  <2>4. CASE envs[i] # 0
    <3>1. envs[i] \in 1 .. Len(heap) /\ envs[i] # envs[next]
      BY <1>1, <2>1, <2>2, <2>4
    <3>2. heap'[envs[i]] = heap[envs[i]]
      BY <3>1
    <3> QED BY <2>1, <2>4, <3>2 DEF EnvOf
  <2> QED BY <2>3, <2>4
<1>8. \A i : EnvOf(i)' = E(i)
  BY DEF EnvOf
<1>9. EnvsSeparate'
  <2> SUFFICES ASSUME NEW i \in 1 .. Len(envs), NEW j \in 1 .. Len(envs),
                      envs'[i] = envs'[j], envs'[i] # 0
               PROVE  i = j
    BY <1>3 DEF EnvsSeparate
  <2>1. \A a \in 1 .. Len(envs) : r = envs[a] /\ r # 0 => a = next
    BY <1>1, <1>4, <1>5
  <2> QED BY <1>1, <1>3, <1>5, <2>1
<1> HIDE DEF E
<1> QED BY <1>1, <1>3, <1>6, <1>7, <1>8, <1>9

\* One more container is mutated: its list is its own, or a new one.
LEMMA MutateHolds == WebhookInv /\ Mutate => WebhookInv'
<1> SUFFICES ASSUME WebhookInv, Mutate PROVE WebhookInv'
  OBVIOUS
<1>1. /\ TypeOK /\ CallInv /\ WorkInv /\ EnvsInv /\ EnvsSeparate
  BY DEF WebhookInv
<1>2. /\ at = "container" /\ at' = at /\ next <= Len(Containers) /\ next' = next + 1
      /\ file.parses /\ file \in Files
      /\ UNCHANGED <<apiVars, file, up, served, pod, size, edits, stops>>
  BY <1>1 DEF Mutate, Load, TypeOK
<1>3. Len(envs) = Len(Containers) /\ next \in 1 .. Len(envs) /\ next \in Nat
  BY <1>1, <1>2, LenProperties DEF TypeOK, WorkInv, Working
<1>4. EnvOf(next) = Containers[next].env
  BY <1>1, <1>2, <1>3 DEF EnvsInv, Working
<1>5. /\ heap' \in Seq(Seq(Entry)) /\ Len(heap) <= Len(heap')
      /\ loaded' \in 0 .. Len(heap')
      /\ \A j \in 1 .. Len(heap) : j # envs[next] => heap'[j] = heap[j]
      /\ \E r \in 0 .. Len(heap') :
           /\ envs' = [envs EXCEPT ![next] = r]
           /\ r \in {0, envs[next]} \/ r > Len(heap)
           /\ Empty(r, heap') = A!MutatedEnv(Containers[next], file)
      /\ ~A!Stumbles(Containers[next], file)
  BY <1>1, <1>3, <1>4, ApplyFacts
<1>6. /\ envs' \in Seq(0 .. Len(heap')) /\ Len(envs') = Len(envs) /\ Len(envs) \in Nat
      /\ \A i \in 1 .. Len(Containers) :
           EnvOf(i)' = IF i = next THEN A!MutatedEnv(Containers[i], file) ELSE EnvOf(i)
      /\ EnvsSeparate'
  <2>1. PICK r \in 0 .. Len(heap') :
          /\ envs' = [envs EXCEPT ![next] = r]
          /\ r \in {0, envs[next]} \/ r > Len(heap)
          /\ Empty(r, heap') = A!MutatedEnv(Containers[next], file)
    BY <1>5
  <2> QED BY <1>1, <1>2, <1>3, <1>5, <2>1, OneMore
<1>7. TypeOK'
  <2>1. next' \in 1 .. Len(envs') + 1
    BY <1>2, <1>3, <1>6
  <2> QED BY <1>1, <1>2, <1>5, <1>6, <2>1 DEF TypeOK, apiVars
<1>8. CallInv'
  BY <1>1, <1>2 DEF CallInv, Open, apiVars
<1>9. Containers' = Containers /\ (A!MutationRequired(pod)' <=> A!MutationRequired(pod))
  BY <1>2 DEF Containers, A!MutationRequired
<1>10. WorkInv'
  BY <1>1, <1>2, <1>6, <1>9 DEF WorkInv, Working
<1>11. EnvsInv'
  <2> SUFFICES ASSUME NEW i \in 1 .. Len(Containers)
               PROVE  IF i < next'
                        THEN \E f \in Files : /\ f.parses
                               /\ ~A!Stumbles(Containers[i], f)
                               /\ EnvOf(i)' = A!MutatedEnv(Containers[i], f)
                        ELSE EnvOf(i)' = Containers[i].env
    BY <1>2, <1>9 DEF EnvsInv
  <2>1. CASE i = next
    <3>1. i < next'
      BY <1>2, <1>3, <2>1
    <3> QED BY <1>2, <1>5, <1>6, <2>1, <3>1
  <2>2. CASE i # next
    <3>1. i < next' <=> i < next
      BY <1>2, <1>3, <2>2
    <3>2. IF i < next
            THEN \E f \in Files : /\ f.parses /\ ~A!Stumbles(Containers[i], f)
                                  /\ EnvOf(i) = A!MutatedEnv(Containers[i], f)
            ELSE EnvOf(i) = Containers[i].env
      BY <1>1, <1>2 DEF EnvsInv, Working
    <3> QED BY <1>6, <2>2, <3>1, <3>2
  <2> QED BY <2>1, <2>2
<1> QED BY <1>6, <1>7, <1>8, <1>10, <1>11 DEF WebhookInv

\* The container is merged only: of an ordinary one nothing goes out, an init
\* container is the last that is touched.
LEMMA StumbleHolds == WebhookInv /\ MutateStumbles => WebhookInv'
<1> SUFFICES ASSUME WebhookInv, MutateStumbles PROVE WebhookInv'
  OBVIOUS
<1>1. /\ TypeOK /\ CallInv /\ WorkInv /\ EnvsInv /\ EnvsSeparate
  BY DEF WebhookInv
<1> DEFINE m == Merge(HeapLoaded, envs[next], loaded')[1]
           r == Merge(HeapLoaded, envs[next], loaded')[2]
<1>2. /\ at = "container" /\ next <= Len(Containers) /\ next' = next
      /\ at' = IF next > Len(pod.containers) THEN "reply" ELSE "error"
      /\ file.parses /\ file \in Files
      /\ Load /\ NamelessAt(HeapLoaded, loaded')
      /\ heap' = m /\ envs' = [envs EXCEPT ![next] = r]
      /\ UNCHANGED <<apiVars, file, up, served, pod, size, edits, stops>>
  BY <1>1 DEF MutateStumbles, Load, TypeOK
<1>3. Len(envs) = Len(Containers) /\ next \in 1 .. Len(envs) /\ next \in Nat
  BY <1>1, <1>2, LenProperties DEF TypeOK, WorkInv, Working
<1>4. EnvOf(next) = Containers[next].env
  BY <1>1, <1>2, <1>3 DEF EnvsInv, Working
<1>5. /\ m \in Seq(Seq(Entry)) /\ Len(heap) <= Len(m)
      /\ r \in 0 .. Len(m) /\ loaded' \in 0 .. Len(m)
      /\ r \in {0, envs[next]} \/ r > Len(heap)
      /\ \A j \in 1 .. Len(heap) : j # envs[next] => m[j] = heap[j]
      /\ Empty(r, m) = A!MergedEnv(Containers[next], file)
      /\ A!Stumbles(Containers[next], file)
  BY <1>1, <1>2, <1>3, <1>4, MergedFacts
<1> HIDE DEF m, r
<1>6. /\ envs' \in Seq(0 .. Len(heap')) /\ Len(envs') = Len(envs) /\ Len(envs) \in Nat
      /\ \A i \in 1 .. Len(Containers) :
           EnvOf(i)' = IF i = next THEN A!MergedEnv(Containers[i], file) ELSE EnvOf(i)
      /\ EnvsSeparate'
  BY <1>1, <1>2, <1>3, <1>5, OneMore
<1>7. TypeOK'
  <2>1. next' \in 1 .. Len(envs') + 1
    BY <1>2, <1>3, <1>6
  <2> QED BY <1>1, <1>2, <1>5, <1>6, <2>1 DEF TypeOK, apiVars
<1>8. CallInv'
  BY <1>1, <1>2 DEF CallInv, Open, apiVars
<1>9. Containers' = Containers /\ (A!MutationRequired(pod)' <=> A!MutationRequired(pod))
  BY <1>2 DEF Containers, A!MutationRequired
<1>10. WorkInv'
  BY <1>1, <1>2, <1>6, <1>9 DEF WorkInv, Working
<1>11. EnvsInv'
  <2> SUFFICES ASSUME at' = "reply", NEW i \in 1 .. Len(Containers)
               PROVE  IF i < next
                        THEN \E f \in Files : /\ f.parses
                               /\ ~A!Stumbles(Containers[i], f)
                               /\ EnvOf(i)' = A!MutatedEnv(Containers[i], f)
                      ELSE IF i = next
                        THEN \E f \in Files : /\ f.parses
                               /\ A!Stumbles(Containers[i], f)
                               /\ EnvOf(i)' = A!MergedEnv(Containers[i], f)
                      ELSE EnvOf(i)' = Containers[i].env
    BY <1>2, <1>9 DEF EnvsInv, Working
  <2>1. CASE i = next
    BY <1>2, <1>3, <1>5, <1>6, <2>1
  <2>2. CASE i # next
    <3>1. IF i < next
            THEN \E f \in Files : /\ f.parses /\ ~A!Stumbles(Containers[i], f)
                                  /\ EnvOf(i) = A!MutatedEnv(Containers[i], f)
            ELSE EnvOf(i) = Containers[i].env
      BY <1>1, <1>2 DEF EnvsInv, Working
    <3> QED BY <1>6, <2>2, <3>1
  <2> QED BY <2>1, <2>2
<1> QED BY <1>6, <1>7, <1>8, <1>10, <1>11 DEF WebhookInv

\* After the last container the reply is ready.
LEMMA MutatedHolds == WebhookInv /\ Mutated => WebhookInv'
<1> SUFFICES ASSUME WebhookInv, Mutated PROVE WebhookInv'
  OBVIOUS
<1>1. /\ TypeOK /\ CallInv /\ WorkInv /\ EnvsInv /\ EnvsSeparate
  BY DEF WebhookInv
<1>2. /\ at = "container" /\ at' = "reply" /\ next > Len(Containers)
      /\ UNCHANGED <<apiVars, file, up, served, podVars, edits, stops>>
  BY DEF Mutated
<1>3. TypeOK'
  BY <1>1, <1>2 DEF TypeOK, apiVars, podVars
<1>4. CallInv'
  BY <1>1, <1>2 DEF CallInv, Open, apiVars, podVars
<1>5. Containers' = Containers /\ (A!MutationRequired(pod)' <=> A!MutationRequired(pod))
  BY <1>2 DEF Containers, A!MutationRequired, podVars
<1>6. WorkInv'
  <2>1. /\ Len(Containers) \in Nat /\ next \in Nat
        /\ Len(pod.containers) \in Nat /\ Len(pod.containers) <= Len(Containers)
    BY <1>1, PodFacts, LenProperties DEF TypeOK, Containers
  <2>2. next > Len(pod.containers)
    BY <1>2, <2>1
  <2> QED BY <1>1, <1>2, <1>5, <2>2 DEF WorkInv, Working, podVars
<1>7. EnvsInv'
  <2>1. \A i : EnvOf(i)' = EnvOf(i)
    BY <1>2 DEF EnvOf, podVars
  <2> QED BY <1>1, <1>2, <1>5, <2>1 DEF EnvsInv, Working, podVars
<1>8. EnvsSeparate'
  BY <1>1, <1>2 DEF EnvsSeparate, podVars
<1> QED BY <1>3, <1>4, <1>6, <1>7, <1>8 DEF WebhookInv

\* WebhookInv is inductive.
LEMMA NextHolds == WebhookInv /\ [Next]_vars => WebhookInv'
<1> SUFFICES ASSUME WebhookInv, [Next]_vars PROVE WebhookInv'
  OBVIOUS
<1>1. CASE UNCHANGED vars
  <2>1. TypeOK'
    BY <1>1 DEF WebhookInv, TypeOK, vars, apiVars, podVars
  <2>2. UNCHANGED podVars /\ at' = at /\ (Open' => Open /\ asked' = asked)
    BY <1>1 DEF vars, apiVars, Open
  <2> QED BY <2>1, <2>2, QuietHolds
<1>2. CASE Next
  BY <1>2, OthersHold, EndsHold, ReceiveHolds, MergePodHolds, MutateHolds,
     StumbleHolds, MutatedHolds DEF Next, Serve
<1> QED BY <1>1, <1>2

-----------------------------------------------------------------------------
(* The theorems *)

\* The inductive invariant of the webhook.
THEOREM WebhookInvariant == Spec => []WebhookInv
BY StartHolds, NextHolds, PTL DEF Spec

\* Type correctness of the webhook.
THEOREM TypeCorrect == Spec => []TypeOK
<1>1. WebhookInv => TypeOK
  BY DEF WebhookInv
<1> QED BY <1>1, WebhookInvariant, PTL

\* yamlreader merges by reference; still no two containers of a pod share a
\* list of variables, whatever the mutations file holds and becomes.
THEOREM EnvsStaySeparate == Spec => []EnvsSeparate
<1>1. WebhookInv => EnvsSeparate
  BY DEF WebhookInv
<1> QED BY <1>1, WebhookInvariant, PTL

\* An answer of the server is a mutation of every container, or of all until an
\* init container stumbles.
LEMMA PatchAdmits == WebhookInv /\ Patch => A!AdmitMutated
<1> SUFFICES ASSUME WebhookInv, Patch PROVE A!AdmitMutated
  OBVIOUS
<1>1. /\ TypeOK /\ CallInv /\ WorkInv /\ EnvsInv
  BY DEF WebhookInv
<1>2. /\ at = "reply" /\ phase = "asked" /\ phase' = "admitted" /\ mutated' = TRUE
      /\ asked' = asked /\ pod = asked
      /\ admitted' = [i \in 1 .. Len(envs) |-> IF envs[i] = 0 THEN <<>> ELSE heap[envs[i]]]
  BY <1>1 DEF Patch, CallInv, Open
<1>3. /\ A!MutationRequired(asked) /\ Len(envs) = Len(Containers)
      /\ next > Len(asked.containers) /\ Containers = A!Containers(asked)
  BY <1>1, <1>2 DEF WorkInv, Working, Containers
<1>4. next \in 1 .. Len(envs) + 1 /\ Len(envs) \in Nat
  BY <1>1, LenProperties DEF TypeOK
<1>5. Len(admitted') = Len(envs)
  <2>1. admitted' \in Seq(Seq(Entry))
    BY EndsHold DEF WebhookInv, TypeOK
  <2> QED BY <1>2, <1>4, <2>1, LenProperties
<1>6. \A i \in 1 .. Len(Containers) : admitted'[i] = EnvOf(i)
  BY <1>2, <1>3, <1>4 DEF EnvOf
<1> DEFINE done == next - 1
<1>7. done \in Len(asked.containers) .. Len(Containers)
  <2>1. asked.containers \in Seq(Container)
    BY <1>1, PodsAssumption DEF TypeOK
  <2>2. Len(asked.containers) \in Nat
    BY <2>1, LenProperties
  <2> QED BY <1>3, <1>4, <2>2
<1>8. ASSUME NEW i \in 1 .. Len(Containers)
      PROVE  LET c == Containers[i]
             IN  \/ /\ i <= done
                    /\ \E f \in Files : /\ f.parses /\ ~A!Stumbles(c, f)
                                        /\ admitted'[i] = A!MutatedEnv(c, f)
                 \/ /\ i = done + 1
                    /\ \E f \in Files : /\ f.parses /\ A!Stumbles(c, f)
                                        /\ admitted'[i] = A!MergedEnv(c, f)
                 \/ i > done + 1 /\ admitted'[i] = c.env
  <2>1. /\ i < next => i <= done
        /\ i = next => i = done + 1
        /\ ~(i < next) /\ i # next => i > done + 1
    BY <1>4
  <2>2. LET c == Containers[i]
        IN  IF i < next
              THEN \E f \in Files : /\ f.parses /\ ~A!Stumbles(c, f)
                                    /\ EnvOf(i) = A!MutatedEnv(c, f)
            ELSE IF i = next
              THEN \E f \in Files : /\ f.parses /\ A!Stumbles(c, f)
                                    /\ EnvOf(i) = A!MergedEnv(c, f)
            ELSE EnvOf(i) = c.env
    BY <1>1, <1>2 DEF EnvsInv, Working
  <2> HIDE DEF done
  <2> QED BY <1>6, <2>1, <2>2
<1> HIDE DEF done
<1> QED BY <1>2, <1>3, <1>5, <1>7, <1>8 DEF A!AdmitMutated

\* Every step is one of Admission or none.
LEMMA Steps == WebhookInv /\ [Next]_vars => [A!Next]_(A!vars)
<1> SUFFICES ASSUME WebhookInv, [Next]_vars PROVE [A!Next]_(A!vars)
  OBVIOUS
<1> USE DEF A!Next, A!vars
<1>1. CASE \E b \in {"proper", "large", "improper"} : Submit(b)
  BY <1>1 DEF Submit
<1>2. CASE Ignore \/ Skip
  BY <1>2 DEF Ignore, Skip
<1>3. CASE Patch
  BY <1>3, PatchAdmits
<1>4. CASE \/ Edit \/ Stop \/ Start \/ Receive \/ LoadFails \/ MergePod \/ Mutate
           \/ MutateStumbles \/ MutateFails \/ Mutated \/ NoAnswer \/ UNCHANGED vars
  BY <1>4 DEF Edit, Stop, Start, Receive, LoadFails, MergePod, Mutate,
              MutateStumbles, MutateFails, Mutated, NoAnswer, vars, apiVars
<1> QED BY <1>1, <1>2, <1>3, <1>4 DEF Next, Serve

\* The server implements Admission: whatever fails, however late it answers, a
\* pod is admitted as asked or with every container mutated once, but for the
\* init containers from one on that has an entry without a name.
THEOREM ImplementsAdmission == Spec => Promise
<1>1. Init => A!Init
  BY DEF Init
<1> QED BY <1>1, Steps, WebhookInvariant, PTL DEF Spec, Promise, A!Spec

\* An answer that is taken is the one to the pod asked about, and has a patch
\* just if is_mutation_required says so of this pod: it is annotated, or an
\* ordinary container names an amount, be it 0.
THEOREM AnswersAreRight == Spec => AnsweredRight
<1>1. WebhookInv /\ [Next]_vars =>
        (phase = "asked" /\ phase' = "admitted" /\ at # at'
           => mutated' = A!MutationRequired(asked))
  <2> SUFFICES ASSUME WebhookInv, [Next]_vars,
                      phase = "asked", phase' = "admitted", at # at'
               PROVE  mutated' = A!MutationRequired(asked)
    OBVIOUS
  <2>1. A!MutationRequired(asked) \in BOOLEAN
    <3>1. asked.annotated \in BOOLEAN
      BY PodsAssumption DEF WebhookInv, TypeOK
    <3> QED BY <3>1 DEF A!MutationRequired
  <2>2. CASE Patch
    <3>1. A!MutationRequired(asked) /\ mutated' = TRUE
      BY <2>2, PatchAdmits DEF A!AdmitMutated
    <3> QED BY <2>1, <3>1
  <2>3. CASE Skip
    <3>1. pod = asked /\ mutated' = FALSE /\ ~A!MutationRequired(pod)
      BY <2>3 DEF Skip, A!AdmitAsAsked, WebhookInv, CallInv, WorkInv
    <3> QED BY <2>1, <3>1
  <2>4. CASE ~Patch /\ ~Skip
    BY <2>4 DEF Next, Serve, Submit, A!Submit, Ignore, Edit, Stop, Start, Receive,
       LoadFails, MergePod, Mutate, MutateStumbles, MutateFails, Mutated, NoAnswer,
       vars, apiVars
  <2> QED BY <2>2, <2>3, <2>4
<1> QED BY <1>1, WebhookInvariant, PTL DEF Spec, AnsweredRight

-----------------------------------------------------------------------------
(* What a mutated container has *)

\* A merge only adds to an environment.
LEMMA MergeAdds ==
  ASSUME NEW c \in Container, NEW f \in Files
  PROVE  LET e == A!MergedEnv(c, f)
         IN  /\ c.env \in Seq(Entry) /\ e \in Seq(Entry)
             /\ Len(c.env) \in Nat /\ Len(e) \in Nat
             /\ Len(e) >= Len(c.env)
             /\ \A j \in 1 .. Len(c.env) : e[j] = c.env[j]
<1> DEFINE env == c.env \o FileEnv(f)
<1>1. c.env \in Seq(Entry) /\ FileEnv(f) \in Seq(Entry)
  <2>1. <<>> \in Seq(Entry)
    OBVIOUS
  <2> QED BY <2>1, FilesAssumption DEF Container, FileEnv
<1>2. env \in Seq(Entry) /\ Len(env) = Len(c.env) + Len(FileEnv(f))
  BY <1>1, ConcatProperties
<1>3. Len(c.env) \in Nat /\ Len(FileEnv(f)) \in Nat
  BY <1>1, LenProperties
<1>4. \A j \in 1 .. Len(c.env) : env[j] = c.env[j]
  BY <1>1, <1>3, ConcatProperties
<1>5. A!MergedEnv(c, f) = env
  BY DEF A!MergedEnv, FileEnv
<1> HIDE DEF env
<1> QED BY <1>1, <1>2, <1>3, <1>4, <1>5

\* So does a mutation, which also adds the number of cores where it is wanted.
LEMMA MutationTells ==
  ASSUME NEW c \in Container, NEW f \in Files
  PROVE  LET e == A!MutatedEnv(c, f)
         IN  /\ Len(e) >= Len(c.env)
             /\ \A j \in 1 .. Len(c.env) : e[j] = c.env[j]
             /\ A!Asks(c) => A!Has(e, A!NumCores)
<1> DEFINE env == A!MergedEnv(c, f)
           last == [name |-> A!NumCores, value |-> A!Cores(c)]
<1>1. /\ env \in Seq(Entry) /\ Len(c.env) \in Nat /\ Len(env) \in Nat
      /\ Len(env) >= Len(c.env)
      /\ \A j \in 1 .. Len(c.env) : env[j] = c.env[j]
  BY MergeAdds
<1>2. A!MutatedEnv(c, f) = IF ~A!Asks(c) \/ A!Has(env, A!NumCores) THEN env
                           ELSE Append(env, last)
  BY DEF A!MutatedEnv
<1> HIDE DEF env
<1>3. CASE ~A!Asks(c) \/ A!Has(env, A!NumCores)
  BY <1>1, <1>2, <1>3
<1>4. CASE A!Asks(c) /\ ~A!Has(env, A!NumCores)
  <2>1. last \in Entry
    BY <1>4, CoresFacts
  <2> HIDE DEF last
  <2> DEFINE e == Append(env, last)
  <2>2. /\ Len(e) = Len(env) + 1
        /\ \A j \in 1 .. Len(env) : e[j] = env[j]
        /\ e[Len(env) + 1] = last
    BY <1>1, <2>1, AppendProperties
  <2>3. A!MutatedEnv(c, f) = e
    BY <1>2, <1>4
  <2> HIDE DEF e
  <2>4. A!Has(e, A!NumCores)
    <3>1. e[Len(env) + 1].name = A!NumCores
      BY <2>2 DEF last
    <3>2. Len(env) + 1 \in 1 .. Len(e)
      BY <1>1, <2>2
    <3> QED BY <3>1, <3>2 DEF A!Has
  <2>5. Len(e) >= Len(c.env) /\ \A j \in 1 .. Len(c.env) : e[j] = c.env[j]
    BY <1>1, <2>2
  <2> QED BY <2>3, <2>4, <2>5
<1> QED BY <1>3, <1>4

\* A step of Admission keeps the promise.
LEMMA ToldStep ==
  ASSUME asked \in Pods, A!Told, [A!Next]_(A!vars)
  PROVE  asked' \in Pods /\ A!Told'
<1>1. CASE A!Submit
  BY <1>1 DEF A!Submit, A!Told
<1>2. CASE A!AdmitAsAsked
  BY <1>2 DEF A!AdmitAsAsked, A!Told
<1>3. CASE A!AdmitMutated
  <2>1. asked' = asked /\ A!Containers(asked)' = A!Containers(asked)
    BY <1>3 DEF A!AdmitMutated, A!Containers
  <2> DEFINE Cs == A!Containers(asked)
             n == Len(asked.containers)
  <2>2. PICK done \in n .. Len(Cs) :
          \A i \in 1 .. Len(Cs) :
            LET c == Cs[i]
            IN  \/ /\ i <= done
                   /\ \E f \in Files : /\ f.parses /\ ~A!Stumbles(c, f)
                                       /\ admitted'[i] = A!MutatedEnv(c, f)
                \/ /\ i = done + 1
                   /\ \E f \in Files : /\ f.parses /\ A!Stumbles(c, f)
                                       /\ admitted'[i] = A!MergedEnv(c, f)
                \/ i > done + 1 /\ admitted'[i] = c.env
    BY <1>3 DEF A!AdmitMutated
  <2>3. n \in Nat /\ \A i \in 1 .. Len(Cs) : Cs[i] \in Container
    <3>1. asked.containers \in Seq(Container)
      BY PodsAssumption
    <3> QED BY <3>1, PodFacts, LenProperties
  <2> HIDE DEF Cs, n
  <2>4. ASSUME NEW i \in 1 .. Len(Cs)
        PROVE  /\ Len(admitted'[i]) >= Len(Cs[i].env)
               /\ \A j \in 1 .. Len(Cs[i].env) : admitted'[i][j] = Cs[i].env[j]
               /\ A!Asks(Cs[i]) => \/ A!Has(admitted'[i], A!NumCores)
                                   \/ \E k \in n + 1 .. i : A!Has(admitted'[k], A!Nameless)
    <3>1. CASE i <= done
      <4>1. PICK f \in Files : admitted'[i] = A!MutatedEnv(Cs[i], f)
        BY <2>2, <3>1
      <4> QED BY <2>3, <4>1, MutationTells
    <3>2. CASE i > done
      <4>1. done + 1 \in n + 1 .. i /\ done + 1 \in 1 .. Len(Cs)
        BY <2>3, <3>2
      <4>2. A!Has(admitted'[done + 1], A!Nameless)
        BY <2>2, <4>1 DEF A!Stumbles
      <4>3. \/ \E f \in Files : admitted'[i] = A!MergedEnv(Cs[i], f)
            \/ admitted'[i] = Cs[i].env
        BY <2>2, <3>2
      <4>4. /\ Len(admitted'[i]) >= Len(Cs[i].env)
            /\ \A j \in 1 .. Len(Cs[i].env) : admitted'[i][j] = Cs[i].env[j]
        <5>1. Len(Cs[i].env) \in Nat
          BY <2>3, LenProperties DEF Container
        <5> QED BY <2>3, <4>3, <5>1, MergeAdds
      <4> QED BY <4>1, <4>2, <4>4
    <3> QED BY <3>1, <3>2
  <2> QED BY <2>1, <2>4 DEF A!Told, Cs, n
<1>4. CASE UNCHANGED A!vars
  BY <1>4 DEF A!vars, A!Told, A!Containers
<1> QED BY <1>1, <1>2, <1>3, <1>4 DEF A!Next

\* What Admission promises is worth something: whoever implements it leaves each
\* author's environment in place and tells each container that names an amount its
\* cores, but for the init containers from a nameless entry on; so does the
\* webhook.
THEOREM ContainersAreTold == (A!Spec => []A!Told) /\ (Spec => []A!Told)
<1> DEFINE AInv == asked \in Pods /\ A!Told
<1>1. A!Init => AInv
  BY DEF A!Init, A!Told
<1>2. AInv /\ [A!Next]_(A!vars) => AInv'
  BY ToldStep
<1>3. AInv => A!Told
  OBVIOUS
<1> HIDE DEF AInv
<1>4. A!Spec => []A!Told
  BY <1>1, <1>2, <1>3, PTL DEF A!Spec
<1>5. Spec => A!Spec
  BY ImplementsAdmission DEF Promise
<1> QED BY <1>4, <1>5, PTL

-----------------------------------------------------------------------------
(* Every call comes to an end *)

\* What is left is a number.
LEMMA LeftIsNat ==
  ASSUME WebhookInv
  PROVE  /\ Left \in Nat /\ Len(envs) \in Nat /\ next \in 1 .. Len(envs) + 1
         /\ at \in {"idle", "error", "reply", "skip"} => Left = IF at = "idle" THEN 0 ELSE 1
         /\ at \in {"container", "perPod"} =>
              Left = Len(envs) + 1 - next + (IF at = "container" THEN 2 ELSE 3)
<1>1. /\ at \in {"idle", "perPod", "container", "reply", "skip", "error"}
      /\ Len(envs) \in Nat /\ next \in 1 .. Len(envs) + 1
  BY LenProperties DEF WebhookInv, TypeOK
<1> QED BY <1>1 DEF Left

\* A step of the server brings the call nearer to its end.
LEMMA ServeLowers ==
  ASSUME WebhookInv, WebhookInv', Serve, at # "idle"
  PROVE  Left' < Left
<1>1. /\ Left \in Nat /\ Len(envs) \in Nat /\ next \in 1 .. Len(envs) + 1
      /\ at \in {"idle", "error", "reply", "skip"} => Left = IF at = "idle" THEN 0 ELSE 1
      /\ at \in {"container", "perPod"} =>
           Left = Len(envs) + 1 - next + (IF at = "container" THEN 2 ELSE 3)
  BY LeftIsNat
<1>2. at' \in {"idle", "error", "reply"} => Left' = IF at' = "idle" THEN 0 ELSE 1
  BY DEF Left
<1>3. CASE LoadFails \/ MutateFails \/ Mutated \/ Patch \/ Skip \/ NoAnswer
  BY <1>1, <1>2, <1>3 DEF LoadFails, MutateFails, Mutated, Patch, Skip, NoAnswer
<1>4. CASE MergePod
  <2>1. next' = next /\ envs' = envs /\ at = "perPod" /\ at' \in {"container", "error"}
    BY <1>4 DEF MergePod
  <2>2. at' = "container" => Left' = Len(envs) + 1 - next + 2
    BY <1>1, <2>1 DEF Left
  <2> QED BY <1>1, <1>2, <2>1, <2>2
<1>5. CASE Mutate
  <2>1. next' = next + 1 /\ at = "container" /\ at' = "container"
    BY <1>5 DEF Mutate
  <2>2. Len(envs') = Len(envs)
    <3>1. /\ at = "container" /\ Len(envs) = Len(Containers)
          /\ Len(envs') = Len(Containers')
      BY <2>1 DEF WebhookInv, WorkInv, Working
    <3>2. Containers' = Containers
      BY <1>5 DEF Mutate, Containers
    <3> QED BY <3>1, <3>2
  <2>3. Left' = Len(envs) + 1 - (next + 1) + 2
    BY <1>1, <2>1, <2>2 DEF Left
  <2> QED BY <1>1, <2>1, <2>3
<1>6. CASE MutateStumbles
  BY <1>1, <1>2, <1>6 DEF MutateStumbles
<1>7. CASE Receive
  BY <1>7 DEF Receive
<1> QED BY <1>3, <1>4, <1>5, <1>6, <1>7 DEF Serve

\* The API server, the operator and whoever stops the server do not take it back.
LEMMA OthersKeepLeft ==
  ASSUME WebhookInv, [Next]_vars, ~Serve
  PROVE  Left' <= Left
<1>1. Left \in Nat
  BY LeftIsNat
<1>2. CASE Stop
  <2>1. Left' = 0
    BY <1>2 DEF Stop, Left
  <2> QED BY <1>1, <2>1
<1>3. CASE (\E b \in {"proper", "large", "improper"} : Submit(b)) \/ Ignore \/ Edit
             \/ Start \/ UNCHANGED vars
  <2>1. UNCHANGED <<at, envs, next>>
    BY <1>3 DEF Submit, Ignore, Edit, Start, vars, podVars
  <2>2. Left' = Left
    BY <2>1 DEF Left
  <2> QED BY <1>1, <2>2
<1> QED BY <1>2, <1>3 DEF Next

\* A call that the server has taken takes it a bounded number of steps, however
\* many containers the pod has and whatever fails.
THEOREM ServerAdvances == Spec => ServeAdvances
<1> DEFINE Advances == [at # "idle" =>
                          /\ Left \in Nat /\ Left' \in Nat /\ Left' <= Left
                          /\ Serve => Left' < Left]_vars
<1>1. WebhookInv /\ WebhookInv' /\ [Next]_vars => Advances
  <2> SUFFICES ASSUME WebhookInv, WebhookInv', [Next]_vars, at # "idle"
               PROVE  /\ Left \in Nat /\ Left' \in Nat /\ Left' <= Left
                      /\ Serve => Left' < Left
    OBVIOUS
  <2>1. Left \in Nat
    BY LeftIsNat
  <2>2. Left' \in Nat
    <3>1. /\ at' \in {"idle", "perPod", "container", "reply", "skip", "error"}
          /\ Len(envs') \in Nat /\ next' \in 1 .. Len(envs') + 1
      BY LenProperties DEF WebhookInv, TypeOK
    <3> QED BY <3>1 DEF Left
  <2>3. Serve => Left' < Left
    BY ServeLowers
  <2>4. ~Serve => Left' <= Left
    BY OthersKeepLeft
  <2> QED BY <2>1, <2>2, <2>3, <2>4
<1> QED BY <1>1, WebhookInvariant, PTL DEF Spec, ServeAdvances
=============================================================================
