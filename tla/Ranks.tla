-------------------------------- MODULE Ranks --------------------------------
(***************************************************************************)
(* How many elements of an ordered finite set come first: the loop of      *)
(* assign that takes n cores (intel/init.py) and the slice that takes n    *)
(* cpu lists (intel/isolate.py) both take the elements with fewer than n   *)
(* before them. CmkNodeProofs and InitPoolsProofs use it.                  *)
(***************************************************************************)
EXTENDS Integers, FiniteSets, FiniteSetTheorems, TLAPS

\* R is a strict total order of S.
Orders(R, S) ==
  /\ \A x, y \in S : x # y => <<x, y>> \in R \/ <<y, x>> \in R
  /\ \A x, y, z \in S : <<x, y>> \in R /\ <<y, z>> \in R => <<x, z>> \in R
  /\ \A x \in S : <<x, x>> \notin R

Below(x, R, S) == {y \in S : <<y, x>> \in R}

Lowest(n, R, S) == {x \in S : Cardinality(Below(x, R, S)) < n}

\* A rank is less than the number of elements, and of two elements the later
\* one has the higher rank.
LEMMA RankBounds ==
  ASSUME NEW S, IsFiniteSet(S), NEW R, Orders(R, S), NEW x \in S
  PROVE  /\ Cardinality(Below(x, R, S)) \in 0 .. (Cardinality(S) - 1)
         /\ \A y \in S : <<y, x>> \in R =>
              Cardinality(Below(y, R, S)) < Cardinality(Below(x, R, S))
<1>1. Below(x, R, S) \subseteq S \ {x}
  BY DEF Below, Orders
<1>2. IsFiniteSet(S \ {x}) /\ Cardinality(S \ {x}) = Cardinality(S) - 1
  BY FS_RemoveElement
<1>3. /\ IsFiniteSet(Below(x, R, S))
      /\ Cardinality(Below(x, R, S)) <= Cardinality(S) - 1
  BY <1>1, <1>2, FS_Subset
<1>4. Cardinality(S) \in Nat /\ Cardinality(Below(x, R, S)) \in Nat
  BY <1>3, FS_CardinalityType
<1>5. ASSUME NEW y \in S, <<y, x>> \in R
      PROVE  Cardinality(Below(y, R, S)) < Cardinality(Below(x, R, S))
  <2>1. Below(y, R, S) \in SUBSET Below(x, R, S)
    BY <1>5 DEF Below, Orders
  <2>2. Below(y, R, S) # Below(x, R, S)
    BY <1>5 DEF Below, Orders
  <2>3. /\ Cardinality(Below(y, R, S)) <= Cardinality(Below(x, R, S))
        /\ Cardinality(Below(y, R, S)) # Cardinality(Below(x, R, S))
        /\ IsFiniteSet(Below(y, R, S))
    BY <1>3, <2>1, <2>2, FS_Subset
  <2>4. Cardinality(Below(y, R, S)) \in Nat
    BY <2>3, FS_CardinalityType
  <2> QED BY <1>4, <2>3, <2>4
<1> QED BY <1>3, <1>4, <1>5

\* There are n elements with fewer than n before them: the ranks are an
\* injection into as many numbers as there are elements, so they take all.
LEMMA LowestSize ==
  ASSUME NEW S, IsFiniteSet(S), NEW R, Orders(R, S),
         NEW n \in Nat, n <= Cardinality(S)
  PROVE  IsFiniteSet(Lowest(n, R, S)) /\ Cardinality(Lowest(n, R, S)) = n
<1> DEFINE rank == [x \in S |-> Cardinality(Below(x, R, S))]
           N    == 0 .. (Cardinality(S) - 1)
           part == [x \in Lowest(n, R, S) |-> rank[x]]
<1>1. Cardinality(S) \in Nat
  BY FS_CardinalityType
<1>2. IsFiniteSet(N) /\ Cardinality(N) = Cardinality(S)
  <2>1. Cardinality(S) - 1 \in Int
    BY <1>1
  <2>2. IsFiniteSet(N) /\ Cardinality(N) = IF 0 > Cardinality(S) - 1 THEN 0
                                          ELSE Cardinality(S) - 1 - 0 + 1
    BY <2>1, FS_Interval
  <2> QED BY <1>1, <2>2
<1>3. \A x \in S : rank[x] \in N
  BY RankBounds
<1>4. \A x, y \in S : x # y => rank[x] # rank[y]
  <2>1. ASSUME NEW x \in S, NEW y \in S, <<y, x>> \in R PROVE rank[y] < rank[x]
    BY <2>1, RankBounds
  <2>2. \A x \in S : rank[x] \in Int
    BY <1>3, <1>1
  <2> HIDE DEF rank
  <2>3. ASSUME NEW x \in S, NEW y \in S, x # y PROVE rank[x] # rank[y]
    <3>1. <<x, y>> \in R \/ <<y, x>> \in R
      BY <2>3 DEF Orders
    <3>2. rank[x] < rank[y] \/ rank[y] < rank[x]
      BY <2>1, <3>1
    <3> QED BY <2>2, <3>2
  <2> QED BY <2>3
<1>5. rank \in Injection(S, N)
  <2>1. rank \in [S -> N]
    BY <1>3
  <2> HIDE DEF N, rank
  <2> QED BY <1>4, <2>1 DEF Injection, IsInjective
<1>6. rank \in Surjection(S, N)
  <2> HIDE DEF N, rank
  <2> QED BY <1>2, <1>5, FS_Injection
<1>7. \A i \in N : \E x \in S : rank[x] = i
  BY <1>6 DEF Surjection
<1>8. /\ \A x \in Lowest(n, R, S) : x \in S /\ part[x] = rank[x] /\ rank[x] < n
      /\ \A x \in S : rank[x] < n => x \in Lowest(n, R, S)
  BY DEF Lowest
<1>9. part \in [Lowest(n, R, S) -> 0 .. (n - 1)]
  <2>1. \A x \in Lowest(n, R, S) : part[x] \in 0 .. (n - 1)
    <3> HIDE DEF rank, part
    <3> QED BY <1>1, <1>3, <1>8
  <2> QED BY <2>1
<1>10. \A x, y \in Lowest(n, R, S) : x # y => part[x] # part[y]
  <2> HIDE DEF rank, part
  <2> QED BY <1>4, <1>8
<1>11. \A i \in 0 .. (n - 1) : \E x \in Lowest(n, R, S) : part[x] = i
  <2> HIDE DEF rank, part
  <2> QED BY <1>1, <1>7, <1>8
<1>12. part \in Bijection(Lowest(n, R, S), 0 .. (n - 1))
  <2> HIDE DEF part
  <2> QED BY <1>9, <1>10, <1>11 DEF Bijection, Injection, Surjection, IsInjective
<1>13. IsFiniteSet(Lowest(n, R, S))
  BY FS_Subset DEF Lowest
<1>14. Cardinality(0 .. (n - 1)) = n
  BY FS_Interval
<1>15. Cardinality(0 .. (n - 1)) = Cardinality(Lowest(n, R, S))
  BY <1>12, <1>13, FS_Bijection DEF ExistsBijection
<1> QED BY <1>13, <1>14, <1>15
=============================================================================
