----------------------- MODULE SemiBlockingQueue_proofs -----------------------
(***************************************************************************)
(* Proofs about SemiBlockingQueue, for any number of threads, calls and    *)
(* nodes: every node is in exactly one place at every moment, and the two  *)
(* lists of semiblockingqueue.c are one bounded FIFO queue.                *)
(***************************************************************************)
EXTENDS SemiBlockingQueue, FiniteSetTheorems, NaturalsInduction,
        WellFoundedInduction, TLAPS

\* A sequence of nodes that are all different.
Lists == {L \in Seq(Node) : IsInjective(L)}

\* The nodes of list L, with NULL behind the last.
At(L, j) == IF j \in 1 .. Len(L) THEN L[j] ELSE Null

\* The next fields nx lead from `first` through the nodes of L.
Linked(nx, first, L) ==
  first = At(L, 1) /\ \A j \in 1 .. Len(L) : nx[L[j]] = At(L, j + 1)

Nexts == [Node -> Node \cup {Null}]

-----------------------------------------------------------------------------
(* Lists                                                                   *)

LEMMA ListFacts ==
  ASSUME NEW L \in Lists
  PROVE  /\ Len(L) \in Nat /\ L \in Seq(Node) /\ DOMAIN L = 1 .. Len(L)
         /\ \A j \in 1 .. Len(L) : L[j] \in Node /\ L[j] # Null /\ At(L, j) = L[j]
         /\ At(L, Len(L) + 1) = Null
         /\ \A j \in Nat : At(L, j) \in Node \cup {Null}
         /\ \A j, h \in 1 .. Len(L) : L[j] = L[h] => j = h
         /\ ToSet(L) \subseteq Node
<1>1. /\ L \in Seq(Node) /\ Len(L) \in Nat /\ DOMAIN L = 1 .. Len(L)
      /\ IsInjective(L)
  BY DEF Lists
<1>2. \A j \in 1 .. Len(L) : L[j] \in Node /\ L[j] # Null /\ At(L, j) = L[j]
  BY <1>1, SemiBlockingAssumption DEF At
<1>3. At(L, Len(L) + 1) = Null /\ \A j \in Nat : At(L, j) \in Node \cup {Null}
  BY <1>1, <1>2 DEF At
<1>4. \A j, h \in 1 .. Len(L) : L[j] = L[h] => j = h
  BY <1>1 DEF IsInjective
<1>5. ToSet(L) \subseteq Node
  BY <1>1, <1>2 DEF ToSet
<1> QED  BY <1>1, <1>2, <1>3, <1>4, <1>5

\* No list starts at NULL, and one with nodes at its first.
LEMMA EmptyList ==
  /\ <<>> \in Lists /\ ToSet(<<>>) = {} /\ Len(<<>>) = 0
  /\ \A nx : Linked(nx, Null, <<>>)
<1>1. <<>> \in Seq(Node) /\ Len(<<>>) = 0 /\ DOMAIN <<>> = {}
  OBVIOUS
<1>2. \A nx : Linked(nx, Null, <<>>)
  BY <1>1 DEF Linked, At
<1> QED  BY <1>1, <1>2 DEF Lists, IsInjective, ToSet

LEMMA FirstOfList ==
  ASSUME NEW L \in Lists, NEW nx, NEW first, Linked(nx, first, L)
  PROVE  /\ first = Null <=> L = <<>>
         /\ first # Null => first = L[1] /\ first \in ToSet(L) /\ first \in Node
                            /\ Len(L) > 0
<1>1. /\ Len(L) \in Nat /\ L \in Seq(Node) /\ DOMAIN L = 1 .. Len(L)
      /\ \A j \in 1 .. Len(L) : L[j] \in Node /\ L[j] # Null /\ At(L, j) = L[j]
  BY ListFacts
<1>2. first = At(L, 1)
  BY DEF Linked
<1>3. CASE Len(L) = 0
  BY <1>1, <1>2, <1>3 DEF At
<1>4. CASE Len(L) # 0
  <2>1. 1 \in 1 .. Len(L) /\ L # <<>>
    BY <1>1, <1>4
  <2> QED  BY <1>1, <1>2, <2>1 DEF ToSet
<1> QED  BY <1>3, <1>4

\* A list stays one while the fields of its own nodes stay.
LEMMA ListStays ==
  ASSUME NEW L \in Lists, NEW nx, NEW mx, NEW first, Linked(nx, first, L),
         \A n \in ToSet(L) : mx[n] = nx[n]
  PROVE  Linked(mx, first, L)
BY ListFacts DEF Linked, ToSet

\* A node in front of a list.
LEMMA FrontOfList ==
  ASSUME NEW L \in Lists, NEW nx, NEW first, Linked(nx, first, L),
         NEW x \in Node, x \notin ToSet(L), nx[x] = first
  PROVE  /\ <<x>> \o L \in Lists /\ Linked(nx, x, <<x>> \o L)
         /\ ToSet(<<x>> \o L) = ToSet(L) \cup {x}
<1> DEFINE M == <<x>> \o L
<1>1. /\ Len(L) \in Nat /\ L \in Seq(Node) /\ DOMAIN L = 1 .. Len(L)
      /\ \A j, h \in 1 .. Len(L) : L[j] = L[h] => j = h
      /\ \A j \in 1 .. Len(L) : L[j] # x
  BY ListFacts DEF ToSet
<1>2. /\ M \in Seq(Node) /\ Len(M) = Len(L) + 1 /\ DOMAIN M = 1 .. Len(L) + 1
      /\ M[1] = x /\ \A j \in 2 .. Len(L) + 1 : M[j] = L[j - 1]
  BY <1>1
<1> HIDE DEF M
<1>3. \A j \in 1 .. Len(L) + 1 : j = 1 \/ (j \in 2 .. Len(L) + 1 /\ j - 1 \in 1 .. Len(L))
  BY <1>1
<1>4. IsInjective(M)
  <2>1. ASSUME NEW a \in 1 .. Len(L) + 1, NEW b \in 1 .. Len(L) + 1, M[a] = M[b]
        PROVE  a = b
    <3>1. CASE a = 1 \/ b = 1
      BY <1>1, <1>2, <1>3, <2>1, <3>1
    <3>2. CASE a # 1 /\ b # 1
      <4>1. a - 1 = b - 1
        BY <1>1, <1>2, <1>3, <2>1, <3>2
      <4> QED  BY <4>1
    <3> QED  BY <3>1, <3>2
  <2> QED  BY <1>2, <2>1 DEF IsInjective
<1>5. Linked(nx, x, M)
  <2>1. At(M, 1) = x
    BY <1>1, <1>2 DEF At
  <2>2. \A j \in 1 .. Len(L) + 1 : At(M, j + 1) = At(L, j)
    <3>1. ASSUME NEW j \in 1 .. Len(L) + 1 PROVE At(M, j + 1) = At(L, j)
      <4>1. CASE j \in 1 .. Len(L)
        <5>1. j + 1 \in 2 .. Len(L) + 1 /\ j + 1 \in 1 .. Len(M) /\ (j + 1) - 1 = j
          BY <1>1, <1>2, <4>1
        <5> QED  BY <1>2, <4>1, <5>1 DEF At
      <4>2. CASE j \notin 1 .. Len(L)
        <5>1. j + 1 \notin 1 .. Len(M)
          BY <1>1, <1>2, <4>2
        <5> QED  BY <4>2, <5>1 DEF At
      <4> QED  BY <4>1, <4>2
    <3> QED  BY <3>1
  <2>3. ASSUME NEW j \in 1 .. Len(M) PROVE nx[M[j]] = At(M, j + 1)
    <3>1. CASE j = 1
      <4>1. 1 \in 1 .. Len(L) + 1
        BY <1>1
      <4> QED  BY <1>2, <2>2, <3>1, <4>1 DEF Linked
    <3>2. CASE j # 1
      <4>1. /\ j \in 2 .. Len(L) + 1 /\ j - 1 \in 1 .. Len(L) /\ (j - 1) + 1 = j
            /\ j \in 1 .. Len(L) + 1
        BY <1>1, <1>2, <3>2
      <4>2. nx[L[j - 1]] = At(L, j)
        BY <4>1 DEF Linked
      <4> QED  BY <1>2, <2>2, <4>1, <4>2
    <3> QED  BY <3>1, <3>2
  <2> QED  BY <2>1, <2>3 DEF Linked
<1>6. ToSet(M) = ToSet(L) \cup {x}
  <2>1. ToSet(M) = {M[j] : j \in 1 .. Len(L) + 1} /\ ToSet(L) = {L[j] : j \in 1 .. Len(L)}
    BY <1>1, <1>2 DEF ToSet
  <2>2. \A y \in ToSet(M) : y \in ToSet(L) \cup {x}
    BY <1>2, <1>3, <2>1
  <2>3. ASSUME NEW y \in ToSet(L) \cup {x} PROVE y \in ToSet(M)
    <3>1. CASE y = x
      <4>1. 1 \in 1 .. Len(L) + 1
        BY <1>1
      <4> QED  BY <1>2, <2>1, <3>1, <4>1
    <3>2. CASE y # x
      <4>1. PICK m \in 1 .. Len(L) : y = L[m]
        BY <2>1, <2>3, <3>2
      <4>2. m + 1 \in 2 .. Len(L) + 1 /\ m + 1 \in 1 .. Len(L) + 1 /\ (m + 1) - 1 = m
        BY <1>1
      <4>3. M[m + 1] = y
        BY <1>2, <4>1, <4>2
      <4> QED  BY <2>1, <4>2, <4>3
    <3> QED  BY <3>1, <3>2
  <2> QED  BY <2>2, <2>3
<1> QED  BY <1>2, <1>4, <1>5, <1>6 DEF Lists, M

\* The list without its first node.
LEMMA RestOfList ==
  ASSUME NEW L \in Lists, NEW nx, NEW first, Linked(nx, first, L), first # Null
  PROVE  /\ Tail(L) \in Lists /\ Linked(nx, nx[first], Tail(L))
         /\ ToSet(L) = ToSet(Tail(L)) \cup {first} /\ first \notin ToSet(Tail(L))
         /\ L = <<first>> \o Tail(L)
<1> DEFINE M == Tail(L)
<1>1. /\ Len(L) \in Nat /\ L \in Seq(Node) /\ DOMAIN L = 1 .. Len(L)
      /\ \A j, h \in 1 .. Len(L) : L[j] = L[h] => j = h
      /\ \A j \in 1 .. Len(L) : L[j] \in Node /\ At(L, j) = L[j]
      /\ L # <<>> /\ first = L[1] /\ 1 \in 1 .. Len(L)
  BY ListFacts, FirstOfList
<1>2. /\ M \in Seq(Node) /\ Len(M) = Len(L) - 1 /\ DOMAIN M = 1 .. Len(L) - 1
      /\ \A j \in 1 .. Len(L) - 1 : M[j] = L[j + 1]
  BY <1>1
<1>3. L = <<first>> \o M
  BY <1>1
<1> HIDE DEF M
<1>4. \A j \in 1 .. Len(L) - 1 : j + 1 \in 1 .. Len(L) /\ j + 1 # 1
  BY <1>1
<1>5. IsInjective(M)
  <2>1. ASSUME NEW a \in 1 .. Len(L) - 1, NEW b \in 1 .. Len(L) - 1, M[a] = M[b]
        PROVE  a = b
    <3>1. a + 1 = b + 1
      BY <1>1, <1>2, <1>4, <2>1
    <3> QED  BY <3>1
  <2> QED  BY <1>2, <2>1 DEF IsInjective
<1>6. \A y : y \in ToSet(M) <=> y \in ToSet(L) /\ y # first
  <2>1. ASSUME NEW y \in ToSet(M) PROVE y \in ToSet(L) /\ y # first
    <3>1. PICK m \in 1 .. Len(L) - 1 : y = L[m + 1]
      BY <1>2, <2>1 DEF ToSet
    <3> QED  BY <1>1, <1>4, <3>1 DEF ToSet
  <2>2. ASSUME NEW y \in ToSet(L), y # first PROVE y \in ToSet(M)
    <3>1. PICK m \in 1 .. Len(L) : y = L[m]
      BY <1>1, <2>2 DEF ToSet
    <3>2. m - 1 \in 1 .. Len(L) - 1 /\ (m - 1) + 1 = m
      BY <1>1, <2>2, <3>1
    <3>3. M[m - 1] = y
      BY <1>2, <3>1, <3>2
    <3> QED  BY <1>2, <3>2, <3>3 DEF ToSet
  <2> QED  BY <2>1, <2>2
<1>7. first \in ToSet(L)
  BY <1>1 DEF ToSet
<1>8. \A j \in 1 .. Len(L) : At(M, j) = At(L, j + 1)
  <2>1. ASSUME NEW j \in 1 .. Len(L) PROVE At(M, j) = At(L, j + 1)
    <3>1. CASE j = Len(L)
      <4>1. j \notin 1 .. Len(M) /\ j + 1 \notin 1 .. Len(L)
        BY <1>1, <1>2, <3>1
      <4> QED  BY <4>1 DEF At
    <3>2. CASE j # Len(L)
      <4>1. \A a \in Nat : \A b \in 1 .. a : b # a => b \in 1 .. a - 1
        OBVIOUS
      <4>2. j \in 1 .. Len(L) - 1
        BY ONLY <1>1, <3>2, <4>1, j \in 1 .. Len(L)
      <4> QED  BY <1>2, <1>4, <4>2 DEF At
    <3> QED  BY <3>1, <3>2
  <2> QED  BY <2>1
<1>9. Linked(nx, nx[first], M)
  <2>1. nx[first] = At(M, 1)
    BY <1>1, <1>8 DEF Linked
  <2>2. ASSUME NEW j \in 1 .. Len(M) PROVE nx[M[j]] = At(M, j + 1)
    <3>1. j \in 1 .. Len(L) - 1 /\ j + 1 \in 1 .. Len(L)
      BY <1>1, <1>2
    <3>2. nx[L[j + 1]] = At(L, (j + 1) + 1)
      BY <3>1 DEF Linked
    <3> QED  BY <1>2, <1>8, <3>1, <3>2
  <2> QED  BY <2>1, <2>2 DEF Linked
<1> QED  BY <1>2, <1>3, <1>5, <1>6, <1>7, <1>9 DEF Lists, M

\* What Reverse does to a list and its first node.
LEMMA Reversing ==
  ASSUME NEW S
  PROVE  /\ Reverse(<<>>) = <<>>
         /\ \A L \in Seq(S) : Reverse(L) \in Seq(S) /\ Len(Reverse(L)) = Len(L)
         /\ \A L \in Seq(S) : \A x \in S : Reverse(<<x>> \o L) = Reverse(L) \o <<x>>
<1>1. Reverse(<<>>) = <<>>
  BY DEF Reverse
<1>2. ASSUME NEW L \in Seq(S)
      PROVE  Reverse(L) \in Seq(S) /\ Len(Reverse(L)) = Len(L)
  <2>1. Len(L) \in Nat /\ \A j \in 1 .. Len(L) : (Len(L) - j) + 1 \in 1 .. Len(L)
    OBVIOUS
  <2>2. \A j \in 1 .. Len(L) : L[(Len(L) - j) + 1] \in S
    BY <2>1
  <2> QED  BY <2>1, <2>2 DEF Reverse
<1>3. ASSUME NEW L \in Seq(S), NEW x \in S
      PROVE  Reverse(<<x>> \o L) = Reverse(L) \o <<x>>
  <2> DEFINE M == <<x>> \o L
             R == Reverse(L)
             l == Len(L)
  <2>1. /\ l \in Nat /\ M \in Seq(S) /\ Len(M) = l + 1 /\ M[1] = x
        /\ \A j \in 2 .. l + 1 : M[j] = L[j - 1]
    OBVIOUS
  <2>2. R \in Seq(S) /\ Len(R) = l /\ \A j \in 1 .. l : R[j] = L[(l - j) + 1]
    BY <1>2 DEF Reverse
  <2>3. Reverse(M) \in Seq(S) /\ Len(Reverse(M)) = l + 1
    <3> HIDE DEF M
    <3>1. Reverse(M) = [j \in 1 .. Len(M) |-> M[(Len(M) - j) + 1]]
      BY DEF Reverse
    <3>2. \A j \in 1 .. Len(M) : (Len(M) - j) + 1 \in 1 .. Len(M)
      BY <2>1
    <3>3. \A j \in 1 .. Len(M) : M[(Len(M) - j) + 1] \in S
      BY <2>1, <3>2
    <3> QED  BY <2>1, <3>1, <3>3
  <2>4. \A j \in 1 .. l + 1 : Reverse(M)[j] = M[((l + 1) - j) + 1]
    BY <2>1 DEF Reverse
  <2> HIDE DEF M, R, l
  <2>5. /\ R \o <<x>> \in Seq(S) /\ Len(R \o <<x>>) = l + 1
        /\ (R \o <<x>>)[l + 1] = x
        /\ \A j \in 1 .. l : (R \o <<x>>)[j] = R[j]
    BY <2>1, <2>2
  <2>6. ASSUME NEW j \in 1 .. l + 1
        PROVE  Reverse(M)[j] = (R \o <<x>>)[j]
    <3>1. CASE j = l + 1
      <4>1. ((l + 1) - j) + 1 = 1
        BY <2>1, <3>1
      <4> QED  BY <2>1, <2>4, <2>5, <3>1, <4>1
    <3>2. CASE j # l + 1
      <4>1. /\ j \in 1 .. l /\ ((l + 1) - j) + 1 \in 2 .. l + 1
            /\ (((l + 1) - j) + 1) - 1 = (l - j) + 1
        BY <2>1, <3>2
      <4>2. Reverse(M)[j] = M[((l + 1) - j) + 1]
        BY <2>4
      <4>3. M[((l + 1) - j) + 1] = L[(l - j) + 1]
        BY <2>1, <4>1
      <4>4. (R \o <<x>>)[j] = R[j] /\ R[j] = L[(l - j) + 1]
        BY <2>2, <2>5, <4>1
      <4> QED  BY <4>2, <4>3, <4>4
    <3> QED  BY <3>1, <3>2
  <2>7. Reverse(M) = R \o <<x>>
    BY <2>3, <2>5, <2>6
  <2> QED  BY <2>7 DEF M, R
<1> QED  BY <1>1, <1>2, <1>3

-----------------------------------------------------------------------------
(* What List computes                                                      *)

LEMMA LeastElement ==
  ASSUME NEW T \in SUBSET Nat, T # {}
  PROVE  \E m \in T : \A y \in T : m <= y
<1>1. IsWellFoundedOn(OpToRel(<, Nat), Nat)
  BY NatLessThanWellFounded
<1>2. PICK m \in T : \A y \in T : ~(<<y, m>> \in OpToRel(<, Nat))
  BY <1>1, WFMin
<1>3. \A y \in T : ~(y < m)
  BY <1>2 DEF OpToRel
<1> QED  BY <1>3

\* A list has as many nodes as it is long, and no more than there are.
LEMMA ListSize ==
  ASSUME NEW L \in Lists
  PROVE  /\ IsFiniteSet(ToSet(L)) /\ Cardinality(ToSet(L)) = Len(L)
         /\ Cardinality(Node) \in Nat /\ Len(L) <= Cardinality(Node)
         /\ Cardinality(1 .. Len(L)) = Len(L)
<1>1. /\ Len(L) \in Nat /\ L \in Seq(Node) /\ DOMAIN L = 1 .. Len(L)
      /\ IsInjective(L) /\ ToSet(L) \subseteq Node
  BY ListFacts DEF Lists
<1>2. IsFiniteSet(Node)
  BY SemiBlockingAssumption
<1>3. IsFiniteSet(ToSet(L)) /\ Cardinality(ToSet(L)) <= Cardinality(Node)
      /\ Cardinality(Node) \in Nat
  BY <1>1, <1>2, FS_Subset, FS_CardinalityType
<1>4. IsFiniteSet(1 .. Len(L)) /\ Cardinality(1 .. Len(L)) = Len(L)
  <2>1. /\ IsFiniteSet(1 .. Len(L))
        /\ Cardinality(1 .. Len(L)) = IF 1 > Len(L) THEN 0 ELSE Len(L) - 1 + 1
    BY <1>1, FS_Interval
  <2> QED  BY <1>1, <2>1
<1>5. L \in Bijection(1 .. Len(L), ToSet(L))
  <2>1. L \in [1 .. Len(L) -> ToSet(L)]
    BY <1>1 DEF ToSet
  <2>2. L \in Injection(1 .. Len(L), ToSet(L))
    BY <1>1, <2>1 DEF Injection, IsInjective
  <2>3. L \in Surjection(1 .. Len(L), ToSet(L))
    BY <1>1, <2>1 DEF Surjection, ToSet
  <2> QED  BY <2>2, <2>3 DEF Bijection
<1>6. Cardinality(1 .. Len(L)) = Cardinality(ToSet(L))
  <2>1. ExistsBijection(1 .. Len(L), ToSet(L))
    BY <1>5 DEF ExistsBijection
  <2> QED  BY <1>4, <2>1, FS_Bijection
<1> QED  BY <1>3, <1>4, <1>6

\* The way along the next fields goes through the list and then stays at NULL.
LEMMA PathIs ==
  ASSUME NEW L \in Lists, NEW first, Linked(next, first, L)
  PROVE  Path(first) = [j \in 1 .. Cardinality(Node) |-> At(L, j)]
<1> DEFINE C == Cardinality(Node)
           w == [j \in 1 .. C |-> At(L, j)]
           path == Path(first)
<1>1. /\ Len(L) \in Nat /\ C \in Nat /\ first = At(L, 1)
      /\ \A j \in 1 .. Len(L) : L[j] # Null /\ At(L, j) = L[j]
      /\ \A j \in 1 .. Len(L) : next[L[j]] = At(L, j + 1)
  BY ListFacts, ListSize DEF Linked
<1> HIDE DEF C
<1>2. ASSUME NEW j \in 1 .. C, j # 1
      PROVE  /\ j - 1 \in 1 .. C
             /\ At(L, j) = IF At(L, j - 1) = Null THEN Null ELSE next[At(L, j - 1)]
  <2>1. j - 1 \in 1 .. C /\ (j - 1) + 1 = j
    BY <1>1, <1>2
  <2>2. CASE j - 1 \in 1 .. Len(L)
    BY <1>1, <2>1, <2>2
  <2>3. CASE j - 1 \notin 1 .. Len(L)
    <3>1. j \notin 1 .. Len(L)
      BY <1>1, <1>2, <2>1, <2>3
    <3> QED  BY <2>1, <2>3, <3>1 DEF At
  <2> QED  BY <2>1, <2>2, <2>3
<1>3. w = [j \in 1 .. C |-> IF j = 1 THEN first
                            ELSE IF w[j - 1] = Null THEN Null ELSE next[w[j - 1]]]
  <2>1. ASSUME NEW j \in 1 .. C
        PROVE  w[j] = IF j = 1 THEN first
                      ELSE IF w[j - 1] = Null THEN Null ELSE next[w[j - 1]]
    BY <1>1, <1>2
  <2>2. w = [j \in 1 .. C |-> w[j]]
    OBVIOUS
  <2> HIDE DEF w
  <2> QED  BY <2>1, <2>2
<1> HIDE DEF w
<1>4. path = [j \in 1 .. C |-> IF j = 1 THEN first
                               ELSE IF path[j - 1] = Null THEN Null
                                    ELSE next[path[j - 1]]]
  BY <1>3 DEF Path, C
<1> HIDE DEF path
<1> DEFINE T == {j \in 1 .. C : path[j] # w[j]}
<1>5. T = {}
  <2> SUFFICES ASSUME T # {} PROVE FALSE
    OBVIOUS
  <2>1. T \in SUBSET Nat
    BY <1>1
  <2>2. PICK j \in T : \A y \in T : j <= y
    <3> HIDE DEF T
    <3> QED  BY <2>1, LeastElement
  <2>3. j \in 1 .. C /\ path[j] # w[j]
    OBVIOUS
  <2>4. j # 1
    BY <1>3, <1>4, <2>3
  <2>5. j - 1 \in 1 .. C /\ ~(j <= j - 1)
    BY <1>1, <2>3, <2>4
  <2>6. path[j - 1] = w[j - 1]
    BY <2>2, <2>5
  <2>7. path[j] = IF path[j - 1] = Null THEN Null ELSE next[path[j - 1]]
    BY <1>4, <2>3, <2>4
  <2>8. w[j] = IF w[j - 1] = Null THEN Null ELSE next[w[j - 1]]
    BY <1>3, <2>3, <2>4
  <2> QED  BY <2>3, <2>6, <2>7, <2>8
<1>6. path = [j \in 1 .. C |-> path[j]] /\ w = [j \in 1 .. C |-> w[j]]
  BY <1>4, <1>3
<1>7. path = w
  BY <1>5, <1>6
<1> QED  BY <1>7 DEF path, w, C

\* List(first) is the list that the next fields lead through.
ListsRead ==
  \A first : \A L \in Lists : Linked(next, first, L) => List(first) = L

LEMMA ListIs == ListsRead
<1> SUFFICES ASSUME NEW first, NEW L \in Lists, Linked(next, first, L)
             PROVE  List(first) = L
  BY DEF ListsRead
<1> DEFINE C == Cardinality(Node)
           w == [j \in 1 .. C |-> At(L, j)]
<1>1. /\ Len(L) \in Nat /\ C \in Nat /\ Len(L) <= C /\ L \in Seq(Node)
      /\ \A j \in 1 .. Len(L) : L[j] # Null /\ At(L, j) = L[j]
  BY ListFacts, ListSize
<1>2. Path(first) = w
  BY PathIs
<1>3. {k \in DOMAIN w : w[k] # Null} = 1 .. Len(L)
  <2> HIDE DEF C
  <2>1. \A k \in 1 .. C : At(L, k) # Null <=> k \in 1 .. Len(L)
    BY <1>1 DEF At
  <2>2. \A k \in 1 .. Len(L) : k \in 1 .. C
    BY <1>1
  <2> QED  BY <2>1, <2>2
<1>4. Cardinality(1 .. Len(L)) = Len(L)
  BY ListSize
<1>5. List(first) = [j \in 1 .. Len(L) |-> w[j]]
  BY <1>2, <1>3, <1>4 DEF List
<1>6. \A j \in 1 .. Len(L) : w[j] = L[j]
  <2> HIDE DEF C
  <2>1. \A k \in 1 .. Len(L) : k \in 1 .. C
    BY <1>1
  <2> QED  BY <1>1, <2>1
<1>7. L = [j \in 1 .. Len(L) |-> L[j]]
  BY <1>1
<1> HIDE DEF w
<1> QED  BY <1>5, <1>6, <1>7

-----------------------------------------------------------------------------
(* The inductive invariant                                                 *)

Threads == Putters \cup Getters
Steps == {"alloc", "link", "push", "lock", "load", "take", "reverse", "pop"}

\* Where the calls of queue_put are: a putter has a node from malloc_aligned to
\* its push, a node of its own that holds its item; and what it has seen in
\* in_queue is where its node leads.
PutterInv ==
  \A p \in Putters :
    /\ pc[p] \in {"alloc", "link", "push"}
    /\ new[p] = Null <=> pc[p] = "alloc"
    /\ new[p] # Null => puts[p] < PutLimit /\ item[new[p]] = <<p, puts[p] + 1>>
    /\ pc[p] = "push" => next[new[p]] = seen[p]
    /\ \A q \in Putters : new[p] # Null /\ new[p] = new[q] => p = q

\* Where the calls of queue_get are: in a call a getter holds the mutex; it looks
\* at in_queue while out_queue is empty, and once it has taken a list there is one
\* to pop from.
GetterInv ==
  \A g \in Getters :
    /\ pc[g] \in {"lock", "load", "take", "reverse", "pop"}
    /\ pc[g] # "lock" <=> lock = g
    /\ pc[g] # "lock" => Len(got[g]) < GetLimit
    /\ pc[g] \in {"load", "take"} => out_queue = Null
    /\ pc[g] = "take" => head[g] # Null
    /\ pc[g] = "reverse" => head[g] # Null \/ out_queue # Null

CallsInv ==
  /\ TypeOK
  /\ pc \in [Threads -> Steps]
  /\ PutterInv
  /\ GetterInv

\* Where the part in hand starts, and the nodes that putters have in hand.
HandHead == IF lock # Nobody /\ pc[lock] = "reverse" THEN head[lock] ELSE Null
Held     == {new[p] : p \in {q \in Putters : new[q] # Null}}

\* The next fields lay out list I from in_queue, O from out_queue and H in hand.
Laid(I, O, H) ==
  /\ Linked(next, in_queue, I)
  /\ Linked(next, out_queue, O)
  /\ Linked(next, HandHead, H)

\* Every node is in one place.
Placed(I, O, H) ==
  /\ Node = UNION {free, Held, ToSet(I), ToSet(O), ToSet(H)}
  /\ free \cap UNION {Held, ToSet(I), ToSet(O), ToSet(H)} = {}
  /\ Held \cap UNION {ToSet(I), ToSet(O), ToSet(H)} = {}
  /\ ToSet(I) \cap (ToSet(O) \cup ToSet(H)) = {}
  /\ ToSet(O) \cap ToSet(H) = {}

Whole(I, O, H) == Laid(I, O, H) /\ Placed(I, O, H)

IInv == CallsInv /\ \E I, O, H \in Lists : Whole(I, O, H)

-----------------------------------------------------------------------------
(* What the steps do to the lists                                          *)

LEMMA SemiTypes ==
  ASSUME CallsInv
  PROVE  /\ in_queue \in Node \cup {Null} /\ out_queue \in Node \cup {Null}
         /\ next \in Nexts /\ lock \in Getters \cup {Nobody} /\ free \subseteq Node
         /\ item \in [Node -> Item \cup {Null}]
         /\ new \in [Putters -> Node \cup {Null}]
         /\ seen \in [Putters -> Node \cup {Null}]
         /\ head \in [Getters -> Node \cup {Null}]
         /\ puts \in [Putters -> 0 .. PutLimit]
         /\ got \in [Getters -> Seq(Item \cup {Null})]
         /\ pc \in [Threads -> Steps]
         /\ Putters \subseteq Threads /\ Getters \subseteq Threads
         /\ \A p \in Putters : p \notin Getters
         /\ Null \notin Node /\ Nobody \notin Getters
BY SemiBlockingAssumption DEF CallsInv, TypeOK, Nexts, Threads

\* Lists that no step has touched stay.
LEMMA LaidStays ==
  ASSUME NEW I \in Lists, NEW O \in Lists, NEW H \in Lists, Laid(I, O, H),
         UNCHANGED <<in_queue, out_queue>>, HandHead' = HandHead,
         \A n \in UNION {ToSet(I), ToSet(O), ToSet(H)} : next'[n] = next[n]
  PROVE  Laid(I, O, H)'
<1>1. /\ Linked(next, in_queue, I) /\ Linked(next, out_queue, O)
      /\ Linked(next, HandHead, H)
  BY DEF Laid
<1>2. /\ Linked(next', in_queue, I) /\ Linked(next', out_queue, O)
      /\ Linked(next', HandHead, H)
  BY <1>1, ListStays
<1> QED  BY <1>2 DEF Laid

\* Putters do not change what is in hand.
LEMMA PutterKeepsHand ==
  ASSUME CallsInv, NEW p \in Putters, NEW s, Goto(p, s), UNCHANGED <<lock, head>>
  PROVE  HandHead' = HandHead
BY SemiTypes DEF HandHead, Goto

LEMMA AllocKeepsLists ==
  ASSUME CallsInv, NEW p \in Putters, malloc_aligned(p),
         NEW I \in Lists, NEW O \in Lists, NEW H \in Lists, Whole(I, O, H)
  PROVE  Whole(I, O, H)'
<1>1. PICK n \in free : /\ new' = [new EXCEPT ![p] = n]
                        /\ free' = free \ {n}
                        /\ next' = [next EXCEPT ![n] = Null]
  BY DEF malloc_aligned
<1>2. n \in Node /\ n # Null /\ new[p] = Null
  BY SemiTypes DEF CallsInv, PutterInv, malloc_aligned
<1>3. Laid(I, O, H)'
  <2>1. \A m \in UNION {ToSet(I), ToSet(O), ToSet(H)} : next'[m] = next[m]
    <3>1. n \notin UNION {ToSet(I), ToSet(O), ToSet(H)}
      BY DEF Whole, Placed
    <3>2. UNION {ToSet(I), ToSet(O), ToSet(H)} \subseteq Node
      BY ListFacts
    <3>3. next \in Nexts
      BY SemiTypes
    <3> QED  BY <1>1, <3>1, <3>2, <3>3 DEF Nexts
  <2>2. HandHead' = HandHead
    BY PutterKeepsHand DEF malloc_aligned, shared
  <2> QED  BY <2>1, <2>2, LaidStays DEF Whole, malloc_aligned, shared
<1>4. Held' = Held \cup {n}
  <2>1. new \in [Putters -> Node \cup {Null}]
    BY SemiTypes
  <2>2. \A y : y \in Held' <=> y \in Held \cup {n}
    BY <1>1, <1>2, <2>1 DEF Held
  <2> QED  BY <2>2
<1>5. Placed(I, O, H)'
  BY <1>1, <1>4 DEF Whole, Placed
<1> QED  BY <1>3, <1>5 DEF Whole

LEMMA LinkKeepsLists ==
  ASSUME CallsInv, NEW p \in Putters, PutLink(p),
         NEW I \in Lists, NEW O \in Lists, NEW H \in Lists, Whole(I, O, H)
  PROVE  Whole(I, O, H)'
<1>1. new[p] \in Held /\ new[p] \in Node
  BY SemiTypes DEF CallsInv, PutterInv, PutLink, Held
<1>2. Laid(I, O, H)'
  <2>1. \A m \in UNION {ToSet(I), ToSet(O), ToSet(H)} : next'[m] = next[m]
    <3>1. new[p] \notin UNION {ToSet(I), ToSet(O), ToSet(H)}
      BY <1>1 DEF Whole, Placed
    <3>2. UNION {ToSet(I), ToSet(O), ToSet(H)} \subseteq Node
      BY ListFacts
    <3>3. next \in Nexts
      BY SemiTypes
    <3> QED  BY <3>1, <3>2, <3>3 DEF Nexts, PutLink
  <2>2. HandHead' = HandHead
    BY PutterKeepsHand DEF PutLink, shared
  <2> QED  BY <2>1, <2>2, LaidStays DEF Whole, PutLink, shared
<1>3. Placed(I, O, H)'
  BY DEF Whole, Placed, Held, PutLink, client
<1> QED  BY <1>2, <1>3 DEF Whole

\* A compare-and-swap that succeeds puts the node in front of the in_queue list,
\* where its next field leads already.
LEMMA PushAddsNode ==
  ASSUME CallsInv, NEW p \in Putters, PutPush(p), in_queue = seen[p],
         NEW I \in Lists, NEW O \in Lists, NEW H \in Lists, Whole(I, O, H),
         NEW x, x = new[p]
  PROVE  /\ x \in Node /\ x \in Held
         /\ <<x>> \o I \in Lists /\ Whole(<<x>> \o I, O, H)'
<1>1. x \in Held /\ x \in Node /\ x # Null /\ next[x] = in_queue
  BY SemiTypes DEF CallsInv, PutterInv, PutPush, Held
<1>2. x \notin UNION {ToSet(I), ToSet(O), ToSet(H)}
  BY <1>1 DEF Whole, Placed
<1>3. /\ in_queue' = x /\ new' = [new EXCEPT ![p] = Null]
      /\ UNCHANGED <<out_queue, lock, free, next, head>>
      /\ Goto(p, "alloc")
  BY DEF PutPush
<1>4. /\ <<x>> \o I \in Lists /\ Linked(next, x, <<x>> \o I)
      /\ ToSet(<<x>> \o I) = ToSet(I) \cup {x}
  <2>1. Linked(next, in_queue, I)
    BY DEF Whole, Laid
  <2> QED  BY <1>1, <1>2, <2>1, FrontOfList
<1>5. HandHead' = HandHead
  BY <1>3, PutterKeepsHand
<1>6. Held' = Held \ {x}
  <2>1. new \in [Putters -> Node \cup {Null}]
    BY SemiTypes
  <2>2. \A q \in Putters : q # p /\ new[q] # Null => new[q] # x
    BY <1>1 DEF CallsInv, PutterInv
  <2>3. ASSUME NEW y PROVE y \in Held' <=> y \in Held /\ y # x
    <3>1. CASE y \in Held'
      <4>1. PICK q \in Putters : y = new'[q] /\ new'[q] # Null
        BY <3>1 DEF Held
      <4>2. q # p /\ y = new[q] /\ new[q] # Null
        BY <1>3, <2>1, <4>1
      <4> QED  BY <2>2, <3>1, <4>2 DEF Held
    <3>2. CASE y \in Held /\ y # x
      <4>1. PICK q \in Putters : y = new[q] /\ new[q] # Null
        BY <3>2 DEF Held
      <4>2. q # p /\ y = new'[q] /\ new'[q] # Null
        BY <1>3, <2>1, <3>2, <4>1
      <4> QED  BY <3>2, <4>2 DEF Held
    <3> QED  BY <3>1, <3>2
  <2> QED  BY <2>3
<1>7. Laid(<<x>> \o I, O, H)'
  <2>1. Linked(next, out_queue, O) /\ Linked(next, HandHead, H)
    BY DEF Whole, Laid
  <2> QED  BY <1>3, <1>4, <1>5, <2>1 DEF Laid
<1>8. Placed(<<x>> \o I, O, H)'
  <2> DEFINE M == <<x>> \o I
  <2>1. ToSet(M) = ToSet(I) \cup {x}
    BY <1>4
  <2> HIDE DEF M
  <2> SUFFICES Placed(M, O, H)'
    BY DEF M
  <2> QED  BY <1>1, <1>2, <1>3, <1>6, <2>1 DEF Whole, Placed
<1> QED  BY <1>1, <1>4, <1>7, <1>8 DEF Whole

\* One that fails changes none of them.
LEMMA FailedPushKeepsLists ==
  ASSUME CallsInv, NEW p \in Putters, PutPush(p), in_queue # seen[p],
         NEW I \in Lists, NEW O \in Lists, NEW H \in Lists, Whole(I, O, H)
  PROVE  Whole(I, O, H)'
<1>1. /\ UNCHANGED <<in_queue, new, out_queue, lock, free, next, head>>
      /\ Goto(p, "link")
  BY DEF PutPush
<1>2. HandHead' = HandHead
  BY <1>1, PutterKeepsHand
<1>3. Laid(I, O, H)'
  BY <1>1, <1>2, LaidStays DEF Whole
<1>4. Placed(I, O, H)'
  BY <1>1 DEF Whole, Placed, Held
<1> QED  BY <1>3, <1>4 DEF Whole

\* A getter in a call is the holder of the mutex, and has what is in hand.
LEMMA HolderHas ==
  ASSUME CallsInv, NEW g \in Getters, pc[g] # "lock"
  PROVE  /\ lock = g /\ lock # Nobody
         /\ HandHead = IF pc[g] = "reverse" THEN head[g] ELSE Null
         /\ \A h \in Getters : h # g => pc[h] = "lock"
BY SemiTypes DEF CallsInv, GetterInv, HandHead

\* The steps of a getter that leave the lists alone.
LEMMA LookKeepsLists ==
  ASSUME CallsInv, NEW g \in Getters,
         GetLock(g) \/ GetLoad(g) \/ (GetTake(g) /\ in_queue # head[g]),
         NEW I \in Lists, NEW O \in Lists, NEW H \in Lists, Whole(I, O, H)
  PROVE  Whole(I, O, H)'
<1>1. UNCHANGED <<in_queue, out_queue, next, free, new>>
  BY DEF GetLock, GetLoad, GetTake, shared, client
<1>2. HandHead' = HandHead
  <2>1. pc \in [Threads -> Steps] /\ g \in Threads /\ g # Nobody
    BY SemiTypes
  <2>2. CASE GetLock(g)
    <3>1. lock = Nobody /\ lock' = g /\ pc'[g] # "reverse"
      BY <2>1, <2>2 DEF GetLock, Goto
    <3> QED  BY <3>1 DEF HandHead
  <2>3. CASE GetLoad(g) \/ (GetTake(g) /\ in_queue # head[g])
    <3>1. pc[g] \in {"load", "take"} /\ lock' = lock /\ pc'[g] # "reverse"
      BY <2>1, <2>3 DEF GetLoad, GetTake, Goto, shared
    <3>2. lock = g /\ HandHead = Null
      BY <3>1, HolderHas
    <3> QED  BY <3>1, <3>2 DEF HandHead
  <2> QED  BY <2>2, <2>3
<1>3. Laid(I, O, H)'
  BY <1>1, <1>2, LaidStays DEF Whole
<1>4. Placed(I, O, H)'
  BY <1>1 DEF Whole, Placed, Held
<1> QED  BY <1>3, <1>4 DEF Whole

\* A compare-and-swap that succeeds takes the whole in_queue list; out_queue is
\* empty, and so was the hand.
LEMMA TakeMovesList ==
  ASSUME CallsInv, NEW g \in Getters, GetTake(g), in_queue = head[g],
         NEW I \in Lists, NEW O \in Lists, NEW H \in Lists, Whole(I, O, H)
  PROVE  O = <<>> /\ H = <<>> /\ Whole(<<>>, O, I)'
<1>1. /\ lock = g /\ lock # Nobody /\ HandHead = Null /\ out_queue = Null
      /\ pc \in [Threads -> Steps] /\ g \in Threads
  BY HolderHas, SemiTypes DEF CallsInv, GetterInv, GetTake
<1>2. /\ Linked(next, in_queue, I) /\ Linked(next, out_queue, O)
      /\ Linked(next, HandHead, H)
  BY DEF Whole, Laid
<1>3. O = <<>> /\ H = <<>>
  BY <1>1, <1>2, FirstOfList
<1>4. /\ UNCHANGED <<out_queue, lock, next, free, new, head>>
      /\ in_queue' = Null /\ pc' = [pc EXCEPT ![g] = "reverse"]
  BY DEF GetTake, Goto, client
<1>5. HandHead' = in_queue
  <2>1. pc'[g] = "reverse" /\ head'[g] = in_queue
    BY <1>1, <1>4 DEF GetTake
  <2> QED  BY <1>1, <1>4, <2>1 DEF HandHead
<1>6. Laid(<<>>, O, I)'
  <2>1. Linked(next, Null, <<>>)
    BY EmptyList
  <2> QED  BY <1>2, <1>4, <1>5, <2>1 DEF Laid
<1>7. Placed(<<>>, O, I)'
  <2>1. ToSet(O) = {} /\ ToSet(H) = {} /\ ToSet(<<>>) = {}
    BY <1>3, EmptyList
  <2>2. Held' = Held
    BY <1>4 DEF Held
  <2>3. /\ Node = UNION {free, Held, ToSet(<<>>), ToSet(O), ToSet(I)}
        /\ free \cap UNION {Held, ToSet(<<>>), ToSet(O), ToSet(I)} = {}
        /\ Held \cap UNION {ToSet(<<>>), ToSet(O), ToSet(I)} = {}
    BY <2>1 DEF Whole, Placed
  <2> QED  BY <1>4, <2>1, <2>2, <2>3 DEF Placed
<1> QED  BY <1>3, <1>6, <1>7 DEF Whole

\* One round of the loop moves the first node in hand to the front of out_queue.
LEMMA ReverseMovesNode ==
  ASSUME CallsInv, NEW g \in Getters, GetReverse(g), head[g] # Null,
         NEW I \in Lists, NEW O \in Lists, NEW H \in Lists, Whole(I, O, H),
         NEW x, x = head[g]
  PROVE  /\ x \in Node /\ x \in ToSet(H) /\ H = <<x>> \o Tail(H)
         /\ <<x>> \o O \in Lists /\ Tail(H) \in Lists
         /\ Whole(I, <<x>> \o O, Tail(H))'
<1>1. /\ lock = g /\ lock # Nobody /\ HandHead = x /\ x # Null
      /\ pc[g] = "reverse" /\ next \in Nexts /\ head \in [Getters -> Node \cup {Null}]
  BY HolderHas, SemiTypes DEF GetReverse
<1>2. /\ Linked(next, in_queue, I) /\ Linked(next, out_queue, O) /\ Linked(next, x, H)
  BY <1>1 DEF Whole, Laid
<1>3. /\ x \in Node /\ x \in ToSet(H)
  BY <1>1, <1>2, FirstOfList
<1>4. /\ Tail(H) \in Lists /\ Linked(next, next[x], Tail(H))
      /\ ToSet(H) = ToSet(Tail(H)) \cup {x} /\ x \notin ToSet(Tail(H))
      /\ H = <<x>> \o Tail(H)
  BY <1>1, <1>2, RestOfList
<1>5. /\ next' = [next EXCEPT ![x] = out_queue] /\ out_queue' = x
      /\ head' = [head EXCEPT ![g] = next[x]]
      /\ UNCHANGED <<in_queue, lock, pc, free, new>>
  BY DEF GetReverse, client
<1>6. \A m \in Node : m # x => next'[m] = next[m]
  BY <1>1, <1>5 DEF Nexts
<1>7. next'[x] = out_queue
  BY <1>1, <1>3, <1>5 DEF Nexts
<1>8. x \notin ToSet(I) /\ x \notin ToSet(O)
  BY <1>3 DEF Whole, Placed
<1>9. HandHead' = next[x]
  <2>1. head'[g] = next[x]
    BY <1>1, <1>5
  <2> QED  BY <1>1, <1>5, <2>1 DEF HandHead
<1>10. /\ Linked(next', in_queue, I) /\ Linked(next', out_queue, O)
       /\ Linked(next', next[x], Tail(H))
  <2>1. /\ ToSet(I) \subseteq Node /\ ToSet(O) \subseteq Node
        /\ ToSet(Tail(H)) \subseteq Node
    BY <1>4, ListFacts
  <2>2. /\ \A m \in ToSet(I) : next'[m] = next[m]
        /\ \A m \in ToSet(O) : next'[m] = next[m]
        /\ \A m \in ToSet(Tail(H)) : next'[m] = next[m]
    BY <1>4, <1>6, <1>8, <2>1
  <2> QED  BY <1>2, <1>4, <2>2, ListStays
<1>11. /\ <<x>> \o O \in Lists /\ Linked(next', x, <<x>> \o O)
       /\ ToSet(<<x>> \o O) = ToSet(O) \cup {x}
  BY <1>3, <1>7, <1>8, <1>10, FrontOfList
<1>12. Laid(I, <<x>> \o O, Tail(H))'
  BY <1>5, <1>9, <1>10, <1>11 DEF Laid
<1>13. Placed(I, <<x>> \o O, Tail(H))'
  <2> DEFINE M == <<x>> \o O
             T == Tail(H)
  <2>1. /\ ToSet(M) = ToSet(O) \cup {x} /\ ToSet(H) = ToSet(T) \cup {x}
        /\ x \notin ToSet(T)
    BY <1>4, <1>11
  <2>2. Held' = Held /\ free' = free
    BY <1>5 DEF Held
  <2> HIDE DEF M, T
  <2>3. Placed(I, M, T)'
    BY <1>8, <2>1, <2>2 DEF Whole, Placed
  <2> QED  BY <2>3 DEF M, T
<1> QED  BY <1>3, <1>4, <1>11, <1>12, <1>13 DEF Whole

\* The loop ends with nothing in hand.
LEMMA ReverseEndKeepsLists ==
  ASSUME CallsInv, NEW g \in Getters, GetReverse(g), head[g] = Null,
         NEW I \in Lists, NEW O \in Lists, NEW H \in Lists, Whole(I, O, H)
  PROVE  Whole(I, O, H)'
<1>1. UNCHANGED <<in_queue, out_queue, next, free, new, lock, head>>
  BY DEF GetReverse, client
<1>2. HandHead' = HandHead
  <2>1. lock = g /\ HandHead = Null
    BY HolderHas DEF GetReverse
  <2>2. pc'[g] = "pop"
    BY SemiTypes DEF GetReverse, Goto
  <2> QED  BY <1>1, <2>1, <2>2 DEF HandHead
<1>3. Laid(I, O, H)'
  BY <1>1, <1>2, LaidStays DEF Whole
<1>4. Placed(I, O, H)'
  BY <1>1 DEF Whole, Placed, Held
<1> QED  BY <1>3, <1>4 DEF Whole

\* The pop takes the first node of out_queue and frees it; nothing is in hand.
LEMMA PopTakesNode ==
  ASSUME CallsInv, NEW g \in Getters, GetPop(g), out_queue # Null,
         NEW I \in Lists, NEW O \in Lists, NEW H \in Lists, Whole(I, O, H),
         NEW x, x = out_queue
  PROVE  /\ x \in Node /\ H = <<>> /\ O = <<x>> \o Tail(O) /\ Tail(O) \in Lists
         /\ Whole(I, Tail(O), H)'
<1>1. /\ lock = g /\ lock # Nobody /\ HandHead = Null
  BY HolderHas DEF GetPop
<1>2. /\ Linked(next, in_queue, I) /\ Linked(next, x, O) /\ Linked(next, HandHead, H)
  BY DEF Whole, Laid
<1>3. x \in Node /\ H = <<>>
  BY <1>1, <1>2, FirstOfList
<1>4. /\ Tail(O) \in Lists /\ Linked(next, next[x], Tail(O))
      /\ ToSet(O) = ToSet(Tail(O)) \cup {x} /\ x \notin ToSet(Tail(O))
      /\ O = <<x>> \o Tail(O)
  BY <1>2, RestOfList
<1>5. /\ out_queue' = next[x] /\ free' = free \cup {x} /\ lock' = Nobody
      /\ UNCHANGED <<in_queue, next, new>>
  <2>1. {x} \ {Null} = {x}
    OBVIOUS
  <2> QED  BY <2>1 DEF GetPop
<1>6. HandHead' = HandHead
  BY <1>1, <1>5 DEF HandHead
<1>7. Laid(I, Tail(O), H)'
  BY <1>2, <1>4, <1>5, <1>6 DEF Laid
<1>8. Placed(I, Tail(O), H)'
  <2> DEFINE T == Tail(O)
  <2>1. ToSet(O) = ToSet(T) \cup {x} /\ x \notin ToSet(T)
    BY <1>4
  <2>2. Held' = Held
    BY <1>5 DEF Held
  <2> HIDE DEF T
  <2>3. Placed(I, T, H)'
    BY <1>5, <2>1, <2>2 DEF Whole, Placed
  <2> QED  BY <2>3 DEF T
<1> QED  BY <1>3, <1>4, <1>7, <1>8 DEF Whole

\* A pop that finds out_queue empty.
LEMMA EmptyPopKeepsLists ==
  ASSUME CallsInv, NEW g \in Getters, GetPop(g), out_queue = Null,
         NEW I \in Lists, NEW O \in Lists, NEW H \in Lists, Whole(I, O, H)
  PROVE  Whole(I, O, H)'
<1>1. UNCHANGED <<in_queue, out_queue, next, free, new>> /\ lock' = Nobody
  BY DEF GetPop
<1>2. HandHead' = HandHead
  BY <1>1, HolderHas DEF HandHead, GetPop
<1>3. Laid(I, O, H)'
  BY <1>1, <1>2, LaidStays DEF Whole
<1>4. Placed(I, O, H)'
  BY <1>1 DEF Whole, Placed, Held
<1> QED  BY <1>3, <1>4 DEF Whole

-----------------------------------------------------------------------------
(* What the steps do to the calls                                          *)

\* The getters do not notice a step of a putter.
LEMMA PutterKeepsGetters ==
  ASSUME CallsInv, NEW p \in Putters, NEW s \in Steps, Goto(p, s),
         UNCHANGED <<lock, got, out_queue, head>>
  PROVE  GetterInv' /\ pc' \in [Threads -> Steps]
<1>1. /\ pc \in [Threads -> Steps] /\ Getters \subseteq Threads /\ p \in Threads
      /\ p \notin Getters
  BY SemiTypes
<1>2. \A g \in Getters : pc'[g] = pc[g]
  BY <1>1 DEF Goto
<1>3. pc' \in [Threads -> Steps]
  BY <1>1 DEF Goto
<1>4. GetterInv
  BY DEF CallsInv
<1> QED  BY <1>2, <1>3, <1>4 DEF GetterInv

LEMMA AllocKeepsCalls ==
  ASSUME CallsInv, NEW p \in Putters, malloc_aligned(p),
         NEW I \in Lists, NEW O \in Lists, NEW H \in Lists, Whole(I, O, H)
  PROVE  CallsInv'
<1>1. PICK n \in free : /\ new' = [new EXCEPT ![p] = n]
                        /\ free' = free \ {n}
                        /\ next' = [next EXCEPT ![n] = Null]
                        /\ item' = [item EXCEPT ![n] = <<p, puts[p] + 1>>]
  BY DEF malloc_aligned
<1>2. /\ Goto(p, "link") /\ puts[p] < PutLimit /\ pc[p] = "alloc"
      /\ UNCHANGED <<in_queue, out_queue, lock, seen, head, puts, got>>
  BY DEF malloc_aligned, shared
<1>3. /\ n \in Node /\ n # Null /\ n \notin Held
      /\ puts[p] \in 0 .. PutLimit /\ PutLimit \in Nat
  BY SemiTypes, SemiBlockingAssumption DEF Whole, Placed
<1>4. <<p, puts[p] + 1>> \in Item
  BY <1>2, <1>3 DEF Item
<1>5. TypeOK'
  <2>1. next' \in [Node -> Node \cup {Null}]
    BY <1>1, SemiTypes DEF Nexts
  <2>2. item' \in [Node -> Item \cup {Null}]
    BY <1>1, <1>4, SemiTypes
  <2>3. new' \in [Putters -> Node \cup {Null}] /\ free' \subseteq Node
    BY <1>1, <1>3, SemiTypes
  <2>4. TypeOK
    BY DEF CallsInv
  <2> QED  BY <1>2, <2>1, <2>2, <2>3, <2>4 DEF TypeOK
<1>6. GetterInv' /\ pc' \in [Threads -> Steps]
  BY <1>2, PutterKeepsGetters DEF Steps
<1>7. ASSUME NEW q \in Putters
      PROVE  /\ pc'[q] \in {"alloc", "link", "push"}
             /\ new'[q] = Null <=> pc'[q] = "alloc"
             /\ new'[q] # Null => /\ puts[q] < PutLimit
                                  /\ item'[new'[q]] = <<q, puts[q] + 1>>
             /\ pc'[q] = "push" => next'[new'[q]] = seen[q]
             /\ \A r \in Putters : new'[q] # Null /\ new'[q] = new'[r] => q = r
  <2>1. /\ pc \in [Threads -> Steps] /\ q \in Threads /\ p \in Threads
        /\ new \in [Putters -> Node \cup {Null}] /\ next \in Nexts
        /\ item \in [Node -> Item \cup {Null}]
    BY SemiTypes
  <2>2. \A r \in Putters : new[r] # n
    BY <1>3 DEF Held
  <2>3. /\ pc[q] \in {"alloc", "link", "push"}
        /\ new[q] = Null <=> pc[q] = "alloc"
        /\ new[q] # Null => puts[q] < PutLimit /\ item[new[q]] = <<q, puts[q] + 1>>
        /\ pc[q] = "push" => next[new[q]] = seen[q]
        /\ \A r \in Putters : new[q] # Null /\ new[q] = new[r] => q = r
    BY DEF CallsInv, PutterInv
  <2>4. CASE q = p
    <3>1. pc'[q] = "link" /\ new'[q] = n /\ item'[n] = <<q, puts[q] + 1>>
      BY <1>1, <1>2, <1>3, <2>1, <2>4 DEF Goto
    <3>2. \A r \in Putters : r # p => new'[r] = new[r]
      BY <1>1, <2>1
    <3> QED  BY <1>2, <1>3, <2>2, <2>4, <3>1, <3>2
  <2>5. CASE q # p
    <3>1. pc'[q] = pc[q] /\ new'[q] = new[q] /\ new'[p] = n
      BY <1>1, <1>2, <2>1, <2>5 DEF Goto
    <3>2. new[q] # Null => /\ next'[new[q]] = next[new[q]]
                           /\ item'[new[q]] = item[new[q]]
      BY <1>1, <2>1, <2>2 DEF Nexts
    <3>3. \A r \in Putters : r # p => new'[r] = new[r]
      BY <1>1, <2>1
    <3> QED  BY <2>2, <2>3, <3>1, <3>2, <3>3
  <2> QED  BY <2>4, <2>5
<1>8. PutterInv'
  BY <1>2, <1>7 DEF PutterInv
<1> QED  BY <1>5, <1>6, <1>8 DEF CallsInv

LEMMA LinkKeepsCalls ==
  ASSUME CallsInv, NEW p \in Putters, PutLink(p)
  PROVE  CallsInv'
<1>1. /\ Goto(p, "push") /\ pc[p] = "link"
      /\ seen' = [seen EXCEPT ![p] = in_queue]
      /\ next' = [next EXCEPT ![new[p]] = in_queue]
      /\ UNCHANGED <<in_queue, out_queue, lock, free, item, puts, got, new, head>>
  BY DEF PutLink, shared, client
<1>2. /\ pc \in [Threads -> Steps] /\ p \in Threads /\ Putters \subseteq Threads
      /\ new \in [Putters -> Node \cup {Null}] /\ next \in Nexts
      /\ seen \in [Putters -> Node \cup {Null}] /\ in_queue \in Node \cup {Null}
      /\ PutterInv
  BY SemiTypes DEF CallsInv
<1>3. new[p] \in Node /\ new[p] # Null
  BY <1>1, <1>2 DEF PutterInv
<1>4. TypeOK'
  <2>1. next' \in [Node -> Node \cup {Null}] /\ seen' \in [Putters -> Node \cup {Null}]
    BY <1>1, <1>2 DEF Nexts
  <2>2. TypeOK
    BY DEF CallsInv
  <2> QED  BY <1>1, <2>1, <2>2 DEF TypeOK
<1>5. GetterInv' /\ pc' \in [Threads -> Steps]
  BY <1>1, PutterKeepsGetters DEF Steps
<1>6. ASSUME NEW q \in Putters
      PROVE  /\ pc'[q] \in {"alloc", "link", "push"}
             /\ new[q] = Null <=> pc'[q] = "alloc"
             /\ pc'[q] = "push" => next'[new[q]] = seen'[q]
  <2>1. CASE q = p
    BY <1>1, <1>2, <1>3, <2>1 DEF Goto, Nexts
  <2>2. CASE q # p
    <3>1. pc'[q] = pc[q] /\ seen'[q] = seen[q]
      BY <1>1, <1>2, <2>2 DEF Goto
    <3>2. new[q] # Null => new[q] # new[p] /\ next'[new[q]] = next[new[q]]
      BY <1>1, <1>2, <1>3, <2>2 DEF PutterInv, Nexts
    <3> QED  BY <1>2, <3>1, <3>2 DEF PutterInv
  <2> QED  BY <2>1, <2>2
<1>7. PutterInv'
  BY <1>1, <1>2, <1>6 DEF PutterInv
<1> QED  BY <1>4, <1>5, <1>7 DEF CallsInv

LEMMA PushKeepsCalls ==
  ASSUME CallsInv, NEW p \in Putters, PutPush(p)
  PROVE  CallsInv'
<1>1. /\ pc \in [Threads -> Steps] /\ p \in Threads /\ Putters \subseteq Threads
      /\ new \in [Putters -> Node \cup {Null}] /\ next \in Nexts
      /\ puts \in [Putters -> 0 .. PutLimit]
      /\ PutterInv /\ TypeOK /\ pc[p] = "push" /\ PutLimit \in Nat
      /\ UNCHANGED <<out_queue, lock, free, item, got, next, seen, head>>
  BY SemiTypes, SemiBlockingAssumption DEF CallsInv, PutPush
<1>2. new[p] \in Node /\ new[p] # Null /\ puts[p] < PutLimit
  BY <1>1 DEF PutterInv
<1>3. CASE in_queue = seen[p]
  <2>1. /\ in_queue' = new[p] /\ new' = [new EXCEPT ![p] = Null]
        /\ puts' = [puts EXCEPT ![p] = @ + 1] /\ Goto(p, "alloc")
    BY <1>3 DEF PutPush
  <2>2. TypeOK'
    <3>1. new' \in [Putters -> Node \cup {Null}] /\ in_queue' \in Node \cup {Null}
      BY <1>1, <1>2, <2>1
    <3>2. puts' \in [Putters -> 0 .. PutLimit]
      <4>1. puts[p] + 1 \in 0 .. PutLimit
        BY <1>1, <1>2
      <4> QED  BY <1>1, <2>1, <4>1
    <3> QED  BY <1>1, <3>1, <3>2 DEF TypeOK
  <2>3. GetterInv' /\ pc' \in [Threads -> Steps]
    BY <1>1, <2>1, PutterKeepsGetters DEF Steps
  <2>4. /\ pc'[p] = "alloc" /\ new'[p] = Null
        /\ \A q \in Putters : q # p =>
             pc'[q] = pc[q] /\ new'[q] = new[q] /\ puts'[q] = puts[q]
    BY <1>1, <2>1 DEF Goto
  <2>5. PutterInv'
    BY <1>1, <2>4 DEF PutterInv
  <2> QED  BY <2>2, <2>3, <2>5 DEF CallsInv
<1>4. CASE in_queue # seen[p]
  <2>1. Goto(p, "link") /\ UNCHANGED <<in_queue, new, puts>>
    BY <1>4 DEF PutPush
  <2>2. TypeOK'
    BY <1>1, <2>1 DEF TypeOK
  <2>3. GetterInv' /\ pc' \in [Threads -> Steps]
    BY <1>1, <2>1, PutterKeepsGetters DEF Steps
  <2>4. /\ pc'[p] = "link" /\ \A q \in Putters : q # p => pc'[q] = pc[q]
    BY <1>1, <2>1 DEF Goto
  <2>5. PutterInv'
    BY <1>1, <1>2, <2>1, <2>4 DEF PutterInv
  <2> QED  BY <2>2, <2>3, <2>5 DEF CallsInv
<1> QED  BY <1>3, <1>4

\* The putters do not notice a step of a getter that leaves the fields of their
\* nodes alone.
LEMMA GetterKeepsPutters ==
  ASSUME CallsInv, NEW g \in Getters, NEW s \in Steps, Goto(g, s),
         UNCHANGED <<new, seen, puts, item>>, \A n \in Held : next'[n] = next[n]
  PROVE  PutterInv' /\ pc' \in [Threads -> Steps]
<1>1. /\ pc \in [Threads -> Steps] /\ Putters \subseteq Threads /\ g \in Threads
      /\ g \notin Putters /\ PutterInv
  BY SemiTypes DEF CallsInv
<1>2. \A p \in Putters : pc'[p] = pc[p]
  BY <1>1 DEF Goto
<1>3. pc' \in [Threads -> Steps]
  BY <1>1 DEF Goto
<1>4. \A p \in Putters : new[p] # Null => next'[new[p]] = next[new[p]]
  BY DEF Held
<1>5. PutterInv'
  BY <1>1, <1>2, <1>4 DEF PutterInv
<1> QED  BY <1>3, <1>5

LEMMA LookKeepsCalls ==
  ASSUME CallsInv, NEW g \in Getters, GetLock(g) \/ GetLoad(g) \/ GetTake(g)
  PROVE  CallsInv'
<1>1. /\ pc \in [Threads -> Steps] /\ g \in Threads /\ g # Nobody
      /\ head \in [Getters -> Node \cup {Null}] /\ in_queue \in Node \cup {Null}
      /\ GetterInv /\ TypeOK /\ Getters \subseteq Threads
  BY SemiTypes DEF CallsInv
<1>2. /\ UNCHANGED <<out_queue, free, item, puts, got, next, new, seen>>
      /\ \E s \in Steps : Goto(g, s)
  BY DEF GetLock, GetLoad, GetTake, shared, client, Steps
<1>3. PutterInv' /\ pc' \in [Threads -> Steps]
  BY <1>2, GetterKeepsPutters
<1>4. TypeOK'
  <2>1. /\ in_queue' \in Node \cup {Null} /\ lock' \in Getters \cup {Nobody}
        /\ head' \in [Getters -> Node \cup {Null}]
    BY <1>1 DEF GetLock, GetLoad, GetTake, shared, TypeOK
  <2> QED  BY <1>1, <1>2, <2>1 DEF TypeOK
<1>5. \A h \in Getters : h # g => pc'[h] = pc[h]
  BY <1>1, <1>2 DEF Goto
<1>6. GetterInv'
  <2>1. CASE GetLock(g)
    <3>1. /\ lock = Nobody /\ lock' = g /\ head' = head /\ Len(got[g]) < GetLimit
          /\ pc'[g] = IF out_queue = Null THEN "load" ELSE "pop"
      BY <1>1, <2>1 DEF GetLock, Goto
    <3>2. \A h \in Getters : pc[h] = "lock"
      BY <1>1, <3>1, SemiTypes DEF GetterInv
    <3> QED  BY <1>1, <1>2, <1>5, <3>1, <3>2 DEF GetterInv
  <2>2. CASE GetLoad(g)
    <3>1. /\ lock = g /\ lock' = g /\ Len(got[g]) < GetLimit /\ out_queue = Null
          /\ pc'[g] = IF in_queue = Null THEN "pop" ELSE "take"
          /\ head'[g] = in_queue
          /\ \A h \in Getters : h # g => pc[h] = "lock"
      BY <1>1, <2>2, HolderHas DEF GetLoad, Goto, shared, GetterInv
    <3> QED  BY <1>1, <1>2, <1>5, <2>2, <3>1 DEF GetterInv
  <2>3. CASE GetTake(g)
    <3>1. /\ lock = g /\ lock' = g /\ Len(got[g]) < GetLimit /\ out_queue = Null
          /\ pc'[g] \in {"reverse", "load"} /\ head' = head /\ head[g] # Null
          /\ \A h \in Getters : h # g => pc[h] = "lock"
      BY <1>1, <2>3, HolderHas DEF GetTake, Goto, GetterInv
    <3> QED  BY <1>1, <1>2, <1>5, <2>3, <3>1 DEF GetterInv
  <2> QED  BY <2>1, <2>2, <2>3
<1> QED  BY <1>3, <1>4, <1>6 DEF CallsInv

LEMMA ReverseKeepsCalls ==
  ASSUME CallsInv, NEW g \in Getters, GetReverse(g),
         NEW I \in Lists, NEW O \in Lists, NEW H \in Lists, Whole(I, O, H)
  PROVE  CallsInv'
<1>1. /\ pc \in [Threads -> Steps] /\ g \in Threads /\ next \in Nexts
      /\ head \in [Getters -> Node \cup {Null}]
      /\ out_queue \in Node \cup {Null}
      /\ GetterInv /\ PutterInv /\ TypeOK /\ Getters \subseteq Threads
      /\ pc[g] = "reverse" /\ lock = g /\ Len(got[g]) < GetLimit
      /\ \A h \in Getters : h # g => pc[h] = "lock"
      /\ UNCHANGED <<in_queue, lock, free, item, puts, got, new, seen>>
  BY SemiTypes, HolderHas DEF CallsInv, GetReverse, client, GetterInv
<1>2. CASE head[g] # Null
  <2> DEFINE x == head[g]
  <2>1. x \in Node /\ x \in ToSet(H)
    BY <1>2, ReverseMovesNode
  <2>2. /\ next' = [next EXCEPT ![x] = out_queue] /\ out_queue' = x
        /\ head' = [head EXCEPT ![g] = next[x]] /\ pc' = pc
    BY <1>2 DEF GetReverse
  <2>3. x \notin Held /\ Held \subseteq Node
    BY <2>1 DEF Whole, Placed
  <2> HIDE DEF x
  <2>4. \A n \in Held : next'[n] = next[n]
    BY <1>1, <2>2, <2>3 DEF Nexts
  <2>5. PutterInv'
    <3>1. \A p \in Putters : new[p] # Null => next'[new[p]] = next[new[p]]
      BY <2>4 DEF Held
    <3> QED  BY <1>1, <2>2, <3>1 DEF PutterInv
  <2>6. TypeOK'
    <3>1. next[x] \in Node \cup {Null}
      BY <1>1, <2>1 DEF Nexts
    <3>2. /\ next' \in [Node -> Node \cup {Null}] /\ out_queue' \in Node \cup {Null}
          /\ head' \in [Getters -> Node \cup {Null}]
      BY <1>1, <2>1, <2>2, <3>1 DEF Nexts
    <3> QED  BY <1>1, <3>2 DEF TypeOK
  <2>7. GetterInv'
    <3>1. out_queue' # Null
      BY <2>1, <2>2, SemiBlockingAssumption
    <3> QED  BY <1>1, <2>2, <3>1 DEF GetterInv
  <2> QED  BY <1>1, <2>2, <2>5, <2>6, <2>7 DEF CallsInv
<1>3. CASE head[g] = Null
  <2>1. Goto(g, "pop") /\ UNCHANGED <<next, out_queue, head>>
    BY <1>3 DEF GetReverse
  <2>2. PutterInv' /\ pc' \in [Threads -> Steps]
    BY <1>1, <2>1, GetterKeepsPutters DEF Steps
  <2>3. TypeOK'
    BY <1>1, <2>1 DEF TypeOK
  <2>4. pc'[g] = "pop" /\ \A h \in Getters : h # g => pc'[h] = pc[h]
    BY <1>1, <2>1 DEF Goto
  <2>5. GetterInv'
    BY <1>1, <2>1, <2>4 DEF GetterInv
  <2> QED  BY <2>2, <2>3, <2>5 DEF CallsInv
<1> QED  BY <1>2, <1>3

LEMMA PopKeepsCalls ==
  ASSUME CallsInv, NEW g \in Getters, GetPop(g)
  PROVE  CallsInv'
<1>1. /\ pc \in [Threads -> Steps] /\ g \in Threads /\ next \in Nexts
      /\ out_queue \in Node \cup {Null} /\ g # Nobody
      /\ item \in [Node -> Item \cup {Null}] /\ free \subseteq Node
      /\ got \in [Getters -> Seq(Item \cup {Null})]
      /\ GetterInv /\ TypeOK /\ Getters \subseteq Threads
      /\ Len(got[g]) < GetLimit /\ Nobody \notin Getters
      /\ \A h \in Getters : h # g => pc[h] = "lock"
  BY SemiTypes, HolderHas DEF CallsInv, GetPop, GetterInv
<1>2. /\ Goto(g, "lock") /\ lock' = Nobody
      /\ out_queue' = IF out_queue = Null THEN Null ELSE next[out_queue]
      /\ got' = [got EXCEPT ![g] =
                   Append(@, IF out_queue = Null THEN Null ELSE item[out_queue])]
      /\ free' = free \cup ({out_queue} \ {Null})
      /\ UNCHANGED <<in_queue, item, puts, next, new, seen, head>>
  BY DEF GetPop
<1>3. PutterInv' /\ pc' \in [Threads -> Steps]
  BY <1>2, GetterKeepsPutters DEF Steps
<1>4. TypeOK'
  <2>1. out_queue' \in Node \cup {Null} /\ free' \subseteq Node
    BY <1>1, <1>2 DEF Nexts
  <2>2. PICK v \in Item \cup {Null} : got' = [got EXCEPT ![g] = Append(@, v)]
    BY <1>1, <1>2
  <2>3. /\ Append(got[g], v) \in Seq(Item \cup {Null})
        /\ Len(Append(got[g], v)) = Len(got[g]) + 1 /\ Len(got[g]) \in Nat
    BY <1>1
  <2>4. got' \in [Getters -> Seq(Item \cup {Null})]
    BY <1>1, <2>2, <2>3
  <2>5. \A h \in Getters : Len(got'[h]) <= GetLimit
    BY <1>1, <2>2, <2>3, SemiBlockingAssumption DEF TypeOK
  <2> QED  BY <1>1, <1>2, <2>1, <2>4, <2>5 DEF TypeOK
<1>5. /\ pc'[g] = "lock" /\ \A h \in Getters : h # g => pc'[h] = "lock"
  BY <1>1, <1>2 DEF Goto
<1>6. GetterInv'
  BY <1>1, <1>2, <1>5 DEF GetterInv
<1> QED  BY <1>3, <1>4, <1>6 DEF CallsInv

-----------------------------------------------------------------------------
(* The invariant                                                           *)

LEMMA InitInv == Init => IInv
<1> SUFFICES ASSUME Init PROVE IInv
  OBVIOUS
<1>1. CallsInv
  <2>1. TypeOK
    BY SemiBlockingAssumption DEF Init, TypeOK
  <2>2. /\ pc \in [Threads -> Steps]
        /\ \A p \in Putters : pc[p] = "alloc" /\ new[p] = Null
        /\ \A g \in Getters : pc[g] = "lock"
    BY SemiBlockingAssumption DEF Init, Threads, Steps
  <2>3. PutterInv /\ GetterInv
    BY <2>2, SemiBlockingAssumption DEF Init, PutterInv, GetterInv
  <2> QED  BY <2>1, <2>2, <2>3 DEF CallsInv
<1>2. HandHead = Null /\ Held = {}
  BY DEF Init, HandHead, Held
<1>3. Laid(<<>>, <<>>, <<>>)
  BY <1>2, EmptyList DEF Init, Laid
<1>4. Placed(<<>>, <<>>, <<>>)
  BY <1>2, EmptyList DEF Init, Placed
<1> QED  BY <1>1, <1>3, <1>4, EmptyList DEF IInv, Whole

LEMMA PutterStep ==
  ASSUME IInv, NEW p \in Putters, queue_put(p)
  PROVE  IInv'
<1>1. PICK I \in Lists, O \in Lists, H \in Lists : Whole(I, O, H)
  BY DEF IInv
<1>2. CallsInv
  BY DEF IInv
<1>3. CASE malloc_aligned(p)
  BY <1>1, <1>2, <1>3, AllocKeepsCalls, AllocKeepsLists DEF IInv
<1>4. CASE PutLink(p)
  BY <1>1, <1>2, <1>4, LinkKeepsCalls, LinkKeepsLists DEF IInv
<1>5. CASE PutPush(p) /\ in_queue = seen[p]
  <2>1. PICK x : x = new[p]
    OBVIOUS
  <2>2. <<x>> \o I \in Lists /\ Whole(<<x>> \o I, O, H)'
    BY <1>1, <1>2, <1>5, <2>1, PushAddsNode
  <2>3. CallsInv'
    BY <1>2, <1>5, PushKeepsCalls
  <2> DEFINE M == <<x>> \o I
  <2> HIDE DEF M
  <2> QED  BY <1>1, <2>2, <2>3 DEF IInv, M
<1>6. CASE PutPush(p) /\ in_queue # seen[p]
  BY <1>1, <1>2, <1>6, PushKeepsCalls, FailedPushKeepsLists DEF IInv
<1> QED  BY <1>3, <1>4, <1>5, <1>6 DEF queue_put

LEMMA GetterStep ==
  ASSUME IInv, NEW g \in Getters, queue_get(g)
  PROVE  IInv'
<1>1. PICK I \in Lists, O \in Lists, H \in Lists : Whole(I, O, H)
  BY DEF IInv
<1>2. CallsInv
  BY DEF IInv
<1>3. CASE GetLock(g) \/ GetLoad(g) \/ (GetTake(g) /\ in_queue # head[g])
  BY <1>1, <1>2, <1>3, LookKeepsCalls, LookKeepsLists DEF IInv
<1>4. CASE GetTake(g) /\ in_queue = head[g]
  BY <1>1, <1>2, <1>4, LookKeepsCalls, TakeMovesList, EmptyList DEF IInv
<1>5. CASE GetReverse(g) /\ head[g] # Null
  <2>1. PICK x : x = head[g]
    OBVIOUS
  <2>2. /\ <<x>> \o O \in Lists /\ Tail(H) \in Lists
        /\ Whole(I, <<x>> \o O, Tail(H))'
    BY <1>1, <1>2, <1>5, <2>1, ReverseMovesNode
  <2>3. CallsInv'
    BY <1>1, <1>2, <1>5, ReverseKeepsCalls
  <2> QED  BY <2>2, <2>3 DEF IInv
<1>6. CASE GetReverse(g) /\ head[g] = Null
  BY <1>1, <1>2, <1>6, ReverseKeepsCalls, ReverseEndKeepsLists DEF IInv
<1>7. CASE GetPop(g) /\ out_queue # Null
  <2>1. PICK x : x = out_queue
    OBVIOUS
  <2>2. Tail(O) \in Lists /\ Whole(I, Tail(O), H)'
    BY <1>1, <1>2, <1>7, <2>1, PopTakesNode
  <2>3. CallsInv'
    BY <1>2, <1>7, PopKeepsCalls
  <2> QED  BY <2>2, <2>3 DEF IInv
<1>8. CASE GetPop(g) /\ out_queue = Null
  BY <1>1, <1>2, <1>8, PopKeepsCalls, EmptyPopKeepsLists DEF IInv
<1> QED  BY <1>3, <1>4, <1>5, <1>6, <1>7, <1>8 DEF queue_get

LEMMA NextInv == IInv /\ [Next]_vars => IInv'
<1> SUFFICES ASSUME IInv, [Next]_vars PROVE IInv'
  OBVIOUS
<1>1. CASE \E p \in Putters : queue_put(p)
  BY <1>1, PutterStep
<1>2. CASE \E g \in Getters : queue_get(g)
  BY <1>2, GetterStep
<1>3. CASE UNCHANGED vars
  <2>1. UNCHANGED <<in_queue, out_queue, next, lock, free, item, pc, new, seen, head,
                    puts, got>>
    BY <1>3 DEF vars
  <2>2. PICK I \in Lists, O \in Lists, H \in Lists : Whole(I, O, H)
    BY DEF IInv
  <2>3. HandHead' = HandHead /\ Held' = Held
    BY <2>1 DEF HandHead, Held
  <2>4. Laid(I, O, H)'
    BY <2>1, <2>2, <2>3, LaidStays DEF Whole
  <2>5. Placed(I, O, H)'
    BY <2>1, <2>2, <2>3 DEF Whole, Placed
  <2>6. CallsInv'
    <3>1. CallsInv
      BY DEF IInv
    <3>2. TypeOK'
      BY <2>1, <3>1 DEF CallsInv, TypeOK
    <3>3. PutterInv'
      BY <2>1, <3>1 DEF CallsInv, PutterInv
    <3>4. GetterInv'
      BY <2>1, <3>1 DEF CallsInv, GetterInv
    <3> QED  BY <2>1, <3>1, <3>2, <3>3, <3>4 DEF CallsInv
  <2> QED  BY <2>2, <2>4, <2>5, <2>6 DEF IInv, Whole
<1> QED  BY <1>1, <1>2, <1>3 DEF Next, Terminated

LEMMA SemiInvariant == Spec => []IInv
<1> QED  BY InitInv, NextInv, PTL DEF Spec

-----------------------------------------------------------------------------
(* Every node is in one place                                              *)

\* The lists of the invariant are those that the properties read.
LEMMA ReadLists ==
  ASSUME NEW I \in Lists, NEW O \in Lists, NEW H \in Lists, Laid(I, O, H)
  PROVE  List(in_queue) = I /\ List(out_queue) = O /\ InHand = H
<1>1. \A first : \A L \in Lists : Linked(next, first, L) => List(first) = L
  BY ListIs DEF ListsRead
<1>2. List(in_queue) = I /\ List(out_queue) = O /\ List(HandHead) = H
  BY <1>1 DEF Laid
<1>3. CASE lock # Nobody /\ pc[lock] = "reverse"
  BY <1>2, <1>3 DEF InHand, HandHead
<1>4. CASE ~(lock # Nobody /\ pc[lock] = "reverse")
  <2>1. HandHead = Null
    BY <1>4 DEF HandHead
  <2>2. H = <<>>
    BY <2>1, FirstOfList DEF Laid
  <2>3. InHand = <<>>
    BY <1>4 DEF InHand
  <2> QED  BY <1>2, <2>2, <2>3
<1> QED  BY <1>2, <1>3, <1>4

\* A putter has at most one node, and no two putters have the same.
LEMMA HeldSize ==
  ASSUME CallsInv
  PROVE  LET held == {p \in Putters : new[p] # Null}
         IN  /\ IsFiniteSet(Held) /\ Cardinality(Held) = Cardinality(held)
             /\ Cardinality(Held) \in Nat
<1> DEFINE held == {p \in Putters : new[p] # Null}
           f == [p \in held |-> new[p]]
<1>1. IsFiniteSet(held)
  BY SemiBlockingAssumption, FS_Subset
<1>2. f \in [held -> Held] /\ \A p \in held : f[p] = new[p]
  BY DEF Held
<1>3. f \in Injection(held, Held)
  <2>1. \A p, q \in held : new[p] = new[q] => p = q
    BY DEF CallsInv, PutterInv
  <2>2. \A p, q \in held : f[p] = f[q] => p = q
    BY <1>2, <2>1
  <2> HIDE DEF f, held
  <2>3. DOMAIN f = held
    BY <1>2
  <2> QED  BY <1>2, <2>2, <2>3 DEF Injection, IsInjective
<1>4. f \in Surjection(held, Held)
  <2>1. \A y \in Held : \E p \in held : f[p] = y
    BY <1>2 DEF Held
  <2> HIDE DEF f, held
  <2> QED  BY <1>2, <2>1 DEF Surjection
<1>5. ExistsBijection(held, Held)
  BY <1>3, <1>4 DEF ExistsBijection, Bijection
<1> HIDE DEF held
<1>6. IsFiniteSet(Held) /\ Cardinality(Held) = Cardinality(held)
  BY <1>1, <1>5, FS_Bijection
<1>7. Cardinality(Held) \in Nat
  BY <1>6, FS_CardinalityType
<1> QED  BY <1>6, <1>7 DEF held

\* The nodes of two sequences put together.
LEMMA NodesOfBoth ==
  ASSUME NEW S, NEW a \in Seq(S), NEW b \in Seq(S)
  PROVE  ToSet(a \o b) = ToSet(a) \cup ToSet(b)
<1> DEFINE c == a \o b
<1>1. /\ Len(a) \in Nat /\ DOMAIN a = 1 .. Len(a)
      /\ Len(b) \in Nat /\ DOMAIN b = 1 .. Len(b)
      /\ DOMAIN c = 1 .. Len(a) + Len(b)
      /\ \A j \in 1 .. Len(a) : c[j] = a[j]
      /\ \A j \in 1 .. Len(a) + Len(b) : j > Len(a) => c[j] = b[j - Len(a)]
  OBVIOUS
<1> HIDE DEF c
<1>2. ASSUME NEW y \in ToSet(c) PROVE y \in ToSet(a) \cup ToSet(b)
  <2>1. PICK j \in 1 .. Len(a) + Len(b) : y = c[j]
    BY <1>1, <1>2 DEF ToSet
  <2>2. CASE j > Len(a)
    <3>1. j - Len(a) \in 1 .. Len(b) /\ y = b[j - Len(a)]
      BY <1>1, <2>1, <2>2
    <3> QED  BY <1>1, <3>1 DEF ToSet
  <2>3. CASE ~(j > Len(a))
    <3>1. j \in 1 .. Len(a) /\ y = a[j]
      BY <1>1, <2>1, <2>3
    <3> QED  BY <1>1, <3>1 DEF ToSet
  <2> QED  BY <2>2, <2>3
<1>3. ASSUME NEW y \in ToSet(a) PROVE y \in ToSet(c)
  <2>1. PICK j \in 1 .. Len(a) : y = a[j]
    BY <1>1, <1>3 DEF ToSet
  <2>2. j \in 1 .. Len(a) + Len(b) /\ y = c[j]
    BY <1>1, <2>1
  <2> QED  BY <1>1, <2>2 DEF ToSet
<1>4. ASSUME NEW y \in ToSet(b) PROVE y \in ToSet(c)
  <2>1. PICK j \in 1 .. Len(b) : y = b[j]
    BY <1>1, <1>4 DEF ToSet
  <2>2. /\ Len(a) + j \in 1 .. Len(a) + Len(b) /\ Len(a) + j > Len(a)
        /\ (Len(a) + j) - Len(a) = j
    BY <1>1, <2>1
  <2>3. y = c[Len(a) + j]
    BY <1>1, <2>1, <2>2
  <2> QED  BY <1>1, <2>2, <2>3 DEF ToSet
<1> QED  BY <1>2, <1>3, <1>4 DEF c

LEMMA DisjointSize ==
  ASSUME NEW A, NEW B, IsFiniteSet(A), IsFiniteSet(B), A \cap B = {}
  PROVE  /\ IsFiniteSet(A \cup B)
         /\ Cardinality(A \cup B) = Cardinality(A) + Cardinality(B)
         /\ Cardinality(A) \in Nat /\ Cardinality(B) \in Nat
<1>1. Cardinality(A) \in Nat /\ Cardinality(B) \in Nat
  BY FS_CardinalityType
<1>2. /\ IsFiniteSet(A \cup B)
      /\ Cardinality(A \cup B)
           = Cardinality(A) + Cardinality(B) - Cardinality(A \cap B)
  BY FS_Union
<1>3. Cardinality(A \cap B) = 0
  BY FS_EmptySet
<1> QED  BY <1>1, <1>2, <1>3

\* The places add up to all the nodes.
LEMMA NodesAddUp ==
  ASSUME CallsInv, NEW I \in Lists, NEW O \in Lists, NEW H \in Lists, Whole(I, O, H)
  PROVE  /\ Cardinality(Node) = Cardinality(free) + (Len(I) + Len(O) + Len(H))
                                  + Cardinality({p \in Putters : new[p] # Null})
         /\ Cardinality(free) \in Nat
<1> DEFINE i == ToSet(I)
           o == ToSet(O)
           h == ToSet(H)
<1>1. /\ IsFiniteSet(i) /\ Cardinality(i) = Len(I)
      /\ IsFiniteSet(o) /\ Cardinality(o) = Len(O)
      /\ IsFiniteSet(h) /\ Cardinality(h) = Len(H)
  BY ListSize
<1>2. /\ IsFiniteSet(Held)
      /\ Cardinality(Held) = Cardinality({p \in Putters : new[p] # Null})
  BY HeldSize
<1>3. IsFiniteSet(free) /\ Cardinality(free) \in Nat
  BY SemiTypes, SemiBlockingAssumption, FS_Subset, FS_CardinalityType
<1>4. /\ free \cap Held = {} /\ o \cap h = {}
  BY DEF Whole, Placed
<1>5. i \cap (o \cup h) = {}
  BY DEF Whole, Placed
<1>6. /\ Node = (free \cup Held) \cup (i \cup (o \cup h))
      /\ (free \cup Held) \cap (i \cup (o \cup h)) = {}
  BY DEF Whole, Placed
<1>7. Len(I) \in Nat /\ Len(O) \in Nat /\ Len(H) \in Nat
  BY ListFacts
<1> HIDE DEF i, o, h
<1> DEFINE a == o \cup h
           b == i \cup a
           c == free \cup Held
<1>8. IsFiniteSet(a) /\ Cardinality(a) = Len(O) + Len(H)
  <2>1. /\ IsFiniteSet(o \cup h)
        /\ Cardinality(o \cup h) = Cardinality(o) + Cardinality(h)
    BY <1>1, <1>4, DisjointSize
  <2> QED  BY <1>1, <2>1
<1>9. IsFiniteSet(b) /\ Cardinality(b) = Len(I) + (Len(O) + Len(H))
  <2>1. i \cap a = {}
    BY <1>5
  <2> HIDE DEF a
  <2>2. /\ IsFiniteSet(i \cup a)
        /\ Cardinality(i \cup a) = Cardinality(i) + Cardinality(a)
    BY <1>1, <1>8, <2>1, DisjointSize
  <2> QED  BY <1>1, <1>8, <2>2
<1>10. /\ IsFiniteSet(c) /\ Cardinality(c) = Cardinality(free) + Cardinality(Held)
       /\ Cardinality(Held) \in Nat
  <2>1. /\ IsFiniteSet(free \cup Held) /\ Cardinality(Held) \in Nat
        /\ Cardinality(free \cup Held) = Cardinality(free) + Cardinality(Held)
    BY <1>2, <1>3, <1>4, DisjointSize
  <2> QED  BY <2>1
<1>11. Cardinality(Node) = Cardinality(c) + Cardinality(b)
  <2>1. Node = c \cup b /\ c \cap b = {}
    BY <1>6
  <2> HIDE DEF b, c
  <2>2. Cardinality(c \cup b) = Cardinality(c) + Cardinality(b)
    BY <1>9, <1>10, <2>1, DisjointSize
  <2> QED  BY <2>1, <2>2
<1> HIDE DEF b, c
<1> QED  BY <1>2, <1>3, <1>7, <1>9, <1>10, <1>11

\* Whatever the threads have done, each node is with the allocator, in one of the
\* two lists, in the part that is being reversed or with the one putter that has
\* not pushed it: no node is lost, freed twice or in two lists, for any number of
\* threads, calls and nodes, with the addresses used again as they are freed.
THEOREM NodesAreInOnePlace == Spec => []EachNodeOnce
<1>1. IInv => EachNodeOnce
  <2> SUFFICES ASSUME IInv PROVE EachNodeOnce
    OBVIOUS
  <2>1. CallsInv
    BY DEF IInv
  <2>2. PICK I \in Lists, O \in Lists, H \in Lists : Whole(I, O, H)
    BY DEF IInv
  <2>3. List(in_queue) = I /\ List(out_queue) = O /\ InHand = H
    BY <2>1, <2>2, ReadLists DEF Whole
  <2>4. I \in Seq(Node) /\ O \in Seq(Node) /\ H \in Seq(Node)
    BY DEF Lists
  <2>5. /\ ToSet(I \o O \o H) = (ToSet(I) \cup ToSet(O)) \cup ToSet(H)
        /\ Len(I \o O \o H) = Len(I) + Len(O) + Len(H)
    <3> DEFINE b == I \o O
    <3>1. b \in Seq(Node)
      BY <2>4
    <3>2. ToSet(b) = ToSet(I) \cup ToSet(O)
      BY <2>4, NodesOfBoth
    <3>3. Len(b \o H) = Len(I) + Len(O) + Len(H)
      BY <2>4
    <3> HIDE DEF b
    <3>4. ToSet(b \o H) = ToSet(b) \cup ToSet(H)
      BY <2>4, <3>1, NodesOfBoth
    <3>5. /\ ToSet(b \o H) = (ToSet(I) \cup ToSet(O)) \cup ToSet(H)
          /\ Len(b \o H) = Len(I) + Len(O) + Len(H)
      BY <3>2, <3>3, <3>4
    <3> QED  BY <3>5 DEF b
  <2>6. Node = free \cup ToSet(I \o O \o H) \cup Held
    BY <2>2, <2>5 DEF Whole, Placed
  <2>7. Cardinality(Node) = Cardinality(free) + Len(I \o O \o H)
                              + Cardinality({p \in Putters : new[p] # Null})
    BY <2>1, <2>2, <2>5, NodesAddUp
  <2>8. TypeOK
    BY <2>1 DEF CallsInv
  <2> QED  BY <2>3, <2>6, <2>7, <2>8 DEF EachNodeOnce, Held
<1> QED  BY <1>1, SemiInvariant, PTL

-----------------------------------------------------------------------------
(* The two lists are one FIFO queue                                        *)

\* The nodes in the queue, oldest first; the queue of the three lists; a list with
\* one more node; and the items f of a sequence of nodes.
AllNodes == Reverse(InHand) \o List(out_queue) \o Reverse(List(in_queue))
Order(I, O, H) == Reverse(H) \o O \o Reverse(I)
InFront(x, L) == <<x>> \o L
Behind(L, x) == L \o <<x>>
ItemsBy(f, nodes) == [k \in DOMAIN nodes |-> f[nodes[k]]]

\* What the queue of Fifo knows of the calls of queue_get.
Returned == [g \in Getters |-> IF Missed(g) THEN Append(got[g], Null) ELSE got[g]]

OrderRead == \A I, O, H \in Lists : Laid(I, O, H) => AllNodes = Order(I, O, H)

LEMMA OrderIs == OrderRead
BY ReadLists DEF OrderRead, AllNodes, Order

LEMMA BufferVars ==
  /\ Buffer!vars = <<ItemsBy(item, AllNodes), puts, Returned>>
  /\ UNCHANGED <<ItemsBy(item, AllNodes), puts, Returned>> => UNCHANGED Buffer!vars
BY DEF Buffer!vars, Items, ItemsBy, AllNodes, Returned

\* Sequences of nodes put together.
LEMMA OrderFacts ==
  ASSUME NEW I \in Lists, NEW O \in Lists, NEW H \in Lists
  PROVE  /\ Order(I, O, H) \in Seq(Node)
         /\ Len(Order(I, O, H)) = Len(I) + Len(O) + Len(H)
         /\ Order(<<>>, <<>>, <<>>) = <<>>
         /\ Order(I, <<>>, <<>>) = Order(<<>>, <<>>, I)
<1>1. I \in Seq(Node) /\ O \in Seq(Node) /\ H \in Seq(Node)
  BY DEF Lists
<1>2. /\ Reverse(<<>>) = <<>>
      /\ Reverse(I) \in Seq(Node) /\ Len(Reverse(I)) = Len(I)
      /\ Reverse(H) \in Seq(Node) /\ Len(Reverse(H)) = Len(H)
      /\ \A x \in Node : Reverse(<<x>> \o I) = Reverse(I) \o <<x>>
      /\ \A x \in Node : Reverse(<<x>> \o H) = Reverse(H) \o <<x>>
  BY <1>1, Reversing
<1>3. \A a, b, c \in Seq(Node) : (a \o b) \o c = a \o (b \o c)
  OBVIOUS
<1>4. \A a \in Seq(Node) : a \o <<>> = a /\ <<>> \o a = a
  OBVIOUS
<1>5. \A a, b \in Seq(Node) : a \o b \in Seq(Node) /\ Len(a \o b) = Len(a) + Len(b)
  OBVIOUS
<1>6. \A x \in Node : <<x>> \in Seq(Node)
  OBVIOUS
<1>7. <<>> \in Seq(Node)
  OBVIOUS
<1>8. /\ Order(I, O, H) \in Seq(Node)
      /\ Len(Order(I, O, H)) = Len(I) + Len(O) + Len(H)
  <2> DEFINE t == Reverse(H)
             u == Reverse(I)
             a == t \o O
  <2>1. /\ Len(I) \in Nat /\ Len(O) \in Nat /\ Len(H) \in Nat
        /\ u \in Seq(Node) /\ Len(u) = Len(I)
        /\ t \in Seq(Node) /\ Len(t) = Len(H)
    BY <1>1, <1>2
  <2>2. a \in Seq(Node) /\ Len(a) = Len(H) + Len(O)
    <3> HIDE DEF t
    <3>1. t \o O \in Seq(Node) /\ Len(t \o O) = Len(t) + Len(O)
      BY <1>1, <1>5, <2>1
    <3> QED  BY <2>1, <3>1
  <2>3. Order(I, O, H) = a \o u
    BY DEF Order
  <2> HIDE DEF a, u
  <2>4. a \o u \in Seq(Node) /\ Len(a \o u) = Len(a) + Len(u)
    BY <1>5, <2>1, <2>2
  <2> QED  BY <2>1, <2>2, <2>3, <2>4
<1>9. /\ Order(<<>>, <<>>, <<>>) = <<>>
      /\ Order(I, <<>>, <<>>) = Order(<<>>, <<>>, I)
  BY <1>2, <1>4, <1>7 DEF Order
<1> QED  BY <1>8, <1>9

\* A node that is pushed comes last, one that is moved from the hand to out_queue
\* keeps its place, and the next to be popped comes first.
LEMMA OrderWith ==
  ASSUME NEW I \in Lists, NEW O \in Lists, NEW H \in Lists, NEW x \in Node
  PROVE  /\ Order(InFront(x, I), O, H) = Behind(Order(I, O, H), x)
         /\ Order(I, O, InFront(x, H)) = Order(I, InFront(x, O), H)
         /\ Order(I, InFront(x, O), <<>>) = InFront(x, Order(I, O, <<>>))
<1>1. I \in Seq(Node) /\ O \in Seq(Node) /\ H \in Seq(Node)
  BY DEF Lists
<1>2. /\ Reverse(<<>>) = <<>>
      /\ Reverse(I) \in Seq(Node) /\ Len(Reverse(I)) = Len(I)
      /\ Reverse(H) \in Seq(Node) /\ Len(Reverse(H)) = Len(H)
      /\ \A y \in Node : Reverse(<<y>> \o I) = Reverse(I) \o <<y>>
      /\ \A y \in Node : Reverse(<<y>> \o H) = Reverse(H) \o <<y>>
  BY <1>1, Reversing
<1>3. \A a, b, c \in Seq(Node) : (a \o b) \o c = a \o (b \o c)
  OBVIOUS
<1>4. \A a \in Seq(Node) : a \o <<>> = a /\ <<>> \o a = a
  OBVIOUS
<1>5. \A a, b \in Seq(Node) : a \o b \in Seq(Node) /\ Len(a \o b) = Len(a) + Len(b)
  OBVIOUS
<1>6. \A y \in Node : <<y>> \in Seq(Node)
  OBVIOUS
<1>7. <<>> \in Seq(Node)
  OBVIOUS
<1>8. /\ Order(<<x>> \o I, O, H) = Order(I, O, H) \o <<x>>
      /\ Order(I, O, <<x>> \o H) = Order(I, <<x>> \o O, H)
      /\ Order(I, <<x>> \o O, <<>>) = <<x>> \o Order(I, O, <<>>)
  <2> DEFINE R == Reverse(I)
             Q == Reverse(H)
             X == <<x>>
  <2>1. /\ Reverse(X \o I) = R \o X /\ Reverse(X \o H) = Q \o X
        /\ R \in Seq(Node) /\ Q \in Seq(Node) /\ X \in Seq(Node)
    BY <1>2, <1>6
  <2>2. Order(X \o I, O, H) = (Q \o O) \o (R \o X)
    BY <2>1 DEF Order
  <2>3. Order(I, O, X \o H) = ((Q \o X) \o O) \o R
    BY <2>1 DEF Order
  <2>4. Order(I, X \o O, <<>>) = (<<>> \o (X \o O)) \o R
    BY <1>2 DEF Order
  <2>5. /\ Order(I, O, H) = (Q \o O) \o R /\ Order(I, X \o O, H) = (Q \o (X \o O)) \o R
        /\ Order(I, O, <<>>) = (<<>> \o O) \o R
    BY <1>2 DEF Order
  <2> HIDE DEF R, Q, X
  <2>6. (Q \o O) \o (R \o X) = ((Q \o O) \o R) \o X
    <3>1. Q \o O \in Seq(Node)
      BY <1>1, <1>5, <2>1
    <3> QED  BY <1>3, <2>1, <3>1
  <2>7. (Q \o X) \o O = Q \o (X \o O)
    <3>1. \A c \in Seq(Node) : (Q \o X) \o c = Q \o (X \o c)
      BY <1>3, <2>1
    <3> QED  BY <1>1, <3>1
  <2>8. (<<>> \o (X \o O)) \o R = X \o ((<<>> \o O) \o R)
    <3>1. <<>> \o O = O
      BY <1>1, <1>4
    <3>2. X \o O \in Seq(Node)
      BY <1>1, <1>5, <2>1
    <3>3. <<>> \o (X \o O) = X \o O
      BY <1>4, <3>2
    <3>4. (X \o O) \o R = X \o (O \o R)
      <4>1. \A c \in Seq(Node) : (X \o c) \o R = X \o (c \o R)
        BY <1>3, <2>1
      <4> QED  BY <1>1, <4>1
    <3> QED  BY <3>1, <3>3, <3>4
  <2>9. /\ Order(X \o I, O, H) = Order(I, O, H) \o X
        /\ Order(I, O, X \o H) = Order(I, X \o O, H)
        /\ Order(I, X \o O, <<>>) = X \o Order(I, O, <<>>)
    BY <2>2, <2>3, <2>4, <2>5, <2>6, <2>7, <2>8
  <2> QED  BY <2>9 DEF X
<1> QED  BY <1>8 DEF InFront, Behind

\* The items of sequences of nodes.
LEMMA ItemFacts ==
  ASSUME NEW V, NEW f \in [Node -> V], NEW s \in Seq(Node)
  PROVE  /\ ItemsBy(f, s) \in Seq(V) /\ Len(ItemsBy(f, s)) = Len(s)
         /\ \A x \in Node : ItemsBy(f, s \o <<x>>) = Append(ItemsBy(f, s), f[x])
         /\ \A x \in Node : /\ ItemsBy(f, <<x>> \o s) # <<>>
                            /\ Head(ItemsBy(f, <<x>> \o s)) = f[x]
                            /\ Tail(ItemsBy(f, <<x>> \o s)) = ItemsBy(f, s)
<1>1. /\ Len(s) \in Nat /\ DOMAIN s = 1 .. Len(s) /\ \A k \in 1 .. Len(s) : f[s[k]] \in V
  OBVIOUS
<1>2. /\ ItemsBy(f, s) = [k \in 1 .. Len(s) |-> f[s[k]]]
      /\ ItemsBy(f, s) \in Seq(V) /\ Len(ItemsBy(f, s)) = Len(s)
  BY <1>1 DEF ItemsBy
<1>3. ASSUME NEW x \in Node
      PROVE  ItemsBy(f, s \o <<x>>) = Append(ItemsBy(f, s), f[x])
  <2> DEFINE t == s \o <<x>>
  <2>1. /\ DOMAIN t = 1 .. Len(s) + 1 /\ t[Len(s) + 1] = x
        /\ \A k \in 1 .. Len(s) : t[k] = s[k]
    OBVIOUS
  <2>2. /\ Append(ItemsBy(f, s), f[x]) \in Seq(V)
        /\ Len(Append(ItemsBy(f, s), f[x])) = Len(s) + 1
        /\ Append(ItemsBy(f, s), f[x])[Len(s) + 1] = f[x]
        /\ \A k \in 1 .. Len(s) : Append(ItemsBy(f, s), f[x])[k] = f[s[k]]
    BY <1>1, <1>2
  <2> DEFINE a == Append(ItemsBy(f, s), f[x])
  <2> HIDE DEF t, a
  <2>3. ItemsBy(f, t) = [k \in 1 .. Len(s) + 1 |-> f[t[k]]]
    BY <2>1 DEF ItemsBy
  <2>4. a = [k \in 1 .. Len(s) + 1 |-> a[k]]
    BY <2>2 DEF a
  <2>5. \A k \in 1 .. Len(s) + 1 : f[t[k]] = a[k]
    <3>1. \A k \in 1 .. Len(s) + 1 : k = Len(s) + 1 \/ k \in 1 .. Len(s)
      BY <1>1
    <3> QED  BY <2>1, <2>2, <3>1 DEF a
  <2> QED  BY <2>3, <2>4, <2>5 DEF t, a
<1>4. ASSUME NEW x \in Node
      PROVE  /\ ItemsBy(f, <<x>> \o s) # <<>>
             /\ Head(ItemsBy(f, <<x>> \o s)) = f[x]
             /\ Tail(ItemsBy(f, <<x>> \o s)) = ItemsBy(f, s)
  <2> DEFINE t == <<x>> \o s
             b == ItemsBy(f, t)
  <2>1. /\ DOMAIN t = 1 .. Len(s) + 1 /\ t[1] = x
        /\ \A k \in 1 .. Len(s) : t[k + 1] = s[k]
    OBVIOUS
  <2> HIDE DEF t
  <2>2. b = [k \in 1 .. Len(s) + 1 |-> f[t[k]]]
    BY <2>1 DEF ItemsBy
  <2>3. \A k \in 1 .. Len(s) + 1 : f[t[k]] \in V
    <3>1. \A k \in 1 .. Len(s) + 1 : k = 1 \/ (k - 1 \in 1 .. Len(s) /\ (k - 1) + 1 = k)
      BY <1>1
    <3>2. t[1] \in Node /\ \A k \in 1 .. Len(s) : t[k + 1] \in Node
      BY <2>1, <1>1
    <3>3. \A k \in 1 .. Len(s) + 1 : t[k] \in Node
      BY <3>1, <3>2
    <3> QED  BY <3>3
  <2> HIDE DEF b
  <2>4. b \in Seq(V) /\ Len(b) = Len(s) + 1
    BY <1>1, <2>2, <2>3
  <2>5. b # <<>> /\ b[1] = f[x] /\ \A k \in 1 .. Len(s) : b[k + 1] = f[s[k]]
    <3>1. 1 \in 1 .. Len(s) + 1 /\ \A k \in 1 .. Len(s) : k + 1 \in 1 .. Len(s) + 1
      BY <1>1
    <3> QED  BY <1>1, <2>1, <2>2, <2>4, <3>1
  <2>6. Head(b) = f[x]
    BY <2>4, <2>5
  <2>7. /\ Tail(b) \in Seq(V) /\ Len(Tail(b)) = Len(s)
        /\ \A k \in 1 .. Len(s) : Tail(b)[k] = b[k + 1]
    BY <1>1, <2>4, <2>5
  <2>8. Tail(b) = [k \in 1 .. Len(s) |-> Tail(b)[k]]
    <3> DEFINE c == Tail(b)
    <3>1. c \in Seq(V) /\ Len(c) = Len(s)
      BY <2>7
    <3> HIDE DEF c
    <3>2. c = [k \in 1 .. Len(s) |-> c[k]]
      BY <3>1
    <3> QED  BY <3>2 DEF c
  <2>9. Tail(b) = ItemsBy(f, s)
    <3> DEFINE c == Tail(b)
    <3>1. c = [k \in 1 .. Len(s) |-> c[k]] /\ \A k \in 1 .. Len(s) : c[k] = f[s[k]]
      BY <2>5, <2>7, <2>8
    <3> HIDE DEF c
    <3>2. c = ItemsBy(f, s)
      BY <1>2, <3>1
    <3> QED  BY <3>2 DEF c
  <2> QED  BY <2>5, <2>6, <2>9 DEF b, t
<1> QED  BY <1>2, <1>3, <1>4

\* Reverse adds no nodes.
LEMMA ReversedNodes ==
  ASSUME NEW S, NEW L \in Seq(S)
  PROVE  ToSet(Reverse(L)) \subseteq ToSet(L)
<1>1. /\ Len(L) \in Nat /\ DOMAIN L = 1 .. Len(L)
      /\ \A j \in 1 .. Len(L) : (Len(L) - j) + 1 \in 1 .. Len(L)
  OBVIOUS
<1>2. Reverse(L) = [j \in 1 .. Len(L) |-> L[(Len(L) - j) + 1]]
  BY DEF Reverse
<1> QED  BY <1>1, <1>2 DEF ToSet

\* The items after one more node has been put behind the others.
LEMMA ItemsOfOneMore ==
  ASSUME NEW V, NEW f \in [Node -> V], NEW s \in Seq(Node), NEW x \in Node
  PROVE  /\ Len(ItemsBy(f, s)) = Len(s)
         /\ ItemsBy(f, s \o <<x>>) = Append(ItemsBy(f, s), f[x])
<1>1. Len(ItemsBy(f, s)) = Len(s)
  BY ItemFacts
<1>2. \A y \in Node : ItemsBy(f, s \o <<y>>) = Append(ItemsBy(f, s), f[y])
  BY ItemFacts
<1> QED  BY <1>1, <1>2

\* Lists whose nodes keep their items hold the same items.
LEMMA QueueStays ==
  ASSUME NEW I \in Lists, NEW O \in Lists, NEW H \in Lists, Laid(I, O, H),
         NEW J \in Lists, NEW P \in Lists, NEW K \in Lists, Laid(J, P, K)',
         Order(J, P, K) = Order(I, O, H),
         \A n \in ToSet(I) \cup ToSet(O) \cup ToSet(H) : item'[n] = item[n]
  PROVE  UNCHANGED ItemsBy(item, AllNodes)
<1>1. AllNodes = Order(I, O, H)
  BY OrderIs DEF OrderRead
<1>2. OrderRead'
  BY OrderIs, PTL
<1>3. AllNodes' = Order(I, O, H)
  BY <1>2 DEF OrderRead
<1> DEFINE s == Order(I, O, H)
           t == Reverse(H)
           u == Reverse(I)
<1>4. /\ I \in Seq(Node) /\ O \in Seq(Node) /\ H \in Seq(Node)
      /\ t \in Seq(Node) /\ u \in Seq(Node)
  BY Reversing DEF Lists
<1>5. ToSet(s) = (ToSet(t) \cup ToSet(O)) \cup ToSet(u)
  <2>1. s = (t \o O) \o u
    BY DEF Order
  <2> HIDE DEF s, t, u
  <2>2. t \o O \in Seq(Node) /\ ToSet(t \o O) = ToSet(t) \cup ToSet(O)
    BY <1>4, NodesOfBoth
  <2>3. ToSet((t \o O) \o u) = ToSet(t \o O) \cup ToSet(u)
    <3> DEFINE a == t \o O
    <3>1. a \in Seq(Node)
      BY <2>2
    <3> HIDE DEF a
    <3>2. ToSet(a \o u) = ToSet(a) \cup ToSet(u)
      BY <1>4, <3>1, NodesOfBoth
    <3> QED  BY <3>2 DEF a
  <2> QED  BY <2>1, <2>2, <2>3
<1>6. ToSet(t) \subseteq ToSet(H) /\ ToSet(u) \subseteq ToSet(I)
  BY <1>4, ReversedNodes
<1>7. \A k \in DOMAIN s : item'[s[k]] = item[s[k]]
  <2> HIDE DEF s, t, u
  <2>1. \A k \in DOMAIN s : s[k] \in ToSet(s)
    BY DEF ToSet
  <2> QED  BY <1>5, <1>6, <2>1
<1> HIDE DEF s
<1>8. ItemsBy(item, s) = ItemsBy(item', s)
  BY <1>7 DEF ItemsBy
<1>9. AllNodes = s /\ AllNodes' = s
  BY <1>1, <1>3 DEF s
<1>10. ItemsBy(item, AllNodes) = ItemsBy(item', AllNodes')
  BY <1>8, <1>9
<1> QED  BY <1>10 DEF ItemsBy

\* No putter changes what the getters have returned.
LEMMA PutterKeepsReturned ==
  ASSUME CallsInv, NEW p \in Putters, NEW s, Goto(p, s), UNCHANGED <<out_queue, got>>
  PROVE  UNCHANGED Returned
<1>1. \A g \in Getters : pc'[g] = pc[g]
  BY SemiTypes DEF Goto
<1> QED  BY <1>1 DEF Returned, Missed

\* A step of a getter changes what it has returned at most, not what others have.
LEMMA GetterReturns ==
  ASSUME CallsInv, NEW g \in Getters, queue_get(g), NEW v,
         v = IF pc'[g] = "pop" /\ out_queue' = Null THEN Append(got'[g], Null)
             ELSE got'[g]
  PROVE  Returned' = [Returned EXCEPT ![g] = v]
<1>1. \A h \in Getters : h # g => pc[h] = "lock"
  BY SemiTypes DEF CallsInv, GetterInv, queue_get, GetLock, GetLoad, GetTake,
     GetReverse, GetPop
<1>2. \A h \in Getters : h # g => pc'[h] = pc[h] /\ got'[h] = got[h]
  <2>1. /\ pc \in [Threads -> Steps] /\ got \in [Getters -> Seq(Item \cup {Null})]
        /\ Getters \subseteq Threads
    BY SemiTypes
  <2>2. \A h \in Getters : h # g => pc'[h] = pc[h]
    BY <2>1 DEF queue_get, GetLock, GetLoad, GetTake, GetReverse, GetPop, Goto
  <2>3. \A h \in Getters : h # g => got'[h] = got[h]
    BY <2>1 DEF queue_get, GetLock, GetLoad, GetTake, GetReverse, GetPop, client
  <2> QED  BY <2>2, <2>3
<1>3. \A h \in Getters : h # g => Returned'[h] = Returned[h]
  BY <1>1, <1>2 DEF Returned, Missed
<1>4. Returned'[g] = v
  BY DEF Returned, Missed
<1>5. /\ Returned' = [h \in Getters |-> Returned'[h]]
      /\ DOMAIN Returned = Getters
  BY DEF Returned
<1> QED  BY <1>3, <1>4, <1>5

\* There is room for the node of a putter.
LEMMA RoomForNode ==
  ASSUME CallsInv, NEW I \in Lists, NEW O \in Lists, NEW H \in Lists, Whole(I, O, H),
         Held # {}
  PROVE  Len(Order(I, O, H)) < Cardinality(Node)
<1>1. /\ Cardinality(Node) = Cardinality(free) + (Len(I) + Len(O) + Len(H))
                               + Cardinality({p \in Putters : new[p] # Null})
      /\ Cardinality(free) \in Nat
  BY NodesAddUp
<1>2. /\ IsFiniteSet(Held) /\ Cardinality(Held) \in Nat
      /\ Cardinality(Held) = Cardinality({p \in Putters : new[p] # Null})
  BY HeldSize
<1>3. Cardinality(Held) # 0
  BY <1>2, FS_EmptySet
<1>4. Len(I) \in Nat /\ Len(O) \in Nat /\ Len(H) \in Nat
  BY ListFacts
<1>5. Len(Order(I, O, H)) = Len(I) + Len(O) + Len(H)
  BY OrderFacts
<1> QED  BY <1>1, <1>2, <1>3, <1>4, <1>5

LEMMA PutterImplements ==
  ASSUME IInv, NEW p \in Putters, queue_put(p)
  PROVE  Buffer!Put(p) \/ UNCHANGED Buffer!vars
<1>1. PICK I \in Lists, O \in Lists, H \in Lists : Whole(I, O, H)
  BY DEF IInv
<1>2. CallsInv
  BY DEF IInv
<1>3. Laid(I, O, H)
  BY <1>1 DEF Whole
<1>4. CASE malloc_aligned(p)
  <2>1. Laid(I, O, H)'
    BY <1>1, <1>2, <1>4, AllocKeepsLists DEF Whole
  <2>2. PICK n \in free : item' = [item EXCEPT ![n] = <<p, puts[p] + 1>>]
    BY <1>4 DEF malloc_aligned
  <2>3. \A m \in ToSet(I) \cup ToSet(O) \cup ToSet(H) : item'[m] = item[m]
    <3>1. n \notin ToSet(I) \cup ToSet(O) \cup ToSet(H)
      BY <1>1, <2>2 DEF Whole, Placed
    <3>2. ToSet(I) \cup ToSet(O) \cup ToSet(H) \subseteq Node
      BY ListFacts
    <3>3. item \in [Node -> Item \cup {Null}]
      BY <1>2, SemiTypes
    <3> QED  BY <2>2, <3>1, <3>2, <3>3
  <2>4. UNCHANGED ItemsBy(item, AllNodes)
    BY <1>3, <2>1, <2>3, QueueStays
  <2>5. UNCHANGED puts /\ UNCHANGED Returned
    BY <1>2, <1>4, PutterKeepsReturned DEF malloc_aligned, shared
  <2> QED  BY <2>4, <2>5, BufferVars
<1>5. CASE PutLink(p) \/ (PutPush(p) /\ in_queue # seen[p])
  <2>1. Laid(I, O, H)'
    BY <1>1, <1>2, <1>5, LinkKeepsLists, FailedPushKeepsLists DEF Whole
  <2>2. UNCHANGED <<item, puts, got, out_queue>>
    BY <1>5 DEF PutLink, PutPush, client, shared
  <2>3. UNCHANGED ItemsBy(item, AllNodes)
    BY <1>3, <2>1, <2>2, QueueStays
  <2>4. UNCHANGED Returned
    BY <1>2, <1>5, <2>2, PutterKeepsReturned DEF PutLink, PutPush
  <2> QED  BY <2>2, <2>3, <2>4, BufferVars
<1>6. CASE PutPush(p) /\ in_queue = seen[p]
  <2>1. PICK x : x = new[p]
    OBVIOUS
  <2>2. /\ x \in Node /\ x \in Held /\ <<x>> \o I \in Lists
        /\ Whole(<<x>> \o I, O, H)'
    BY <1>1, <1>2, <1>6, <2>1, PushAddsNode
  <2>3. AllNodes = Order(I, O, H) /\ AllNodes' = Order(I, O, H) \o <<x>>
    <3>1. AllNodes = Order(I, O, H)
      BY <1>3, OrderIs DEF OrderRead
    <3>2. OrderRead'
      BY OrderIs, PTL
    <3> DEFINE M == <<x>> \o I
    <3>3. M \in Lists /\ Laid(M, O, H)'
      BY <2>2 DEF Whole
    <3> HIDE DEF M
    <3>4. AllNodes' = Order(M, O, H)
      BY <3>2, <3>3 DEF OrderRead
    <3>5. Order(M, O, H) = Order(I, O, H) \o <<x>>
      <4>1. x \in Node
        BY <2>2
      <4>2. Order(InFront(x, I), O, H) = Behind(Order(I, O, H), x)
        BY <4>1, OrderWith
      <4> QED  BY <4>2 DEF M, InFront, Behind
    <3> QED  BY <3>1, <3>4, <3>5
  <2>4. /\ item[x] = <<p, puts[p] + 1>> /\ puts[p] < PutLimit
        /\ item' = item /\ puts' = [puts EXCEPT ![p] = @ + 1]
    <3>1. new[p] # Null
      BY <1>2, <1>6 DEF CallsInv, PutterInv, PutPush
    <3>2. item[x] = <<p, puts[p] + 1>> /\ puts[p] < PutLimit
      BY <1>2, <2>1, <3>1 DEF CallsInv, PutterInv
    <3> QED  BY <1>6, <3>2 DEF PutPush
  <2> DEFINE q == ItemsBy(item, AllNodes)
  <2>5. /\ Len(q) < Cardinality(Node)
        /\ q' = Append(q, <<p, puts[p] + 1>>)
    <3> DEFINE s == Order(I, O, H)
    <3>1. s \in Seq(Node)
      BY OrderFacts
    <3>2. Len(s) < Cardinality(Node)
      BY <1>1, <1>2, <2>2, RoomForNode
    <3>3. AllNodes = s /\ AllNodes' = s \o <<x>>
      BY <2>3
    <3> HIDE DEF s
    <3>4. /\ Len(ItemsBy(item, s)) = Len(s)
          /\ ItemsBy(item, s \o <<x>>) = Append(ItemsBy(item, s), item[x])
      <4>1. item \in [Node -> Item \cup {Null}]
        BY <1>2, SemiTypes
      <4>2. x \in Node
        BY <2>2
      <4> QED  BY <3>1, <4>1, <4>2, ItemsOfOneMore
    <3>5. q' = ItemsBy(item, s \o <<x>>)
      BY <2>4, <3>3 DEF ItemsBy
    <3> QED  BY <2>2, <2>4, <3>2, <3>3, <3>4, <3>5
  <2>6. UNCHANGED Returned
    BY <1>2, <1>6, PutterKeepsReturned DEF PutPush
  <2> QED
    <3> DEFINE B == Items(Reverse(InHand) \o List(out_queue) \o Reverse(List(in_queue)))
    <3>1. q = B /\ q' = B'
      BY DEF ItemsBy, Items, AllNodes
    <3> QED  BY <2>4, <2>5, <2>6, <3>1 DEF Buffer!Put, Returned
<1> QED  BY <1>4, <1>5, <1>6 DEF queue_put

LEMMA GetterImplements ==
  ASSUME IInv, NEW g \in Getters, queue_get(g)
  PROVE  Buffer!Get(g) \/ Buffer!Miss(g) \/ UNCHANGED Buffer!vars
<1>1. PICK I \in Lists, O \in Lists, H \in Lists : Whole(I, O, H)
  BY DEF IInv
<1>2. CallsInv
  BY DEF IInv
<1>3. /\ Laid(I, O, H) /\ AllNodes = Order(I, O, H)
      /\ Linked(next, in_queue, I) /\ Linked(next, out_queue, O)
      /\ Linked(next, HandHead, H)
  BY <1>1, OrderIs DEF Whole, OrderRead, Laid
<1>4. /\ pc \in [Threads -> Steps] /\ g \in Threads
      /\ got \in [Getters -> Seq(Item \cup {Null})]
      /\ item \in [Node -> Item \cup {Null}]
  BY <1>2, SemiTypes
<1>5. \A v : v = (IF pc'[g] = "pop" /\ out_queue' = Null THEN Append(got'[g], Null)
                  ELSE got'[g])
               => Returned' = [Returned EXCEPT ![g] = v]
  BY <1>2, GetterReturns
<1>6. /\ Returned[g] = IF pc[g] = "pop" /\ out_queue = Null THEN Append(got[g], Null)
                       ELSE got[g]
      /\ Returned = [Returned EXCEPT ![g] = Returned[g]]
  BY DEF Returned, Missed
<1>7. UNCHANGED item
  BY DEF queue_get, GetLock, GetLoad, GetTake, GetReverse, GetPop, client
<1>8. UNCHANGED puts
  BY DEF queue_get, GetLock, GetLoad, GetTake, GetReverse, GetPop, client
<1>9. ASSUME (IF pc'[g] = "pop" /\ out_queue' = Null THEN Append(got'[g], Null)
              ELSE got'[g]) = Returned[g]
      PROVE  UNCHANGED Returned
  BY <1>5, <1>6, <1>9
<1>10. CASE GetLock(g)
  <2>1. Laid(I, O, H)'
    BY <1>1, <1>2, <1>10, LookKeepsLists DEF Whole
  <2>2. UNCHANGED ItemsBy(item, AllNodes)
    BY <1>3, <1>7, <2>1, QueueStays
  <2>3. UNCHANGED Returned
    <3>1. /\ pc[g] = "lock" /\ got' = got /\ out_queue' = out_queue
          /\ pc'[g] = IF out_queue = Null THEN "load" ELSE "pop"
      BY <1>4, <1>10 DEF GetLock, Goto, client
    <3> QED  BY <1>6, <1>9, <3>1
  <2> QED  BY <1>8, <2>2, <2>3, BufferVars
<1>11. CASE GetLoad(g) /\ in_queue # Null
  <2>1. Laid(I, O, H)'
    BY <1>1, <1>2, <1>11, LookKeepsLists DEF Whole
  <2>2. UNCHANGED ItemsBy(item, AllNodes)
    BY <1>3, <1>7, <2>1, QueueStays
  <2>3. UNCHANGED Returned
    <3>1. pc[g] = "load" /\ got' = got /\ pc'[g] = "take"
      BY <1>4, <1>11 DEF GetLoad, Goto, client
    <3> QED  BY <1>6, <1>9, <3>1
  <2> QED  BY <1>8, <2>2, <2>3, BufferVars
<1>12. CASE GetLoad(g) /\ in_queue = Null
  <2>1. /\ pc[g] = "load" /\ got' = got /\ pc'[g] = "pop" /\ out_queue' = out_queue
    BY <1>4, <1>12 DEF GetLoad, Goto, client, shared
  <2>2. out_queue = Null /\ HandHead = Null /\ Len(got[g]) < GetLimit
    BY <1>2, <2>1, HolderHas DEF CallsInv, GetterInv
  <2>3. I = <<>> /\ O = <<>> /\ H = <<>>
    BY <1>3, <1>12, <2>2, FirstOfList
  <2>4. AllNodes = <<>>
    BY <1>3, <2>3, OrderFacts, EmptyList
  <2>5. Laid(I, O, H)'
    BY <1>1, <1>2, <1>12, LookKeepsLists DEF Whole
  <2>6. UNCHANGED ItemsBy(item, AllNodes)
    BY <1>3, <1>7, <2>5, QueueStays
  <2>7. ItemsBy(item, AllNodes) = <<>>
    BY <2>4 DEF ItemsBy
  <2>8. Returned[g] = got[g] /\ Returned' = [Returned EXCEPT ![g] = Append(@, Null)]
    BY <1>5, <1>6, <2>1, <2>2
  <2> QED
    <3> DEFINE B == Items(Reverse(InHand) \o List(out_queue) \o Reverse(List(in_queue)))
    <3>1. B = ItemsBy(item, AllNodes) /\ B' = ItemsBy(item, AllNodes)'
      BY DEF ItemsBy, Items, AllNodes
    <3> QED  BY <1>8, <2>2, <2>6, <2>7, <2>8, <3>1 DEF Buffer!Miss, Returned
<1>13. CASE GetTake(g)
  <2>1. UNCHANGED ItemsBy(item, AllNodes)
    <3>1. CASE in_queue = head[g]
      <4>1. O = <<>> /\ H = <<>> /\ Laid(<<>>, <<>>, I)'
        BY <1>1, <1>2, <1>13, <3>1, TakeMovesList DEF Whole
      <4>2. Order(<<>>, <<>>, I) = Order(I, O, H) /\ <<>> \in Lists
        BY <4>1, OrderFacts, EmptyList
      <4> QED  BY <1>3, <1>7, <4>1, <4>2, QueueStays
    <3>2. CASE in_queue # head[g]
      <4>1. Laid(I, O, H)'
        BY <1>1, <1>2, <1>13, <3>2, LookKeepsLists DEF Whole
      <4> QED  BY <1>3, <1>7, <4>1, QueueStays
    <3> QED  BY <3>1, <3>2
  <2>2. UNCHANGED Returned
    <3>1. pc[g] = "take" /\ got' = got /\ pc'[g] # "pop"
      BY <1>4, <1>13 DEF GetTake, Goto, client
    <3> QED  BY <1>6, <1>9, <3>1
  <2> QED  BY <1>8, <2>1, <2>2, BufferVars
<1>14. CASE GetReverse(g)
  <2>1. UNCHANGED ItemsBy(item, AllNodes)
    <3>1. CASE head[g] # Null
      <4>1. PICK x : x = head[g]
        OBVIOUS
      <4> DEFINE P == <<x>> \o O
                 T == Tail(H)
      <4>2. x \in Node /\ H = <<x>> \o T /\ P \in Lists /\ T \in Lists /\ Laid(I, P, T)'
        BY <1>1, <1>2, <1>14, <3>1, <4>1, ReverseMovesNode DEF Whole
      <4>3. Order(I, P, T) = Order(I, O, H)
        <5>1. T \in Lists /\ x \in Node
          BY <4>2
        <5> HIDE DEF T
        <5>2. Order(I, O, InFront(x, T)) = Order(I, InFront(x, O), T)
          BY <5>1, OrderWith
        <5> QED  BY <4>2, <5>2 DEF InFront
      <4> HIDE DEF P, T
      <4> QED  BY <1>3, <1>7, <4>2, <4>3, QueueStays
    <3>2. CASE head[g] = Null
      <4>1. Laid(I, O, H)'
        BY <1>1, <1>2, <1>14, <3>2, ReverseEndKeepsLists DEF Whole
      <4> QED  BY <1>3, <1>7, <4>1, QueueStays
    <3> QED  BY <3>1, <3>2
  <2>2. UNCHANGED Returned
    <3>1. pc[g] = "reverse" /\ got' = got
      BY <1>14 DEF GetReverse, client
    <3>2. \/ pc'[g] = "reverse"
          \/ pc'[g] = "pop" /\ out_queue' = out_queue /\ head[g] = Null
      BY <1>4, <1>14, <3>1 DEF GetReverse, Goto
    <3>3. head[g] = Null => out_queue # Null
      BY <1>2, <3>1 DEF CallsInv, GetterInv
    <3> QED  BY <1>6, <1>9, <3>1, <3>2, <3>3
  <2> QED  BY <1>8, <2>1, <2>2, BufferVars
<1>15. CASE GetPop(g) /\ out_queue = Null
  <2>1. Laid(I, O, H)'
    BY <1>1, <1>2, <1>15, EmptyPopKeepsLists DEF Whole
  <2>2. UNCHANGED ItemsBy(item, AllNodes)
    BY <1>3, <1>7, <2>1, QueueStays
  <2>3. UNCHANGED Returned
    <3>1. pc[g] = "pop" /\ pc'[g] = "lock" /\ got'[g] = Append(got[g], Null)
      BY <1>4, <1>15 DEF GetPop, Goto
    <3> QED  BY <1>6, <1>9, <1>15, <3>1
  <2> QED  BY <1>8, <2>2, <2>3, BufferVars
<1>16. CASE GetPop(g) /\ out_queue # Null
  <2>1. PICK x : x = out_queue
    OBVIOUS
  <2> DEFINE T == Tail(O)
             s == Order(I, T, <<>>)
             q == ItemsBy(item, AllNodes)
  <2>2. /\ x \in Node /\ H = <<>> /\ O = <<x>> \o T /\ T \in Lists
        /\ Laid(I, T, H)'
    BY <1>1, <1>2, <1>16, <2>1, PopTakesNode DEF Whole
  <2> HIDE DEF T
  <2>3. AllNodes = <<x>> \o s /\ AllNodes' = s
    <3>1. Order(I, <<x>> \o T, <<>>) = <<x>> \o s
      <4>1. T \in Lists /\ x \in Node /\ <<>> \in Lists
        BY <2>2, EmptyList
      <4> HIDE DEF s
      <4>2. Order(I, InFront(x, T), <<>>) = InFront(x, Order(I, T, <<>>))
        BY <4>1, OrderWith
      <4> QED  BY <4>2 DEF InFront, s
    <3>2. OrderRead'
      BY OrderIs, PTL
    <3> QED  BY <1>3, <2>2, <3>1, <3>2 DEF OrderRead
  <2>4. s \in Seq(Node)
    BY <2>2, OrderFacts, EmptyList
  <2> HIDE DEF s
  <2>5. q # <<>> /\ Head(q) = item[x] /\ q' = Tail(q)
    <3>1. /\ ItemsBy(item, <<x>> \o s) # <<>>
          /\ Head(ItemsBy(item, <<x>> \o s)) = item[x]
          /\ Tail(ItemsBy(item, <<x>> \o s)) = ItemsBy(item, s)
      BY <1>4, <2>2, <2>4, ItemFacts
    <3>2. q' = ItemsBy(item, s)
      BY <1>7, <2>3 DEF ItemsBy
    <3> QED  BY <2>3, <3>1, <3>2
  <2> HIDE DEF q
  <2>6. /\ pc[g] = "pop" /\ pc'[g] = "lock" /\ got'[g] = Append(got[g], item[x])
    BY <1>4, <1>16, <2>1 DEF GetPop, Goto
  <2>7. /\ Returned[g] = got[g] /\ Len(got[g]) < GetLimit
        /\ Returned' = [Returned EXCEPT ![g] = Append(@, Head(q))]
    <3>1. /\ Returned[g] = got[g]
          /\ Returned' = [Returned EXCEPT ![g] = Append(got[g], item[x])]
      BY <1>5, <1>6, <1>16, <2>6
    <3>2. Len(got[g]) < GetLimit
      BY <1>2, <2>6 DEF CallsInv, GetterInv
    <3> QED  BY <2>5, <3>1, <3>2
  <2> QED
    <3> DEFINE B == Items(Reverse(InHand) \o List(out_queue) \o Reverse(List(in_queue)))
    <3>1. B = q /\ B' = q'
      BY DEF ItemsBy, Items, AllNodes, q
    <3> QED  BY <1>8, <2>5, <2>7, <3>1 DEF Buffer!Get, Returned
<1> QED  BY <1>10, <1>11, <1>12, <1>13, <1>14, <1>15, <1>16 DEF queue_get

\* The in_queue and out_queue lists are one FIFO queue, for any number of threads,
\* calls and nodes: nothing is lost, returned twice or returned out of order, and a
\* get comes back with NULL only when both lists were empty at one moment of it.
THEOREM SemiBlockingRefines == Spec => Buffer!Spec
<1>1. Init => Buffer!Init
  <2> SUFFICES ASSUME Init PROVE Buffer!Init
    OBVIOUS
  <2>1. HandHead = Null
    BY DEF Init, HandHead
  <2>2. Laid(<<>>, <<>>, <<>>)
    BY <2>1, EmptyList DEF Init, Laid
  <2>3. AllNodes = <<>>
    BY <2>2, OrderIs, OrderFacts, EmptyList DEF OrderRead
  <2>4. Items(Reverse(InHand) \o List(out_queue) \o Reverse(List(in_queue))) = <<>>
    BY <2>3 DEF Items, AllNodes
  <2>5. \A g \in Getters : ~Missed(g)
    BY SemiBlockingAssumption DEF Init, Missed
  <2> QED  BY <2>4, <2>5 DEF Buffer!Init, Init
<1>2. IInv /\ [Next]_vars => [Buffer!Next]_(Buffer!vars)
  <2> SUFFICES ASSUME IInv, [Next]_vars
               PROVE  Buffer!Next \/ UNCHANGED Buffer!vars
    OBVIOUS
  <2>1. CASE \E p \in Putters : queue_put(p)
    BY <2>1, PutterImplements DEF Buffer!Next
  <2>2. CASE \E g \in Getters : queue_get(g)
    BY <2>2, GetterImplements DEF Buffer!Next
  <2>3. CASE UNCHANGED vars
    <3>1. UNCHANGED <<in_queue, out_queue, next, lock, item, pc, head, puts, got>>
      BY <2>3 DEF vars
    <3>2. UNCHANGED <<List(in_queue), List(out_queue), InHand>>
      BY <3>1 DEF List, Path, InHand
    <3>3. UNCHANGED ItemsBy(item, AllNodes)
      BY <3>1, <3>2 DEF ItemsBy, AllNodes
    <3>4. UNCHANGED Returned
      BY <3>1 DEF Returned, Missed
    <3> QED  BY <3>1, <3>3, <3>4, BufferVars
  <2> QED  BY <2>1, <2>2, <2>3 DEF Next, Terminated
<1> QED  BY <1>1, <1>2, SemiInvariant, PTL DEF Spec, Buffer!Spec

=============================================================================
