-------------------------- MODULE BasicQueue_proofs --------------------------
(***************************************************************************)
(* Proofs about BasicQueue, for any number of threads and calls: the list  *)
(* of basicqueue.c is well linked between any two steps, a call takes what *)
(* a first-in first-out queue would give it, and no call finds the list    *)
(* empty where it is filled first and the workers ask for no more than it  *)
(* holds.                                                                  *)
(***************************************************************************)
EXTENDS BasicQueue, FiniteSetTheorems, NaturalsInduction, WellFoundedInduction,
        TLAPS

\* The nodes along list L, from the head to the head.
At(L, j) == IF j \in 1 .. Len(L) THEN L[j] ELSE Hd

\* The links nx and pv join these nodes, and no others.
Chain(nx, pv, L) ==
  \A j \in 0 .. Len(L) : nx[At(L, j)] = At(L, j + 1) /\ pv[At(L, j + 1)] = At(L, j)

\* A list of entries that are all different.
Lists == {L \in Seq(Entry) : IsInjective(L)}

Links == [Node -> Node \cup {Null}]

-----------------------------------------------------------------------------
(* Lists                                                                   *)

LEMMA HeadIsNone == Hd \notin Entry /\ Hd \in Node /\ Entry \subseteq Node
BY BasicQueueAssumption DEF Node

LEMMA ListFacts ==
  ASSUME NEW L \in Lists
  PROVE  /\ Len(L) \in Nat /\ L \in Seq(Entry) /\ DOMAIN L = 1 .. Len(L)
         /\ \A j \in 1 .. Len(L) : L[j] \in Entry /\ At(L, j) = L[j]
         /\ At(L, 0) = Hd /\ At(L, Len(L) + 1) = Hd
         /\ \A j \in Nat : At(L, j) \in Node
         /\ \A j \in 1 .. Len(L) : \A h \in 1 .. Len(L) : L[j] = L[h] => j = h
<1>1. /\ L \in Seq(Entry) /\ Len(L) \in Nat /\ DOMAIN L = 1 .. Len(L)
      /\ IsInjective(L)
  BY DEF Lists
<1>2. \A j \in 1 .. Len(L) : L[j] \in Entry /\ At(L, j) = L[j]
  BY <1>1 DEF At
<1>3. At(L, 0) = Hd /\ At(L, Len(L) + 1) = Hd
  BY <1>1 DEF At
<1>4. \A j \in Nat : At(L, j) \in Node
  BY <1>1, <1>2, HeadIsNone DEF At
<1>5. \A j \in 1 .. Len(L) : \A h \in 1 .. Len(L) : L[j] = L[h] => j = h
  BY <1>1 DEF IsInjective
<1> QED  BY <1>1, <1>2, <1>3, <1>4, <1>5

\* On its way round the list visits no node twice.
LEMMA AtDiffers ==
  ASSUME NEW L \in Lists
  PROVE  /\ \A j, h \in 0 .. Len(L) : At(L, j) = At(L, h) => j = h
         /\ \A j, h \in 1 .. Len(L) + 1 : At(L, j) = At(L, h) => j = h
<1>1. /\ Len(L) \in Nat /\ At(L, 0) = Hd /\ At(L, Len(L) + 1) = Hd
      /\ \A j \in 1 .. Len(L) : At(L, j) = L[j] /\ L[j] # Hd
      /\ \A j, h \in 1 .. Len(L) : L[j] = L[h] => j = h
  BY ListFacts, HeadIsNone
<1>2. ASSUME NEW j \in 0 .. Len(L), NEW h \in 0 .. Len(L), At(L, j) = At(L, h)
      PROVE  j = h
  <2>1. (j = 0 \/ j \in 1 .. Len(L)) /\ (h = 0 \/ h \in 1 .. Len(L))
    BY <1>1
  <2> QED  BY <1>1, <1>2, <2>1
<1>3. ASSUME NEW j \in 1 .. Len(L) + 1, NEW h \in 1 .. Len(L) + 1,
             At(L, j) = At(L, h)
      PROVE  j = h
  <2>1. /\ j = Len(L) + 1 \/ j \in 1 .. Len(L)
        /\ h = Len(L) + 1 \/ h \in 1 .. Len(L)
    BY <1>1
  <2> QED  BY <1>1, <1>3, <2>1
<1> QED  BY <1>2, <1>3

LEMMA EmptyList ==
  /\ <<>> \in Lists /\ Len(<<>>) = 0 /\ Range(<<>>) = {}
  /\ At(<<>>, 0) = Hd /\ At(<<>>, 1) = Hd
<1>1. <<>> \in Seq(Entry) /\ Len(<<>>) = 0 /\ DOMAIN <<>> = {}
  OBVIOUS
<1> QED  BY <1>1 DEF Lists, IsInjective, Range, At

LEMMA RangeOfAppend ==
  ASSUME NEW S, NEW c \in Seq(S), NEW v \in S
  PROVE  Range(Append(c, v)) = Range(c) \cup {v}
<1> DEFINE M == Append(c, v)
<1>1. Len(c) \in Nat /\ DOMAIN c = 1 .. Len(c)
  OBVIOUS
<1>2. /\ DOMAIN M = 1 .. Len(c) + 1 /\ M[Len(c) + 1] = v
      /\ \A j \in 1 .. Len(c) : M[j] = c[j]
  BY <1>1
<1> HIDE DEF M
<1>3. \A j \in 1 .. Len(c) + 1 : j = Len(c) + 1 \/ j \in 1 .. Len(c)
  BY <1>1
<1>4. Len(c) + 1 \in DOMAIN M /\ \A j \in 1 .. Len(c) : j \in DOMAIN M
  BY <1>1, <1>2
<1>5. Range(M) = {M[j] : j \in DOMAIN M} /\ Range(c) = {c[j] : j \in DOMAIN c}
  BY DEF Range
<1>6. \A y \in Range(M) : y \in Range(c) \cup {v}
  BY <1>1, <1>2, <1>3, <1>5
<1>7. \A y \in Range(c) \cup {v} : y \in Range(M)
  BY <1>1, <1>2, <1>4, <1>5
<1> QED  BY <1>6, <1>7 DEF M

LEMMA AppendToList ==
  ASSUME NEW L \in Lists, NEW x \in Entry, x \notin Range(L)
  PROVE  /\ Append(L, x) \in Lists /\ Len(Append(L, x)) = Len(L) + 1
         /\ Range(Append(L, x)) = Range(L) \cup {x}
         /\ \A j \in 0 .. Len(L) : At(Append(L, x), j) = At(L, j)
         /\ At(Append(L, x), Len(L) + 1) = x
         /\ At(Append(L, x), Len(L) + 2) = Hd
<1> DEFINE M == Append(L, x)
<1>1. /\ Len(L) \in Nat /\ L \in Seq(Entry) /\ DOMAIN L = 1 .. Len(L)
      /\ \A j, h \in 1 .. Len(L) : L[j] = L[h] => j = h
  BY ListFacts
<1>2. /\ M \in Seq(Entry) /\ Len(M) = Len(L) + 1 /\ DOMAIN M = 1 .. Len(L) + 1
      /\ M[Len(L) + 1] = x /\ \A j \in 1 .. Len(L) : M[j] = L[j]
  BY <1>1
<1> HIDE DEF M
<1>3. \A j \in 1 .. Len(L) : L[j] # x
  BY <1>1 DEF Range
<1>4. \A j \in DOMAIN M : j = Len(L) + 1 \/ j \in 1 .. Len(L)
  BY <1>1, <1>2
<1>5. IsInjective(M)
  BY <1>1, <1>2, <1>3, <1>4 DEF IsInjective
<1>6. Range(M) = Range(L) \cup {x}
  BY <1>1, RangeOfAppend DEF M
<1>7. \A j \in 0 .. Len(L) : At(M, j) = At(L, j)
  BY <1>1, <1>2 DEF At
<1>8. At(M, Len(L) + 1) = x /\ At(M, Len(L) + 2) = Hd
  BY <1>1, <1>2 DEF At
<1> QED  BY <1>2, <1>5, <1>6, <1>7, <1>8 DEF Lists, M

LEMMA TailOfList ==
  ASSUME NEW L \in Lists, L # <<>>
  PROVE  /\ Tail(L) \in Lists /\ Len(Tail(L)) = Len(L) - 1 /\ Len(L) \in Nat \ {0}
         /\ L[1] \in Entry /\ Range(Tail(L)) = Range(L) \ {L[1]} /\ L[1] \in Range(L)
         /\ At(Tail(L), 0) = Hd
         /\ \A j \in 1 .. Len(L) : At(Tail(L), j) = At(L, j + 1)
<1> DEFINE M == Tail(L)
<1>1. /\ Len(L) \in Nat /\ L \in Seq(Entry) /\ DOMAIN L = 1 .. Len(L)
      /\ \A j, h \in 1 .. Len(L) : L[j] = L[h] => j = h
      /\ \A j \in 1 .. Len(L) : L[j] \in Entry
  BY ListFacts
<1>2. Len(L) # 0 /\ 1 \in 1 .. Len(L)
  BY <1>1
<1>3. /\ M \in Seq(Entry) /\ Len(M) = Len(L) - 1 /\ DOMAIN M = 1 .. Len(L) - 1
      /\ \A j \in 1 .. Len(L) - 1 : M[j] = L[j + 1]
  BY <1>1
<1> HIDE DEF M
<1>4. \A j \in 1 .. Len(L) - 1 : j + 1 \in 1 .. Len(L) /\ j + 1 # 1
  BY <1>1
<1>5. IsInjective(M)
  <2>1. ASSUME NEW a \in 1 .. Len(L) - 1, NEW b \in 1 .. Len(L) - 1, M[a] = M[b]
        PROVE  a = b
    <3>1. a + 1 = b + 1
      BY <1>1, <1>3, <1>4, <2>1
    <3> QED  BY <3>1
  <2> QED  BY <1>3, <2>1 DEF IsInjective
<1>6. Range(M) = Range(L) \ {L[1]}
  <2>1. ASSUME NEW y \in Range(M) PROVE y \in Range(L) /\ y # L[1]
    <3>1. PICK m \in 1 .. Len(L) - 1 : y = L[m + 1]
      BY <1>3 DEF Range
    <3> QED  BY <1>1, <1>2, <1>4, <3>1 DEF Range
  <2>2. ASSUME NEW y \in Range(L), y # L[1] PROVE y \in Range(M)
    <3>1. PICK m \in 1 .. Len(L) : y = L[m]
      BY <1>1 DEF Range
    <3>2. m - 1 \in 1 .. Len(L) - 1 /\ (m - 1) + 1 = m
      BY <1>1, <2>2, <3>1
    <3>3. M[m - 1] = y
      BY <1>3, <3>1, <3>2
    <3> QED  BY <1>3, <3>2, <3>3 DEF Range
  <2> QED  BY <2>1, <2>2
<1>7. At(M, 0) = Hd
  BY <1>1, <1>3 DEF At
<1>8. ASSUME NEW j \in 1 .. Len(L) PROVE At(M, j) = At(L, j + 1)
  <2>1. CASE j = Len(L)
    BY <1>1, <1>3, <2>1 DEF At
  <2>2. CASE j # Len(L)
    <3>1. \A a \in Nat : \A b \in 1 .. a : b # a => b \in 1 .. a - 1
      OBVIOUS
    <3>2. j \in 1 .. Len(L) - 1
      BY ONLY <1>1, <2>2, <3>1, j \in 1 .. Len(L)
    <3> QED  BY <1>3, <1>4, <3>2 DEF At
  <2> QED  BY <2>1, <2>2
<1>9. L[1] \in Range(L)
  BY <1>1, <1>2 DEF Range
<1> QED  BY <1>1, <1>2, <1>3, <1>5, <1>6, <1>7, <1>8, <1>9 DEF Lists, M

-----------------------------------------------------------------------------
(* Links                                                                   *)

\* CIRCLEQ_INSERT_TAIL puts the entry at the end.
LEMMA InsertTailAppends ==
  ASSUME NEW nx \in Links, NEW pv \in Links, NEW L \in Lists, Chain(nx, pv, L),
         NEW x \in Entry, x \notin Range(L),
         NEW z, z = IF nx[Hd] = Hd THEN Hd ELSE pv[Hd],
         NEW mx, mx = [nx EXCEPT ![x] = Hd, ![z] = x],
         NEW pw, pw = [pv EXCEPT ![x] = pv[Hd], ![Hd] = x]
  PROVE  mx \in Links /\ pw \in Links /\ Chain(mx, pw, Append(L, x))
<1> DEFINE M == Append(L, x)
           l == Len(L)
<1>1. /\ l \in Nat /\ At(L, 0) = Hd /\ At(L, l + 1) = Hd
      /\ \A j \in 1 .. l : At(L, j) = L[j] /\ L[j] \in Entry /\ L[j] # Hd
      /\ \A j \in Nat : At(L, j) \in Node
      /\ x # Hd /\ x \in Node /\ Hd \in Node
  BY ListFacts, HeadIsNone
<1>2. \A j \in 1 .. l : L[j] # x
  BY ListFacts DEF Range
<1>3. /\ \A j \in 0 .. l : nx[At(L, j)] = At(L, j + 1)
      /\ \A j \in 0 .. l : pv[At(L, j + 1)] = At(L, j)
  BY DEF Chain
<1>4. z = At(L, l) /\ pv[Hd] = At(L, l)
  <2>1. nx[Hd] = At(L, 1) /\ pv[Hd] = At(L, l)
    BY <1>1, <1>3
  <2>2. CASE l = 0
    BY <1>1, <2>1, <2>2
  <2>3. CASE l # 0
    <3>1. 1 \in 1 .. l
      BY <1>1, <2>3
    <3> QED  BY <1>1, <2>1, <3>1
  <2> QED  BY <2>2, <2>3
<1>5. \A j \in 0 .. l : At(L, j) # x
  <2>1. \A j \in 0 .. l : j = 0 \/ j \in 1 .. l
    BY <1>1
  <2> QED  BY <1>1, <1>2, <2>1
<1>6. z \in Node /\ z # x
  BY <1>1, <1>4, <1>5
<1>7. mx \in Links /\ mx[z] = x /\ mx[x] = Hd
      /\ \A y \in Node : y # z /\ y # x => mx[y] = nx[y]
  BY <1>1, <1>6 DEF Links
<1>8. pw \in Links /\ pw[Hd] = x /\ pw[x] = At(L, l)
      /\ \A y \in Node : y # Hd /\ y # x => pw[y] = pv[y]
  BY <1>1, <1>4, <1>6 DEF Links
<1>9. /\ Len(M) = l + 1 /\ \A j \in 0 .. l : At(M, j) = At(L, j)
      /\ At(M, l + 1) = x /\ At(M, l + 2) = Hd
  BY AppendToList
<1> HIDE DEF M
<1>10. ASSUME NEW j \in 0 .. Len(M)
       PROVE  mx[At(M, j)] = At(M, j + 1) /\ pw[At(M, j + 1)] = At(M, j)
  <2>1. CASE j \in 0 .. l - 1
    <3>1. /\ j \in 0 .. l /\ l \in 0 .. l /\ j # l /\ j + 1 \in 1 .. l
          /\ j + 1 \in 0 .. l /\ j \in Nat
      BY <1>1, <2>1
    <3>2. /\ At(M, j) = At(L, j) /\ At(M, j + 1) = At(L, j + 1)
          /\ At(L, j) # x /\ At(L, j + 1) # x /\ At(L, j + 1) # Hd
          /\ At(L, j) \in Node /\ At(L, j + 1) \in Node
      BY <1>1, <1>5, <1>9, <3>1
    <3>3. At(L, j) # z
      BY <1>4, <3>1, AtDiffers
    <3>4. nx[At(L, j)] = At(L, j + 1) /\ pv[At(L, j + 1)] = At(L, j)
      BY <1>3, <3>1
    <3> QED  BY <1>7, <1>8, <3>2, <3>3, <3>4
  <2>2. CASE j = l
    <3>1. l \in 0 .. l
      BY <1>1
    <3>2. At(M, j) = z /\ At(M, j + 1) = x
      BY <1>4, <1>9, <2>2, <3>1
    <3> QED  BY <1>4, <1>7, <1>8, <3>2
  <2>3. CASE j = l + 1
    <3>1. At(M, j) = x /\ At(M, j + 1) = Hd
      <4>1. j + 1 = l + 2
        BY <1>1, <2>3
      <4> QED  BY <1>9, <2>3, <4>1
    <3> QED  BY <1>7, <1>8, <3>1
  <2> QED  BY <1>1, <1>9, <2>1, <2>2, <2>3
<1>11. Chain(mx, pw, M)
  BY <1>10 DEF Chain
<1> QED  BY <1>7, <1>8, <1>11 DEF M

\* The links that CIRCLEQ_REMOVE of x makes of nx and pv.
Unlinked(nx, pv, x, mx, pw) ==
  /\ pw = [pv EXCEPT ![nx[x]] = pv[x]]
  /\ mx = [nx EXCEPT ![pv[x]] = nx[x]]

\* Of the first entry, it takes it from the list.
LEMMA UnlinkTakesFirst ==
  ASSUME NEW nx \in Links, NEW pv \in Links, NEW L \in Lists, Chain(nx, pv, L),
         L # <<>>, NEW x, x = nx[Hd], NEW mx, NEW pw, Unlinked(nx, pv, x, mx, pw)
  PROVE  /\ mx \in Links /\ pw \in Links /\ x = L[1]
         /\ Chain(mx, pw, Tail(L))
<1> DEFINE M == Tail(L)
           l == Len(L)
<1>1. /\ l \in Nat \ {0} /\ At(L, 0) = Hd /\ At(L, l + 1) = Hd
      /\ \A j \in 1 .. l : At(L, j) = L[j] /\ L[j] # Hd
      /\ \A j \in Nat : At(L, j) \in Node
      /\ Hd \in Node /\ Len(M) = l - 1 /\ At(M, 0) = Hd
      /\ \A j \in 1 .. l : At(M, j) = At(L, j + 1)
  BY ListFacts, HeadIsNone, TailOfList
<1>2. /\ \A j \in 0 .. l : nx[At(L, j)] = At(L, j + 1)
      /\ \A j \in 0 .. l : pv[At(L, j + 1)] = At(L, j)
  BY DEF Chain
<1>3. x = At(L, 1) /\ x = L[1] /\ pv[x] = Hd /\ nx[x] = At(L, 2) /\ At(L, 2) \in Node
  <2>1. 0 \in 0 .. l /\ 1 \in 0 .. l /\ 1 \in 1 .. l
    BY <1>1
  <2>2. x = At(L, 1) /\ pv[At(L, 1)] = Hd /\ nx[At(L, 1)] = At(L, 2)
    BY <1>1, <1>2, <2>1
  <2> QED  BY <1>1, <2>1, <2>2
<1>4. mx \in Links /\ mx[Hd] = At(L, 2)
      /\ \A y \in Node : y # Hd => mx[y] = nx[y]
  BY <1>1, <1>3 DEF Links, Unlinked
<1>5. pw \in Links /\ pw[At(L, 2)] = Hd
      /\ \A y \in Node : y # At(L, 2) => pw[y] = pv[y]
  BY <1>1, <1>3 DEF Links, Unlinked
<1> HIDE DEF M
<1>6. ASSUME NEW j \in 0 .. Len(M)
      PROVE  mx[At(M, j)] = At(M, j + 1) /\ pw[At(M, j + 1)] = At(M, j)
  <2>1. CASE j = 0
    <3>1. At(M, 1) = At(L, 2)
      <4>1. 1 \in 1 .. l /\ 1 + 1 = 2
        BY <1>1
      <4> QED  BY <1>1, <4>1
    <3> QED  BY <1>1, <1>4, <1>5, <2>1, <3>1
  <2>2. CASE j # 0
    <3>1. /\ j \in 1 .. l /\ j + 1 \in 1 .. l /\ j + 1 \in 0 .. l /\ j + 2 \in Nat
          /\ (j + 1) + 1 = j + 2 /\ j + 2 # 2 /\ j + 2 \in 1 .. l + 1
          /\ 2 \in 1 .. l + 1
      BY <1>1, <2>2
    <3>2. At(M, j) = At(L, j + 1) /\ At(M, j + 1) = At(L, j + 2)
      BY <1>1, <3>1
    <3>3. nx[At(L, j + 1)] = At(L, j + 2) /\ pv[At(L, j + 2)] = At(L, j + 1)
      BY <1>2, <3>1
    <3>4. At(L, j + 1) # Hd /\ At(L, j + 1) \in Node /\ At(L, j + 2) \in Node
      BY <1>1, <3>1
    <3>5. At(L, j + 2) # At(L, 2)
      BY <3>1, AtDiffers
    <3> QED  BY <1>4, <1>5, <3>2, <3>3, <3>4, <3>5
  <2> QED  BY <2>1, <2>2
<1>7. Chain(mx, pw, M)
  BY <1>6 DEF Chain
<1> QED  BY <1>3, <1>4, <1>5, <1>7 DEF M

\* Of an empty list it changes nothing.
LEMMA UnlinkNothing ==
  ASSUME NEW nx \in Links, NEW pv \in Links, Chain(nx, pv, <<>>),
         NEW x, x = nx[Hd]
  PROVE  /\ x = Hd /\ [pv EXCEPT ![nx[x]] = pv[x]] = pv
         /\ [nx EXCEPT ![pv[x]] = nx[x]] = nx
<1>1. 0 \in 0 .. Len(<<>>)
  BY EmptyList
<1>2. nx[Hd] = Hd /\ pv[Hd] = Hd
  BY <1>1, EmptyList DEF Chain
<1> QED  BY <1>2 DEF Links

\* Both directions agree at every node of the list.
LEMMA LinksAgree ==
  ASSUME NEW nx \in Links, NEW pv \in Links, NEW L \in Lists, Chain(nx, pv, L),
         NEW x \in Range(L) \cup {Hd}
  PROVE  /\ nx[x] \in Range(L) \cup {Hd} /\ pv[x] \in Range(L) \cup {Hd}
         /\ pv[nx[x]] = x /\ nx[pv[x]] = x
<1> DEFINE l == Len(L)
<1>1. /\ l \in Nat /\ DOMAIN L = 1 .. l /\ At(L, 0) = Hd /\ At(L, l + 1) = Hd
      /\ \A j \in 1 .. l : At(L, j) = L[j]
  BY ListFacts
<1>2. \A j \in 0 .. l + 1 : At(L, j) \in Range(L) \cup {Hd}
  <2>1. \A j \in 0 .. l + 1 : j = 0 \/ j = l + 1 \/ j \in 1 .. l
    BY <1>1
  <2> QED  BY <1>1, <2>1 DEF Range
<1>3. \A j \in 0 .. l : nx[At(L, j)] = At(L, j + 1) /\ pv[At(L, j + 1)] = At(L, j)
  BY DEF Chain
<1>4. PICK j \in 0 .. l : x = At(L, j)
  <2>1. CASE x = Hd
    BY <1>1, <2>1
  <2>2. CASE x # Hd
    <3>1. PICK j \in 1 .. l : x = L[j]
      BY <1>1, <2>2 DEF Range
    <3> QED  BY <1>1, <3>1
  <2> QED  BY <2>1, <2>2
<1>5. PICK h \in 0 .. l : x = At(L, h + 1)
  <2>1. CASE x = Hd
    BY <1>1, <2>1
  <2>2. CASE x # Hd
    <3>1. j \in 1 .. l /\ j - 1 \in 0 .. l /\ (j - 1) + 1 = j
      BY <1>1, <1>4, <2>2
    <3> QED  BY <1>4, <3>1
  <2> QED  BY <2>1, <2>2
<1>6. j + 1 \in 0 .. l + 1 /\ h \in 0 .. l + 1
  BY <1>1
<1> QED  BY <1>2, <1>3, <1>4, <1>5, <1>6

-----------------------------------------------------------------------------
(* The way along the links                                                 *)

LEMMA LeastElement ==
  ASSUME NEW T \in SUBSET Nat, T # {}
  PROVE  \E m \in T : \A y \in T : m <= y
<1>1. IsWellFoundedOn(OpToRel(<, Nat), Nat)
  BY NatLessThanWellFounded
<1>2. PICK m \in T : \A y \in T : ~(<<y, m>> \in OpToRel(<, Nat))
  BY <1>1, WFMin
<1>3. \A y \in T : ~(y < m)
  BY <1>2 DEF OpToRel
<1> QED  BY <1>3

\* A remainder is determined by what it is.
LEMMA RemainderIs ==
  ASSUME NEW m \in Nat \ {0}, NEW q \in Int, NEW r \in 0 .. m - 1
  PROVE  (m * q + r) % m = r
<1> DEFINE c == m * q + r
           p == c \div m
           e == c % m
<1>1. m * q \in Int /\ c \in Int
  OBVIOUS
<1>2. \A a \in Int : a \div m \in Int /\ a % m \in 0 .. m - 1
                     /\ a = m * (a \div m) + (a % m)
  OBVIOUS
<1>3. p \in Int /\ e \in 0 .. m - 1 /\ m * q + r = m * p + e
  BY <1>1, <1>2
<1> HIDE DEF p, e
<1>4. m * p \in Int
  BY <1>3
<1>5. ~(p >= q + 1)
  <2> SUFFICES ASSUME p >= q + 1 PROVE FALSE
    OBVIOUS
  <2>1. m * p >= m * (q + 1)
    BY <1>3
  <2>2. m * (q + 1) = m * q + m
    BY <1>3
  <2> QED  BY <1>1, <1>3, <1>4, <2>1, <2>2
<1>6. ~(q >= p + 1)
  <2> SUFFICES ASSUME q >= p + 1 PROVE FALSE
    OBVIOUS
  <2>1. m * q >= m * (p + 1)
    BY <1>3
  <2>2. m * (p + 1) = m * p + m
    BY <1>3
  <2> QED  BY <1>1, <1>3, <1>4, <2>1, <2>2
<1>7. p = q
  BY <1>3, <1>5, <1>6
<1>8. e = r
  BY <1>1, <1>3, <1>7
<1> QED  BY <1>8 DEF e

LEMMA NextRemainder ==
  ASSUME NEW m \in Nat \ {0}, NEW a \in Nat
  PROVE  /\ a % m \in 0 .. m - 1 /\ 0 % m = 0
         /\ a % m = m - 1 => (a + 1) % m = 0
         /\ a % m # m - 1 => (a + 1) % m = (a % m) + 1
<1>1. \A c \in Int : c \div m \in Int /\ c % m \in 0 .. m - 1
                     /\ c = m * (c \div m) + (c % m)
  OBVIOUS
<1>2. PICK q \in Int : \E r \in 0 .. m - 1 : a = m * q + r /\ r = a % m
  <2>1. /\ a \div m \in Int /\ a % m \in 0 .. m - 1
        /\ a = m * (a \div m) + (a % m)
    BY <1>1
    <2> QED  BY <2>1
<1>3. PICK r \in 0 .. m - 1 : a = m * q + r /\ r = a % m
  BY <1>2
<1>4. m * q \in Int /\ m * (q + 1) = m * q + m
  BY <1>2
<1>5. 0 % m = 0
  <2>1. m * 0 + 0 = 0 /\ 0 \in 0 .. m - 1
    OBVIOUS
  <2> QED  BY <2>1, RemainderIs
<1>6. ASSUME r = m - 1 PROVE (a + 1) % m = 0
  <2>1. a + 1 = m * (q + 1) + 0 /\ q + 1 \in Int /\ 0 \in 0 .. m - 1
    BY <1>2, <1>3, <1>4, <1>6
  <2> QED  BY <2>1, RemainderIs
<1>7. ASSUME r # m - 1 PROVE (a + 1) % m = r + 1
  <2>1. r + 1 \in 0 .. m - 1
    BY <1>7
  <2>2. a + 1 = m * q + (r + 1)
    BY <1>3, <1>4
  <2> QED  BY <2>1, <2>2, RemainderIs
<1> QED  BY <1>1, <1>3, <1>5, <1>6, <1>7

LEMMA FiniteEntries ==
  /\ Tasks \in Nat /\ IsFiniteSet(Entry) /\ Cardinality(Entry) \in Nat
  /\ PutLimit <= Tasks
<1>1. /\ IsFiniteSet(Enqueuers) /\ PutLimit \in Nat /\ Main \in Enqueuers
  BY BasicQueueAssumption
<1>2. Cardinality(Enqueuers) \in Nat /\ Cardinality(Enqueuers) # 0
  BY <1>1, FS_CardinalityType, FS_EmptySet
<1>3. Tasks \in Nat /\ PutLimit <= Tasks
  <2>1. ASSUME NEW a \in Nat, NEW b \in Nat, b # 0 PROVE a * b \in Nat /\ a <= a * b
    <3>1. PICK c \in Nat : b = c + 1
      <4>1. b - 1 \in Nat /\ b = (b - 1) + 1
        BY <2>1
      <4> QED  BY <4>1
    <3>2. a * b = a * c + a /\ a * c \in Nat
      BY <3>1
    <3> QED  BY <3>2
  <2> QED  BY <1>1, <1>2, <2>1 DEF Tasks
<1>4. IsFiniteSet(1 .. Tasks)
  BY <1>3, FS_Interval
<1>5. IsFiniteSet(Entry)
  BY <1>1, <1>4, FS_Product DEF Entry
<1> QED  BY <1>3, <1>5, FS_CardinalityType

\* A list is no longer than there are entries.
LEMMA ListIsShort ==
  ASSUME NEW L \in Lists
  PROVE  Len(L) <= Cardinality(Entry)
<1>1. /\ Len(L) \in Nat /\ L \in Seq(Entry) /\ DOMAIN L = 1 .. Len(L)
      /\ IsInjective(L)
  BY ListFacts DEF Lists
<1>2. L \in [1 .. Len(L) -> Entry]
  BY <1>1
<1>3. L \in Injection(1 .. Len(L), Entry)
  BY <1>2, <1>1 DEF Injection
<1>4. IsFiniteSet(1 .. Len(L)) /\ Cardinality(1 .. Len(L)) = Len(L)
  <2>1. /\ IsFiniteSet(1 .. Len(L))
        /\ Cardinality(1 .. Len(L)) = IF 1 > Len(L) THEN 0 ELSE Len(L) - 1 + 1
    BY <1>1, FS_Interval
  <2> QED  BY <1>1, <2>1
<1> QED  BY <1>3, <1>4, FiniteEntries, FS_Injection

\* The walk goes round the list.
LEMMA WalkGoesRound ==
  ASSUME NEW L \in Lists, Chain(next, prev, L)
  PROVE  \A j \in 0 .. Len(L) + 1 : Walk[j] = At(L, j)
<1> DEFINE l == Len(L)
           m == l + 1
           w == [s \in Steps |-> At(L, s % m)]
           C == Cardinality(Entry)
<1>1. /\ l \in Nat /\ At(L, 0) = Hd /\ At(L, l + 1) = Hd /\ C \in Nat /\ l <= C
      /\ m \in Nat \ {0} /\ m - 1 = l
  BY ListFacts, ListIsShort, FiniteEntries
<1>2. \A j \in 0 .. l : next[At(L, j)] = At(L, j + 1)
  BY DEF Chain
<1>3. Steps = 0 .. C + 1
  BY DEF Steps
<1> HIDE DEF l, m, C
<1>4. ASSUME NEW s \in Steps, s # 0 PROVE At(L, s % m) = next[At(L, (s - 1) % m)]
  <2>1. s - 1 \in Nat /\ (s - 1) + 1 = s
    BY <1>1, <1>3, <1>4
  <2>2. /\ (s - 1) % m \in 0 .. l
        /\ (s - 1) % m = l => s % m = 0
        /\ (s - 1) % m # l => s % m = ((s - 1) % m) + 1
    BY <1>1, <2>1, NextRemainder
  <2> QED  BY <1>1, <1>2, <2>2
<1>5. At(L, 0 % m) = Hd
  BY <1>1, NextRemainder
<1>6. w = [s \in Steps |-> IF s = 0 THEN Hd ELSE next[w[s - 1]]]
  <2>1. ASSUME NEW s \in Steps PROVE w[s] = IF s = 0 THEN Hd ELSE next[w[s - 1]]
    <3>1. CASE s = 0
      BY <1>5, <3>1
    <3>2. CASE s # 0
      <4>1. s - 1 \in Steps
        BY <1>1, <1>3, <3>2
      <4> QED  BY <1>4, <3>2, <4>1
    <3> QED  BY <3>1, <3>2
  <2>2. w = [s \in Steps |-> w[s]]
    OBVIOUS
  <2> HIDE DEF w
  <2> QED  BY <2>1, <2>2
<1> HIDE DEF w
<1>7. Walk = [s \in Steps |-> IF s = 0 THEN Hd ELSE next[Walk[s - 1]]]
  BY <1>6 DEF Walk
<1> DEFINE T == {j \in 0 .. m : Walk[j] # At(L, j)}
<1>8. T = {}
  <2> SUFFICES ASSUME T # {} PROVE FALSE
    OBVIOUS
  <2>1. T \in SUBSET Nat
    BY <1>1
  <2>2. PICK j \in T : \A y \in T : j <= y
    <3> HIDE DEF T
    <3> QED  BY <2>1, LeastElement
  <2>3. j \in 0 .. m /\ Walk[j] # At(L, j) /\ j \in Steps
    BY <1>1, <1>3
  <2>4. j # 0
    BY <1>1, <1>7, <2>3
  <2>5. j - 1 \in 0 .. l /\ j - 1 \in 0 .. m /\ ~(j <= j - 1) /\ (j - 1) + 1 = j
    BY <1>1, <2>3, <2>4
  <2>6. Walk[j - 1] = At(L, j - 1)
    BY <2>2, <2>5
  <2>7. Walk[j] = next[Walk[j - 1]]
    BY <1>7, <2>3, <2>4
  <2> QED  BY <1>2, <2>3, <2>5, <2>6, <2>7
<1> QED  BY <1>8 DEF l, m

\* Entries is the list that the links make.
EntriesLinked == \A L \in Lists : Chain(next, prev, L) => Entries = L

LEMMA EntriesAre == EntriesLinked
<1> SUFFICES ASSUME NEW L \in Lists, Chain(next, prev, L) PROVE Entries = L
  BY DEF EntriesLinked
<1> DEFINE l == Len(L)
           P(s) == Walk[s + 1] = Hd /\ \A r \in 1 .. s : Walk[r] # Hd
<1>1. /\ l \in Nat /\ L \in Seq(Entry) /\ Cardinality(Entry) \in Nat
      /\ l <= Cardinality(Entry)
      /\ \A j \in 1 .. l : At(L, j) = L[j] /\ L[j] # Hd
      /\ At(L, l + 1) = Hd
  BY ListFacts, ListIsShort, FiniteEntries, HeadIsNone
<1>2. \A j \in 0 .. l + 1 : Walk[j] = At(L, j)
  BY WalkGoesRound
<1>3. l \in Steps /\ \A s \in Steps : s \in Nat
  BY <1>1 DEF Steps
<1>4. P(l)
  <2>1. l + 1 \in 0 .. l + 1 /\ \A r \in 1 .. l : r \in 0 .. l + 1
    BY <1>1
  <2> QED  BY <1>1, <1>2, <2>1
<1>5. ASSUME NEW s \in Steps, P(s) PROVE s = l
  <2>1. ~(s < l)
    <3> SUFFICES ASSUME s < l PROVE FALSE
      OBVIOUS
    <3>1. s + 1 \in 1 .. l /\ s + 1 \in 0 .. l + 1
      BY <1>1, <1>3
    <3> QED  BY <1>1, <1>2, <1>5, <3>1
  <2>2. ~(s > l)
    <3> SUFFICES ASSUME s > l PROVE FALSE
      OBVIOUS
    <3>1. l + 1 \in 1 .. s /\ l + 1 \in 0 .. l + 1
      BY <1>1, <1>3
    <3> QED  BY <1>1, <1>2, <1>5, <3>1
  <2> QED  BY <1>1, <1>3, <2>1, <2>2
<1>6. (CHOOSE s \in Steps : P(s)) = l
  <2> HIDE DEF P, l
  <2> QED  BY <1>3, <1>4, <1>5
<1>7. Entries = [s \in 1 .. l |-> Walk[s]]
  BY <1>6 DEF Entries
<1>8. \A s \in 1 .. l : Walk[s] = L[s]
  <2>1. \A s \in 1 .. l : s \in 0 .. l + 1
    BY <1>1
  <2> QED  BY <1>1, <1>2, <2>1
<1>9. L = [s \in 1 .. l |-> L[s]]
  BY <1>1
<1> HIDE DEF l
<1> QED  BY <1>7, <1>8, <1>9

-----------------------------------------------------------------------------
(* The calls                                                               *)

Places == {"call", "insert", "first", "remove", "unlock"}

\* The entries that have been put, and what has been returned.
Put   == {x \in Entry : x[2] <= puts[x[1]]}
Taken == UNION {Range(got[d]) : d \in Dequeuers}

\* Where the calls are.
PlaceInv ==
  /\ \A e \in Enqueuers : /\ pc[e] \in {"call", "insert", "unlock"}
                          /\ puts[e] <= Puts(e)
                          /\ pc[e] = "insert" => puts[e] < Puts(e)
  /\ \A d \in Dequeuers : /\ pc[d] \in {"call", "first", "remove", "unlock"}
                          /\ pc[d] = "remove" => n[d] = next[Hd]
                          /\ Len(got[d]) <= GetLimit
                          /\ pc[d] \in {"first", "remove"} => Len(got[d]) < GetLimit

LockInv == \A t \in Threads : pc[t] # "call" => lock = t

BaseInv == TypeOK /\ PlaceInv /\ LockInv

\* The links make a list of what has been put and not been taken.
ListInv ==
  /\ Entries \in Lists
  /\ Chain(next, prev, Entries)
  /\ Range(Entries) = Put \ Taken
  /\ Taken \subseteq Put \cup {Behind}

LEMMA ThreadFacts ==
  /\ \A e \in Enqueuers : e \in Threads /\ e \notin Dequeuers
  /\ \A d \in Dequeuers : d \in Threads /\ d \notin Enqueuers
  /\ Behind \notin Entry
BY BasicQueueAssumption DEF Threads, Node

LEMMA PutsBound == \A e \in Enqueuers : Puts(e) \in 0 .. Tasks
<1>1. Tasks \in Nat /\ PutLimit \in Nat /\ PutLimit <= Tasks
  BY FiniteEntries, BasicQueueAssumption
<1> QED  BY <1>1 DEF Puts

LEMMA InitBase == Init => BaseInv
<1> SUFFICES ASSUME Init PROVE BaseInv
  OBVIOUS
<1>1. Tasks \in Nat /\ Hd \in Node /\ GetLimit \in Nat
  BY FiniteEntries, HeadIsNone, BasicQueueAssumption
<1>2. TypeOK
  BY <1>1 DEF Init, TypeOK
<1>3. PlaceInv
  <2>1. \A e \in Enqueuers : 0 <= Puts(e)
    BY PutsBound, <1>1
  <2> QED  BY <1>1, <2>1, ThreadFacts DEF Init, PlaceInv
<1>4. LockInv
  BY DEF Init, LockInv
<1> QED  BY <1>2, <1>3, <1>4 DEF BaseInv

LEMMA InitList == Init => ListInv
<1> SUFFICES ASSUME Init PROVE ListInv
  OBVIOUS
<1>1. Chain(next, prev, <<>>)
  <2>1. next[Hd] = Hd /\ prev[Hd] = Hd
    BY HeadIsNone DEF Init
  <2>2. \A j \in 0 .. Len(<<>>) : j = 0
    BY EmptyList
  <2> QED  BY <2>1, <2>2, EmptyList DEF Chain
<1>2. Entries = <<>>
  BY <1>1, EmptyList, EntriesAre DEF EntriesLinked
<1>3. Put = {}
  <2>1. \A x \in Entry : x[1] \in Enqueuers /\ x[2] \in 1 .. Tasks
    BY DEF Entry
  <2>2. \A x \in Entry : ~(x[2] <= 0)
    BY <2>1, FiniteEntries
  <2> QED  BY <2>1, <2>2 DEF Init, Put
<1>4. Taken = {}
  <2>1. \A d \in Dequeuers : Range(got[d]) = {}
    BY EmptyList DEF Init
  <2> QED  BY <2>1 DEF Taken
<1> QED  BY <1>1, <1>2, <1>3, <1>4, EmptyList DEF ListInv

\* Taking and releasing the mutex.
LEMMA LockKeepsLock ==
  ASSUME TypeOK, LockInv, NEW t \in Threads, NEW p \in Places,
         \/ lock = Nobody /\ lock' = t
         \/ lock = t /\ lock' = t
         \/ lock = t /\ lock' = Nobody /\ p = "call",
         pc' = [pc EXCEPT ![t] = p]
  PROVE  LockInv'
<1>1. Nobody \notin Threads
  BY BasicQueueAssumption
<1>2. /\ pc'[t] = p /\ \A u \in Threads : u # t => pc'[u] = pc[u]
  BY DEF TypeOK
<1> QED  BY <1>1, <1>2 DEF LockInv

LEMMA EnqueueKeepsBase ==
  ASSUME BaseInv, NEW e \in Enqueuers, BasicEnqueue(e)
  PROVE  BaseInv'
<1>1. /\ e \in Threads /\ e \notin Dequeuers /\ \A d \in Dequeuers : d \in Threads /\ d # e
      /\ TypeOK /\ PlaceInv /\ LockInv
      /\ \A f \in Enqueuers : f \in Threads /\ puts[f] \in Nat
  BY ThreadFacts, FiniteEntries DEF BaseInv, TypeOK
<1>2. UNCHANGED <<fillFirst, n, got>> /\ \A f \in Enqueuers : (Puts(f))' = Puts(f)
  BY DEF BasicEnqueue, EnqueueLock, EnqueueInsert, Unlock, Puts
<1>3. CASE EnqueueLock(e)
  <2>1. /\ puts[e] < Puts(e) /\ pc' = [pc EXCEPT ![e] = "insert"]
        /\ lock = Nobody /\ lock' = e /\ UNCHANGED <<next, prev, puts>>
    BY <1>3 DEF EnqueueLock, Lock, Goto, list
  <2>2. LockInv'
    BY <1>1, <2>1, LockKeepsLock DEF Places
  <2>3. TypeOK'
    BY <1>1, <1>2, <2>1 DEF TypeOK
  <2>4. PlaceInv'
    BY <1>1, <1>2, <2>1 DEF PlaceInv, TypeOK
  <2> QED  BY <2>2, <2>3, <2>4 DEF BaseInv
<1>4. CASE EnqueueInsert(e)
  <2>1. /\ pc[e] = "insert" /\ pc' = [pc EXCEPT ![e] = "unlock"]
        /\ puts' = [puts EXCEPT ![e] = puts[e] + 1]
        /\ InsertTail(<<e, puts[e] + 1>>) /\ UNCHANGED lock
    BY <1>4 DEF EnqueueInsert, Goto
  <2>2. lock = e /\ puts[e] < Puts(e) /\ puts[e] + 1 \in 0 .. Tasks
        /\ puts[e] + 1 \in 1 .. Tasks /\ puts[e] + 1 <= Puts(e)
    <3>1. lock = e /\ puts[e] < Puts(e)
      BY <1>1, <2>1 DEF LockInv, PlaceInv
    <3>2. Puts(e) \in 0 .. Tasks /\ Tasks \in Nat /\ puts[e] \in Nat
      BY <1>1, PutsBound, FiniteEntries
    <3> QED  BY <3>1, <3>2
  <2>3. LockInv'
    BY <1>1, <2>1, <2>2, LockKeepsLock DEF Places
  <2>4. <<e, puts[e] + 1>> \in Node /\ Hd \in Node
    BY <2>2, HeadIsNone DEF Entry
  <2>5. next' \in Links /\ prev' \in Links
    <3> DEFINE x == <<e, puts[e] + 1>>
    <3>1. /\ next' = [next EXCEPT ![x] = Hd,
                                  ![IF next[Hd] = Hd THEN Hd ELSE prev[Hd]] = x]
          /\ prev' = [prev EXCEPT ![x] = prev[Hd], ![Hd] = x]
      BY <2>1 DEF InsertTail
    <3> HIDE DEF x
    <3>2. next \in Links /\ prev \in Links /\ x \in Node
      BY <1>1, <2>4 DEF TypeOK, Links, x
    <3> QED  BY <2>4, <3>1, <3>2 DEF Links
  <2>6. puts' \in [Enqueuers -> 0 .. Tasks]
    BY <1>1, <2>1, <2>2 DEF TypeOK
  <2>7. TypeOK'
    BY <1>1, <1>2, <2>1, <2>5, <2>6 DEF TypeOK, Links
  <2>8. /\ pc'[e] = "unlock" /\ puts'[e] = puts[e] + 1
        /\ \A u \in Threads : u # e => pc'[u] = pc[u]
        /\ \A f \in Enqueuers : f # e => puts'[f] = puts[f]
    BY <1>1, <2>1 DEF TypeOK
  <2>9. \A d \in Dequeuers : pc'[d] = pc[d] /\ pc[d] # "remove"
    BY <1>1, <2>2, <2>8 DEF LockInv
  <2>10. PlaceInv'
    BY <1>1, <1>2, <2>2, <2>8, <2>9 DEF PlaceInv
  <2> QED  BY <2>3, <2>7, <2>10 DEF BaseInv
<1>5. CASE Unlock(e)
  <2>1. /\ pc[e] = "unlock" /\ pc' = [pc EXCEPT ![e] = "call"]
        /\ lock' = Nobody /\ UNCHANGED <<next, prev, puts>>
    BY <1>5 DEF Unlock, Goto, list
  <2>2. lock = e
    BY <1>1, <2>1 DEF LockInv
  <2>3. LockInv'
    BY <1>1, <2>1, <2>2, LockKeepsLock DEF Places
  <2>4. TypeOK'
    BY <1>1, <1>2, <2>1 DEF TypeOK
  <2>5. PlaceInv'
    BY <1>1, <1>2, <2>1 DEF PlaceInv, TypeOK
  <2> QED  BY <2>3, <2>4, <2>5 DEF BaseInv
<1> QED  BY <1>3, <1>4, <1>5 DEF BasicEnqueue

LEMMA DequeueKeepsBase ==
  ASSUME BaseInv, ListInv, NEW d \in Dequeuers, BasicDequeue(d)
  PROVE  BaseInv'
<1>1. /\ d \in Threads /\ d \notin Enqueuers /\ \A e \in Enqueuers : e \in Threads /\ e # d
      /\ TypeOK /\ PlaceInv /\ LockInv
      /\ \A u \in Dequeuers : u \in Threads /\ got[u] \in Seq(Entry \cup {Behind})
      /\ GetLimit \in Nat /\ Hd \in Node
  BY ThreadFacts, HeadIsNone, BasicQueueAssumption DEF BaseInv, TypeOK
<1>2. UNCHANGED <<fillFirst, puts>> /\ \A e \in Enqueuers : (Puts(e))' = Puts(e)
  BY DEF BasicDequeue, DequeueLock, DequeueFirst, DequeueRemove, Unlock, Puts
\* The head's links are nodes.
<1>3. next[Hd] \in Range(Entries) \cup {Hd} /\ next[Hd] \in Entry \cup {Hd}
  <2>1. next[Hd] \in Range(Entries) \cup {Hd}
    BY <1>1, LinksAgree DEF ListInv, TypeOK, Links
  <2> QED  BY <2>1 DEF ListInv, Put
<1>4. CASE DequeueLock(d)
  <2>1. /\ pc' = [pc EXCEPT ![d] = "first"] /\ Len(got[d]) < GetLimit
        /\ lock = Nobody /\ lock' = d /\ UNCHANGED <<next, prev, n, got>>
    BY <1>4 DEF DequeueLock, Lock, Goto, list
  <2>2. LockInv'
    BY <1>1, <2>1, LockKeepsLock DEF Places
  <2>3. TypeOK'
    BY <1>1, <1>2, <2>1 DEF TypeOK
  <2>4. PlaceInv'
    BY <1>1, <1>2, <2>1 DEF PlaceInv, TypeOK
  <2> QED  BY <2>2, <2>3, <2>4 DEF BaseInv
<1>5. CASE DequeueFirst(d)
  <2>1. /\ pc[d] = "first" /\ pc' = [pc EXCEPT ![d] = "remove"]
        /\ n' = [n EXCEPT ![d] = next[Hd]] /\ UNCHANGED <<next, prev, lock, got>>
    BY <1>5 DEF DequeueFirst, Goto, list
  <2>2. lock = d
    BY <1>1, <2>1 DEF LockInv
  <2>3. LockInv'
    BY <1>1, <2>1, <2>2, LockKeepsLock DEF Places
  <2>4. n' \in [Dequeuers -> Node \cup {Null}]
    BY <1>1, <1>3, <2>1 DEF TypeOK, Node
  <2>5. TypeOK'
    BY <1>1, <1>2, <2>1, <2>4 DEF TypeOK
  <2>6. PlaceInv'
    BY <1>1, <1>2, <2>1 DEF PlaceInv, TypeOK
  <2> QED  BY <2>3, <2>5, <2>6 DEF BaseInv
<1>6. CASE DequeueRemove(d)
  <2> DEFINE v == IF n[d] = Hd THEN Behind ELSE n[d]
  <2>1. /\ pc[d] = "remove" /\ pc' = [pc EXCEPT ![d] = "unlock"]
        /\ got' = [got EXCEPT ![d] = Append(got[d], v)]
        /\ prev' = [prev EXCEPT ![next[next[Hd]]] = prev[next[Hd]]]
        /\ next' = [next EXCEPT ![prev[next[Hd]]] = next[next[Hd]]]
        /\ UNCHANGED <<lock, n>>
    BY <1>6 DEF DequeueRemove, Goto, Unlink
  <2>2. lock = d /\ n[d] = next[Hd] /\ Len(got[d]) < GetLimit
    BY <1>1, <2>1 DEF LockInv, PlaceInv
  <2>3. v \in Entry \cup {Behind}
    BY <1>3, <2>2
  <2> HIDE DEF v
  <2>4. LockInv'
    BY <1>1, <2>1, <2>2, LockKeepsLock DEF Places
  <2>5. /\ next[next[Hd]] \in Node /\ prev[next[Hd]] \in Node
    <3>1. Range(Entries) \subseteq Entry
      BY DEF ListInv, Put
    <3>2. /\ next[next[Hd]] \in Range(Entries) \cup {Hd}
          /\ prev[next[Hd]] \in Range(Entries) \cup {Hd}
      BY <1>1, <1>3, LinksAgree DEF ListInv, TypeOK, Links
    <3> QED  BY <3>1, <3>2 DEF Node
  <2>6. next' \in [Node -> Node \cup {Null}] /\ prev' \in [Node -> Node \cup {Null}]
    BY <1>1, <2>1, <2>5 DEF TypeOK
  <2>7. Append(got[d], v) \in Seq(Entry \cup {Behind})
        /\ Len(Append(got[d], v)) = Len(got[d]) + 1 /\ Len(got[d]) \in Nat
    BY <1>1, <2>3
  <2>8. got' \in [Dequeuers -> Seq(Entry \cup {Behind})]
    BY <1>1, <2>1, <2>7 DEF TypeOK
  <2>9. TypeOK'
    BY <1>1, <1>2, <2>1, <2>6, <2>8 DEF TypeOK
  <2>10. /\ pc'[d] = "unlock" /\ got'[d] = Append(got[d], v)
         /\ \A u \in Threads : u # d => pc'[u] = pc[u]
         /\ \A u \in Dequeuers : u # d => got'[u] = got[u]
    BY <1>1, <2>1 DEF TypeOK
  <2>11. \A u \in Dequeuers : u # d => pc[u] # "remove"
    BY <1>1, <2>2 DEF LockInv
  <2>12. Len(got'[d]) <= GetLimit
    BY <1>1, <2>2, <2>7, <2>10
  <2>13. PlaceInv'
    BY <1>1, <1>2, <2>1, <2>10, <2>11, <2>12 DEF PlaceInv
  <2> QED  BY <2>4, <2>9, <2>13 DEF BaseInv
<1>7. CASE Unlock(d)
  <2>1. /\ pc[d] = "unlock" /\ pc' = [pc EXCEPT ![d] = "call"]
        /\ lock' = Nobody /\ UNCHANGED <<next, prev, n, got>>
    BY <1>7 DEF Unlock, Goto, list
  <2>2. lock = d
    BY <1>1, <2>1 DEF LockInv
  <2>3. LockInv'
    BY <1>1, <2>1, <2>2, LockKeepsLock DEF Places
  <2>4. TypeOK'
    BY <1>1, <1>2, <2>1 DEF TypeOK
  <2>5. PlaceInv'
    BY <1>1, <1>2, <2>1 DEF PlaceInv, TypeOK
  <2> QED  BY <2>3, <2>4, <2>5 DEF BaseInv
<1> QED  BY <1>4, <1>5, <1>6, <1>7 DEF BasicDequeue

-----------------------------------------------------------------------------
(* The list                                                                *)

LEMMA ListStays ==
  ASSUME UNCHANGED <<next, prev, puts, got>>
  PROVE  Entries' = Entries /\ (ListInv => ListInv')
<1>1. Entries' = Entries
  BY DEF Entries, Walk
<1>2. Put' = Put /\ Taken' = Taken
  BY DEF Put, Taken
<1>3. Chain(next, prev, Entries) => Chain(next, prev, Entries)'
  BY <1>1 DEF Chain
<1> QED  BY <1>1, <1>2, <1>3 DEF ListInv

\* BasicEnqueue puts its entry behind those in the list.
LEMMA InsertStep ==
  ASSUME BaseInv, ListInv, NEW e \in Enqueuers, EnqueueInsert(e)
  PROVE  Entries' = Append(Entries, <<e, puts[e] + 1>>) /\ ListInv'
<1> DEFINE x == <<e, puts[e] + 1>>
           L == Entries
           z == IF next[Hd] = Hd THEN Hd ELSE prev[Hd]
<1>1. /\ next' = [next EXCEPT ![x] = Hd, ![z] = x]
      /\ prev' = [prev EXCEPT ![x] = prev[Hd], ![Hd] = x]
      /\ puts' = [puts EXCEPT ![e] = puts[e] + 1] /\ UNCHANGED got
      /\ pc[e] = "insert"
  BY DEF EnqueueInsert, InsertTail
<1>2. /\ next \in Links /\ prev \in Links /\ puts \in [Enqueuers -> 0 .. Tasks]
      /\ Tasks \in Nat
  BY FiniteEntries DEF BaseInv, TypeOK, Links
<1>3. puts[e] \in Nat /\ puts[e] + 1 \in 1 .. Tasks
  <2>1. puts[e] < Puts(e) /\ Puts(e) \in 0 .. Tasks /\ puts[e] \in Nat
    BY <1>1, <1>2, PutsBound DEF BaseInv, PlaceInv
  <2> QED  BY <1>2, <2>1
<1>4. x \in Entry
  BY <1>3 DEF Entry
<1>5. x \notin Put /\ x # Behind
  <2>1. ~(puts[e] + 1 <= puts[e])
    BY <1>3
  <2> QED  BY <1>4, <2>1, ThreadFacts DEF Put
<1>6. x \notin Taken /\ x \notin Range(L)
  BY <1>5 DEF ListInv
<1>7. L \in Lists /\ Chain(next, prev, L)
  BY DEF ListInv
<1>8. Put' = Put \cup {x}
  <2>1. ASSUME NEW y \in Entry
        PROVE  y[2] <= puts'[y[1]] <=> y[2] <= puts[y[1]] \/ y = x
    <3>1. y[1] \in Enqueuers /\ y[2] \in Nat /\ y = <<y[1], y[2]>>
      BY DEF Entry
    <3>2. CASE y[1] = e
      <4>1. puts'[y[1]] = puts[e] + 1
        BY <1>1, <1>2, <3>2
      <4>2. y = x <=> y[2] = puts[e] + 1
        BY <3>1, <3>2
      <4>3. y[2] <= puts[e] + 1 <=> y[2] <= puts[e] \/ y[2] = puts[e] + 1
        BY <1>3, <3>1
      <4> QED  BY <3>2, <4>1, <4>2, <4>3
    <3>3. CASE y[1] # e
      <4>1. puts'[y[1]] = puts[y[1]] /\ y # x
        BY <1>1, <1>2, <3>1, <3>3
      <4> QED  BY <4>1
    <3> QED  BY <3>2, <3>3
  <2> HIDE DEF x
  <2> QED  BY <1>4, <2>1 DEF Put
<1>9. Taken' = Taken
  BY <1>1 DEF Taken
<1> HIDE DEF x, z, L
<1>10. next' \in Links /\ prev' \in Links /\ Chain(next', prev', Append(L, x))
  <2>1. z = IF next[Hd] = Hd THEN Hd ELSE prev[Hd]
    BY DEF z
  <2> QED  BY <1>1, <1>2, <1>4, <1>6, <1>7, <2>1, InsertTailAppends
<1>11. /\ Append(L, x) \in Lists
       /\ Range(Append(L, x)) = Range(L) \cup {x}
  BY <1>4, <1>6, <1>7, AppendToList
<1>12. Entries' = Append(L, x)
  <2>1. EntriesLinked'
    BY EntriesAre, PTL
  <2>2. \A M \in Lists : Chain(next', prev', M) => Entries' = M
    BY <2>1 DEF EntriesLinked, Chain
  <2> QED  BY <1>10, <1>11, <2>2
<1>13. Range(L) = Put \ Taken /\ Taken \subseteq Put \cup {Behind}
  BY DEF ListInv, L
<1>14. Range(Append(L, x)) = Put' \ Taken' /\ Taken' \subseteq Put' \cup {Behind}
  BY <1>6, <1>8, <1>9, <1>11, <1>13
<1>15. Chain(next, prev, Entries)'
  BY <1>10, <1>12 DEF Chain
<1> QED  BY <1>11, <1>12, <1>14, <1>15 DEF ListInv, L, x

\* BasicDequeue takes the first entry, and what is behind the head if there
\* is none.
LEMMA RemoveStep ==
  ASSUME BaseInv, ListInv, NEW d \in Dequeuers, DequeueRemove(d)
  PROVE  /\ \/ /\ Entries = <<>> /\ Entries' = <<>>
               /\ got' = [got EXCEPT ![d] = Append(got[d], Behind)]
            \/ /\ Entries # <<>> /\ Entries' = Tail(Entries)
               /\ got' = [got EXCEPT ![d] = Append(got[d], Entries[1])]
         /\ ListInv'
<1> DEFINE x == next[Hd]
           v == IF x = Hd THEN Behind ELSE x
           L == Entries
<1>1. /\ prev' = [prev EXCEPT ![next[x]] = prev[x]]
      /\ next' = [next EXCEPT ![prev[x]] = next[x]]
      /\ got' = [got EXCEPT ![d] = Append(got[d], v)]
      /\ UNCHANGED puts
  <2>1. n[d] = next[Hd]
    BY DEF DequeueRemove, BaseInv, PlaceInv
  <2> QED  BY <2>1 DEF DequeueRemove, Unlink
<1>2. /\ next \in Links /\ prev \in Links
      /\ got \in [Dequeuers -> Seq(Entry \cup {Behind})]
  BY DEF BaseInv, TypeOK, Links
<1>3. /\ L \in Lists /\ Chain(next, prev, L)
      /\ Range(L) = Put \ Taken /\ Taken \subseteq Put \cup {Behind}
  BY DEF ListInv
<1>4. Put' = Put
  BY <1>1 DEF Put
<1>5. Hd \notin Entry /\ Behind \notin Entry /\ Put \subseteq Entry
  BY HeadIsNone, ThreadFacts DEF Put
<1> HIDE DEF x, L
<1>6. Taken' = Taken \cup {v}
  <2>1. got'[d] = Append(got[d], v) /\ \A u \in Dequeuers : u # d => got'[u] = got[u]
    BY <1>1, <1>2
  <2>2. v \in Entry \cup {Behind}
    <3>1. x = Hd \/ x \in Range(L)
      BY <1>2, <1>3, LinksAgree DEF x
    <3> QED  BY <1>3, <1>5, <3>1
  <2> HIDE DEF v
  <2>3. Range(got'[d]) = Range(got[d]) \cup {v}
    <3>1. got[d] \in Seq(Entry \cup {Behind})
      BY <1>2
    <3> QED  BY <2>1, <2>2, <3>1, RangeOfAppend
  <2> QED  BY <2>1, <2>3 DEF Taken
<1>7. \A M \in Lists : Chain(next', prev', M) => Entries' = M
  <2>1. EntriesLinked'
    BY EntriesAre, PTL
  <2> QED  BY <2>1 DEF EntriesLinked, Chain
<1>8. CASE L = <<>>
  <2>1. x = Hd /\ prev' = prev /\ next' = next
    BY <1>1, <1>2, <1>3, <1>8, UnlinkNothing DEF x
  <2>2. v = Behind
    BY <2>1
  <2>3. Entries' = L
    BY <1>3, <1>7, <2>1
  <2>4. Range(L) = Put' \ Taken' /\ Taken' \subseteq Put' \cup {Behind}
    BY <1>3, <1>4, <1>5, <1>6, <2>2
  <2>5. Chain(next, prev, Entries)'
    BY <1>3, <2>1, <2>3 DEF Chain
  <2> QED  BY <1>1, <1>3, <1>8, <2>2, <2>3, <2>4, <2>5 DEF ListInv, L
<1>9. CASE L # <<>>
  <2>1. x = L[1] /\ Chain(next', prev', Tail(L))
    <3>1. PICK mx : mx = next'
      OBVIOUS
    <3>2. PICK pw : pw = prev'
      OBVIOUS
    <3>3. PICK y : y = x
      OBVIOUS
    <3>4. PICK M : M = L
      OBVIOUS
    <3>5. Unlinked(next, prev, y, mx, pw) /\ y = next[Hd]
      BY <1>1, <3>1, <3>2, <3>3 DEF x, Unlinked
    <3>6. /\ next \in Links /\ prev \in Links /\ M \in Lists
          /\ Chain(next, prev, M) /\ M # <<>>
      BY <1>2, <1>3, <1>9, <3>4
    <3>7. y = M[1] /\ Chain(mx, pw, Tail(M))
      <4> HIDE DEF L, x
      <4> QED  BY ONLY <3>5, <3>6, UnlinkTakesFirst
    <3> QED  BY <3>1, <3>2, <3>3, <3>4, <3>7
  <2>2. /\ Tail(L) \in Lists /\ L[1] \in Entry
        /\ Range(Tail(L)) = Range(L) \ {L[1]} /\ L[1] \in Range(L)
    BY <1>3, <1>9, TailOfList
  <2>3. v = L[1]
    BY <1>5, <2>1, <2>2
  <2>4. Entries' = Tail(L)
    BY <1>7, <2>1, <2>2
  <2>5. Range(Tail(L)) = Put' \ Taken' /\ Taken' \subseteq Put' \cup {Behind}
    BY <1>3, <1>4, <1>6, <2>2, <2>3
  <2>6. Chain(next, prev, Entries)'
    BY <2>1, <2>4 DEF Chain
  <2> QED  BY <1>1, <1>9, <2>2, <2>3, <2>4, <2>5, <2>6 DEF ListInv, L
<1> QED  BY <1>8, <1>9

-----------------------------------------------------------------------------
(* The list is well linked, and a first-in first-out queue                 *)

BasicInv == BaseInv /\ ListInv

LEMMA EnqueueKeepsList ==
  ASSUME BasicInv, NEW e \in Enqueuers, BasicEnqueue(e)
  PROVE  ListInv'
<1>1. CASE EnqueueInsert(e)
  BY <1>1, InsertStep DEF BasicInv
<1>2. CASE EnqueueLock(e) \/ Unlock(e)
  <2>1. UNCHANGED <<next, prev, puts, got>>
    BY <1>2 DEF EnqueueLock, Unlock, list
  <2> QED  BY <2>1, ListStays DEF BasicInv
<1> QED  BY <1>1, <1>2 DEF BasicEnqueue

LEMMA DequeueKeepsList ==
  ASSUME BasicInv, NEW d \in Dequeuers, BasicDequeue(d)
  PROVE  ListInv'
<1>1. CASE DequeueRemove(d)
  BY <1>1, RemoveStep DEF BasicInv
<1>2. CASE DequeueLock(d) \/ DequeueFirst(d) \/ Unlock(d)
  <2>1. UNCHANGED <<next, prev, puts, got>>
    BY <1>2 DEF DequeueLock, DequeueFirst, Unlock, list
  <2> QED  BY <2>1, ListStays DEF BasicInv
<1> QED  BY <1>1, <1>2 DEF BasicDequeue

LEMMA BasicStays ==
  ASSUME BasicInv, UNCHANGED vars
  PROVE  BasicInv'
<1>1. /\ UNCHANGED <<next, prev, puts, got>>
      /\ UNCHANGED <<fillFirst, lock, pc, n>>
  BY DEF vars, list
<1>2. ListInv'
  BY <1>1, ListStays DEF BasicInv
<1>3. TypeOK'
  BY <1>1 DEF BasicInv, BaseInv, TypeOK
<1>4. PlaceInv'
  BY <1>1 DEF BasicInv, BaseInv, PlaceInv, Puts
<1>5. LockInv'
  BY <1>1 DEF BasicInv, BaseInv, LockInv
<1> QED  BY <1>2, <1>3, <1>4, <1>5 DEF BasicInv, BaseInv

LEMMA BasicInvariant == Spec => []BasicInv
<1>1. Init => BasicInv
  BY InitBase, InitList DEF BasicInv
<1>2. BasicInv /\ [Next]_vars => BasicInv'
  <2> SUFFICES ASSUME BasicInv, [Next]_vars PROVE BasicInv'
    OBVIOUS
  <2>1. ASSUME NEW e \in Enqueuers, BasicEnqueue(e) PROVE BasicInv'
    BY <2>1, EnqueueKeepsBase, EnqueueKeepsList DEF BasicInv
  <2>2. ASSUME NEW d \in Dequeuers, BasicDequeue(d) PROVE BasicInv'
    BY <2>2, DequeueKeepsBase, DequeueKeepsList DEF BasicInv
  <2>3. CASE UNCHANGED vars
    BY <2>3, BasicStays
  <2> QED  BY <2>1, <2>2, <2>3 DEF Next, Terminated
<1> QED  BY <1>1, <1>2, PTL DEF Spec

\* Between any two steps the two directions of the list agree, and it holds
\* the entries that BasicEnqueue has inserted and BasicDequeue not yet taken.
THEOREM ListStaysLinked == Spec => []WellLinked
<1>1. BasicInv => WellLinked
  <2> SUFFICES ASSUME BasicInv PROVE WellLinked
    OBVIOUS
  <2>1. TypeOK /\ Range(Entries) = Put \ Taken
    BY DEF BasicInv, BaseInv, ListInv
  <2>2. ASSUME NEW x \in (Put \ Taken) \cup {Hd}
        PROVE  /\ next[x] \in (Put \ Taken) \cup {Hd}
               /\ prev[x] \in (Put \ Taken) \cup {Hd}
               /\ prev[next[x]] = x /\ next[prev[x]] = x
    <3>1. /\ next \in Links /\ prev \in Links /\ Entries \in Lists
          /\ Chain(next, prev, Entries)
      BY DEF BasicInv, BaseInv, ListInv, TypeOK, Links
    <3>2. PICK L : L = Entries
      OBVIOUS
    <3>3. x \in Range(L) \cup {Hd} /\ L \in Lists /\ Chain(next, prev, L)
      BY <2>1, <3>1, <3>2
    <3>4. /\ next[x] \in Range(L) \cup {Hd} /\ prev[x] \in Range(L) \cup {Hd}
          /\ prev[next[x]] = x /\ next[prev[x]] = x
      BY <3>1, <3>3, LinksAgree
    <3> QED  BY <2>1, <3>2, <3>4
  <2> QED  BY <2>1, <2>2 DEF WellLinked, Put, Taken
<1> QED  BY <1>1, BasicInvariant, PTL

\* Whatever the interleaving of the calls, each does to Entries what it does
\* to a first-in first-out queue, in the step that moves the links: no entry is
\* lost, doubled or overtaken, and only a call on the empty list returns what
\* is no entry.
THEOREM CallsAreFifo == Spec => Queue!Spec
<1>1. Init => Queue!Init
  <2> SUFFICES ASSUME Init PROVE Queue!Init
    OBVIOUS
  <2>1. Put = {} /\ Range(Entries) = Put \ Taken /\ Entries \in Lists
    <3>1. \A x \in Entry : x[1] \in Enqueuers /\ x[2] \in 1 .. Tasks
      BY DEF Entry
    <3>2. \A x \in Entry : ~(x[2] <= 0)
      BY <3>1, FiniteEntries
    <3>3. Put = {}
      BY <3>1, <3>2 DEF Init, Put
    <3> QED  BY <3>3, InitList DEF ListInv
  <2>2. Entries = <<>>
    <3>1. PICK L : L = Entries
      OBVIOUS
    <3>2. Len(L) \in Nat /\ DOMAIN L = 1 .. Len(L) /\ L \in Seq(Entry) /\ Range(L) = {}
      BY <2>1, <3>1, ListFacts
    <3>3. 1 \notin DOMAIN L
      BY <3>2 DEF Range
    <3>4. Len(L) = 0
      BY <3>2, <3>3
    <3> QED  BY <3>1, <3>2, <3>4
  <2> QED  BY <2>2 DEF Init, Queue!Init
<1>2. BasicInv /\ [Next]_vars => [Queue!Next]_(Queue!vars)
  <2> SUFFICES ASSUME BasicInv, [Next]_vars
               PROVE  Queue!Next \/ UNCHANGED <<Entries, puts, got>>
    BY DEF Queue!vars
  <2>1. ASSUME UNCHANGED <<next, prev, puts, got>>
        PROVE  UNCHANGED <<Entries, puts, got>>
    BY <2>1, ListStays
  <2>2. ASSUME NEW e \in Enqueuers, EnqueueInsert(e) PROVE Queue!Put(e)
    <3>1. Entries' = Append(Entries, <<e, puts[e] + 1>>)
      BY <2>2, InsertStep DEF BasicInv
    <3>2. puts' = [puts EXCEPT ![e] = puts[e] + 1] /\ UNCHANGED got /\ pc[e] = "insert"
      BY <2>2 DEF EnqueueInsert
    <3>3. puts[e] < Tasks
      <4>1. puts[e] < Puts(e) /\ puts[e] \in 0 .. Tasks
        BY <3>2 DEF BasicInv, BaseInv, PlaceInv, TypeOK
      <4> QED  BY <4>1, PutsBound, FiniteEntries
    <3>4. Len(Entries) < Cardinality(Entry) + 1
      <4>1. PICK L \in Lists : L = Entries
        BY DEF BasicInv, ListInv
      <4>2. Len(L) <= Cardinality(Entry) /\ Len(L) \in Nat
        BY ListIsShort, ListFacts
      <4> QED  BY <4>1, <4>2, FiniteEntries
    <3> QED  BY <3>1, <3>2, <3>3, <3>4 DEF Queue!Put
  <2>3. ASSUME NEW d \in Dequeuers, DequeueRemove(d)
        PROVE  Queue!Get(d) \/ Queue!Miss(d)
    <3>1. Len(got[d]) < GetLimit /\ UNCHANGED puts
      BY <2>3 DEF DequeueRemove, BasicInv, BaseInv, PlaceInv
    <3>2. CASE Entries = <<>>
      <4>1. /\ Entries' = <<>>
            /\ got' = [got EXCEPT ![d] = Append(got[d], Behind)]
        BY <2>3, <3>2, RemoveStep DEF BasicInv
      <4> QED  BY <3>1, <3>2, <4>1 DEF Queue!Miss
    <3>3. CASE Entries # <<>>
      <4>1. /\ Entries' = Tail(Entries)
            /\ got' = [got EXCEPT ![d] = Append(got[d], Entries[1])]
        BY <2>3, <3>3, RemoveStep DEF BasicInv
      <4>2. Head(Entries) = Entries[1]
        BY DEF BasicInv, ListInv, Lists
      <4> QED  BY <3>1, <3>3, <4>1, <4>2 DEF Queue!Get
    <3> QED  BY <3>2, <3>3
  <2>4. ASSUME NEW e \in Enqueuers, BasicEnqueue(e)
        PROVE  Queue!Next \/ UNCHANGED <<Entries, puts, got>>
    <3>1. CASE EnqueueInsert(e)
      BY <2>2, <3>1 DEF Queue!Next
    <3>2. CASE EnqueueLock(e) \/ Unlock(e)
      <4>1. UNCHANGED <<next, prev, puts, got>>
        BY <3>2 DEF EnqueueLock, Unlock, list
      <4> QED  BY <2>1, <4>1
    <3> QED  BY <2>4, <3>1, <3>2 DEF BasicEnqueue
  <2>5. ASSUME NEW d \in Dequeuers, BasicDequeue(d)
        PROVE  Queue!Next \/ UNCHANGED <<Entries, puts, got>>
    <3>1. CASE DequeueRemove(d)
      BY <2>3, <3>1 DEF Queue!Next
    <3>2. CASE DequeueLock(d) \/ DequeueFirst(d) \/ Unlock(d)
      <4>1. UNCHANGED <<next, prev, puts, got>>
        BY <3>2 DEF DequeueLock, DequeueFirst, Unlock, list
      <4> QED  BY <2>1, <4>1
    <3> QED  BY <2>5, <3>1, <3>2 DEF BasicDequeue
  <2>6. CASE UNCHANGED vars
    BY <2>1, <2>6 DEF vars, list
  <2> QED  BY <2>4, <2>5, <2>6 DEF Next, Terminated
<1> QED  BY <1>1, <1>2, BasicInvariant, PTL DEF Spec, Queue!Spec

-----------------------------------------------------------------------------
(* Filled first, the list lasts                                            *)

\* Where the list is filled first, a dequeuer has made no call before it is.
FilledInv == fillFirst => \/ Filled
                          \/ \A d \in Dequeuers : pc[d] = "call" /\ got[d] = <<>>

\* The calls that have returned something.
Gets == {g \in Dequeuers \X (1 .. GetLimit) : g[2] <= Len(got[g[1]])}

\* As long as a call is left, fewer entries than main puts have been taken.
LEMMA FewAreTaken ==
  ASSUME TypeOK, PlaceInv, IsFiniteSet(Dequeuers),
         Cardinality(Dequeuers) * GetLimit <= Tasks,
         NEW d \in Dequeuers, Len(got[d]) < GetLimit
  PROVE  \E k \in 1 .. Tasks : <<Main, k>> \notin Taken
<1> DEFINE All == Dequeuers \X (1 .. GetLimit)
           f == [g \in Gets |-> got[g[1]][g[2]]]
           T == {f[g] : g \in Gets}
           E == {Main} \X (1 .. Tasks)
<1>1. /\ GetLimit \in Nat /\ Tasks \in Nat
      /\ \A u \in Dequeuers : /\ got[u] \in Seq(Entry \cup {Behind})
                              /\ Len(got[u]) \in Nat /\ Len(got[u]) <= GetLimit
                              /\ DOMAIN got[u] = 1 .. Len(got[u])
  BY FiniteEntries, BasicQueueAssumption DEF TypeOK, PlaceInv
<1>2. IsFiniteSet(1 .. GetLimit) /\ Cardinality(1 .. GetLimit) = GetLimit
  <2>1. /\ IsFiniteSet(1 .. GetLimit)
        /\ Cardinality(1 .. GetLimit) = IF 1 > GetLimit THEN 0 ELSE GetLimit - 1 + 1
    BY <1>1, FS_Interval
  <2> QED  BY <1>1, <2>1
<1>3. IsFiniteSet(1 .. Tasks) /\ Cardinality(1 .. Tasks) = Tasks
  <2>1. /\ IsFiniteSet(1 .. Tasks)
        /\ Cardinality(1 .. Tasks) = IF 1 > Tasks THEN 0 ELSE Tasks - 1 + 1
    BY <1>1, FS_Interval
  <2> QED  BY <1>1, <2>1
<1>4. IsFiniteSet(All) /\ Cardinality(All) = Cardinality(Dequeuers) * GetLimit
  BY <1>2, FS_Product
<1>5. IsFiniteSet(E) /\ Cardinality(E) = Tasks
  <2>1. IsFiniteSet({Main}) /\ Cardinality({Main}) = 1
    BY FS_Singleton
  <2>2. /\ IsFiniteSet(E)
        /\ Cardinality(E) = Cardinality({Main}) * Cardinality(1 .. Tasks)
    BY <1>3, <2>1, FS_Product
  <2> HIDE DEF E
  <2>3. Cardinality(E) = 1 * Tasks
    BY ONLY <1>3, <2>1, <2>2
  <2> QED  BY <1>1, <2>2, <2>3
\* The call left makes the calls made a part of all calls.
<1>6. IsFiniteSet(Gets) /\ Cardinality(Gets) < Cardinality(All)
  <2>1. Gets \subseteq All
    BY DEF Gets
  <2>2. <<d, GetLimit>> \in All /\ <<d, GetLimit>> \notin Gets
    <3>1. GetLimit \in 1 .. GetLimit /\ ~(GetLimit <= Len(got[d]))
      BY <1>1
    <3> QED  BY <3>1 DEF Gets
  <2> HIDE DEF All
  <2>3. /\ IsFiniteSet(Gets) /\ Cardinality(Gets) <= Cardinality(All)
        /\ Cardinality(All) # Cardinality(Gets)
    BY <1>4, <2>1, <2>2, FS_Subset
  <2>4. Cardinality(Gets) \in Nat /\ Cardinality(All) \in Nat
    BY <1>4, <2>3, FS_CardinalityType
  <2> QED  BY <2>3, <2>4
<1>7. IsFiniteSet(T) /\ Cardinality(T) <= Cardinality(Gets)
  <2>1. f \in Surjection(Gets, T)
    <3>1. f \in [Gets -> T]
      OBVIOUS
    <3>2. \A t \in T : \E g \in Gets : f[g] = t
      OBVIOUS
    <3> HIDE DEF f, T
    <3> QED  BY <3>1, <3>2 DEF Surjection
  <2> HIDE DEF f, T
  <2> QED  BY <1>6, <2>1, FS_Surjection
<1>8. Taken \subseteq T
  <2> SUFFICES ASSUME NEW y \in Taken PROVE y \in T
    OBVIOUS
  <2>1. PICK u \in Dequeuers : y \in Range(got[u])
    BY DEF Taken
  <2>2. PICK k \in 1 .. Len(got[u]) : y = got[u][k]
    BY <1>1, <2>1 DEF Range
  <2>3. k \in 1 .. GetLimit /\ k <= Len(got[u])
    BY <1>1
  <2>4. <<u, k>> \in Gets
    BY <2>3 DEF Gets
  <2>5. f[<<u, k>>] = y
    BY <2>2, <2>4
  <2> QED  BY <2>4, <2>5
<1> HIDE DEF f, T, E, All
<1>9. ~(E \subseteq T)
  <2> SUFFICES ASSUME E \subseteq T PROVE FALSE
    OBVIOUS
  <2>1. Cardinality(E) <= Cardinality(T)
    BY <1>7, FS_Subset
  <2>2. /\ Cardinality(E) \in Nat /\ Cardinality(T) \in Nat
        /\ Cardinality(Gets) \in Nat /\ Cardinality(All) \in Nat
    BY <1>4, <1>5, <1>6, <1>7, FS_CardinalityType
  <2>3. Cardinality(All) <= Tasks
    BY <1>4
  <2> QED  BY <1>1, <1>5, <1>6, <1>7, <2>1, <2>2, <2>3
<1> QED  BY <1>8, <1>9 DEF E

\* A dequeuer about to remove finds an entry.
LEMMA ListLasts ==
  ASSUME BasicInv, Filled, fillFirst, IsFiniteSet(Dequeuers),
         Cardinality(Dequeuers) * GetLimit <= Tasks,
         NEW d \in Dequeuers, Len(got[d]) < GetLimit
  PROVE  Entries # <<>>
<1>1. PICK k \in 1 .. Tasks : <<Main, k>> \notin Taken
  BY FewAreTaken DEF BasicInv, BaseInv
<1>2. Main \in Enqueuers /\ puts[Main] = Tasks
  BY BasicQueueAssumption DEF Filled, Puts
<1>3. <<Main, k>> \in Entry /\ k <= Tasks
  BY <1>2, FiniteEntries DEF Entry
<1>4. <<Main, k>> \in Put
  BY <1>2, <1>3 DEF Put
<1>5. Range(Entries) # {}
  BY <1>1, <1>4 DEF BasicInv, ListInv
<1> QED  BY <1>5, EmptyList

\* Where the list is filled before the workers exist, and they ask for no more
\* entries than have been put, no call finds it empty.
THEOREM ListNeverMisses ==
  ASSUME IsFiniteSet(Dequeuers), Cardinality(Dequeuers) * GetLimit <= Tasks
  PROVE  Spec => []NeverMisses
<1> DEFINE Inv == FilledInv /\ NeverMisses
<1>1. Init => Inv
  <2> SUFFICES ASSUME Init PROVE Inv
    OBVIOUS
  <2>1. \A d \in Dequeuers : pc[d] = "call" /\ got[d] = <<>>
    BY ThreadFacts DEF Init
  <2>2. \A d \in Dequeuers : Range(got[d]) = {}
    BY <2>1, EmptyList
  <2> QED  BY <2>1, <2>2 DEF FilledInv, NeverMisses, ReturnsNumbers
<1>2. BasicInv /\ Inv /\ [Next]_vars => Inv'
  <2> SUFFICES ASSUME BasicInv, FilledInv, NeverMisses, [Next]_vars PROVE Inv'
    OBVIOUS
  <2>1. CASE UNCHANGED vars
    BY <2>1 DEF vars, FilledInv, NeverMisses, ReturnsNumbers, Filled, Puts
  <2>2. ASSUME NEW e \in Enqueuers, BasicEnqueue(e) PROVE Inv'
    <3>1. UNCHANGED <<fillFirst, got>>
      BY <2>2 DEF BasicEnqueue, EnqueueLock, EnqueueInsert, Unlock
    <3>2. ~Filled
      <4>1. Filled => pc[e] = "call" /\ puts[e] = Puts(e)
        BY DEF Filled
      <4>2. puts[e] \in Nat /\ Puts(e) \in Nat
        BY PutsBound, FiniteEntries DEF BasicInv, BaseInv, TypeOK
      <4>3. pc[e] = "call" => puts[e] < Puts(e)
        BY <2>2 DEF BasicEnqueue, EnqueueLock, EnqueueInsert, Unlock
      <4> QED  BY <4>1, <4>2, <4>3
    <3>3. \A d \in Dequeuers : pc'[d] = pc[d]
      <4>1. \A d \in Dequeuers : d # e /\ d \in Threads
        BY ThreadFacts
      <4>2. \E p \in Places : pc' = [pc EXCEPT ![e] = p]
        BY <2>2 DEF BasicEnqueue, EnqueueLock, EnqueueInsert, Unlock, Lock, Goto, Places
      <4> QED  BY <4>1, <4>2 DEF BasicInv, BaseInv, TypeOK
    <3> QED  BY <3>1, <3>2, <3>3 DEF FilledInv, NeverMisses, ReturnsNumbers
  <2>3. ASSUME NEW d \in Dequeuers, BasicDequeue(d) PROVE Inv'
    <3>1. UNCHANGED <<fillFirst, puts>> /\ \A e \in Enqueuers : pc'[e] = pc[e]
      <4>1. UNCHANGED <<fillFirst, puts>>
        BY <2>3 DEF BasicDequeue, DequeueLock, DequeueFirst, DequeueRemove, Unlock
      <4>2. \A e \in Enqueuers : d # e /\ e \in Threads
        BY ThreadFacts
      <4>3. \E p \in Places : pc' = [pc EXCEPT ![d] = p]
        BY <2>3 DEF BasicDequeue, DequeueLock, DequeueFirst, DequeueRemove, Unlock,
                    Lock, Goto, Places
      <4> QED  BY <4>1, <4>2, <4>3 DEF BasicInv, BaseInv, TypeOK
    <3>2. Filled => Filled'
      BY <3>1 DEF Filled, Puts
    <3>3. fillFirst => Filled
      <4>1. pc[d] = "call" => (fillFirst => Filled)
        BY <2>3 DEF BasicDequeue, DequeueLock, DequeueFirst, DequeueRemove, Unlock
      <4> QED  BY <4>1 DEF FilledInv
    <3>4. CASE DequeueRemove(d)
      <4> SUFFICES ASSUME fillFirst PROVE Inv'
        BY <3>1 DEF FilledInv, NeverMisses
      <4>1. Len(got[d]) < GetLimit
        BY <3>4 DEF DequeueRemove, BasicInv, BaseInv, PlaceInv
      <4>2. Entries # <<>>
        BY <3>3, <4>1, ListLasts
      <4>3. got' = [got EXCEPT ![d] = Append(got[d], Entries[1])]
        BY <3>4, <4>2, RemoveStep DEF BasicInv
      <4>4. Entries[1] \in Entry
        <5>1. PICK L : L = Entries
          OBVIOUS
        <5>2. L \in Lists /\ L # <<>>
          BY <4>2, <5>1 DEF BasicInv, ListInv
        <5>3. L[1] \in Entry
          BY <5>2, TailOfList
        <5> QED  BY <5>1, <5>3
      <4>5. ASSUME NEW u \in Dequeuers PROVE Behind \notin Range(got'[u])
        <5>1. got \in [Dequeuers -> Seq(Entry \cup {Behind})]
          BY DEF BasicInv, BaseInv, TypeOK
        <5>2. Behind \notin Range(got[u])
          BY DEF NeverMisses, ReturnsNumbers
        <5>3. CASE u # d
          BY <4>3, <5>1, <5>2, <5>3
        <5>4. CASE u = d
          <6>1. PICK v : v = Entries[1]
            OBVIOUS
          <6>2. v \in Entry /\ got[d] \in Seq(Entry \cup {Behind})
            BY <4>4, <5>1, <6>1
          <6>3. got'[u] = Append(got[d], v)
            BY <4>3, <5>1, <5>4, <6>1
          <6>4. Range(got'[u]) = Range(got[d]) \cup {v}
            BY <6>2, <6>3, RangeOfAppend
          <6> QED  BY <5>2, <5>4, <6>2, <6>4, ThreadFacts
        <5> QED  BY <5>3, <5>4
      <4> QED  BY <3>2, <3>3, <4>5 DEF FilledInv, NeverMisses, ReturnsNumbers
    <3>5. CASE DequeueLock(d) \/ DequeueFirst(d) \/ Unlock(d)
      <4>1. UNCHANGED got
        BY <3>5 DEF DequeueLock, DequeueFirst, Unlock
      <4> QED  BY <3>1, <3>2, <3>3, <4>1 DEF FilledInv, NeverMisses, ReturnsNumbers
    <3> QED  BY <2>3, <3>4, <3>5 DEF BasicDequeue
  <2> QED  BY <2>1, <2>2, <2>3 DEF Next, Terminated
<1> QED  BY <1>1, <1>2, BasicInvariant, PTL DEF Spec

=============================================================================
