------------------------ MODULE SQueueMultiple_proofs ------------------------
(***************************************************************************)
(* Proofs about SQueueMultiple, for any number of queues and samples: the  *)
(* types, that a worker gets values of its own queue only and none twice,  *)
(* even where one is stored over another, and that each queue is a ticket  *)
(* queue of its own if the shares of the queues fit their slots.           *)
(***************************************************************************)
EXTENDS SQueueMultiple, TLAPS

\* The thread that puts values into queue q.
Owner(q) == IF queueType = 8 THEN 0 ELSE q

\* The last ticket of queue q has been given out and its value is not there yet.
PendingStore(q) == epc[Owner(q)] = "store" /\ Target(Owner(q)) = q

\* The calls an enqueue thread has begun.
Begun(e) == IF epc[e] = "store" THEN i[e] + 1 ELSE i[e]

\* Of c values dealt out in turn queue q has got n.
Dealt(c, q, n) == c <= q + n * NumThreads /\ q + (n - 1) * NumThreads < c

\* The types, and the calls under way.
BaseInv ==
  /\ TypeOK
  /\ i \in [Queues -> Nat]
  /\ \A e \in Queues : epc[e] = "store" => i[e] < EnqCalls(e)
  /\ \A q \in Queues : /\ Len(got[q]) <= QueueSize
                       /\ dpc[q] # "test" => Len(got[q]) < QueueSize

\* How many values each queue has been given.
ShareInv ==
  \A q \in Queues : IF queueType = 8 THEN Dealt(Begun(0), q, Len(puts[q]))
                                     ELSE Len(puts[q]) = Begun(q)

\* A value that may be in slot s of queue q: it was put with a ticket of that slot.
MayHold(q, s, v) ==
  \E n \in {s + 1, s + 1 + QueueSize} : n <= Len(puts[q]) /\ v = puts[q][n]

\* The queues' tails.
TailInv(q) ==
  /\ tail[q] = Len(puts[q]) - 1
  /\ PendingStore(q) => /\ curTail[Owner(q)] = tail[q]
                        /\ Len(got[q]) < Len(puts[q])
                        /\ puts[q][Len(puts[q])] = i[Owner(q)] + 1

\* The workers: each call has a slot of its own and gets a value put there.
HeadInv(q) ==
  /\ head[q] = IF dpc[q] \in {"test", "claim"} THEN Len(got[q]) - 1
                                               ELSE Len(got[q])
  /\ dpc[q] \notin {"test", "claim"} => curHead[q] = head[q]
  /\ Len(got[q]) <= Len(puts[q])
  /\ \A n \in 1 .. Len(got[q]) : MayHold(q, n - 1, got[q][n])
  /\ dpc[q] \in {"read", "clear"} => data[q][Len(got[q])] # Free
  /\ dpc[q] = "clear" => MayHold(q, Len(got[q]), elem[q])

\* The slots yet to be read: one that is not free has been stored to.
SlotInv(q) ==
  \A s \in Len(got[q]) .. QueueSize - 1 : data[q][s] # Free =>
    /\ s < Len(puts[q])
    /\ ~(PendingStore(q) /\ s = tail[q])
    /\ MayHold(q, s, data[q][s])

\* The values of a queue ascend, so that no two of them are the same.
OrderInv(q) ==
  /\ \A n \in 1 .. Len(puts[q]) : puts[q][n] <= Begun(Owner(q))
  /\ \A n \in 1 .. Len(puts[q]) : \A m \in 1 .. n - 1 : puts[q][m] < puts[q][n]

QueueInv(q) == TailInv(q) /\ HeadInv(q) /\ SlotInv(q) /\ OrderInv(q)

QueuesInv == ShareInv /\ \A q \in Queues : QueueInv(q)

-----------------------------------------------------------------------------
(* Arithmetic                                                              *)

LEMMA DivisionFacts ==
  ASSUME NEW c \in Nat, NEW n \in Nat \ {0}
  PROVE  /\ c \div n \in Nat /\ c % n \in 0 .. n - 1
         /\ c = n * (c \div n) + (c % n)
  OBVIOUS

\* n does not fit between two multiples that are less than n apart.
LEMMA Multiples ==
  ASSUME NEW n \in Nat \ {0}, NEW a \in Int, NEW b \in Int, a * n < b * n + n
  PROVE  a <= b
<1>1. ASSUME a >= b + 1 PROVE FALSE
  <2>1. a * n >= (b + 1) * n
    BY <1>1
  <2>2. (b + 1) * n = b * n + n
    OBVIOUS
  <2>3. a * n \in Int /\ b * n \in Int /\ n \in Int
    OBVIOUS
  <2> QED  BY <2>1, <2>2, <2>3
<1> QED  BY <1>1

\* The number of the value dealt out next is that of its turn.
LEMMA DealtNumber ==
  ASSUME NEW c \in Nat, NEW q \in Queues, NEW n \in Nat, Dealt(c, q, n),
         c % NumThreads = q
  PROVE  c \div NumThreads = n /\ c = n * NumThreads + q
<1> DEFINE N == NumThreads
           a == c \div N
<1>1. N \in Nat \ {0} /\ q \in 0 .. N - 1
  BY SQueueMultipleAssumption DEF Queues
<1>2. a \in Nat /\ c = N * a + q
  BY <1>1, DivisionFacts
<1>3. N * a = a * N /\ a * N \in Nat /\ n * N \in Nat
  BY <1>1, <1>2
<1>4. (n - 1) * N = n * N - N
  BY <1>1
<1>5. c <= q + n * N /\ q + (n - 1) * N < c
  BY DEF Dealt
<1> HIDE DEF N, a
<1>6. a <= n
  <2>1. a * N < n * N + N
    BY <1>1, <1>2, <1>3, <1>5
  <2> QED  BY <1>1, <1>2, <2>1, Multiples
<1>7. n <= a
  <2>1. n * N < a * N + N
    BY <1>1, <1>2, <1>3, <1>4, <1>5
  <2> QED  BY <1>1, <1>2, <2>1, Multiples
<1>8. a = n
  BY <1>2, <1>6, <1>7
<1> QED  BY <1>2, <1>3, <1>8 DEF N, a

\* Dealing out the next value.
LEMMA DealNext ==
  ASSUME NEW c \in Nat, NEW q \in Queues, NEW n \in Nat, Dealt(c, q, n)
  PROVE  Dealt(c + 1, q, IF c % NumThreads = q THEN n + 1 ELSE n)
<1> DEFINE N == NumThreads
           a == c \div N
           r == c % N
<1>1. N \in Nat \ {0} /\ q \in 0 .. N - 1
  BY SQueueMultipleAssumption DEF Queues
<1>2. a \in Nat /\ r \in 0 .. N - 1 /\ c = N * a + r
  BY <1>1, DivisionFacts
<1>3. N * a = a * N /\ a * N \in Nat /\ n * N \in Nat
  BY <1>1, <1>2
<1>4. (n - 1) * N = n * N - N /\ (n + 1) * N = n * N + N
  BY <1>1
<1>5. c <= q + n * N /\ q + (n - 1) * N < c
  BY DEF Dealt
<1> HIDE DEF N, a, r
<1>6. CASE r = q
  <2>1. c = n * N + q
    BY <1>6, DealtNumber DEF N, r
  <2>2. c + 1 <= q + (n + 1) * N /\ q + ((n + 1) - 1) * N < c + 1
    <3>1. (n + 1) - 1 = n
      OBVIOUS
    <3> QED  BY <1>1, <1>3, <1>4, <2>1, <3>1
  <2> QED  BY <1>6, <2>2 DEF Dealt, N, r
<1>7. CASE r # q
  <2>1. c # q + n * N
    <3>1. ASSUME c = q + n * N PROVE FALSE
      <4>1. a * N < n * N + N /\ n * N < a * N + N
        BY <1>1, <1>2, <1>3, <3>1
      <4>2. a = n
        BY <1>1, <1>2, <4>1, Multiples
      <4> QED  BY <1>1, <1>2, <1>3, <1>7, <3>1, <4>2
    <3> QED  BY <3>1
  <2>2. c + 1 <= q + n * N /\ q + (n - 1) * N < c + 1
    BY <1>1, <1>3, <1>4, <1>5, <2>1
  <2> QED  BY <1>7, <2>2 DEF Dealt, N, r
<1> QED  BY <1>6, <1>7

\* Shares that fit.
LEMMA DealtFits ==
  ASSUME NEW c \in Nat, NEW q \in Queues, NEW n \in Nat, NEW size \in Nat,
         Dealt(c, q, n), c <= NumThreads * size
  PROVE  n <= size
<1>1. NumThreads \in Nat \ {0} /\ q \in Nat
  BY SQueueMultipleAssumption DEF Queues
<1>2. /\ q + (n - 1) * NumThreads < c
      /\ (n - 1) * NumThreads = n * NumThreads - NumThreads
      /\ NumThreads * size = size * NumThreads
      /\ n * NumThreads \in Nat /\ size * NumThreads \in Nat
  BY <1>1 DEF Dealt
<1>3. n * NumThreads < size * NumThreads + NumThreads
  BY <1>1, <1>2
<1> QED  BY <1>1, <1>3, Multiples

-----------------------------------------------------------------------------
(* Types                                                                   *)

\* What the arguments of the program are, and what a thread of them is to do.
LEMMA ArgumentFacts ==
  ASSUME queueType \in QueueTypes, numSamples \in SampleCounts
  PROVE  /\ queueType \in {4, 8} /\ numSamples \in Nat
         /\ NumThreads \in Nat \ {0}
         /\ QueueSize \in Nat /\ DeqCalls = QueueSize
         /\ QueueSize <= numSamples
         /\ Fits => NumThreads * QueueSize = numSamples \/ queueType = 4
         /\ \A e \in Queues : EnqCalls(e) \in 0 .. numSamples
<1>1. /\ queueType \in {4, 8} /\ numSamples \in Nat /\ NumThreads \in Nat \ {0}
  BY SQueueMultipleAssumption
<1>2. /\ QueueSize \in Nat /\ DeqCalls = QueueSize
      /\ numSamples = NumThreads * QueueSize + (numSamples % NumThreads)
      /\ numSamples % NumThreads \in Nat
  <2>1. QueueSize = numSamples \div NumThreads /\ DeqCalls = QueueSize
    BY DEF QueueSize, DeqCalls
  <2>2. /\ numSamples \div NumThreads \in Nat
        /\ numSamples % NumThreads \in 0 .. NumThreads - 1
        /\ numSamples = NumThreads * (numSamples \div NumThreads)
                          + (numSamples % NumThreads)
    BY <1>1, DivisionFacts
  <2>3. numSamples % NumThreads \in Nat
    BY <1>1, <2>2
  <2> QED  BY <2>1, <2>2, <2>3
<1>3. \A n \in Nat \ {0} : \A m \in Nat : n * m \in Nat /\ m <= n * m
  OBVIOUS
<1>4. /\ QueueSize <= numSamples
      /\ Fits => NumThreads * QueueSize = numSamples \/ queueType = 4
  <2>1. PICK r \in Nat : r = numSamples % NumThreads
    BY <1>2
  <2>2. PICK p \in Nat : p = NumThreads * QueueSize /\ QueueSize <= p
    BY <1>1, <1>2, <1>3
  <2>3. numSamples = p + r
    BY <1>2, <2>1, <2>2
  <2>4. QueueSize <= numSamples
    BY <1>2, <2>2, <2>3
  <2>5. r = 0 => p = numSamples
    BY <2>3
  <2> QED  BY <2>1, <2>2, <2>4, <2>5 DEF Fits
<1>6. \A e \in Queues : EnqCalls(e) \in {0, QueueSize, numSamples}
  BY <1>1 DEF EnqCalls, QueueSize
<1> QED  BY <1>1, <1>2, <1>4, <1>6

LEMMA InitBase == Init => BaseInv
<1> SUFFICES ASSUME Init PROVE BaseInv
  OBVIOUS
<1>1. queueType \in QueueTypes /\ numSamples \in SampleCounts
  BY DEF Init
<1>2. QueueSize \in Nat /\ numSamples \in Nat
  BY <1>1, ArgumentFacts
<1>3. \A e \in Queues : EnqCalls(e) \in Nat
  BY <1>1, ArgumentFacts
<1>4. TypeOK
  BY <1>1, <1>2, <1>3 DEF Init, TypeOK, Free
<1>5. \A q \in Queues : Len(got[q]) = 0 /\ dpc[q] = "test"
  BY DEF Init
<1> QED  BY <1>2, <1>4, <1>5 DEF BaseInv, Init

\* The slots a call may use, and the thread that calls.
LEMMA CallFacts ==
  ASSUME BaseInv, NEW e \in Queues, i[e] < EnqCalls(e)
  PROVE  /\ Target(e) \in Queues /\ e = Owner(Target(e))
         /\ queueType = 8 => e = 0 /\ Target(e) = i[e] % NumThreads
         /\ queueType = 4 => Target(e) = e
         /\ i[e] \in Nat /\ i[e] < numSamples /\ NumThreads \in Nat \ {0}
<1>1. /\ queueType \in {4, 8} /\ numSamples \in Nat /\ NumThreads \in Nat \ {0}
      /\ EnqCalls(e) \in 0 .. numSamples /\ i[e] \in 0 .. EnqCalls(e)
  BY ArgumentFacts DEF BaseInv, TypeOK
<1>2. queueType = 8 => e = 0
  BY <1>1 DEF EnqCalls
<1>3. i[e] % NumThreads \in 0 .. NumThreads - 1
  <2>1. i[e] \in Nat
    BY <1>1
  <2> QED  BY <1>1, <2>1, DivisionFacts
<1> QED  BY <1>1, <1>2, <1>3 DEF Target, Owner, Queues

\* What is stored in a slot has the type of the slots.
LEMMA StoreTyped ==
  ASSUME NEW D, NEW V, NEW f \in [Queues -> [D -> V]], NEW q \in Queues,
         NEW s, NEW v \in V
  PROVE  [f EXCEPT ![q][s] = v] \in [Queues -> [D -> V]]
<1>1. [f[q] EXCEPT ![s] = v] \in [D -> V]
  OBVIOUS
<1> QED  BY <1>1

LEMMA StepKeepsBase == BaseInv /\ [Next]_vars => BaseInv'
<1> SUFFICES ASSUME BaseInv, [Next]_vars PROVE BaseInv'
  OBVIOUS
<1>1. /\ queueType \in {4, 8} /\ numSamples \in Nat /\ NumThreads \in Nat \ {0}
      /\ QueueSize \in Nat /\ DeqCalls = QueueSize
      /\ \A e \in Queues : EnqCalls(e) \in 0 .. numSamples
  BY ArgumentFacts DEF BaseInv, TypeOK
<1>2. ASSUME UNCHANGED args
      PROVE  /\ UNCHANGED <<queueType, numSamples, QueueSize, DeqCalls>>
             /\ \A e \in Queues : EnqCalls(e)' = EnqCalls(e)
  BY <1>2 DEF args, QueueSize, DeqCalls, EnqCalls
<1>3. ASSUME NEW e \in Queues, Claim(e) PROVE BaseInv'
  <2>1. /\ Target(e) \in Queues /\ i[e] \in Nat /\ i[e] < numSamples
        /\ i[e] < EnqCalls(e)
    BY <1>3, CallFacts DEF Claim
  <2> DEFINE q == Target(e)
  <2>2. /\ tail' = [tail EXCEPT ![q] = @ + 1]
        /\ curTail' = [curTail EXCEPT ![e] = tail'[q]]
        /\ puts' = [puts EXCEPT ![q] = Append(@, i[e] + 1)]
        /\ epc' = [epc EXCEPT ![e] = "store"]
        /\ UNCHANGED <<i, head, data, dpc, curHead, elem, got>> /\ UNCHANGED args
    BY <1>3 DEF Claim, dvars
  <2> HIDE DEF q
  <2>3. q \in Queues
    BY <2>1 DEF q
  <2>4. i[e] + 1 \in 1 .. numSamples
    BY <1>1, <2>1
  <2>5. puts' \in [Queues -> Seq(1 .. numSamples)]
    BY <2>2, <2>3, <2>4 DEF BaseInv, TypeOK
  <2>6. tail' \in [Queues -> Int] /\ curTail' \in [Queues -> Int]
        /\ epc' \in [Queues -> {"claim", "store"}]
    <3>1. /\ tail \in [Queues -> Int] /\ curTail \in [Queues -> Int]
          /\ epc \in [Queues -> {"claim", "store"}]
      BY DEF BaseInv, TypeOK
    <3>2. tail' \in [Queues -> Int] /\ tail'[q] \in Int
      BY <2>2, <2>3, <3>1
    <3>3. curTail' \in [Queues -> Int]
      BY <2>2, <3>1, <3>2
    <3>4. epc' \in [Queues -> {"claim", "store"}]
      BY <2>2, <3>1
    <3> QED  BY <3>2, <3>3, <3>4
  <2>7. TypeOK'
    BY <1>2, <2>1, <2>2, <2>5, <2>6 DEF BaseInv, TypeOK
  <2>8. \A u \in Queues : epc'[u] = "store" => i'[u] < EnqCalls(u)
    BY <2>1, <2>2 DEF BaseInv, TypeOK
  <2> QED  BY <1>2, <2>2, <2>7, <2>8 DEF BaseInv
<1>4. ASSUME NEW e \in Queues, Store(e) PROVE BaseInv'
  <2>1. /\ i[e] \in Nat /\ i[e] < numSamples /\ i[e] < EnqCalls(e)
        /\ EnqCalls(e) \in Nat
    BY <1>1, <1>4, CallFacts DEF Store, BaseInv
  <2>2. /\ data' = [data EXCEPT ![Target(e)][Slot(curTail[e])] = i[e] + 1]
        /\ i' = [i EXCEPT ![e] = @ + 1]
        /\ epc' = [epc EXCEPT ![e] = "claim"]
        /\ UNCHANGED <<curTail, puts, head, tail, dpc, curHead, elem, got>>
        /\ UNCHANGED args
    BY <1>4 DEF Store, dvars
  <2>3. data' \in [Queues -> [0 .. QueueSize - 1 -> 0 .. numSamples]]
    <3>1. i[e] + 1 \in 0 .. numSamples /\ Target(e) \in Queues
      BY <1>1, <2>1, CallFacts
    <3>2. data \in [Queues -> [0 .. QueueSize - 1 -> 0 .. numSamples]]
      BY DEF BaseInv, TypeOK
    <3>3. [data EXCEPT ![Target(e)][Slot(curTail[e])] = i[e] + 1]
            \in [Queues -> [0 .. QueueSize - 1 -> 0 .. numSamples]]
      BY <3>1, <3>2, StoreTyped
    <3> QED  BY <2>2, <3>3
  <2>4. \A u \in Queues : i'[u] \in 0 .. EnqCalls(u)
    BY <1>1, <2>1, <2>2 DEF BaseInv, TypeOK
  <2>5. epc' \in [Queues -> {"claim", "store"}] /\ i' \in [Queues -> Nat]
    BY <2>2 DEF BaseInv, TypeOK
  <2>6. TypeOK'
    BY <1>2, <2>2, <2>3, <2>4, <2>5 DEF BaseInv, TypeOK
  <2>7. \A u \in Queues : epc'[u] = "store" => i'[u] < EnqCalls(u)
    BY <2>1, <2>2 DEF BaseInv, TypeOK
  <2> QED  BY <1>2, <2>2, <2>5, <2>6, <2>7 DEF BaseInv
<1>5. ASSUME NEW q \in Queues, Dequeue(q) PROVE BaseInv'
  <2>1. /\ UNCHANGED <<tail, epc, i, curTail, puts>> /\ UNCHANGED args
        /\ head' \in [Queues -> Int]
    <3>1. UNCHANGED <<tail, epc, i, curTail, puts>> /\ UNCHANGED args
      BY <1>5 DEF Dequeue, Test, Line, Spin, Read, Clear, queuevars, evars
    <3>2. head' = head \/ head' = [head EXCEPT ![q] = @ + 1]
      BY <1>5 DEF Dequeue, Test, Line, Spin, Read, Clear, queuevars
    <3>3. head \in [Queues -> Int]
      BY DEF BaseInv, TypeOK
    <3> QED  BY <3>1, <3>2, <3>3
  <2>2. QueueSize > 0 => Slot(curHead[q]) \in 0 .. QueueSize - 1
    <3>1. curHead[q] \in Int
      BY DEF BaseInv, TypeOK
    <3>2. \A c \in Int : \A n \in Nat \ {0} : c % n \in 0 .. n - 1
      OBVIOUS
    <3>3. QueueSize > 0 => QueueSize \in Nat \ {0}
      BY <1>1
    <3> QED  BY <3>1, <3>2, <3>3 DEF Slot
  <2>3. dpc[q] # "test" => Slot(curHead[q]) \in 0 .. QueueSize - 1
    <3>1. Len(got[q]) \in Nat
      BY DEF BaseInv, TypeOK
    <3> QED  BY <1>1, <2>2, <3>1 DEF BaseInv
  <2>4. /\ data' \in [Queues -> [0 .. QueueSize - 1 -> 0 .. numSamples]]
        /\ curHead' \in [Queues -> Int] /\ elem' \in [Queues -> 0 .. numSamples]
    <3>1. CASE Test(q) \/ Spin(q)
      BY <3>1 DEF Test, Spin, queuevars, BaseInv, TypeOK
    <3>2. CASE Line(q)
      BY <3>2 DEF Line, BaseInv, TypeOK
    <3>3. CASE Read(q)
      BY <2>3, <3>3 DEF Read, queuevars, BaseInv, TypeOK
    <3>4. CASE Clear(q)
      <4>1. /\ data' = [data EXCEPT ![q][Slot(curHead[q])] = Free]
            /\ UNCHANGED <<curHead, elem>>
        BY <3>4 DEF Clear
      <4>2. /\ data \in [Queues -> [0 .. QueueSize - 1 -> 0 .. numSamples]]
            /\ Free \in 0 .. numSamples
        <5>1. 0 \in 0 .. numSamples
          BY <1>1
        <5> QED  BY <5>1 DEF BaseInv, TypeOK, Free
      <4>3. [data EXCEPT ![q][Slot(curHead[q])] = Free]
              \in [Queues -> [0 .. QueueSize - 1 -> 0 .. numSamples]]
        BY <4>2, StoreTyped
      <4> QED  BY <4>1, <4>3 DEF BaseInv, TypeOK
    <3> QED  BY <1>5, <3>1, <3>2, <3>3, <3>4 DEF Dequeue
  <2>5. \/ /\ got' = got
           /\ \E p \in {"claim", "spin", "read", "clear"} :
                dpc' = [dpc EXCEPT ![q] = p]
           /\ Len(got[q]) < QueueSize
        \/ /\ \E x \in -1 .. numSamples : got' = [got EXCEPT ![q] = Append(@, x)]
           /\ dpc' = [dpc EXCEPT ![q] = "test"]
           /\ Len(got[q]) < QueueSize
    <3>1. CASE Test(q)
      BY <1>1, <3>1 DEF Test, Return, Fail
    <3>2. CASE Line(q) \/ Spin(q) \/ Read(q)
      BY <3>2 DEF Line, Spin, Read, BaseInv
    <3>3. CASE Clear(q)
      <4>1. elem[q] \in -1 .. numSamples
        BY <1>1 DEF BaseInv, TypeOK
      <4>2. /\ got' = [got EXCEPT ![q] = Append(@, elem[q])]
            /\ dpc' = [dpc EXCEPT ![q] = "test"]
            /\ Len(got[q]) < QueueSize
        BY <3>3 DEF Clear, Return, BaseInv
      <4> QED  BY <4>1, <4>2
    <3> QED  BY <1>5, <3>1, <3>2, <3>3 DEF Dequeue
  <2>6. /\ dpc' \in [Queues -> {"test", "claim", "spin", "read", "clear"}]
        /\ got' \in [Queues -> Seq(-1 .. numSamples)]
        /\ \A r \in Queues : /\ Len(got'[r]) <= QueueSize
                             /\ dpc'[r] # "test" => Len(got'[r]) < QueueSize
    <3> DEFINE Places == {"test", "claim", "spin", "read", "clear"}
    <3>1. /\ got \in [Queues -> Seq(-1 .. numSamples)]
          /\ dpc \in [Queues -> Places]
          /\ \A r \in Queues : /\ Len(got[r]) <= QueueSize /\ Len(got[r]) \in Nat
                               /\ dpc[r] # "test" => Len(got[r]) < QueueSize
      BY DEF BaseInv, TypeOK
    <3>2. CASE got' = got
      BY <2>5, <3>1, <3>2
    <3>3. CASE got' # got
      <4>1. PICK x \in -1 .. numSamples : got' = [got EXCEPT ![q] = Append(@, x)]
        BY <2>5, <3>3
      <4>2. Append(got[q], x) \in Seq(-1 .. numSamples)
        BY <3>1
      <4>3. dpc' = [dpc EXCEPT ![q] = "test"] /\ Len(got[q]) < QueueSize
        BY <2>5, <3>3
      <4>4. Len(got'[q]) = Len(got[q]) + 1 /\ dpc'[q] = "test"
        BY <3>1, <4>1, <4>3
      <4>5. Len(got'[q]) <= QueueSize
        BY <1>1, <3>1, <4>3, <4>4
      <4>6. \A r \in Queues : r # q => got'[r] = got[r] /\ dpc'[r] = dpc[r]
        BY <4>1, <4>3
      <4>7. \A r \in Queues : /\ Len(got'[r]) <= QueueSize
                              /\ dpc'[r] # "test" => Len(got'[r]) < QueueSize
        BY <3>1, <4>4, <4>5, <4>6
      <4> QED  BY <3>1, <4>1, <4>2, <4>3, <4>7
    <3> QED  BY <3>2, <3>3
  <2> QED  BY <1>2, <2>1, <2>4, <2>6 DEF BaseInv, TypeOK
<1>6. CASE UNCHANGED vars
  <2>1. /\ UNCHANGED <<head, tail, data, epc, i, curTail, puts, dpc, curHead,
                       elem, got>>
        /\ UNCHANGED args
    BY <1>6 DEF vars, queuevars, evars, dvars
  <2> QED  BY <1>2, <2>1 DEF BaseInv, TypeOK
<1> QED  BY <1>3, <1>4, <1>5, <1>6 DEF Next, Enqueue, Terminated

\* The types hold for any number of queues and samples, also where a value may
\* be stored over another.
THEOREM TypeCorrect == Spec => []TypeOK
<1>1. BaseInv => TypeOK
  BY DEF BaseInv
<1> QED  BY <1>1, InitBase, StepKeepsBase, PTL DEF Spec
-----------------------------------------------------------------------------
(* The queues                                                              *)

\* No queue is given more values than it has slots and one.
LEMMA RoomForShare ==
  ASSUME BaseInv, ShareInv, NEW q \in Queues
  PROVE  /\ Len(puts[q]) \in Nat /\ Len(got[q]) \in Nat /\ QueueSize \in Nat
         /\ Len(puts[q]) <= QueueSize + 1
         /\ Fits => Len(puts[q]) <= QueueSize
<1>1. /\ queueType \in {4, 8} /\ numSamples \in Nat /\ QueueSize \in Nat
      /\ NumThreads \in Nat \ {0} /\ Len(puts[q]) \in Nat /\ Len(got[q]) \in Nat
      /\ Fits => NumThreads * QueueSize = numSamples \/ queueType = 4
  <2>1. /\ queueType \in QueueTypes /\ numSamples \in SampleCounts
        /\ puts[q] \in Seq(1 .. numSamples) /\ got[q] \in Seq(-1 .. numSamples)
    BY DEF BaseInv, TypeOK
  <2>2. Len(puts[q]) \in Nat /\ Len(got[q]) \in Nat
    BY <2>1
  <2> QED  BY <2>1, <2>2, ArgumentFacts
<1>2. ASSUME NEW e \in Queues
      PROVE  Begun(e) \in Nat /\ Begun(e) <= EnqCalls(e)
  <2>1. i[e] \in 0 .. EnqCalls(e) /\ EnqCalls(e) \in 0 .. numSamples
    BY ArgumentFacts DEF BaseInv, TypeOK
  <2> QED  BY <1>1, <2>1 DEF Begun, BaseInv
<1>3. CASE queueType = 8
  <2>1. 0 \in Queues /\ EnqCalls(0) = numSamples
    BY <1>1, <1>3 DEF Queues, EnqCalls
  <2>2. Dealt(Begun(0), q, Len(puts[q]))
    BY <1>3 DEF ShareInv
  <2>3. Begun(0) \in Nat /\ Begun(0) <= numSamples
    BY <1>2, <2>1
  <2>4. Fits => Len(puts[q]) <= QueueSize
    <3>1. Fits => Begun(0) <= NumThreads * QueueSize
      BY <1>1, <1>3, <2>3
    <3> QED  BY <1>1, <2>2, <2>3, <3>1, DealtFits
  <2>5. Len(puts[q]) <= QueueSize + 1
    <3>1. /\ numSamples % NumThreads \in 0 .. NumThreads - 1
          /\ numSamples = NumThreads * QueueSize + (numSamples % NumThreads)
      BY <1>1, DivisionFacts DEF QueueSize
    <3>2. /\ NumThreads * (QueueSize + 1) = NumThreads * QueueSize + NumThreads
          /\ NumThreads * QueueSize \in Nat
      BY <1>1
    <3>3. PICK p \in Nat, r \in 0 .. NumThreads - 1 :
            /\ p = NumThreads * QueueSize /\ numSamples = p + r
            /\ NumThreads * (QueueSize + 1) = p + NumThreads
      BY <3>1, <3>2
    <3>4. Begun(0) <= NumThreads * (QueueSize + 1)
      BY <1>1, <2>3, <3>3
    <3>5. QueueSize + 1 \in Nat
      BY <1>1
    <3> QED  BY <1>1, <2>2, <2>3, <3>4, <3>5, DealtFits
  <2> QED  BY <1>1, <2>4, <2>5
<1>4. CASE queueType = 4
  <2>1. EnqCalls(q) = QueueSize /\ Len(puts[q]) = Begun(q)
    BY <1>4 DEF EnqCalls, QueueSize, ShareInv
  <2> QED  BY <1>1, <1>2, <2>1
<1> QED  BY <1>1, <1>3, <1>4

\* Only the ticket that does not fit has the slot of another one.
LEMMA SlotOfTicket ==
  ASSUME NEW n \in Nat, QueueSize \in Nat, n <= QueueSize, QueueSize # 0
  PROVE  /\ Slot(n) \in 0 .. QueueSize - 1
         /\ n < QueueSize => Slot(n) = n
         /\ n \in {Slot(n), Slot(n) + QueueSize}
<1>1. \A m \in Nat : n < m => n % m = n
  OBVIOUS
<1>2. \A m \in Nat \ {0} : m % m = 0
  OBVIOUS
<1> QED  BY <1>1, <1>2 DEF Slot

\* What may be in a slot may stay there when values are added.
LEMMA MayHoldOn ==
  ASSUME NEW q \in Queues, NEW s \in Nat, NEW v, QueueSize \in Nat,
         Len(puts[q]) \in Nat, Len(puts'[q]) \in Nat,
         Len(puts[q]) <= Len(puts'[q]), QueueSize' = QueueSize,
         \A n \in 1 .. Len(puts[q]) : puts'[q][n] = puts[q][n],
         MayHold(q, s, v)
  PROVE  MayHold(q, s, v)'
<1>1. PICK n \in {s + 1, s + 1 + QueueSize} :
        n <= Len(puts[q]) /\ v = puts[q][n]
  BY DEF MayHold
<1>2. n \in 1 .. Len(puts[q])
  BY <1>1
<1>3. n <= Len(puts'[q]) /\ v = puts'[q][n]
  BY <1>1, <1>2
<1> QED  BY <1>1, <1>3 DEF MayHold

\* A queue none of whose variables changes.
LEMMA OtherQueues ==
  ASSUME NEW r \in Queues, QueueInv(r), QueueSize' = QueueSize,
         tail'[r] = tail[r], puts'[r] = puts[r], head'[r] = head[r],
         got'[r] = got[r], dpc'[r] = dpc[r], curHead'[r] = curHead[r],
         elem'[r] = elem[r], data'[r] = data[r], Owner(r)' = Owner(r),
         PendingStore(r)' <=> PendingStore(r),
         PendingStore(r) => /\ curTail'[Owner(r)] = curTail[Owner(r)]
                            /\ i'[Owner(r)] = i[Owner(r)],
         Begun(Owner(r)) \in Int, Begun(Owner(r))' \in Int,
         Begun(Owner(r)) <= Begun(Owner(r))',
         \A n \in 1 .. Len(puts[r]) : puts[r][n] \in Int
  PROVE  QueueInv(r)'
<1>1. TailInv(r)'
  BY DEF QueueInv, TailInv
<1>2. HeadInv(r)'
  BY DEF QueueInv, HeadInv, MayHold
<1>3. SlotInv(r)'
  BY DEF QueueInv, SlotInv, MayHold
<1>4. OrderInv(r)'
  <2>1. OrderInv(r)
    BY DEF QueueInv
  <2>2. \A n \in 1 .. Len(puts[r]) : puts[r][n] <= Begun(Owner(r))'
    BY <2>1 DEF OrderInv
  <2> QED  BY <2>1, <2>2 DEF OrderInv
<1> QED  BY <1>1, <1>2, <1>3, <1>4 DEF QueueInv

\* The values in the queues, and the calls that put them there, are numbers.
LEMMA Numbers ==
  ASSUME BaseInv
  PROVE  /\ \A r \in Queues : /\ Owner(r) \in Queues
                              /\ Begun(Owner(r)) \in Nat
                              /\ Len(puts[r]) \in Nat
                              /\ \A n \in 1 .. Len(puts[r]) : puts[r][n] \in Int
<1>1. NumThreads \in Nat \ {0} /\ numSamples \in Nat
  BY ArgumentFacts DEF BaseInv, TypeOK
<1>2. \A r \in Queues : Owner(r) \in Queues
  BY <1>1 DEF Owner, Queues
<1>3. \A e \in Queues : Begun(e) \in Nat
  BY DEF Begun, BaseInv
<1>4. ASSUME NEW r \in Queues
      PROVE  /\ Len(puts[r]) \in Nat
             /\ \A n \in 1 .. Len(puts[r]) : puts[r][n] \in Int
  <2>1. puts[r] \in Seq(1 .. numSamples)
    BY DEF BaseInv, TypeOK
  <2> QED  BY <1>1, <2>1
<1> QED  BY <1>2, <1>3, <1>4

LEMMA InitQueues == Init => QueuesInv
<1> SUFFICES ASSUME Init PROVE ShareInv /\ \A q \in Queues : QueueInv(q)
  BY DEF QueuesInv
<1>1. /\ NumThreads \in Nat \ {0} /\ 0 \in Queues /\ \A q \in Queues : q \in Nat
      /\ QueueSize \in Nat
  BY SQueueMultipleAssumption, ArgumentFacts DEF Init, Queues
<1>2. \A q \in Queues : q < NumThreads
  BY <1>1 DEF Queues
<1>3. ShareInv
  BY <1>1, <1>2 DEF Init, ShareInv, Dealt, Begun
<1>4. \A q \in Queues : ~PendingStore(q)
  BY <1>1 DEF Init, PendingStore, Owner
<1>5. \A q \in Queues : QueueInv(q)
  BY <1>1, <1>4 DEF Init, QueueInv, TailInv, HeadInv, SlotInv, OrderInv
<1> QED  BY <1>3, <1>5

\* A claim gives the queue its next value, which is not there yet.
LEMMA ClaimKeepsQueues ==
  ASSUME BaseInv, BaseInv', ShareInv, \A r \in Queues : QueueInv(r),
         NEW e \in Queues, Claim(e)
  PROVE  (ShareInv /\ \A r \in Queues : QueueInv(r))'
<1>1. PICK q \in Queues : q = Target(e)
  BY CallFacts DEF Claim
<1>2. /\ epc[e] = "claim" /\ i[e] < EnqCalls(e)
      /\ tail' = [tail EXCEPT ![q] = @ + 1]
      /\ curTail' = [curTail EXCEPT ![e] = tail'[q]]
      /\ puts' = [puts EXCEPT ![q] = Append(@, i[e] + 1)]
      /\ epc' = [epc EXCEPT ![e] = "store"]
      /\ UNCHANGED <<i, head, data, dpc, curHead, elem, got, queueType, numSamples>>
  BY <1>1 DEF Claim, dvars, args
<1>3. /\ e = Owner(q) /\ i[e] \in Nat /\ NumThreads \in Nat \ {0}
      /\ queueType \in {4, 8}
      /\ queueType = 8 => e = 0 /\ q = i[e] % NumThreads
      /\ queueType = 4 => q = e
  BY <1>1, <1>2, CallFacts, ArgumentFacts DEF BaseInv, TypeOK
<1>4. /\ \A r \in Queues : Owner(r)' = Owner(r) /\ Owner(r) \in Queues
      /\ \A u \in Queues : Target(u)' = Target(u)
      /\ QueueSize' = QueueSize
  BY <1>2, <1>3 DEF Owner, Target, QueueSize
<1>5. /\ PendingStore(q)' /\ ~PendingStore(q)
      /\ \A r \in Queues : r # q =>
           /\ PendingStore(r)' <=> PendingStore(r)
           /\ PendingStore(r) => Owner(r) # e
  <2>1. epc \in [Queues -> {"claim", "store"}]
    BY DEF BaseInv, TypeOK
  <2>2. epc'[e] = "store" /\ \A u \in Queues : u # e => epc'[u] = epc[u]
    BY <1>2, <2>1
  <2>3. \A r \in Queues : r # q => Target(e) # r
    BY <1>1
  <2> QED  BY <1>1, <1>2, <1>3, <1>4, <2>2, <2>3 DEF PendingStore
<1>6. /\ puts \in [Queues -> Seq(1 .. numSamples)] /\ tail \in [Queues -> Int]
      /\ curTail \in [Queues -> Int] /\ epc \in [Queues -> {"claim", "store"}]
      /\ i[e] + 1 \in 1 .. numSamples
  <2>1. i[e] \in Nat /\ i[e] < numSamples /\ numSamples \in Nat
    BY <1>2, CallFacts, ArgumentFacts DEF BaseInv, TypeOK
  <2>2. i[e] + 1 \in 1 .. numSamples
    BY <2>1
  <2> QED  BY <2>2 DEF BaseInv, TypeOK
<1>7. /\ puts'[q] = Append(puts[q], i[e] + 1) /\ Len(puts'[q]) = Len(puts[q]) + 1
      /\ tail'[q] = tail[q] + 1 /\ curTail'[e] = tail'[q]
      /\ Len(puts[q]) \in Nat /\ puts'[q][Len(puts[q]) + 1] = i[e] + 1
      /\ \A n \in 1 .. Len(puts[q]) : puts'[q][n] = puts[q][n]
  BY <1>2, <1>6
<1>8. \A r \in Queues : r # q => puts'[r] = puts[r] /\ tail'[r] = tail[r]
  BY <1>2
<1>9. ShareInv'
  <2>1. ASSUME NEW r \in Queues, queueType = 8
        PROVE  Dealt(Begun(0)', r, Len(puts'[r]))
    <3>1. Begun(0) = i[0] /\ Begun(0)' = i[0] + 1 /\ i[0] \in Nat /\ e = 0
      BY <1>2, <1>3, <1>6, <2>1 DEF Begun
    <3>2. Dealt(i[0], r, Len(puts[r])) /\ Len(puts[r]) \in Nat
      <4>1. Dealt(Begun(0), r, Len(puts[r]))
        BY <2>1 DEF ShareInv
      <4> QED  BY <1>6, <3>1, <4>1
    <3>3. Len(puts'[r]) = IF i[0] % NumThreads = r THEN Len(puts[r]) + 1
                                                   ELSE Len(puts[r])
      BY <1>3, <1>7, <1>8, <2>1
    <3> QED  BY <3>1, <3>2, <3>3, DealNext
  <2>2. ASSUME NEW r \in Queues, queueType = 4
        PROVE  Len(puts'[r]) = Begun(r)'
    <3>1. r = q => Begun(r)' = i[e] + 1 /\ Begun(r) = i[e]
      BY <1>2, <1>3, <1>6, <2>2 DEF Begun
    <3>2. r # q => Begun(r)' = Begun(r)
      BY <1>2, <1>3, <1>6, <2>2 DEF Begun
    <3> QED  BY <1>7, <1>8, <2>2, <3>1, <3>2 DEF ShareInv
  <2> QED  BY <1>2, <1>3, <2>1, <2>2 DEF ShareInv
<1>10. ASSUME NEW r \in Queues
       PROVE  /\ Owner(r)' = Owner(r) /\ Begun(Owner(r))' \in Nat
              /\ Begun(Owner(r)) <= Begun(Owner(r))'
  <2>1. PICK u \in Queues : u = Owner(r) /\ u = Owner(r)'
    BY <1>4
  <2>2. Begun(u) \in Nat /\ Begun(u)' \in Nat /\ Begun(u) <= Begun(u)'
    <3>1. i[u] \in Nat /\ i'[u] = i[u]
      BY <1>2 DEF BaseInv
    <3>2. epc[u] = "store" => epc'[u] = "store"
      BY <1>2, <1>6
    <3> QED  BY <3>1, <3>2 DEF Begun
  <2> QED  BY <2>1, <2>2 DEF Begun
<1>11. ASSUME NEW r \in Queues, r # q PROVE QueueInv(r)'
  <2>1. PendingStore(r) => curTail'[Owner(r)] = curTail[Owner(r)]
    BY <1>2, <1>4, <1>5, <1>11
  <2>2. PendingStore(r)' <=> PendingStore(r)
    BY <1>5, <1>11
  <2>3. \A n \in 1 .. Len(puts[r]) : puts[r][n] \in Int
    BY Numbers
  <2>4. Begun(Owner(r)) \in Nat
    BY Numbers
  <2>5. /\ Begun(Owner(r)) \in Int /\ Begun(Owner(r))' \in Int
        /\ Begun(Owner(r)) <= Begun(Owner(r))'
    BY <1>10, <2>4
  <2> QED  BY <1>2, <1>4, <1>8, <1>10, <1>11, <2>1, <2>2, <2>3, <2>5, OtherQueues
<1>12. QueueInv(q)'
  <2>1. Len(got[q]) \in Nat /\ QueueSize \in Nat
    BY RoomForShare
  <2>2. \A s \in Nat : \A v : MayHold(q, s, v) => MayHold(q, s, v)'
    <3>1. /\ Len(puts'[q]) \in Nat /\ Len(puts[q]) <= Len(puts'[q])
      BY <1>7
    <3> QED  BY <1>4, <1>7, <2>1, <3>1, MayHoldOn
  <2>3. TailInv(q)'
    <3>1. Len(got[q]) < Len(puts'[q])
      BY <1>7, <2>1 DEF QueueInv, HeadInv
    <3>2. tail'[q] = Len(puts'[q]) - 1
      BY <1>7 DEF QueueInv, TailInv
    <3> QED  BY <1>2, <1>3, <1>4, <1>5, <1>7, <3>1, <3>2 DEF TailInv
  <2>4. HeadInv(q)'
    <3>1. HeadInv(q)
      BY DEF QueueInv
    <3>2. \A n \in 1 .. Len(got[q]) : MayHold(q, n - 1, got[q][n])'
      <4>1. ASSUME NEW n \in 1 .. Len(got[q])
            PROVE  MayHold(q, n - 1, got[q][n])'
        <5>1. n - 1 \in Nat /\ MayHold(q, n - 1, got[q][n])
          BY <2>1, <3>1 DEF HeadInv
        <5>2. PICK v : v = got[q][n] /\ v = got'[q][n]
          BY <1>2
        <5>3. MayHold(q, n - 1, v)'
          BY <2>2, <5>1, <5>2
        <5> QED  BY <5>2, <5>3 DEF MayHold
      <4> QED  BY <4>1
    <3>3. dpc[q] = "clear" => MayHold(q, Len(got[q]), elem[q])'
      <4>1. ASSUME dpc[q] = "clear" PROVE MayHold(q, Len(got[q]), elem[q])'
        <5>1. PICK v : v = elem[q] /\ v = elem'[q]
          BY <1>2
        <5>2. PICK m \in Nat : m = Len(got[q]) /\ m = Len(got'[q])
          BY <1>2, <2>1
        <5>3. MayHold(q, m, v)'
          BY <2>2, <3>1, <4>1, <5>1, <5>2 DEF HeadInv
        <5> QED  BY <5>1, <5>2, <5>3 DEF MayHold
      <4> QED  BY <4>1
    <3>4. Len(got[q]) <= Len(puts'[q])
      BY <1>7, <2>1, <3>1 DEF HeadInv
    <3> QED  BY <1>2, <3>1, <3>2, <3>3, <3>4 DEF HeadInv
  <2>5. SlotInv(q)'
    <3>1. ASSUME NEW s \in Len(got[q]) .. QueueSize - 1, data[q][s] # Free
          PROVE  /\ s < Len(puts'[q]) /\ s # tail'[q]
                 /\ MayHold(q, s, data[q][s])'
      <4>1. /\ s < Len(puts[q]) /\ MayHold(q, s, data[q][s])
            /\ tail[q] = Len(puts[q]) - 1 /\ s \in Nat
        BY <2>1, <3>1 DEF QueueInv, SlotInv, TailInv
      <4>2. PICK v : v = data[q][s] /\ v = data'[q][s]
        BY <1>2
      <4>3. MayHold(q, s, v)'
        BY <2>2, <4>1, <4>2
      <4>4. MayHold(q, s, data[q][s])'
        BY <4>2, <4>3 DEF MayHold
      <4> QED  BY <1>7, <4>1, <4>4
    <3> QED  BY <1>2, <1>4, <3>1 DEF SlotInv
  <2>6. OrderInv(q)'
    <3>1. Begun(e) = i[e] /\ Begun(e)' = i[e] + 1
      BY <1>2, <1>6 DEF Begun
    <3>2. Begun(Owner(q)) = i[e] /\ Begun(Owner(q))' = i[e] + 1
      <4>1. Owner(q)' = e
        BY <1>3, <1>4
      <4>2. Begun(Owner(q))' = i[e] + 1
        BY <3>1, <4>1 DEF Begun
      <4> QED  BY <1>3, <3>1, <4>2
    <3>3. /\ \A n \in 1 .. Len(puts[q]) : puts[q][n] \in Int /\ puts[q][n] <= i[e]
          /\ \A n \in 1 .. Len(puts[q]) :
               \A m \in 1 .. n - 1 : puts[q][m] < puts[q][n]
      BY <3>2, Numbers DEF QueueInv, OrderInv
    <3>4. ASSUME NEW n \in 1 .. Len(puts'[q]) PROVE puts'[q][n] <= i[e] + 1
      <4>1. n = Len(puts[q]) + 1 \/ n \in 1 .. Len(puts[q])
        BY <1>7
      <4>2. n \in 1 .. Len(puts[q]) =>
              puts'[q][n] = puts[q][n] /\ puts[q][n] \in Int /\ puts[q][n] <= i[e]
        BY <1>7, <3>3
      <4>3. puts'[q][Len(puts[q]) + 1] = i[e] + 1
        BY <1>7
      <4> QED  BY <1>3, <4>1, <4>2, <4>3
    <3>5. ASSUME NEW n \in 1 .. Len(puts'[q]), NEW m \in 1 .. n - 1
          PROVE  puts'[q][m] < puts'[q][n]
      <4>1. CASE n = Len(puts[q]) + 1
        <5>1. m \in 1 .. Len(puts[q])
          BY <1>7, <4>1
        <5> QED  BY <1>3, <1>7, <3>3, <4>1, <5>1
      <4>2. CASE n # Len(puts[q]) + 1
        <5>1. n \in 1 .. Len(puts[q]) /\ m \in 1 .. Len(puts[q])
          BY <1>7, <4>2
        <5> QED  BY <1>7, <3>3, <5>1
      <4> QED  BY <4>1, <4>2
    <3> QED  BY <3>2, <3>4, <3>5 DEF OrderInv
  <2> QED  BY <2>3, <2>4, <2>5, <2>6 DEF QueueInv
<1> QED  BY <1>9, <1>11, <1>12

\* A store puts the value of the last ticket in its slot.
LEMMA StoreKeepsQueues ==
  ASSUME BaseInv, ShareInv, \A r \in Queues : QueueInv(r),
         NEW e \in Queues, Store(e)
  PROVE  (ShareInv /\ \A r \in Queues : QueueInv(r))'
<1>1. i[e] < EnqCalls(e)
  BY DEF BaseInv, Store
<1>2. PICK q \in Queues : q = Target(e)
  BY <1>1, CallFacts
<1>3. /\ epc[e] = "store"
      /\ data' = [data EXCEPT ![q][Slot(curTail[e])] = i[e] + 1]
      /\ i' = [i EXCEPT ![e] = @ + 1]
      /\ epc' = [epc EXCEPT ![e] = "claim"]
      /\ UNCHANGED <<curTail, puts, head, tail, dpc, curHead, elem, got,
                     queueType, numSamples>>
  BY <1>2 DEF Store, dvars, args
<1>4. /\ e = Owner(q) /\ i[e] \in Nat /\ NumThreads \in Nat \ {0}
      /\ queueType \in {4, 8}
      /\ queueType = 8 => e = 0
      /\ queueType = 4 => q = e
  BY <1>1, <1>2, CallFacts, ArgumentFacts DEF BaseInv, TypeOK
<1>5. /\ \A r \in Queues : Owner(r)' = Owner(r) /\ Owner(r) \in Queues
      /\ QueueSize' = QueueSize
  BY <1>3, <1>4 DEF Owner, QueueSize
<1>6. /\ epc \in [Queues -> {"claim", "store"}] /\ i \in [Queues -> Nat]
      /\ data \in [Queues -> [0 .. QueueSize - 1 -> 0 .. numSamples]]
  BY DEF BaseInv, TypeOK
<1>7. /\ PendingStore(q) /\ ~PendingStore(q)'
      /\ \A r \in Queues : r # q =>
           /\ PendingStore(r)' <=> PendingStore(r)
           /\ PendingStore(r) => Owner(r) # e
  <2>1. epc'[e] = "claim" /\ \A u \in Queues : u # e => epc'[u] = epc[u] /\ i'[u] = i[u]
    BY <1>3, <1>6
  <2>2. \A r \in Queues : r # q => Target(e) # r
    BY <1>2
  <2>3. \A u \in Queues : u # e => Target(u)' = Target(u)
    BY <1>3, <2>1 DEF Target
  <2>4. ASSUME NEW r \in Queues, r # q
        PROVE  /\ PendingStore(r)' <=> PendingStore(r)
               /\ PendingStore(r) => Owner(r) # e
    <3>1. PICK u \in Queues : u = Owner(r)
      BY <1>5
    <3>2. CASE u = e
      BY <1>5, <2>1, <2>2, <2>4, <3>1, <3>2 DEF PendingStore
    <3>3. CASE u # e
      <4>1. Owner(r)' = u /\ Target(u)' = Target(u) /\ epc'[u] = epc[u]
        BY <1>5, <2>1, <2>3, <3>1, <3>3
      <4>2. PendingStore(r)' <=> epc'[u] = "store" /\ Target(u)' = r
        BY <4>1 DEF PendingStore, Target
      <4> QED  BY <3>1, <3>3, <4>1, <4>2 DEF PendingStore
    <3> QED  BY <3>2, <3>3
  <2>5. PendingStore(q) /\ ~PendingStore(q)'
    BY <1>2, <1>3, <1>4, <1>5, <2>1 DEF PendingStore
  <2> QED  BY <2>4, <2>5
<1>8. /\ tail[q] = Len(puts[q]) - 1 /\ curTail[e] = tail[q]
      /\ Len(got[q]) < Len(puts[q]) /\ Len(puts[q]) <= QueueSize + 1
      /\ Len(puts[q]) \in Nat /\ Len(got[q]) \in Nat /\ QueueSize \in Nat
      /\ puts[q][Len(puts[q])] = i[e] + 1
  BY <1>4, <1>7, RoomForShare DEF QueueInv, TailInv
<1>9. \A u \in Queues : Begun(u)' = Begun(u)
  BY <1>3, <1>6 DEF Begun
<1>10. \A r \in Queues : Begun(Owner(r))' = Begun(Owner(r))
  BY <1>5, <1>9 DEF Begun
<1>11. ShareInv'
  <2>1. queueType = 8 => 0 \in Queues
    BY <1>4
  <2>2. queueType = 8 => Begun(0)' = Begun(0)
    <3>1. \A u \in Queues : u = 0 => Begun(0)' = Begun(0)
      BY <1>3, <1>6 DEF Begun
    <3> QED  BY <2>1, <3>1
  <2> QED  BY <1>3, <1>9, <2>2 DEF ShareInv
<1>12. ASSUME NEW r \in Queues, r # q PROVE QueueInv(r)'
  <2>1. PendingStore(r) => i'[Owner(r)] = i[Owner(r)]
    BY <1>3, <1>5, <1>6, <1>7, <1>12
  <2>2. data'[r] = data[r]
    BY <1>3, <1>6, <1>12
  <2>3. Begun(Owner(r)) <= Begun(Owner(r))'
    BY <1>10, Numbers
  <2> QED  BY <1>3, <1>5, <1>7, <1>10, <1>12, <2>1, <2>2, <2>3, Numbers, OtherQueues
<1>13. ASSUME NEW s \in 0 .. QueueSize - 1
       PROVE  /\ data'[q][s] = data[q][s] \/ s = Slot(tail[q])
              /\ s = Slot(tail[q]) =>
                   /\ data'[q][s] = i[e] + 1
                   /\ s < Len(puts[q]) /\ MayHold(q, s, i[e] + 1)
  <2>1. tail[q] \in Nat /\ tail[q] <= QueueSize /\ QueueSize # 0
    BY <1>8
  <2>2. /\ Slot(tail[q]) \in 0 .. QueueSize - 1
        /\ tail[q] \in {Slot(tail[q]), Slot(tail[q]) + QueueSize}
    BY <1>8, <2>1, SlotOfTicket
  <2>3. data' = [data EXCEPT ![q][Slot(tail[q])] = i[e] + 1]
    BY <1>3, <1>8
  <2>4. data'[q] = [data[q] EXCEPT ![Slot(tail[q])] = i[e] + 1]
    BY <1>6, <2>3
  <2>5. data[q] \in [0 .. QueueSize - 1 -> 0 .. numSamples]
    BY <1>6
  <2>6. s = Slot(tail[q]) => s < Len(puts[q]) /\ MayHold(q, s, i[e] + 1)
    <3>1. ASSUME s = Slot(tail[q]) PROVE MayHold(q, s, i[e] + 1)
      <4>1. Len(puts[q]) \in {s + 1, s + 1 + QueueSize}
        BY <1>8, <2>1, <2>2, <3>1
      <4> QED  BY <1>8, <4>1 DEF MayHold
    <3> QED  BY <1>8, <2>1, <2>2, <3>1
  <2> QED  BY <2>4, <2>5, <2>6
<1>14. QueueInv(q)'
  <2>1. TailInv(q)'
    BY <1>3, <1>7, <1>8 DEF TailInv
  <2>2. HeadInv(q)'
    <3>1. HeadInv(q)
      BY DEF QueueInv
    <3>2. dpc[q] \in {"read", "clear"} => data'[q][Len(got[q])] # Free
      <4>1. ASSUME dpc[q] \in {"read", "clear"}
            PROVE  /\ Len(got[q]) \in 0 .. QueueSize - 1
                   /\ data[q][Len(got[q])] # Free
        BY <1>8, <3>1, <4>1 DEF BaseInv, HeadInv
      <4>2. i[e] + 1 # Free
        BY <1>4 DEF Free
      <4> QED  BY <1>13, <4>1, <4>2
    <3> QED  BY <1>3, <1>5, <3>1, <3>2 DEF HeadInv, MayHold
  <2>3. SlotInv(q)'
    <3>1. ASSUME NEW s \in Len(got[q]) .. QueueSize - 1, data'[q][s] # Free
          PROVE  s < Len(puts[q]) /\ MayHold(q, s, data'[q][s])
      <4>1. s \in 0 .. QueueSize - 1
        BY <1>8
      <4>2. CASE data'[q][s] = data[q][s]
        BY <3>1, <4>2 DEF QueueInv, SlotInv
      <4>3. CASE s = Slot(tail[q])
        BY <1>13, <4>1, <4>3
      <4> QED  BY <1>13, <4>1, <4>2, <4>3
    <3> QED  BY <1>3, <1>5, <1>7, <3>1 DEF SlotInv, MayHold
  <2>4. OrderInv(q)'
    BY <1>3, <1>10 DEF QueueInv, OrderInv
  <2> QED  BY <2>1, <2>2, <2>3, <2>4 DEF QueueInv
<1> QED  BY <1>11, <1>12, <1>14

\* The calls of a worker: it waits until its slot has been stored to, takes what it
\* finds there, and is never told that the queue is empty.
LEMMA WorkerKeepsQueues ==
  ASSUME BaseInv, ShareInv, \A r \in Queues : QueueInv(r),
         NEW q \in Queues, Dequeue(q)
  PROVE  (ShareInv /\ \A r \in Queues : QueueInv(r))'
<1>1. UNCHANGED <<tail, epc, i, curTail, puts, queueType, numSamples>>
  BY DEF Dequeue, Test, Line, Spin, Read, Clear, queuevars, evars, args
<1>2. /\ \A r \in Queues : Owner(r)' = Owner(r)
      /\ \A r \in Queues : PendingStore(r)' = PendingStore(r)
      /\ \A r \in Queues : Begun(Owner(r))' = Begun(Owner(r))
      /\ QueueSize' = QueueSize
  BY <1>1 DEF Owner, PendingStore, Target, QueueSize, Begun
<1>3. ShareInv'
  BY <1>1 DEF ShareInv, Begun
<1>4. /\ got \in [Queues -> Seq(-1 .. numSamples)] /\ head \in [Queues -> Int]
      /\ data \in [Queues -> [0 .. QueueSize - 1 -> 0 .. numSamples]]
      /\ dpc \in [Queues -> {"test", "claim", "spin", "read", "clear"}]
      /\ curHead \in [Queues -> Int] /\ elem \in [Queues -> 0 .. numSamples]
      /\ DeqCalls = QueueSize /\ QueueSize \in Nat /\ numSamples \in Nat
  BY ArgumentFacts DEF BaseInv, TypeOK
<1>5. /\ Len(puts[q]) \in Nat /\ Len(got[q]) \in Nat
      /\ Len(puts[q]) <= QueueSize + 1
      /\ TailInv(q) /\ HeadInv(q) /\ SlotInv(q) /\ OrderInv(q)
      /\ dpc[q] # "test" => Len(got[q]) < QueueSize
  BY RoomForShare DEF QueueInv, BaseInv
<1>6. ASSUME NEW r \in Queues, r # q PROVE QueueInv(r)'
  <2>1. /\ head'[r] = head[r] /\ got'[r] = got[r] /\ dpc'[r] = dpc[r]
        /\ curHead'[r] = curHead[r] /\ elem'[r] = elem[r] /\ data'[r] = data[r]
    BY <1>4, <1>6 DEF Dequeue, Test, Line, Spin, Read, Clear, Return, queuevars
  <2>2. /\ Begun(Owner(r)) \in Int /\ Begun(Owner(r))' \in Int
        /\ Begun(Owner(r)) <= Begun(Owner(r))'
        /\ \A n \in 1 .. Len(puts[r]) : puts[r][n] \in Int
    BY <1>2, Numbers
  <2> QED  BY <1>1, <1>2, <2>1, <2>2, OtherQueues
<1>7. OrderInv(q)'
  BY <1>1, <1>2, <1>5 DEF OrderInv
<1>8. CASE Test(q)
  <2>1. ~(tail[q] - QueueSize > 0)
    BY <1>4, <1>5 DEF TailInv
  <2>2. /\ dpc[q] = "test" /\ dpc' = [dpc EXCEPT ![q] = "claim"]
        /\ UNCHANGED <<got, head, data, curHead, elem>>
    BY <1>8, <2>1 DEF Test, queuevars
  <2>3. dpc'[q] = "claim"
    BY <1>4, <2>2
  <2>4. TailInv(q)' /\ HeadInv(q)' /\ SlotInv(q)'
    BY <1>1, <1>2, <1>5, <2>2, <2>3 DEF TailInv, HeadInv, SlotInv, MayHold
  <2> QED  BY <1>3, <1>6, <1>7, <2>4 DEF QueueInv
<1>9. CASE Line(q)
  <2>1. /\ dpc[q] = "claim" /\ dpc'[q] = "spin" /\ head'[q] = head[q] + 1
        /\ curHead'[q] = head'[q] /\ UNCHANGED <<got, data, elem>>
    BY <1>4, <1>9 DEF Line
  <2>2. TailInv(q)' /\ HeadInv(q)' /\ SlotInv(q)'
    BY <1>1, <1>2, <1>5, <2>1 DEF TailInv, HeadInv, SlotInv, MayHold
  <2> QED  BY <1>3, <1>6, <1>7, <2>2 DEF QueueInv
<1>10. ASSUME dpc[q] \in {"spin", "read", "clear"}
       PROVE  /\ Slot(curHead[q]) = Len(got[q]) /\ curHead[q] = Len(got[q])
              /\ Len(got[q]) \in Len(got[q]) .. QueueSize - 1
  <2>1. curHead[q] = Len(got[q]) /\ Len(got[q]) < QueueSize
    BY <1>5, <1>10 DEF HeadInv
  <2>2. Len(got[q]) <= QueueSize /\ QueueSize # 0
    BY <1>4, <1>5, <2>1
  <2> QED  BY <1>4, <1>5, <2>1, <2>2, SlotOfTicket
<1>11. CASE Spin(q)
  <2>1. /\ dpc[q] = "spin" /\ dpc'[q] = "read" /\ data[q][Slot(curHead[q])] # Free
        /\ UNCHANGED <<got, data, elem, head, curHead>>
    BY <1>4, <1>11 DEF Spin, queuevars
  <2>2. data[q][Len(got[q])] # Free
    BY <1>10, <2>1
  <2>3. TailInv(q)' /\ HeadInv(q)' /\ SlotInv(q)'
    BY <1>1, <1>2, <1>5, <2>1, <2>2 DEF TailInv, HeadInv, SlotInv, MayHold
  <2> QED  BY <1>3, <1>6, <1>7, <2>3 DEF QueueInv
<1>12. CASE Read(q)
  <2>1. /\ dpc[q] = "read" /\ dpc'[q] = "clear"
        /\ elem'[q] = data[q][Slot(curHead[q])]
        /\ UNCHANGED <<got, data, head, curHead>>
    BY <1>4, <1>12 DEF Read, queuevars
  <2>2. data[q][Len(got[q])] # Free
    BY <1>5, <2>1 DEF HeadInv
  <2>3. MayHold(q, Len(got[q]), elem'[q])
    <3>1. MayHold(q, Len(got[q]), data[q][Len(got[q])])
      BY <1>5, <1>10, <2>1, <2>2 DEF SlotInv
    <3> QED  BY <1>10, <2>1, <3>1
  <2>4. TailInv(q)' /\ HeadInv(q)' /\ SlotInv(q)'
    BY <1>1, <1>2, <1>5, <2>1, <2>2, <2>3
       DEF TailInv, HeadInv, SlotInv, MayHold
  <2> QED  BY <1>3, <1>6, <1>7, <2>4 DEF QueueInv
<1>13. CASE Clear(q)
  <2> DEFINE m == Len(got[q])
  <2>1. /\ dpc[q] = "clear" /\ dpc'[q] = "test"
        /\ got'[q] = Append(got[q], elem[q])
        /\ data'[q] = [data[q] EXCEPT ![Slot(curHead[q])] = Free]
        /\ UNCHANGED <<elem, head, curHead>>
    BY <1>4, <1>13 DEF Clear, Return
  <2>2. data[q][m] # Free /\ MayHold(q, m, elem[q]) /\ head[q] = m
    BY <1>5, <2>1 DEF HeadInv
  <2>3. m \in m .. QueueSize - 1 /\ m \in Nat
    BY <1>5, <1>10, <2>1
  <2>4. m < Len(puts[q]) /\ (PendingStore(q) => m < tail[q])
    <3>1. m < Len(puts[q]) /\ ~(PendingStore(q) /\ m = tail[q])
      BY <1>5, <2>2, <2>3 DEF SlotInv
    <3> QED  BY <1>5, <2>3, <3>1 DEF TailInv
  <2>5. /\ Len(got'[q]) = m + 1 /\ got'[q][m + 1] = elem[q]
        /\ \A n \in 1 .. m : got'[q][n] = got[q][n]
    <3>1. got[q] \in Seq(-1 .. numSamples) /\ elem[q] \in -1 .. numSamples
      BY <1>4
    <3> QED  BY <2>1, <3>1
  <2>6. \A s \in 0 .. QueueSize - 1 : data'[q][s] # Free => data'[q][s] = data[q][s]
    BY <1>4, <2>1
  <2>7. \A n \in 1 .. m : MayHold(q, n - 1, got[q][n])
    BY <1>5 DEF HeadInv
  <2>8. SlotInv(q)'
    <3>1. ASSUME NEW s \in m + 1 .. QueueSize - 1, data'[q][s] # Free
          PROVE  /\ s < Len(puts[q]) /\ ~(PendingStore(q) /\ s = tail[q])
                 /\ MayHold(q, s, data'[q][s])
      <4>1. /\ s \in m .. QueueSize - 1 /\ data[q][s] # Free
            /\ data'[q][s] = data[q][s]
        BY <2>3, <2>6, <3>1
      <4> QED  BY <1>5, <4>1 DEF SlotInv
    <3> QED  BY <1>1, <1>2, <2>5, <3>1 DEF SlotInv, MayHold
  <2> HIDE DEF m
  <2>9. TailInv(q)'
    BY <1>1, <1>2, <1>5, <2>3, <2>4, <2>5 DEF TailInv
  <2>10. HeadInv(q)'
    <3>1. \A n \in 1 .. m + 1 : MayHold(q, n - 1, got'[q][n])
      <4>1. \A n \in 1 .. m + 1 : n = m + 1 \/ n \in 1 .. m
        BY <2>3
      <4>2. (m + 1) - 1 = m
        BY <2>3
      <4> QED  BY <2>2, <2>5, <2>7, <4>1, <4>2
    <3> QED  BY <1>1, <1>2, <1>5, <2>1, <2>2, <2>3, <2>4, <2>5, <3>1
             DEF HeadInv, MayHold
  <2> QED  BY <1>3, <1>6, <1>7, <2>8, <2>9, <2>10 DEF QueueInv
<1> QED  BY <1>8, <1>9, <1>11, <1>12, <1>13 DEF Dequeue

LEMMA StepKeepsQueues == BaseInv /\ BaseInv' /\ QueuesInv /\ [Next]_vars => QueuesInv'
<1> SUFFICES ASSUME BaseInv, BaseInv', QueuesInv, [Next]_vars
             PROVE  (ShareInv /\ \A r \in Queues : QueueInv(r))'
  BY DEF QueuesInv
<1>1. ShareInv /\ \A r \in Queues : QueueInv(r)
  BY DEF QueuesInv
<1>2. CASE UNCHANGED vars
  <2>1. UNCHANGED <<head, tail, data, epc, i, curTail, puts, dpc, curHead, elem,
                    got, queueType, numSamples>>
    BY <1>2 DEF vars, queuevars, evars, dvars, args
  <2>2. /\ \A r \in Queues : Owner(r)' = Owner(r)
        /\ \A r \in Queues : PendingStore(r)' = PendingStore(r)
        /\ \A r \in Queues : Begun(Owner(r))' = Begun(Owner(r))
        /\ QueueSize' = QueueSize
    BY <2>1 DEF Owner, PendingStore, Target, QueueSize, Begun
  <2>3. ShareInv'
    BY <1>1, <2>1 DEF ShareInv, Begun
  <2>4. \A r \in Queues : /\ Begun(Owner(r)) \in Int /\ Begun(Owner(r))' \in Int
                          /\ Begun(Owner(r)) <= Begun(Owner(r))'
                          /\ \A n \in 1 .. Len(puts[r]) : puts[r][n] \in Int
    BY <2>2, Numbers
  <2>5. \A r \in Queues : QueueInv(r)'
    BY <1>1, <2>1, <2>2, <2>4, OtherQueues
  <2> QED  BY <2>3, <2>5
<1> QED  BY <1>1, <1>2, ClaimKeepsQueues, StoreKeepsQueues, WorkerKeepsQueues
         DEF Next, Enqueue, Terminated

\* Each call gets a value of its own, also where a value is stored over another:
\* that one is lost, but no worker gets a value twice or one of another queue.
THEOREM EachTakenOnce == Spec => []TakenOnce
<1>1. BaseInv /\ QueuesInv => TakenOnce
  <2> SUFFICES ASSUME BaseInv, QueuesInv, NEW q \in Queues
               PROVE  Range(got[q]) \subseteq Range(puts[q]) /\ IsInjective(got[q])
    BY DEF TakenOnce, BaseInv
  <2>1. /\ got[q] \in Seq(-1 .. numSamples) /\ puts[q] \in Seq(1 .. numSamples)
        /\ QueueSize \in Nat /\ HeadInv(q) /\ OrderInv(q)
        /\ head[q] \in Int
    BY ArgumentFacts DEF BaseInv, TypeOK, QueuesInv, QueueInv
  <2>2. /\ Len(got[q]) \in Nat /\ Len(puts[q]) \in Nat
        /\ DOMAIN got[q] = 1 .. Len(got[q]) /\ DOMAIN puts[q] = 1 .. Len(puts[q])
        /\ \A n \in 1 .. Len(puts[q]) : puts[q][n] \in Int
    BY <2>1, Numbers
  <2>3. Len(got[q]) <= QueueSize
    BY DEF BaseInv
  <2>4. ASSUME NEW n \in 1 .. Len(got[q])
        PROVE  \E k \in {n, n + QueueSize} :
                 k \in 1 .. Len(puts[q]) /\ got[q][n] = puts[q][k]
    <3>1. MayHold(q, n - 1, got[q][n])
      BY <2>1 DEF HeadInv
    <3>2. PICK k \in {(n - 1) + 1, (n - 1) + 1 + QueueSize} :
            k <= Len(puts[q]) /\ got[q][n] = puts[q][k]
      BY <3>1 DEF MayHold
    <3>3. k \in {n, n + QueueSize} /\ k \in 1 .. Len(puts[q])
      BY <2>1, <2>2, <3>2
    <3> QED  BY <3>2, <3>3
  <2>5. Range(got[q]) \subseteq Range(puts[q])
    BY <2>2, <2>4 DEF Range
  <2>6. ASSUME NEW a \in 1 .. Len(got[q]), NEW b \in 1 .. Len(got[q]),
               got[q][a] = got[q][b]
        PROVE  a = b
    <3>1. PICK k \in {a, a + QueueSize} :
            k \in 1 .. Len(puts[q]) /\ got[q][a] = puts[q][k]
      BY <2>4
    <3>2. PICK l \in {b, b + QueueSize} :
            l \in 1 .. Len(puts[q]) /\ got[q][b] = puts[q][l]
      BY <2>4
    <3>3. ~(k < l) /\ ~(l < k)
      <4>1. k < l => k \in 1 .. l - 1
        BY <2>2, <3>1, <3>2
      <4>2. l < k => l \in 1 .. k - 1
        BY <2>2, <3>1, <3>2
      <4>3. puts[q][k] = puts[q][l] /\ puts[q][k] \in Int
        BY <2>2, <2>6, <3>1, <3>2
      <4> QED  BY <2>1, <3>1, <3>2, <4>1, <4>2, <4>3 DEF OrderInv
    <3>4. k = l
      BY <2>2, <3>1, <3>2, <3>3
    <3> QED  BY <2>1, <2>2, <2>3, <3>1, <3>2, <3>4
  <2>7. IsInjective(got[q])
    BY <2>2, <2>6 DEF IsInjective
  <2> QED  BY <2>5, <2>7
<1> QED  BY <1>1, InitBase, StepKeepsBase, InitQueues, StepKeepsQueues, PTL
         DEF Spec

\* Where the shares fit no value has the slot of another.
LEMMA TakenInOrder ==
  ASSUME BaseInv, QueuesInv, Fits, NEW q \in Queues
  PROVE  /\ Len(got[q]) \in Nat /\ Len(puts[q]) \in Nat /\ QueueSize \in Nat
         /\ Len(got[q]) <= Len(puts[q]) /\ Len(puts[q]) <= QueueSize
         /\ \A n \in 1 .. Len(got[q]) : got[q][n] = puts[q][n]
<1>1. /\ HeadInv(q) /\ Len(puts[q]) <= QueueSize
      /\ Len(got[q]) \in Nat /\ Len(puts[q]) \in Nat /\ QueueSize \in Nat
  BY RoomForShare DEF QueuesInv, QueueInv
<1>2. Len(got[q]) <= Len(puts[q])
  BY <1>1 DEF HeadInv
<1>3. ASSUME NEW n \in 1 .. Len(got[q]) PROVE got[q][n] = puts[q][n]
  <2>1. PICK k \in {(n - 1) + 1, (n - 1) + 1 + QueueSize} :
          k <= Len(puts[q]) /\ got[q][n] = puts[q][k]
    BY <1>1 DEF HeadInv, MayHold
  <2>2. k = n
    BY <1>1, <2>1
  <2> QED  BY <2>1, <2>2
<1> QED  BY <1>1, <1>2, <1>3

\* A call that has waited gets the next value, which is there.
LEMMA NextInOrder ==
  ASSUME BaseInv, QueuesInv, Fits, NEW q \in Queues, dpc[q] = "clear"
  PROVE  /\ Len(got[q]) + 1 <= Len(puts[q])
         /\ elem[q] = puts[q][Len(got[q]) + 1]
         /\ head[q] = Len(got[q])
<1>1. /\ HeadInv(q) /\ Len(puts[q]) <= QueueSize
      /\ Len(got[q]) \in Nat /\ Len(puts[q]) \in Nat /\ QueueSize \in Nat
  BY RoomForShare DEF QueuesInv, QueueInv
<1>2. PICK k \in {Len(got[q]) + 1, Len(got[q]) + 1 + QueueSize} :
        k <= Len(puts[q]) /\ elem[q] = puts[q][k]
  BY <1>1 DEF HeadInv, MayHold
<1>3. k = Len(got[q]) + 1
  BY <1>1, <1>2
<1> QED  BY <1>1, <1>2, <1>3 DEF HeadInv

\* Where the shares fit every worker gets the values of its queue in the order in
\* which they were put there, for any number of queues and samples.
THEOREM InOrderIfFits == Spec => [](Fits => InOrder)
<1>1. BaseInv /\ QueuesInv => (Fits => InOrder)
  <2> SUFFICES ASSUME BaseInv, QueuesInv, Fits, NEW q \in Queues
               PROVE  IsPrefix(got[q], puts[q])
    BY DEF InOrder
  <2>1. /\ Len(got[q]) \in Nat /\ Len(puts[q]) \in Nat
        /\ Len(got[q]) <= Len(puts[q])
        /\ \A n \in 1 .. Len(got[q]) : got[q][n] = puts[q][n]
    BY TakenInOrder
  <2>2. got[q] \in Seq(-1 .. numSamples) /\ puts[q] \in Seq(1 .. numSamples)
    BY DEF BaseInv, TypeOK
  <2>3. SubSeq(got[q], 1, Len(got[q])) = SubSeq(puts[q], 1, Len(got[q]))
    <3>1. /\ SubSeq(got[q], 1, Len(got[q]))
               = [n \in 1 .. Len(got[q]) |-> got[q][n]]
          /\ SubSeq(puts[q], 1, Len(got[q]))
               = [n \in 1 .. Len(got[q]) |-> puts[q][n]]
      BY <2>1, <2>2
    <3> QED  BY <2>1, <3>1
  <2> QED  BY <2>1, <2>3 DEF IsPrefix
<1> QED  BY <1>1, InitBase, StepKeepsBase, InitQueues, StepKeepsQueues, PTL
         DEF Spec

-----------------------------------------------------------------------------
(* Where the shares fit every queue is a ticket queue of its own           *)

\* The n-th value of a queue is the n-th that its thread puts there.
ValuesInv ==
  \A q \in Queues : \A n \in 1 .. Len(puts[q]) :
    Home(q, puts[q][n]) = q /\ Value(puts[q][n]) = n

\* The first n items of queue q, and its worker's first n calls.
Numbered(q, n) == [m \in 1 .. n |-> <<q, m>>]

\* The numbers of samples to choose from are bounded, as the integers of the
\* program are.
HasMax == \E m \in SampleCounts : \A n \in SampleCounts : n <= m

LEMMA LargestCount ==
  ASSUME HasMax, numSamples \in SampleCounts
  PROVE  Max(SampleCounts) \in Nat /\ numSamples <= Max(SampleCounts)
<1>1. \A n \in SampleCounts : n \in Nat
  BY SQueueMultipleAssumption
<1>2. \E m \in SampleCounts : \A n \in SampleCounts : m >= n
  BY <1>1 DEF HasMax
<1>3. PICK m \in SampleCounts : m = Max(SampleCounts) /\ \A n \in SampleCounts : m >= n
  BY <1>2 DEF Max
<1> QED  BY <1>1, <1>3

\* One item more.
LEMMA NumberedOn ==
  ASSUME NEW q, NEW n \in Nat
  PROVE  /\ Numbered(q, n + 1) = Append(Numbered(q, n), <<q, n + 1>>)
         /\ Len(Numbered(q, n)) = n
         /\ \A m \in 1 .. n : Numbered(q, n)[m] = <<q, m>>
<1>1. Numbered(q, n) \in Seq({q} \X Nat) /\ Len(Numbered(q, n)) = n
  BY DEF Numbered
<1>2. Append(Numbered(q, n), <<q, n + 1>>)
        = [m \in 1 .. n + 1 |-> IF m = n + 1 THEN <<q, n + 1>> ELSE Numbered(q, n)[m]]
  BY <1>1
<1> QED  BY <1>1, <1>2 DEF Numbered

\* What the variables of the ticket queue stand for.
LEMMA RingState ==
  ASSUME BaseInv, QueuesInv, ValuesInv, Fits, NEW q \in Queues
  PROVE  /\ [n \in 1 .. Len(puts[q]) |-> <<Home(q, puts[q][n]), Value(puts[q][n])>>]
              = Numbered(q, Len(puts[q]))
         /\ [n \in 1 .. head[q] + 1 |-> <<q, n>>] = Numbered(q, head[q] + 1)
         /\ [c \in {q} |->
              [n \in 1 .. Len(got[q]) |-> <<Home(q, got[q][n]), Value(got[q][n])>>]]
              = [c \in {q} |-> Numbered(q, Len(got[q]))]
<1>1. /\ Len(got[q]) \in Nat /\ Len(puts[q]) \in Nat /\ Len(got[q]) <= Len(puts[q])
      /\ \A n \in 1 .. Len(got[q]) : got[q][n] = puts[q][n]
  BY TakenInOrder
<1>2. \A n \in 1 .. Len(got[q]) : n \in 1 .. Len(puts[q])
  BY <1>1
<1>3. \A n \in 1 .. Len(got[q]) : Home(q, got[q][n]) = q /\ Value(got[q][n]) = n
  BY <1>1, <1>2 DEF ValuesInv
<1> QED  BY <1>3 DEF ValuesInv, Numbered

LEMMA InitValues == Init => ValuesInv
BY DEF Init, ValuesInv

LEMMA StepKeepsValues ==
  BaseInv /\ QueuesInv /\ ValuesInv /\ [Next]_vars => ValuesInv'
<1> SUFFICES ASSUME BaseInv, QueuesInv, ValuesInv, [Next]_vars PROVE ValuesInv'
  OBVIOUS
<1>1. UNCHANGED <<queueType, numSamples>>
  BY DEF Next, Enqueue, Claim, Store, Dequeue, Test, Line, Spin, Read, Clear,
         Terminated, vars, evars, dvars, args
<1>2. CASE UNCHANGED puts
  BY <1>1, <1>2 DEF ValuesInv, Home, Value
<1>3. ASSUME NEW e \in Queues, Claim(e) PROVE ValuesInv'
  <2>1. PICK q \in Queues : q = Target(e)
    BY <1>3, CallFacts DEF Claim
  <2>2. puts' = [puts EXCEPT ![q] = Append(@, i[e] + 1)] /\ epc[e] = "claim"
    BY <1>3, <2>1 DEF Claim
  <2>3. /\ i[e] \in Nat /\ queueType \in {4, 8} /\ NumThreads \in Nat \ {0}
        /\ queueType = 8 => e = 0 /\ q = i[e] % NumThreads
        /\ queueType = 4 => q = e
    BY <1>3, <2>1, CallFacts, ArgumentFacts DEF Claim, BaseInv, TypeOK
  <2>4. puts \in [Queues -> Seq(1 .. numSamples)] /\ i[e] + 1 \in 1 .. numSamples
    <3>1. i[e] \in Nat /\ i[e] < numSamples /\ numSamples \in Nat
      BY <1>3, CallFacts, ArgumentFacts DEF Claim, BaseInv, TypeOK
    <3>2. i[e] + 1 \in 1 .. numSamples
      BY <3>1
    <3> QED  BY <3>2 DEF BaseInv, TypeOK
  <2>5. /\ Len(puts'[q]) = Len(puts[q]) + 1 /\ Len(puts[q]) \in Nat
        /\ puts'[q][Len(puts[q]) + 1] = i[e] + 1
        /\ \A n \in 1 .. Len(puts[q]) : puts'[q][n] = puts[q][n]
        /\ \A r \in Queues : r # q => puts'[r] = puts[r]
    BY <2>2, <2>4
  <2>6. Home(q, i[e] + 1) = q /\ Value(i[e] + 1) = Len(puts[q]) + 1
    <3>1. CASE queueType = 8
      <4>1. Begun(0) = i[0] /\ e = 0
        BY <2>2, <2>3, <3>1 DEF Begun
      <4>2. Dealt(i[0], q, Len(puts[q]))
        BY <3>1, <4>1 DEF QueuesInv, ShareInv
      <4>3. i[0] \div NumThreads = Len(puts[q])
        BY <2>3, <2>5, <3>1, <4>1, <4>2, DealtNumber
      <4>4. (i[e] + 1) - 1 = i[e]
        BY <2>3
      <4> QED  BY <2>3, <3>1, <4>1, <4>3, <4>4 DEF Home, Value
    <3>2. CASE queueType = 4
      <4>1. Begun(q) = i[q] /\ Len(puts[q]) = Begun(q)
        BY <2>2, <2>3, <3>2 DEF Begun, QueuesInv, ShareInv
      <4> QED  BY <2>3, <3>2, <4>1 DEF Home, Value
    <3> QED  BY <2>3, <3>1, <3>2
  <2>7. ASSUME NEW r \in Queues, NEW n \in 1 .. Len(puts'[r])
        PROVE  Home(r, puts'[r][n]) = r /\ Value(puts'[r][n]) = n
    <3>1. CASE r # q
      BY <2>5, <3>1 DEF ValuesInv
    <3>2. CASE r = q /\ n = Len(puts[q]) + 1
      BY <2>5, <2>6, <3>2
    <3>3. CASE r = q /\ n # Len(puts[q]) + 1
      <4>1. n \in 1 .. Len(puts[q])
        BY <2>5, <3>3
      <4> QED  BY <2>5, <3>3, <4>1 DEF ValuesInv
    <3> QED  BY <3>1, <3>2, <3>3
  <2> QED  BY <1>1, <2>7 DEF ValuesInv, Home, Value
<1>4. (\E e \in Queues : Claim(e)) \/ UNCHANGED puts
  BY DEF Next, Enqueue, Store, Dequeue, Test, Line, Spin, Read, Clear,
         Terminated, vars, evars
<1> QED  BY <1>2, <1>3, <1>4

\* Every step of a queue's threads is a step of its ticket queue or none: a claim
\* puts an item, joining the line takes, and the write-back is when the call gets
\* the item of its position.
LEMMA StepIsTicketStep ==
  ASSUME HasMax, BaseInv, QueuesInv, ValuesInv, Fits, [Next]_vars,
         (\A r \in Queues : Len(puts[r]) <= QueueSize)', ValuesInv', NEW q \in Queues
  PROVE  [Ring(q)!Next]_(Ring(q)!vars)
<1> DEFINE P == [n \in 1 .. Len(puts[q]) |->
                   <<Home(q, puts[q][n]), Value(puts[q][n])>>]
           T == [n \in 1 .. head[q] + 1 |-> <<q, n>>]
           G == [c \in {q} |-> [n \in 1 .. Len(got[q]) |->
                                  <<Home(q, got[q][n]), Value(got[q][n])>>]]
           a == Len(puts[q])
           m == Len(got[q])
           limit == Max(SampleCounts)
<1>1. /\ a \in Nat /\ m \in Nat /\ m <= a /\ a <= QueueSize
      /\ \A n \in 1 .. m : got[q][n] = puts[q][n]
      /\ limit \in Nat /\ QueueSize <= limit /\ QueueSize \in Nat
  <2>1. limit \in Nat /\ numSamples <= limit
    BY LargestCount DEF BaseInv, TypeOK
  <2>2. QueueSize <= numSamples /\ numSamples \in Nat /\ QueueSize \in Nat
    BY ArgumentFacts DEF BaseInv, TypeOK
  <2>3. QueueSize <= limit
    BY <2>1, <2>2
  <2> QED  BY <2>1, <2>2, <2>3, TakenInOrder
<1>2. UNCHANGED <<queueType, numSamples>>
  BY DEF Next, Enqueue, Claim, Store, Dequeue, Test, Line, Spin, Read, Clear,
         Terminated, vars, evars, dvars, args
<1>3. \A v : Home(q, v)' = Home(q, v)
  BY <1>2 DEF Home
<1>4. P = Numbered(q, a) /\ G = [c \in {q} |-> Numbered(q, m)]
  BY RingState
<1>5. P' = Numbered(q, Len(puts'[q]))
  BY DEF ValuesInv, Numbered
<1>6. T = Numbered(q, head[q] + 1) /\ T' = Numbered(q, head'[q] + 1)
  BY DEF Numbered
<1>7. HeadInv(q) /\ head[q] \in Int
  BY DEF QueuesInv, QueueInv, BaseInv, TypeOK
<1>8. ASSUME UNCHANGED <<puts[q], head[q], got[q]>>
      PROVE  UNCHANGED Ring(q)!vars
  <2>1. P' = P /\ T' = T /\ G' = G
    BY <1>2, <1>8 DEF Home, Value
  <2> QED  BY <2>1 DEF Ring!vars
<1> HIDE DEF P, T, G, a, m, limit
<1>9. ASSUME NEW e \in Queues, Claim(e), Target(e) = q
      PROVE  Ring(q)!Put(q)
  <2>1. Len(puts'[q]) = a + 1 /\ UNCHANGED <<head, got>>
    <3>1. puts' = [puts EXCEPT ![q] = Append(@, i[e] + 1)] /\ UNCHANGED <<head, got>>
      BY <1>9 DEF Claim, dvars
    <3>2. i[e] + 1 \in 1 .. numSamples
      <4>1. i[e] \in Nat /\ i[e] < numSamples /\ numSamples \in Nat
        BY <1>9, CallFacts, ArgumentFacts DEF Claim, BaseInv, TypeOK
      <4> QED  BY <4>1
    <3> QED  BY <3>1, <3>2 DEF BaseInv, TypeOK, a
  <2>2. P' = Append(P, <<q, a + 1>>)
    BY <1>1, <1>4, <1>5, <2>1, NumberedOn
  <2>3. T' = T /\ G' = G
    BY <1>2, <2>1 DEF Home, Value, T, G
  <2>4. Len(P) = a /\ \A n \in 1 .. a : P[n] = <<q, n>>
    BY <1>1, <1>4, NumberedOn
  <2>5. a + 1 \in 1 .. limit
    <3>1. a + 1 <= QueueSize
      BY <1>2, <2>1 DEF QueueSize
    <3> QED  BY <1>1, <3>1
  <2>6. \A x : Ring(q)!Placed(x) <=> \E n \in 1 .. Len(P) : P[n] = x
    BY DEF Ring!Placed, P
  <2>7. ~Ring(q)!Placed(<<q, a + 1>>)
    BY <1>1, <2>4, <2>6
  <2>8. \A j \in 1 .. (a + 1) - 1 : Ring(q)!Placed(<<q, j>>)
    <3>1. \A j \in 1 .. (a + 1) - 1 : j \in 1 .. a
      BY <1>1
    <3> QED  BY <2>4, <2>6, <3>1
  <2> QED  BY <2>2, <2>3, <2>5, <2>7, <2>8 DEF Ring!Put, P, T, G, limit
<1>10. ASSUME Line(q) PROVE Ring(q)!Take(q)
  <2>1. head'[q] = m /\ head[q] = m - 1 /\ m < QueueSize
        /\ UNCHANGED <<puts, got>>
    <3>1. /\ dpc[q] = "claim" /\ head' = [head EXCEPT ![q] = @ + 1]
          /\ UNCHANGED <<puts, got>>
      BY <1>10 DEF Line, evars
    <3>2. m < QueueSize /\ head[q] = m - 1
      BY <1>7, <3>1 DEF BaseInv, HeadInv, m
    <3>3. head'[q] = head[q] + 1
      BY <3>1 DEF BaseInv, TypeOK
    <3> QED  BY <1>1, <3>1, <3>2, <3>3
  <2>2. T = Numbered(q, m) /\ T' = Append(T, <<q, m + 1>>)
    <3>1. head[q] + 1 = m /\ head'[q] + 1 = m + 1
      BY <1>1, <2>1
    <3> QED  BY <1>1, <1>6, <3>1, NumberedOn
  <2>3. P' = P /\ G' = G
    BY <1>2, <2>1 DEF Home, Value, P, G
  <2>4. Len(T) = m /\ \A n \in 1 .. m : T[n] = <<q, n>>
    BY <1>1, <2>2, NumberedOn
  <2>5. Len(G[q]) = m
    BY <1>1, <1>4, NumberedOn
  <2>6. m < limit
    BY <1>1, <2>1
  <2>7. ~Ring(q)!InLine(<<q, m + 1>>)
    <3>1. \A x : Ring(q)!InLine(x) <=> \E n \in 1 .. Len(T) : T[n] = x
      BY DEF Ring!InLine, T
    <3> QED  BY <1>1, <2>4, <3>1
  <2> QED  BY <2>2, <2>3, <2>5, <2>6, <2>7 DEF Ring!Take, Ring!Pending, P, T, G, limit
<1>11. ASSUME Clear(q) PROVE Ring(q)!Give(q)
  <2>1. /\ dpc[q] = "clear" /\ got' = [got EXCEPT ![q] = Append(@, elem[q])]
        /\ UNCHANGED <<puts, head>>
    BY <1>11 DEF Clear, Return, evars
  <2>2. m + 1 <= a /\ elem[q] = puts[q][m + 1] /\ head[q] = m
    BY <2>1, NextInOrder DEF a, m
  <2>3. /\ Len(got'[q]) = m + 1
        /\ \A n \in 1 .. m + 1 : got'[q][n] = puts[q][n]
    <3>1. got[q] \in Seq(-1 .. numSamples) /\ elem[q] \in -1 .. numSamples
      BY ArgumentFacts DEF BaseInv, TypeOK
    <3>2. got'[q] = Append(got[q], elem[q])
      BY <2>1 DEF BaseInv, TypeOK
    <3>3. /\ Len(got'[q]) = m + 1 /\ got'[q][m + 1] = elem[q]
          /\ \A n \in 1 .. m : got'[q][n] = got[q][n]
      BY <3>1, <3>2 DEF m
    <3>4. \A n \in 1 .. m + 1 : n = m + 1 \/ n \in 1 .. m
      BY <1>1
    <3> QED  BY <1>1, <2>2, <3>3, <3>4
  <2>4. P' = P /\ T' = T
    BY <1>2, <2>1 DEF Home, Value, P, T
  <2>5. G' = [c \in {q} |-> Numbered(q, m + 1)]
    <3>1. \A n \in 1 .. m + 1 : n \in 1 .. a
      BY <1>1, <2>2
    <3>2. \A n \in 1 .. a : Home(q, puts[q][n]) = q /\ Value(puts[q][n]) = n
      BY DEF ValuesInv, a
    <3>3. \A n \in 1 .. m + 1 :
            (Home(q, got[q][n]) = q /\ Value(got[q][n]) = n)'
      BY <1>2, <2>3, <3>1, <3>2 DEF Home, Value
    <3> QED  BY <2>3, <3>3 DEF Numbered, G
  <2>6. /\ P[m + 1] = <<q, m + 1>> /\ Len(P) = a
        /\ T[m + 1] = <<q, m + 1>> /\ Len(T) = m + 1
    <3>1. m + 1 \in 1 .. a /\ m + 1 \in Nat /\ head[q] + 1 = m + 1 /\ m + 1 \in 1 .. m + 1
      BY <1>1, <2>2
    <3> QED  BY <1>1, <1>4, <1>6, <3>1, NumberedOn
  <2>7. G' = [G EXCEPT ![q] = Append(@, P[m + 1])]
    <3>1. Numbered(q, m + 1) = Append(Numbered(q, m), P[m + 1])
      BY <1>1, <2>6, NumberedOn
    <3> QED  BY <1>4, <2>5, <3>1
  <2>8. Len(G[q]) = m
    BY <1>1, <1>4, NumberedOn
  <2>9. m + 1 \in 1 .. Len(T) /\ m + 1 <= Len(P)
    BY <1>1, <2>2, <2>6
  <2> QED  BY <2>4, <2>6, <2>7, <2>8, <2>9 DEF Ring!Give, Ring!Pending, P, T, G
<1>12. ASSUME NEW e \in Queues, Enqueue(e), ~(Claim(e) /\ Target(e) = q)
       PROVE  UNCHANGED <<puts[q], head[q], got[q]>>
  <2>1. CASE Store(e)
    BY <2>1 DEF Store, dvars
  <2>2. CASE Claim(e)
    <3>1. /\ puts' = [puts EXCEPT ![Target(e)] = Append(@, i[e] + 1)]
          /\ UNCHANGED <<head, got>> /\ Target(e) # q
      BY <1>12, <2>2 DEF Claim, dvars
    <3> QED  BY <3>1 DEF BaseInv, TypeOK
  <2> QED  BY <1>12, <2>1, <2>2 DEF Enqueue
<1>13. ASSUME NEW r \in Queues, Dequeue(r), ~(r = q /\ (Line(q) \/ Clear(q)))
       PROVE  UNCHANGED <<puts[q], head[q], got[q]>>
  <2>1. CASE r # q
    BY <1>13, <2>1 DEF Dequeue, Test, Line, Spin, Read, Clear, Return,
                       queuevars, evars, BaseInv, TypeOK
  <2>2. CASE r = q
    <3>1. ~(tail[q] - QueueSize > 0)
      <4>1. tail[q] = a - 1
        BY DEF QueuesInv, QueueInv, TailInv, a
      <4> QED  BY <1>1, <4>1
    <3> QED  BY <1>13, <2>2, <3>1 DEF Dequeue, Test, Spin, Read, queuevars, evars
  <2> QED  BY <2>1, <2>2
<1>14. CASE UNCHANGED vars
  BY <1>8, <1>14 DEF vars, queuevars, evars, dvars
<1> QED  BY <1>8, <1>9, <1>10, <1>11, <1>12, <1>13, <1>14
         DEF Next, Terminated, Ring!Next, Enqueue, Dequeue

\* The step condition of ImplementsTickets.
TicketSteps == Fits => \A q \in Queues : [Ring(q)!Next]_(Ring(q)!vars)

\* Where the shares fit every queue is a ticket queue of its own: nothing is lost,
\* nothing is handed out twice, each call gets the item of its position.
THEOREM TicketsImplemented == ASSUME HasMax PROVE Spec => ImplementsTickets
<1>1. Init => (Fits => \A q \in Queues : Ring(q)!Init)
  <2> SUFFICES ASSUME Init, NEW q \in Queues PROVE Ring(q)!Init
    OBVIOUS
  <2> QED  BY DEF Init, Ring!Init
<1> DEFINE Room == \A r \in Queues : Len(puts[r]) <= QueueSize
<1>2. BaseInv /\ QueuesInv => (Fits => Room)
  BY TakenInOrder
<1>3. /\ BaseInv /\ QueuesInv /\ ValuesInv /\ ValuesInv' /\ (Fits => Room)'
      /\ [Next]_vars
      => [TicketSteps]_vars
  <2> SUFFICES ASSUME BaseInv, QueuesInv, ValuesInv, ValuesInv', (Fits => Room)',
                      [Next]_vars, Fits, NEW q \in Queues
               PROVE  [Ring(q)!Next]_(Ring(q)!vars)
    BY DEF TicketSteps
  <2>1. Fits'
    BY DEF Fits, Next, Enqueue, Claim, Store, Dequeue, Test, Line, Spin, Read, Clear,
           Terminated, vars, evars, dvars, args
  <2> QED  BY <2>1, StepIsTicketStep
<1>4. Spec => [][TicketSteps]_vars
  BY <1>2, <1>3, InitBase, StepKeepsBase, InitQueues, StepKeepsQueues, InitValues,
     StepKeepsValues, PTL DEF Spec
<1>5. Spec => (Fits => \A q \in Queues : Ring(q)!Init)
  BY <1>1, PTL DEF Spec
<1> QED  BY <1>4, <1>5 DEF ImplementsTickets, TicketSteps
=============================================================================
