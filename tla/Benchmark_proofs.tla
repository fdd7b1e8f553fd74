-------------------------- MODULE Benchmark_proofs --------------------------
(***************************************************************************)
(* Proofs about Benchmark, for every command line and every number of      *)
(* samples: the threads of a round start together, every sample is merged  *)
(* once and inside the arrays, and every line is made of all the samples   *)
(* of its round. The second half is about LockFreeQueue, which shares      *)
(* nothing with Benchmark: at its pace the queue is first-in first-out.    *)
(***************************************************************************)
EXTENDS Benchmark, LockFreeQueue, FiniteSetTheorems, SequenceTheorems,
        NaturalsInduction, WellFoundedInduction, TLAPS

Places == {"none", "start", "wait", "loop", "copy", "count", "returned"}

\* How many threads Order creates.
Size(type, c) == IF type = 8 THEN c + 1 ELSE 2 * c

\* Calls, by role; no thread of a role asks when there is none.
Share(r) ==
  IF argv.type = 8 /\ r = "enqueue" THEN NumSamples
  ELSE IF cur = 0 THEN 0 ELSE NumSamples \div cur

\* A sample of some round.
Record == [round : Nat, thread : Roles \X Nat, pass : Nat]

\* The threads of a role that have merged.
Merged(r) == {t \in DOMAIN tpc : t[1] = r /\ tpc[t] = "returned"}

-----------------------------------------------------------------------------
(* The threads of a round                                                  *)

\* Every thread of a round is created once, and the threads of a role are
\* numbered from 0.
LEMMA OrderFacts ==
  ASSUME NEW type, NEW c \in Nat
  PROVE  /\ Size(type, c) \in Nat
         /\ Len(Order(type, c)) = Size(type, c)
         /\ DOMAIN Order(type, c) = 1 .. Size(type, c)
         /\ \A j \in 1 .. Size(type, c) :
              /\ Order(type, c)[j] \in Roles \X Nat
              /\ type = 8 /\ Order(type, c)[j][1] = "enqueue" =>
                   Order(type, c)[j][2] = 0
              /\ type # 8 \/ Order(type, c)[j][1] = "worker" =>
                   Order(type, c)[j][2] \in 0 .. c - 1
         /\ \A j, h \in 1 .. Size(type, c) :
              Order(type, c)[j] = Order(type, c)[h] => j = h
<1>1. CASE type = 8
  <2>1. Order(type, c) = [j \in 1 .. c + 1 |-> IF j = 1 THEN <<"enqueue", 0>>
                                                ELSE <<"worker", j - 2>>]
    BY <1>1 DEF Order
  <2>2. Len(Order(type, c)) = c + 1
    BY <2>1
  <2> QED  BY <1>1, <2>1, <2>2 DEF Size, Roles
<1>2. CASE type # 8
  <2>1. Order(type, c) = [j \in 1 .. 2 * c |->
           IF j % 2 = 1 THEN <<"enqueue", j \div 2>>
                        ELSE <<"worker", j \div 2 - 1>>]
    BY <1>2 DEF Order
  <2>2. Len(Order(type, c)) = 2 * c /\ DOMAIN Order(type, c) = 1 .. 2 * c
    BY <2>1
  <2>3. ASSUME NEW j \in 1 .. 2 * c
        PROVE  /\ j % 2 = 1 => j \div 2 \in 0 .. c - 1 /\ j = 2 * (j \div 2) + 1
               /\ j % 2 # 1 => j \div 2 - 1 \in 0 .. c - 1 /\ j = 2 * (j \div 2)
    OBVIOUS
  <2>4. ASSUME NEW j \in 1 .. 2 * c
        PROVE  /\ Order(type, c)[j] \in Roles \X Nat
               /\ Order(type, c)[j][2] \in 0 .. c - 1
    BY <2>1, <2>3 DEF Roles
  <2>5. ASSUME NEW j \in 1 .. 2 * c, NEW h \in 1 .. 2 * c,
               Order(type, c)[j] = Order(type, c)[h]
        PROVE  j = h
    <3>1. ASSUME NEW m \in 1 .. 2 * c
          PROVE  /\ Order(type, c)[m][1] = IF m % 2 = 1 THEN "enqueue" ELSE "worker"
                 /\ Order(type, c)[m][2] = IF m % 2 = 1 THEN m \div 2
                                                        ELSE m \div 2 - 1
      BY <2>1
    <3>2. (j % 2 = 1) <=> (h % 2 = 1)
      BY <2>5, <3>1
    <3>3. j \div 2 = h \div 2
      BY <2>3, <2>5, <3>1, <3>2
    <3> QED  BY <2>3, <3>2, <3>3
  <2> QED  BY <1>2, <2>2, <2>4, <2>5 DEF Size
<1> QED  BY <1>1, <1>2

\* The shares of c threads fit together into NUM_SAMPLES.
LEMMA SharesFit ==
  ASSUME NEW n \in Nat, NEW c \in Nat \ {0}
  PROVE  /\ n \div c \in Nat
         /\ n \div c <= n
         /\ (n \div c) * c <= n
  OBVIOUS

\* So many threads at most.
LEMMA OrderRange ==
  ASSUME NEW type, NEW c \in Nat
  PROVE  /\ Range(Order(type, c)) \subseteq Roles \X Nat
         /\ IsFiniteSet(Range(Order(type, c)))
         /\ Cardinality(Range(Order(type, c))) <= Size(type, c)
<1> DEFINE S == 1 .. Size(type, c)
           T == Range(Order(type, c))
<1>1. T = {Order(type, c)[j] : j \in S}
  BY OrderFacts DEF Range
<1>2. Order(type, c) = [j \in S |-> Order(type, c)[j]]
  <2>1. CASE type = 8
    BY <2>1 DEF Order, Size
  <2>2. CASE type # 8
    BY <2>2 DEF Order, Size
  <2> QED  BY <2>1, <2>2
<1>3. Order(type, c) \in Surjection(S, T)
  BY <1>1, <1>2 DEF Surjection
<1>4. IsFiniteSet(S) /\ Cardinality(S) = Size(type, c)
  BY OrderFacts, FS_Interval
<1>5. IsFiniteSet(T) /\ Cardinality(T) <= Cardinality(S)
  BY <1>3, <1>4, FS_Surjection
<1> QED  BY <1>1, <1>4, <1>5, OrderFacts

-----------------------------------------------------------------------------
(* The rounds                                                              *)

Types ==
  /\ argv \in Arguments
  /\ k \in Nat \ {0} /\ k <= Len(argv.threads) + 1
  /\ mpc \in {"next", "round", "end", "crashed"}
  /\ cur \in Nat /\ created \in Nat /\ joined \in 0 .. created
  /\ need \in Nat
  /\ DOMAIN tpc \subseteq Roles \X Nat /\ IsFiniteSet(DOMAIN tpc)
  /\ tpc \in [DOMAIN tpc -> Places]
  /\ i \in [DOMAIN tpc -> 0 .. NumSamples]
  /\ lock \in DOMAIN tpc \cup {Nobody}
  /\ num \in [Roles -> Nat]

\* Where main is: in a round the threads created so far have been started, those
\* joined have returned, and the barrier waits for all that there will be;
\* between two rounds no thread is left.
MainInv ==
  /\ mpc = "round" =>
       /\ k <= Len(argv.threads) /\ cur = CurNumThreads(argv, k)
       /\ DOMAIN tpc = Range(MyOrder)
       /\ created <= Len(MyOrder)
       /\ joined > 0 => created = Len(MyOrder)
       /\ \A j \in 1 .. Len(MyOrder) :
            /\ j > created => tpc[MyOrder[j]] = "none"
            /\ j <= joined => tpc[MyOrder[j]] = "returned"
       /\ Cardinality(DOMAIN tpc) <= need
  /\ mpc # "round" => \A t \in DOMAIN tpc : tpc[t] = "returned"

BarrierInv ==
  /\ waiting = {t \in DOMAIN tpc : tpc[t] = "wait"}
  /\ StartsTogether

\* Whoever merges holds the mutex.
LockInv == \A t \in DOMAIN tpc : tpc[t] \in {"copy", "count"} <=> lock = t

RoundInv == Types /\ MainInv /\ BarrierInv /\ LockInv

\* A command line, and the order of a round.
LEMMA ArgumentFacts ==
  ASSUME Types
  PROVE  /\ argv.type \in {1, 2, 3, 4, 5, 8} /\ argv.threads \in Seq(Nat)
         /\ NumSamples \in Nat /\ Nobody \notin Roles \X Nat
         /\ Len(argv.threads) \in Nat
         /\ k <= Len(argv.threads) =>
              argv.threads[k] \in Nat /\ CurNumThreads(argv, k) \in Nat
         /\ Len(MyOrder) = Size(argv.type, cur) /\ Len(MyOrder) \in Nat
         /\ DOMAIN MyOrder = 1 .. Len(MyOrder)
<1>1. /\ argv.type \in {1, 2, 3, 4, 5, 8} /\ argv.threads \in Seq(Nat)
      /\ NumSamples \in Nat /\ Nobody \notin Roles \X Nat
      /\ Len(argv.threads) \in Nat /\ k \in Nat \ {0} /\ cur \in Nat
  BY BenchmarkAssumption DEF Types
<1>2. k <= Len(argv.threads) =>
        argv.threads[k] \in Nat /\ CurNumThreads(argv, k) \in Nat
  BY <1>1 DEF CurNumThreads
<1> QED  BY <1>1, <1>2, OrderFacts DEF MyOrder

\* A thread's share, within NUM_SAMPLES.
LEMMA ShareFacts ==
  ASSUME Types
  PROVE  \A r \in Roles : Share(r) \in 0 .. NumSamples
BY ArgumentFacts, SharesFit DEF Types, Share

\* What a thread of any of the handlers does.
LEMMA ThreadSteps ==
  ASSUME NEW t, Thread(t)
  PROVE  Barrier(t) \/ Pass(t) \/ Lock(t) \/ Copy(t) \/ Count(t)
BY DEF Thread, Handler, Put, Take, TryTake, enqueue_handler, worker_handler,
       bmm_enqueue_handler, bmm_worker_handler, basicenqueue_handler,
       basicworker_handler, enqueuemultiple_handler, workermultiple_handler,
       rculfenqueue_handler, rculfdequeue_handler, enqueuespmc_handler,
       workerspmc_handler

\* In a round a thread makes as many calls as its role has to.
LEMMA CallsByRole ==
  ASSUME RoundInv, mpc = "round", NEW t \in DOMAIN tpc
  PROVE  t[1] \in Roles /\ Calls(t) = Share(t[1])
<1>1. PICK j \in 1 .. Size(argv.type, cur) : t = Order(argv.type, cur)[j]
  <2>1. t \in Range(Order(argv.type, cur)) /\ cur \in Nat
    BY DEF RoundInv, MainInv, Types, MyOrder
  <2>2. DOMAIN Order(argv.type, cur) = 1 .. Size(argv.type, cur)
    BY <2>1, OrderFacts
  <2> QED  BY <2>1, <2>2 DEF Range
<1>2. cur \in Nat /\ t \in Roles \X Nat
  BY DEF RoundInv, Types
<1>3. argv.type # 8 \/ t[1] = "worker" => cur # 0
  BY <1>1, <1>2, OrderFacts
<1> QED  BY <1>2, <1>3 DEF Calls, PerThread, Share, Roles

\* The numbers a thread of a round works with.
LEMMA ThreadFacts ==
  ASSUME RoundInv, mpc = "round", NEW t \in DOMAIN tpc
  PROVE  /\ t \in Roles \X Nat /\ t[1] \in Roles /\ Calls(t) = Share(t[1])
         /\ Share(t[1]) \in 0 .. NumSamples /\ Share(t[1]) \in Nat
         /\ NumSamples \in Nat /\ k \in Nat /\ cur \in Nat
         /\ num \in [Roles -> Nat] /\ num[t[1]] \in Nat
<1>1. t[1] \in Roles /\ Calls(t) = Share(t[1])
  BY CallsByRole
<1>2. Types
  BY DEF RoundInv
<1>3. NumSamples \in Nat
  BY BenchmarkAssumption
<1>4. Share(t[1]) \in 0 .. NumSamples
  BY <1>1, <1>2, ShareFacts
<1>5. Share(t[1]) \in Nat
  <2> HIDE DEF Share
  <2> QED  BY <1>3, <1>4
<1>6. t \in Roles \X Nat /\ k \in Nat /\ cur \in Nat /\ num \in [Roles -> Nat]
  BY <1>2 DEF Types
<1>7. num[t[1]] \in Nat
  BY <1>1, <1>6
<1> QED  BY <1>1, <1>3, <1>4, <1>5, <1>6, <1>7

LEMMA InitRoundInv == Init => RoundInv
<1> SUFFICES ASSUME Init PROVE RoundInv
  OBVIOUS
<1>1. DOMAIN tpc = {} /\ IsFiniteSet(DOMAIN tpc)
  BY FS_EmptySet DEF Init, NoThreads
<1>2. Types
  <2>1. argv \in Arguments /\ Len(argv.threads) \in Nat
    BY BenchmarkAssumption DEF Init
  <2>2. tpc \in [DOMAIN tpc -> Places] /\ i \in [DOMAIN tpc -> 0 .. NumSamples]
    BY <1>1 DEF Init, NoThreads
  <2> QED  BY <1>1, <2>1, <2>2 DEF Init, Types
<1> QED  BY <1>1, <1>2
         DEF Init, RoundInv, MainInv, BarrierInv, StartsTogether, LockInv

\* A new round: nobody is left of the one before, and the barrier waits for all.
LEMMA RoundKeepsInv ==
  ASSUME RoundInv, NEW n, NEW queues, Round(n, queues), n \in Nat,
         Size(argv.type, CurNumThreads(argv, k)) <= n
  PROVE  RoundInv'
<1> DEFINE c == CurNumThreads(argv, k)
           T == Range(Order(argv.type, c))
<1>1. /\ mpc = "next" /\ k <= Len(argv.threads)
      /\ mpc' = "round" /\ cur' = c /\ created' = 0 /\ joined' = 0 /\ need' = n
      /\ num' = [r \in Roles |-> 0]
      /\ tpc' = [t \in T |-> "none"] /\ i' = [t \in T |-> 0]
      /\ UNCHANGED <<argv, k, waiting, lock>>
  BY DEF Round
<1>2. c \in Nat
  BY <1>1, ArgumentFacts DEF RoundInv
<1>3. /\ T \subseteq Roles \X Nat /\ IsFiniteSet(T)
      /\ Cardinality(T) \in Nat /\ Cardinality(T) <= n
  BY <1>2, OrderRange, OrderFacts, FS_CardinalityType
<1>4. DOMAIN tpc' = T
  BY <1>1
<1>5. \A t \in DOMAIN tpc : tpc[t] = "returned"
  BY <1>1 DEF RoundInv, MainInv
<1>6. lock = Nobody /\ waiting = {}
  BY <1>5 DEF RoundInv, LockInv, BarrierInv, Types
<1>7. Types'
  <2>1. tpc' \in [T -> Places] /\ i' \in [T -> 0 .. NumSamples]
    BY <1>1, BenchmarkAssumption DEF Places
  <2>2. num' \in [Roles -> Nat]
    BY <1>1
  <2> HIDE DEF T, c
  <2> QED  BY <1>1, <1>2, <1>3, <1>4, <1>6, <2>1, <2>2 DEF RoundInv, Types
<1>8. MainInv'
  <2>1. MyOrder' = Order(argv.type, c) /\ CurNumThreads(argv, k)' = c
    BY <1>1 DEF MyOrder
  <2>2. Len(MyOrder') \in Nat /\ \A j \in 1 .. Len(MyOrder') : MyOrder'[j] \in T
    BY <1>2, <2>1, OrderFacts DEF Range
  <2> HIDE DEF T, c
  <2> QED  BY <1>1, <1>3, <1>4, <2>1, <2>2 DEF MainInv, T
<1>9. BarrierInv' /\ LockInv'
  <2> HIDE DEF T, c
  <2> QED  BY <1>1, <1>3, <1>4, <1>6, BenchmarkAssumption
           DEF BarrierInv, StartsTogether, LockInv
<1> QED  BY <1>7, <1>8, <1>9 DEF RoundInv

\* The cases of the switch count the threads they create.
LEMMA CasesKeepInv ==
  ASSUME RoundInv,
         \/ RoundSQueue \/ RoundCK \/ RoundBasic \/ RoundMultiple \/ RoundRcu
         \/ RoundSpmc
  PROVE  RoundInv'
<1>1. k <= Len(argv.threads)
  BY DEF RoundSQueue, RoundCK, RoundBasic, RoundMultiple, RoundRcu, RoundSpmc, Round
<1>2. argv.threads[k] \in Nat /\ CurNumThreads(argv, k) \in Nat
  BY <1>1, ArgumentFacts DEF RoundInv
<1>3. argv.type # 8 => Size(argv.type, CurNumThreads(argv, k)) <= argv.threads[k]
  <2>1. 2 * (argv.threads[k] \div 2) <= argv.threads[k]
    BY <1>2
  <2> QED  BY <2>1 DEF Size, CurNumThreads
<1>4. argv.type = 8 =>
        Size(argv.type, CurNumThreads(argv, k)) <= CurNumThreads(argv, k) + 1
  BY <1>2 DEF Size
<1>5. CASE RoundSpmc
  BY <1>2, <1>4, <1>5, RoundKeepsInv DEF RoundSpmc
<1>6. CASE ~RoundSpmc
  BY <1>2, <1>3, <1>6, RoundKeepsInv
     DEF RoundSQueue, RoundCK, RoundBasic, RoundMultiple, RoundRcu
<1> QED  BY <1>5, <1>6

\* The rest of main.  A thread is created once, and when the round ends all its
\* threads have returned.
LEMMA CreateKeepsInv ==
  ASSUME RoundInv, Create
  PROVE  RoundInv' /\ \A r \in Roles : Merged(r)' = Merged(r)
<1> DEFINE t == MyOrder[created + 1]
<1>1. /\ mpc = "round" /\ created < Len(MyOrder) /\ created' = created + 1
      /\ tpc' = [tpc EXCEPT ![t] = "start"]
      /\ UNCHANGED <<argv, k, mpc, cur, joined, need, waiting, i, lock, num>>
  BY DEF Create, mergevars
<1>2. UNCHANGED MyOrder
  BY <1>1 DEF MyOrder
<1>3. /\ created \in Nat /\ joined \in 0 .. created /\ Len(MyOrder) \in Nat
      /\ created + 1 \in 1 .. Len(MyOrder)
  <2>1. Types
    BY DEF RoundInv
  <2>2. Len(MyOrder) \in Nat
    BY <2>1, ArgumentFacts
  <2>3. created \in Nat /\ joined \in 0 .. created
    BY <2>1 DEF Types
  <2> QED  BY <1>1, <2>2, <2>3
<1>4. t \in DOMAIN tpc /\ tpc[t] = "none" /\ t \in Roles \X Nat
  <2>1. DOMAIN MyOrder = 1 .. Len(MyOrder)
    BY ArgumentFacts DEF RoundInv
  <2>2. t \in DOMAIN tpc
    BY <1>1, <1>3, <2>1 DEF RoundInv, MainInv, Range
  <2>3. tpc[t] = "none"
    BY <1>1, <1>3 DEF RoundInv, MainInv
  <2> QED  BY <2>2, <2>3 DEF RoundInv, Types
<1>5. \A j \in 1 .. Len(MyOrder) : MyOrder[j] = t => j = created + 1
  BY <1>3, OrderFacts, ArgumentFacts DEF MyOrder, RoundInv, Types
<1>6. /\ DOMAIN tpc' = DOMAIN tpc /\ tpc'[t] = "start"
      /\ \A u \in DOMAIN tpc : u # t => tpc'[u] = tpc[u]
  BY <1>1, <1>4
<1> HIDE DEF t
<1>7. Types'
  <2>1. Types
    BY DEF RoundInv
  <2>2. tpc' \in [DOMAIN tpc' -> Places]
    <3>1. tpc \in [DOMAIN tpc -> Places] /\ "start" \in Places
      BY <2>1 DEF Types, Places
    <3> QED  BY <1>1, <1>6, <3>1
  <2>3. created' \in Nat /\ joined' \in 0 .. created'
    BY <1>1, <1>3
  <2> QED  BY <1>1, <1>6, <2>1, <2>2, <2>3 DEF Types
<1>8. MainInv'
  <2>1. \A j \in 1 .. Len(MyOrder) : MyOrder[j] \in DOMAIN tpc
    BY <1>1, ArgumentFacts DEF RoundInv, MainInv, Range
  <2>2. ASSUME NEW j \in 1 .. Len(MyOrder)
        PROVE  /\ j > created + 1 => tpc'[MyOrder[j]] = "none"
               /\ j <= joined => tpc'[MyOrder[j]] = "returned"
    <3>1. j > created + 1 \/ j <= joined => MyOrder[j] # t
      BY <1>3, <1>5
    <3> QED  BY <1>1, <1>3, <1>6, <2>1, <3>1 DEF RoundInv, MainInv
  <2>3. joined = 0
    BY <1>1, <1>3 DEF RoundInv, MainInv
  <2> QED  BY <1>1, <1>2, <1>3, <1>6, <2>2, <2>3 DEF RoundInv, MainInv
<1>9. BarrierInv' /\ LockInv'
  BY <1>1, <1>4, <1>6 DEF RoundInv, BarrierInv, StartsTogether, LockInv
<1>10. \A r \in Roles : Merged(r)' = Merged(r)
  BY <1>4, <1>6 DEF Merged
<1> QED  BY <1>7, <1>8, <1>9, <1>10 DEF RoundInv

LEMMA JoinKeepsInv ==
  ASSUME RoundInv, Join
  PROVE  RoundInv'
<1>1. /\ mpc = "round" /\ created = Len(MyOrder) /\ joined < created
      /\ tpc[MyOrder[joined + 1]] = "returned" /\ joined' = joined + 1
      /\ UNCHANGED <<argv, k, mpc, cur, created, need, waiting, tpc, i, lock, num>>
      /\ UNCHANGED MyOrder
  BY DEF Join, mergevars, MyOrder
<1>2. joined' \in 0 .. created /\ joined \in Nat
  BY <1>1 DEF RoundInv, Types
<1>3. Types'
  BY <1>1, <1>2 DEF RoundInv, Types
<1>4. \A j \in 1 .. Len(MyOrder) : j <= joined + 1 => tpc[MyOrder[j]] = "returned"
  BY <1>1, <1>2 DEF RoundInv, MainInv
<1>5. MainInv'
  BY <1>1, <1>2, <1>4 DEF RoundInv, MainInv, CurNumThreads
<1> QED  BY <1>1, <1>3, <1>5 DEF RoundInv, BarrierInv, StartsTogether, LockInv

LEMMA AllReturned ==
  ASSUME RoundInv, AllJoined
  PROVE  \A t \in DOMAIN tpc : tpc[t] = "returned"
<1>1. /\ mpc = "round" /\ joined = Len(MyOrder)
      /\ \A j \in 1 .. Len(MyOrder) : tpc[MyOrder[j]] = "returned"
  BY ArgumentFacts DEF AllJoined, RoundInv, MainInv
<1> QED  BY <1>1, ArgumentFacts DEF RoundInv, MainInv, Range

LEMMA EndsKeepInv ==
  ASSUME RoundInv, ComputeSummary \/ End
  PROVE  RoundInv'
<1>1. /\ mpc' \in {"next", "end", "crashed"}
      /\ k' = k \/ (k' = k + 1 /\ mpc = "round")
      /\ UNCHANGED <<argv, cur, created, joined, need, waiting, tpc, i, lock, num>>
  BY DEF ComputeSummary, End, AllJoined, mergevars
<1>2. \A t \in DOMAIN tpc : tpc[t] = "returned"
  BY AllReturned DEF ComputeSummary, End, RoundInv, MainInv
<1>3. k' \in Nat \ {0} /\ k' <= Len(argv.threads) + 1
  <2>1. /\ k \in Nat \ {0} /\ k <= Len(argv.threads) + 1
        /\ Len(argv.threads) \in Nat
        /\ mpc = "round" => k <= Len(argv.threads)
    BY ArgumentFacts DEF RoundInv, Types, MainInv
  <2> QED  BY <1>1, <2>1
<1>4. Types'
  BY <1>1, <1>3 DEF RoundInv, Types
<1> QED  BY <1>1, <1>2, <1>4
         DEF RoundInv, MainInv, BarrierInv, StartsTogether, LockInv

-----------------------------------------------------------------------------
(* The threads                                                             *)

\* What a step of one thread that is neither at the barrier nor changes main's
\* variables keeps.
LEMMA OneThreadMoves ==
  ASSUME RoundInv, NEW t \in DOMAIN tpc, NEW place \in Places,
         tpc[t] \notin {"none", "start", "wait", "returned"},
         place \notin {"none", "start", "wait"},
         tpc' = [tpc EXCEPT ![t] = place],
         UNCHANGED <<argv, k, mpc, cur, created, joined, need, waiting>>
  PROVE  /\ MainInv' /\ BarrierInv'
         /\ DOMAIN tpc' = DOMAIN tpc /\ tpc' \in [DOMAIN tpc -> Places]
         /\ tpc'[t] = place /\ \A u \in DOMAIN tpc : u # t => tpc'[u] = tpc[u]
<1>1. /\ DOMAIN tpc' = DOMAIN tpc /\ tpc' \in [DOMAIN tpc -> Places]
      /\ tpc'[t] = place /\ \A u \in DOMAIN tpc : u # t => tpc'[u] = tpc[u]
  BY DEF RoundInv, Types
<1>2. mpc = "round"
  BY DEF RoundInv, MainInv
<1>3. UNCHANGED MyOrder /\ CurNumThreads(argv, k)' = CurNumThreads(argv, k)
  BY DEF MyOrder
<1>4. ASSUME NEW j \in 1 .. Len(MyOrder)
      PROVE  /\ j > created => tpc'[MyOrder[j]] = "none"
             /\ j <= joined => tpc'[MyOrder[j]] = "returned"
  <2>1. MyOrder[j] \in DOMAIN tpc
    BY <1>2, ArgumentFacts DEF RoundInv, MainInv, Range
  <2>2. /\ j > created => tpc[MyOrder[j]] = "none"
        /\ j <= joined => tpc[MyOrder[j]] = "returned"
    BY <1>2 DEF RoundInv, MainInv
  <2> QED  BY <1>1, <2>1, <2>2
<1>5. MainInv'
  BY <1>1, <1>2, <1>3, <1>4 DEF RoundInv, MainInv
<1>6. BarrierInv'
  BY <1>1 DEF RoundInv, BarrierInv, StartsTogether
<1> QED  BY <1>1, <1>5, <1>6

\* The barrier opens for all threads of the round at once, when the last of
\* them has come.
LEMMA BarrierKeepsInv ==
  ASSUME RoundInv, NEW t \in DOMAIN tpc, Barrier(t)
  PROVE  RoundInv' /\ \A r \in Roles : Merged(r)' = Merged(r)
<1>1. /\ tpc[t] = "start"
      /\ UNCHANGED <<argv, k, mpc, cur, created, joined, need, i, lock, num>>
  BY DEF Barrier, mainvars, mergevars
<1>2. mpc = "round" /\ waiting = {u \in DOMAIN tpc : tpc[u] = "wait"}
  BY <1>1 DEF RoundInv, MainInv, BarrierInv
<1>3. UNCHANGED MyOrder /\ CurNumThreads(argv, k)' = CurNumThreads(argv, k)
  BY <1>1 DEF MyOrder
<1>4. tpc \in [DOMAIN tpc -> Places] /\ IsFiniteSet(DOMAIN tpc)
  BY DEF RoundInv, Types
<1>5. /\ DOMAIN tpc' = DOMAIN tpc
      /\ \A u \in DOMAIN tpc :
           /\ tpc[u] \notin {"start", "wait"} => tpc'[u] = tpc[u]
           /\ tpc[u] \in {"start", "wait"} => tpc'[u] \in {"start", "wait", "loop"}
      /\ waiting' = {u \in DOMAIN tpc : tpc'[u] = "wait"}
      /\ \A u \in DOMAIN tpc : tpc'[u] \in {"start", "none"} => tpc'[u] = tpc[u]
  BY <1>1, <1>2, <1>4 DEF Barrier
<1>6. Types'
  <2>1. tpc' \in [DOMAIN tpc -> Places]
    BY <1>1, <1>2, <1>4 DEF Barrier, Places
  <2> QED  BY <1>1, <1>5, <2>1 DEF RoundInv, Types
<1>7. MainInv'
  <2>1. ASSUME NEW j \in 1 .. Len(MyOrder)
        PROVE  /\ j > created => tpc'[MyOrder[j]] = "none"
               /\ j <= joined => tpc'[MyOrder[j]] = "returned"
    <3>1. MyOrder[j] \in DOMAIN tpc
      BY <1>2, ArgumentFacts DEF RoundInv, MainInv, Range
    <3>2. /\ j > created => tpc[MyOrder[j]] = "none"
          /\ j <= joined => tpc[MyOrder[j]] = "returned"
      BY <1>2 DEF RoundInv, MainInv
    <3> QED  BY <1>5, <3>1, <3>2
  <2> QED  BY <1>1, <1>2, <1>3, <1>5, <2>1 DEF RoundInv, MainInv
<1>8. ASSUME Cardinality(waiting) + 1 = need PROVE StartsTogether'
  <2>1. waiting \cup {t} \in SUBSET DOMAIN tpc /\ IsFiniteSet(waiting)
    BY <1>2, <1>4, FS_Subset
  <2>2. Cardinality(waiting \cup {t}) = need
    BY <1>1, <1>2, <1>8, <2>1, FS_AddElement
  <2>3. /\ Cardinality(DOMAIN tpc) <= need
        /\ Cardinality(waiting \cup {t}) <= Cardinality(DOMAIN tpc)
        /\ Cardinality(DOMAIN tpc) \in Nat /\ need \in Nat
    BY <1>2, <1>4, <2>1, FS_Subset, FS_CardinalityType DEF RoundInv, MainInv, Types
  <2>4. waiting \cup {t} = DOMAIN tpc
    BY <1>4, <2>1, <2>2, <2>3, FS_Subset
  <2>5. \A u \in DOMAIN tpc : tpc'[u] = "loop"
    BY <1>8, <2>4 DEF Barrier
  <2> QED  BY <1>5, <2>5 DEF StartsTogether
<1>9. ASSUME Cardinality(waiting) + 1 # need PROVE StartsTogether'
  <2>1. tpc' = [tpc EXCEPT ![t] = "wait"]
    BY <1>9 DEF Barrier
  <2> QED  BY <1>1, <1>4, <2>1 DEF RoundInv, BarrierInv, StartsTogether
<1>10. BarrierInv' /\ LockInv'
  <2>1. StartsTogether'
    BY <1>8, <1>9
  <2>2. LockInv'
    BY <1>1, <1>5 DEF RoundInv, LockInv
  <2> QED  BY <1>5, <2>1, <2>2 DEF BarrierInv
<1>11. \A r \in Roles : Merged(r)' = Merged(r)
  BY <1>5 DEF Merged
<1> QED  BY <1>6, <1>7, <1>10, <1>11 DEF RoundInv

LEMMA PassKeepsInv ==
  ASSUME RoundInv, NEW t \in DOMAIN tpc, Pass(t)
  PROVE  RoundInv' /\ UNCHANGED <<tpc, num, stamps, k, cur, argv, mpc, afp>>
<1>1. /\ tpc[t] = "loop" /\ i[t] < Calls(t) /\ i' = [i EXCEPT ![t] = @ + 1]
      /\ UNCHANGED <<argv, k, mpc, cur, created, joined, afp, need, waiting, tpc,
                     lock, num, stamps>>
  BY DEF Pass, mainvars, mergevars
<1>2. mpc = "round"
  BY <1>1 DEF RoundInv, MainInv
<1>3. Calls(t) \in 0 .. NumSamples /\ i \in [DOMAIN tpc -> 0 .. NumSamples]
  <2>1. Calls(t) \in 0 .. NumSamples
    BY <1>2, ThreadFacts
  <2> QED  BY <2>1 DEF RoundInv, Types
<1>4. i' \in [DOMAIN tpc -> 0 .. NumSamples]
  BY <1>1, <1>3, BenchmarkAssumption
<1>5. Types'
  BY <1>1, <1>4 DEF RoundInv, Types
<1>6. MainInv'
  BY <1>1 DEF RoundInv, MainInv, MyOrder, CurNumThreads
<1> QED  BY <1>1, <1>5, <1>6
         DEF RoundInv, BarrierInv, StartsTogether, LockInv

LEMMA LockKeepsInv ==
  ASSUME RoundInv, NEW t \in DOMAIN tpc, Lock(t)
  PROVE  RoundInv' /\ \A r \in Roles : Merged(r)' = Merged(r)
<1>1. /\ tpc[t] = "loop" /\ lock = Nobody /\ lock' = t
      /\ tpc' = [tpc EXCEPT ![t] = "copy"]
      /\ UNCHANGED <<argv, k, mpc, cur, created, joined, need, waiting, i, num>>
  BY DEF Lock, mainvars
<1>2. /\ MainInv' /\ BarrierInv'
      /\ DOMAIN tpc' = DOMAIN tpc /\ tpc' \in [DOMAIN tpc -> Places]
      /\ tpc'[t] = "copy" /\ \A u \in DOMAIN tpc : u # t => tpc'[u] = tpc[u]
  BY <1>1, OneThreadMoves DEF Places
<1>3. Types'
  BY <1>1, <1>2 DEF RoundInv, Types
<1>4. \A u \in DOMAIN tpc : u # Nobody
  BY BenchmarkAssumption DEF RoundInv, Types
<1>5. LockInv'
  BY <1>1, <1>2, <1>4 DEF RoundInv, LockInv
<1>6. \A r \in Roles : Merged(r)' = Merged(r)
  BY <1>1, <1>2 DEF Merged
<1> QED  BY <1>2, <1>3, <1>5, <1>6 DEF RoundInv

LEMMA CopyKeepsInv ==
  ASSUME RoundInv, NEW t \in DOMAIN tpc, Copy(t)
  PROVE  RoundInv' /\ \A r \in Roles : Merged(r)' = Merged(r)
<1>1. /\ tpc[t] = "copy" /\ tpc' = [tpc EXCEPT ![t] = "count"]
      /\ UNCHANGED <<argv, k, mpc, cur, created, joined, need, waiting, i, lock, num>>
  BY DEF Copy, mainvars
<1>2. /\ MainInv' /\ BarrierInv'
      /\ DOMAIN tpc' = DOMAIN tpc /\ tpc' \in [DOMAIN tpc -> Places]
      /\ tpc'[t] = "count" /\ \A u \in DOMAIN tpc : u # t => tpc'[u] = tpc[u]
  BY <1>1, OneThreadMoves DEF Places
<1>3. Types'
  BY <1>1, <1>2 DEF RoundInv, Types
<1>4. LockInv'
  BY <1>1, <1>2 DEF RoundInv, LockInv
<1>5. \A r \in Roles : Merged(r)' = Merged(r)
  BY <1>1, <1>2 DEF Merged
<1> QED  BY <1>2, <1>3, <1>4, <1>5 DEF RoundInv

LEMMA CountKeepsInv ==
  ASSUME RoundInv, NEW t \in DOMAIN tpc, Count(t)
  PROVE  /\ RoundInv' /\ mpc = "round"
         /\ \A r \in {t[1]} : Merged(r)' = Merged(r) \cup {t}
         /\ \A r \in Roles : r # t[1] => Merged(r)' = Merged(r)
<1>1. /\ tpc[t] = "count" /\ tpc' = [tpc EXCEPT ![t] = "returned"]
      /\ num' = [num EXCEPT ![t[1]] = @ + Calls(t)] /\ lock' = Nobody
      /\ UNCHANGED <<argv, k, mpc, cur, created, joined, need, waiting, i>>
  BY DEF Count, mainvars
<1>2. /\ MainInv' /\ BarrierInv'
      /\ DOMAIN tpc' = DOMAIN tpc /\ tpc' \in [DOMAIN tpc -> Places]
      /\ tpc'[t] = "returned" /\ \A u \in DOMAIN tpc : u # t => tpc'[u] = tpc[u]
  BY <1>1, OneThreadMoves DEF Places
<1>3. mpc = "round"
  BY <1>1 DEF RoundInv, MainInv
<1>4. num' \in [Roles -> Nat]
  <2>1. Calls(t) \in Nat /\ t[1] \in Roles /\ num \in [Roles -> Nat]
    BY <1>3, ThreadFacts
  <2> QED  BY <1>1, <2>1
<1>5. Types'
  BY <1>1, <1>2, <1>4 DEF RoundInv, Types
<1>6. \A u \in DOMAIN tpc : u # Nobody
  BY BenchmarkAssumption DEF RoundInv, Types
<1>7. LockInv'
  BY <1>1, <1>2, <1>6 DEF RoundInv, LockInv
<1>8. /\ \A r \in {t[1]} : Merged(r)' = Merged(r) \cup {t}
      /\ \A r \in Roles : r # t[1] => Merged(r)' = Merged(r)
  BY <1>1, <1>2 DEF Merged
<1> QED  BY <1>2, <1>3, <1>5, <1>7, <1>8 DEF RoundInv

LEMMA StepKeepsRounds == RoundInv /\ [Next]_vars => RoundInv'
<1> SUFFICES ASSUME RoundInv, [Next]_vars PROVE RoundInv'
  OBVIOUS
<1>1. CASE Main
  BY <1>1, CasesKeepInv, CreateKeepsInv, JoinKeepsInv, EndsKeepInv DEF Main
<1>2. CASE \E t \in DOMAIN tpc : Thread(t)
  BY <1>2, ThreadSteps, BarrierKeepsInv, PassKeepsInv, LockKeepsInv, CopyKeepsInv,
     CountKeepsInv
<1>3. CASE UNCHANGED vars
  BY <1>3 DEF vars, RoundInv, Types, MainInv, BarrierInv, StartsTogether, LockInv,
              MyOrder, CurNumThreads
<1> QED  BY <1>1, <1>2, <1>3 DEF Next, Exited

\* Nobody times a call before every thread of the round has come to the barrier,
\* whatever the thread count, odd or even.
THEOREM AllStartTogether == Spec => []StartsTogether
<1>1. Init => RoundInv
  BY InitRoundInv
<1>2. RoundInv /\ [Next]_vars => RoundInv'
  BY StepKeepsRounds
<1>3. RoundInv => StartsTogether
  BY DEF RoundInv, BarrierInv
<1> QED  BY <1>1, <1>2, <1>3, PTL DEF Spec

\* The threads, locals and counters of sqmain.c keep their types.
THEOREM TypeCorrect == Spec => []TypeOK
<1>1. RoundInv => TypeOK
  <2> SUFFICES ASSUME RoundInv PROVE TypeOK
    OBVIOUS
  <2>1. /\ k \in 1 .. Len(argv.threads) + 1
        /\ DOMAIN i = DOMAIN tpc /\ \A t \in DOMAIN i : i[t] \in 0 .. NumSamples
        /\ waiting \subseteq DOMAIN tpc
    BY ArgumentFacts DEF RoundInv, Types, BarrierInv
  <2>2. \A t \in DOMAIN tpc : t[1] \in Roles /\ tpc[t] \in Places
    BY DEF RoundInv, Types
  <2> QED  BY <2>1, <2>2 DEF RoundInv, Types, TypeOK, Places
<1> QED  BY <1>1, InitRoundInv, StepKeepsRounds, PTL DEF Spec

-----------------------------------------------------------------------------
(* The merge                                                               *)

\* The first n entries of an array are the samples of the threads M of round m,
\* as many of each as its share, and each once.
Booked(m, share, M, n, array) ==
  /\ n = share * Cardinality(M)
  /\ \A j \in 0 .. n - 1 :
       \E t \in M : \E p \in 0 .. share - 1 : array[j] = Sample(m, t, p)
  /\ \A t \in M : \A p \in 0 .. share - 1 :
       \E j \in 0 .. n - 1 : array[j] = Sample(m, t, p)
  /\ \A j, h \in 0 .. n - 1 : array[j] = array[h] => j = h

\* The entries counted are those of the threads that have merged; a thread that
\* has copied but not counted yet has its samples right behind them.
MergeInv ==
  mpc = "round" =>
    /\ stamps \in [Roles -> [0 .. NumSamples - 1 -> Record \cup {NoSample}]]
    /\ \A r \in Roles :
         /\ Booked(k, Share(r), Merged(r), num[r], stamps[r])
         /\ \A t \in DOMAIN tpc : t[1] = r /\ tpc[t] = "count" =>
              \A p \in 0 .. Share(r) - 1 :
                stamps[r][num[r] + p] = Sample(k, t, p)

\* What is written behind the entries counted does not matter to them.
LEMMA BookedBelow ==
  ASSUME NEW m, NEW share, NEW M, NEW n, NEW a, NEW b,
         Booked(m, share, M, n, a), \A j \in 0 .. n - 1 : b[j] = a[j]
  PROVE  Booked(m, share, M, n, b)
<1>1. ASSUME NEW j \in 0 .. n - 1
      PROVE  \E t \in M : \E p \in 0 .. share - 1 : b[j] = Sample(m, t, p)
  <2>1. \E t \in M : \E p \in 0 .. share - 1 : a[j] = Sample(m, t, p)
    BY DEF Booked
  <2>2. b[j] = a[j]
    OBVIOUS
  <2> QED  BY <2>1, <2>2
<1>2. ASSUME NEW t \in M, NEW p \in 0 .. share - 1
      PROVE  \E j \in 0 .. n - 1 : b[j] = Sample(m, t, p)
  <2>1. PICK j \in 0 .. n - 1 : a[j] = Sample(m, t, p)
    BY DEF Booked
  <2> QED  BY <2>1
<1>3. \A j, h \in 0 .. n - 1 : b[j] = b[h] => j = h
  BY DEF Booked
<1>4. n = share * Cardinality(M)
  BY DEF Booked
<1> QED  BY <1>1, <1>2, <1>3, <1>4 DEF Booked

\* The threads a role can have at most.
Seats(r) == IF argv.type = 8 /\ r = "enqueue" THEN {<<"enqueue", 0>>}
                                              ELSE {r} \X (0 .. cur - 1)

LEMMA Times ==
  /\ \A a, b, s \in Nat : a <= b => s * a <= s * b
  /\ \A a, s \in Nat : s * (a + 1) = s * a + s /\ s * a \in Nat
OBVIOUS

LEMMA Countdown ==
  ASSUME NEW c \in Nat
  PROVE  IsFiniteSet(0 .. c - 1) /\ Cardinality(0 .. c - 1) = c
<1>1. 0 \in Int /\ c - 1 \in Int
  OBVIOUS
<1>2. /\ IsFiniteSet(0 .. c - 1)
      /\ Cardinality(0 .. c - 1) = IF 0 > c - 1 THEN 0 ELSE (c - 1) - 0 + 1
  BY <1>1, FS_Interval
<1> QED  BY <1>2

\* Samples differ by thread and pass.
LEMMA SampleFacts ==
  /\ \A n, t, j, u, h : Sample(n, t, j) = Sample(n, u, h) => t = u /\ j = h
  /\ \A n, j \in Nat : \A t \in Roles \X Nat : Sample(n, t, j) \in Record
BY DEF Sample, Record

\* There is room for the share of every thread that has not merged yet.
LEMMA RoomForAll ==
  ASSUME RoundInv, mpc = "round", NEW t \in DOMAIN tpc, tpc[t] # "returned",
         num[t[1]] = Share(t[1]) * Cardinality(Merged(t[1]))
  PROVE  num[t[1]] + Share(t[1]) <= NumSamples
<1> DEFINE r == t[1]
           M == Merged(r)
<1>1. r \in Roles /\ Share(r) \in Nat /\ NumSamples \in Nat /\ cur \in Nat
  BY ThreadFacts
<1>2. \A u \in DOMAIN tpc : u[1] = r => u \in Seats(r)
  <2> SUFFICES ASSUME NEW u \in DOMAIN tpc, u[1] = r PROVE u \in Seats(r)
    OBVIOUS
  <2>1. u \in Range(Order(argv.type, cur))
    BY DEF RoundInv, MainInv, MyOrder
  <2>2. PICK j \in 1 .. Size(argv.type, cur) : u = Order(argv.type, cur)[j]
    BY <1>1, <2>1, OrderFacts DEF Range
  <2>3. /\ u \in Roles \X Nat
        /\ argv.type = 8 /\ u[1] = "enqueue" => u[2] = 0
        /\ argv.type # 8 \/ u[1] = "worker" => u[2] \in 0 .. cur - 1
    BY <1>1, <2>2, OrderFacts
  <2>4. u = <<u[1], u[2]>>
    BY <2>3
  <2> QED  BY <2>3, <2>4 DEF Seats, Roles
<1>3. M \cup {t} \subseteq Seats(r) /\ t \notin M
  BY <1>2 DEF Merged
<1>4. /\ IsFiniteSet(Seats(r)) /\ Cardinality(Seats(r)) \in Nat
      /\ Share(r) * Cardinality(Seats(r)) <= NumSamples
  <2>1. CASE argv.type = 8 /\ r = "enqueue"
    <3>1. IsFiniteSet(Seats(r)) /\ Cardinality(Seats(r)) = 1
      BY <2>1, FS_Singleton DEF Seats
    <3> QED  BY <1>1, <2>1, <3>1 DEF Share
  <2>2. CASE ~(argv.type = 8 /\ r = "enqueue")
    <3>1. /\ IsFiniteSet({r}) /\ Cardinality({r}) = 1
          /\ IsFiniteSet(0 .. cur - 1) /\ Cardinality(0 .. cur - 1) = cur
      BY <1>1, FS_Singleton, Countdown
    <3>2. IsFiniteSet(Seats(r)) /\ Cardinality(Seats(r)) = cur
      BY <1>1, <2>2, <3>1, FS_Product DEF Seats
    <3>3. Share(r) * cur <= NumSamples
      <4>1. CASE cur = 0
        BY <1>1, <4>1
      <4>2. CASE cur # 0
        <5>1. Share(r) = NumSamples \div cur
          BY <2>2, <4>2 DEF Share
        <5> QED  BY <1>1, <4>2, <5>1, SharesFit
      <4> QED  BY <4>1, <4>2
    <3> QED  BY <1>1, <3>2, <3>3
  <2> QED  BY <2>1, <2>2
<1>5. IsFiniteSet(M) /\ Cardinality(M) \in Nat
  BY <1>3, <1>4, FS_Subset, FS_CardinalityType
<1>6. Cardinality(M) + 1 <= Cardinality(Seats(r))
  <2>1. Cardinality(M \cup {t}) = Cardinality(M) + 1
    BY <1>3, <1>5, FS_AddElement
  <2> QED  BY <1>3, <1>4, <2>1, FS_Subset
<1>7. Share(r) * (Cardinality(M) + 1) <= Share(r) * Cardinality(Seats(r))
  BY <1>1, <1>4, <1>5, <1>6, Times
<1>8. Share(r) * (Cardinality(M) + 1) = num[r] + Share(r)
  BY <1>1, <1>5, Times
<1>9. num[r] + Share(r) \in Nat
  <2>1. num[r] \in Nat
    BY ThreadFacts
  <2> HIDE DEF r
  <2> QED  BY <1>1, <2>1
<1> HIDE DEF r, M
<1>10. Share(r) * (Cardinality(M) + 1) <= NumSamples
  <2> DEFINE a == Share(r) * (Cardinality(M) + 1)
             b == Share(r) * Cardinality(Seats(r))
  <2>1. a \in Nat /\ b \in Nat
    BY <1>1, <1>4, <1>8, <1>9, Times
  <2>2. a <= b /\ b <= NumSamples
    BY <1>4, <1>7
  <2> HIDE DEF a, b
  <2>3. a <= NumSamples
    BY <1>1, <2>1, <2>2
  <2> QED  BY <2>3 DEF a
<1> QED  BY <1>8, <1>10 DEF r

\* A step that leaves arrays, counters and mergers alone.
LEMMA NothingMerged ==
  ASSUME RoundInv, MergeInv,
         UNCHANGED <<argv, k, mpc, cur, num, stamps>>,
         \A r \in Roles : Merged(r)' = Merged(r),
         DOMAIN tpc' = DOMAIN tpc,
         \A t \in DOMAIN tpc : tpc'[t] = "count" => tpc[t] = "count"
  PROVE  MergeInv'
<1>1. \A r \in Roles : Share(r)' = Share(r)
  BY DEF Share
<1> QED  BY <1>1 DEF MergeInv

\* memcpy writes behind what has been counted, inside the array.
LEMMA CopyKeepsMerge ==
  ASSUME RoundInv, MergeInv, NEW t \in DOMAIN tpc, Copy(t)
  PROVE  MergeInv'
<1> DEFINE r == t[1]
           n == num[r]
<1>1. /\ tpc[t] = "copy" /\ tpc' = [tpc EXCEPT ![t] = "count"]
      /\ stamps' = [stamps EXCEPT ![r] =
           [j \in DOMAIN @ |-> IF j - n \in 0 .. Calls(t) - 1
                                 THEN Sample(k, t, j - n) ELSE @[j]]]
      /\ UNCHANGED <<argv, k, mpc, cur, num>>
  BY DEF Copy, mainvars
<1>2. mpc = "round"
  BY <1>1 DEF RoundInv, MainInv
<1>3. /\ r \in Roles /\ Calls(t) = Share(r) /\ Share(r) \in Nat
      /\ n \in Nat /\ NumSamples \in Nat /\ k \in Nat /\ t \in Roles \X Nat
  BY <1>2, ThreadFacts
<1>4. n + Share(r) <= NumSamples
  BY <1>1, <1>2, <1>3, RoomForAll DEF MergeInv, Booked
<1>5. /\ stamps \in [Roles -> [0 .. NumSamples - 1 -> Record \cup {NoSample}]]
      /\ stamps'[r] = [j \in 0 .. NumSamples - 1 |->
                         IF j - n \in 0 .. Share(r) - 1
                           THEN Sample(k, t, j - n) ELSE stamps[r][j]]
      /\ \A q \in Roles : q # r => stamps'[q] = stamps[q]
  BY <1>1, <1>2, <1>3 DEF MergeInv
<1>6. stamps' \in [Roles -> [0 .. NumSamples - 1 -> Record \cup {NoSample}]]
  <2>1. ASSUME NEW j \in 0 .. NumSamples - 1
        PROVE  (IF j - n \in 0 .. Share(r) - 1
                  THEN Sample(k, t, j - n) ELSE stamps[r][j])
                 \in Record \cup {NoSample}
    BY <1>3, <1>5, SampleFacts
  <2> HIDE DEF r, n
  <2>2. stamps'[r] \in [0 .. NumSamples - 1 -> Record \cup {NoSample}]
    BY <1>5, <2>1
  <2> QED  BY <1>1, <1>3, <1>5, <2>2
<1>7. /\ \A q \in Roles : Share(q)' = Share(q) /\ Merged(q)' = Merged(q)
      /\ DOMAIN tpc' = DOMAIN tpc /\ tpc'[t] = "count"
      /\ \A u \in DOMAIN tpc : u # t => tpc'[u] = tpc[u]
  BY <1>1, CopyKeepsInv DEF Share, RoundInv, Types
<1>8. ASSUME NEW j \in 0 .. n - 1
      PROVE  stamps'[r][j] = stamps[r][j]
  BY <1>3, <1>4, <1>5
<1>9. ASSUME NEW p \in 0 .. Share(r) - 1
      PROVE  stamps'[r][n + p] = Sample(k, t, p)
  <2>1. n + p \in 0 .. NumSamples - 1 /\ (n + p) - n = p
    BY <1>3, <1>4
  <2> QED  BY <1>5, <2>1
<1>10. \A u \in DOMAIN tpc : u # t => tpc'[u] # "count"
  BY <1>1, <1>7 DEF RoundInv, LockInv
<1> HIDE DEF r, n
<1>11. ASSUME NEW q \in Roles, q # r
       PROVE  stamps'[q] = stamps[q] /\ ~ \E u \in DOMAIN tpc : u[1] = q /\ tpc'[u] = "count"
  BY <1>5, <1>10, <1>11 DEF r
<1>12. \A q \in Roles : \A j \in 0 .. num[q] - 1 : stamps'[q][j] = stamps[q][j]
  BY <1>8, <1>11 DEF n
<1>13. ASSUME NEW q \in Roles, NEW u \in DOMAIN tpc', u[1] = q, tpc'[u] = "count"
       PROVE  \A p \in 0 .. Share(q) - 1 : stamps'[q][num[q] + p] = Sample(k, u, p)
  BY <1>7, <1>9, <1>10, <1>13 DEF r, n
<1>14. ASSUME NEW q \in Roles
       PROVE  Booked(k', Share(q)', Merged(q)', num'[q], stamps'[q])
  <2>1. Merged(q)' = Merged(q) /\ Share(q)' = Share(q) /\ num' = num /\ k' = k
    BY <1>1, <1>7
  <2>2. Booked(k, Share(q), Merged(q), num[q], stamps[q])
    BY <1>2 DEF MergeInv
  <2>3. Booked(k, Share(q), Merged(q), num[q], stamps'[q])
    BY <1>12, <2>2, BookedBelow
  <2> QED  BY <2>1, <2>3
<1>15. \A q \in Roles : Share(q)' = Share(q) /\ num' = num /\ k' = k
  BY <1>1, <1>7
<1> QED  BY <1>6, <1>13, <1>14, <1>15 DEF MergeInv

\* The counter is moved past the copy: the thread has merged.
LEMMA CountKeepsMerge ==
  ASSUME RoundInv, MergeInv, NEW t \in DOMAIN tpc, Count(t)
  PROVE  MergeInv'
<1> DEFINE r == t[1]
           n == num[r]
           M == Merged(r)
<1>1. /\ tpc[t] = "count" /\ tpc' = [tpc EXCEPT ![t] = "returned"]
      /\ num' = [num EXCEPT ![r] = @ + Calls(t)]
      /\ UNCHANGED <<argv, k, mpc, cur, stamps>>
  BY DEF Count, mainvars
<1>2. /\ mpc = "round" /\ t \notin M
      /\ \A q \in {r} : Merged(q)' = M \cup {t}
      /\ \A q \in Roles : q # r => Merged(q)' = Merged(q)
  BY <1>1, CountKeepsInv DEF Merged
<1>3. /\ r \in Roles /\ Calls(t) = Share(r) /\ Share(r) \in Nat /\ n \in Nat
      /\ num \in [Roles -> Nat]
  BY <1>2, ThreadFacts
<1>4. /\ num'[r] = n + Share(r)
      /\ \A q \in Roles : q # r => num'[q] = num[q]
      /\ \A q \in Roles : Share(q)' = Share(q)
  BY <1>1, <1>3 DEF Share
<1>5. /\ DOMAIN tpc' = DOMAIN tpc
      /\ \A u \in DOMAIN tpc : tpc'[u] # "count"
  BY <1>1 DEF RoundInv, LockInv, Types
<1>6. IsFiniteSet(M) /\ Cardinality(M) \in Nat
  <2>1. M \in SUBSET DOMAIN tpc /\ IsFiniteSet(DOMAIN tpc)
    BY DEF Merged, RoundInv, Types
  <2> QED  BY <2>1, FS_Subset, FS_CardinalityType
<1>7. num'[r] = Share(r) * Cardinality(M \cup {t})
  <2>1. Cardinality(M \cup {t}) = Cardinality(M) + 1
    BY <1>2, <1>6, FS_AddElement
  <2>2. n = Share(r) * Cardinality(M)
    BY <1>2, <1>3 DEF MergeInv, Booked
  <2> QED  BY <1>3, <1>4, <1>6, <2>1, <2>2, Times
<1>8. ASSUME NEW p \in 0 .. Share(r) - 1
      PROVE  n + p \in 0 .. num'[r] - 1 /\ stamps[r][n + p] = Sample(k, t, p)
  BY <1>1, <1>2, <1>3, <1>4 DEF MergeInv
<1>9. /\ \A j \in 0 .. n - 1 : j \in 0 .. num'[r] - 1
      /\ \A j \in 0 .. num'[r] - 1 :
           j \in 0 .. n - 1 \/ \E p \in 0 .. Share(r) - 1 : j = n + p
  <2>1. ASSUME NEW j \in 0 .. num'[r] - 1, j \notin 0 .. n - 1
        PROVE  j - n \in 0 .. Share(r) - 1 /\ j = n + (j - n)
    BY <1>3, <1>4, <2>1
  <2> QED  BY <1>3, <1>4, <2>1
<1>10. /\ \A j \in 0 .. n - 1 : \E u \in M : \E p \in 0 .. Share(r) - 1 :
             stamps[r][j] = Sample(k, u, p)
       /\ \A u \in M : \A p \in 0 .. Share(r) - 1 :
             \E j \in 0 .. n - 1 : stamps[r][j] = Sample(k, u, p)
       /\ \A j, h \in 0 .. n - 1 : stamps[r][j] = stamps[r][h] => j = h
  BY <1>2, <1>3 DEF MergeInv, Booked
<1> HIDE DEF r, n, M
<1>11. \A j \in 0 .. num'[r] - 1 : \E u \in M \cup {t} :
         \E p \in 0 .. Share(r) - 1 : stamps[r][j] = Sample(k, u, p)
  <2> SUFFICES ASSUME NEW j \in 0 .. num'[r] - 1
               PROVE  \E u \in M \cup {t} : \E p \in 0 .. Share(r) - 1 :
                        stamps[r][j] = Sample(k, u, p)
    OBVIOUS
  <2>1. CASE j \in 0 .. n - 1
    BY <1>10, <2>1
  <2>2. CASE \E p \in 0 .. Share(r) - 1 : j = n + p
    BY <1>8, <2>2
  <2> QED  BY <1>9, <2>1, <2>2
<1>12. \A u \in M \cup {t} : \A p \in 0 .. Share(r) - 1 :
         \E j \in 0 .. num'[r] - 1 : stamps[r][j] = Sample(k, u, p)
  BY <1>8, <1>9, <1>10
<1>13. ASSUME NEW j \in 0 .. num'[r] - 1, NEW h \in 0 .. num'[r] - 1,
              stamps[r][j] = stamps[r][h]
       PROVE  j = h
  <2>1. CASE j \in 0 .. n - 1 /\ h \in 0 .. n - 1
    BY <1>10, <1>13, <2>1
  <2>2. ASSUME NEW x \in 0 .. n - 1, NEW p \in 0 .. Share(r) - 1,
               stamps[r][x] = stamps[r][n + p]
        PROVE  FALSE
    <3>1. stamps[r][n + p] = Sample(k, t, p)
      BY <1>8
    <3>2. PICK u \in M : \E o \in 0 .. Share(r) - 1 : stamps[r][x] = Sample(k, u, o)
      BY <1>10
    <3>3. PICK o \in 0 .. Share(r) - 1 : stamps[r][x] = Sample(k, u, o)
      BY <3>2
    <3>4. Sample(k, u, o) = Sample(k, t, p)
      BY <2>2, <3>1, <3>3
    <3>5. u = t
      BY <3>4, SampleFacts
    <3> QED  BY <1>2, <3>5
  <2>3. ASSUME NEW p \in 0 .. Share(r) - 1, NEW q \in 0 .. Share(r) - 1,
               stamps[r][n + p] = stamps[r][n + q]
        PROVE  p = q
    BY <1>8, <2>3, SampleFacts
  <2> QED  BY <1>9, <1>13, <2>1, <2>2, <2>3
<1>14. stamps' \in [Roles -> [0 .. NumSamples - 1 -> Record \cup {NoSample}]]
  BY <1>1, <1>2 DEF MergeInv
<1>15. ASSUME NEW q \in Roles
       PROVE  Booked(k', Share(q)', Merged(q)', num'[q], stamps'[q])
  <2>1. Share(q)' = Share(q) /\ stamps' = stamps /\ k' = k
    BY <1>1, <1>4
  <2>2. CASE q = r
    <3>1. Merged(q)' = M \cup {t}
      BY <1>2, <2>2
    <3>2. Booked(k, Share(r), M \cup {t}, num'[r], stamps[r])
      BY <1>7, <1>11, <1>12, <1>13 DEF Booked
    <3> QED  BY <2>1, <2>2, <3>1, <3>2
  <2>3. CASE q # r
    <3>1. Merged(q)' = Merged(q) /\ num'[q] = num[q]
      BY <1>2, <1>4, <2>3
    <3>2. Booked(k, Share(q), Merged(q), num[q], stamps[q])
      BY <1>2 DEF MergeInv
    <3> QED  BY <2>1, <3>1, <3>2
  <2> QED  BY <2>2, <2>3
<1> QED  BY <1>5, <1>14, <1>15 DEF MergeInv

\* In a new round nothing has been merged.
LEMMA RoundUnmerged ==
  ASSUME RoundInv, NEW n, NEW queues, Round(n, queues)
  PROVE  MergeInv'
<1> DEFINE T == Range(Order(argv.type, CurNumThreads(argv, k)))
<1>1. /\ num' = [r \in Roles |-> 0]
      /\ stamps' = [r \in Roles |-> [j \in 0 .. NumSamples - 1 |-> NoSample]]
      /\ tpc' = [t \in T |-> "none"]
  BY DEF Round
<1>2. /\ stamps' \in [Roles -> [0 .. NumSamples - 1 -> Record \cup {NoSample}]]
      /\ \A t \in DOMAIN tpc' : tpc'[t] = "none"
      /\ \A r \in Roles : num'[r] = 0
  <2> HIDE DEF T
  <2> QED  BY <1>1
<1>3. cur' \in Nat /\ argv' = argv /\ NumSamples \in Nat
  BY ArgumentFacts DEF Round, RoundInv
<1>4. ASSUME NEW r \in Roles
      PROVE  Booked(k', Share(r)', Merged(r)', num'[r], stamps'[r])
  <2>1. Merged(r)' = {} /\ num'[r] = 0
    BY <1>2 DEF Merged
  <2>2. Share(r)' \in Nat
    BY <1>3, SharesFit DEF Share
  <2> QED  BY <2>1, <2>2, FS_EmptySet DEF Booked
<1> QED  BY <1>2, <1>4 DEF MergeInv

LEMMA StepKeepsMerge == RoundInv /\ MergeInv /\ [Next]_vars => MergeInv'
<1> SUFFICES ASSUME RoundInv, MergeInv, [Next]_vars PROVE MergeInv'
  OBVIOUS
<1>1. CASE \/ RoundSQueue \/ RoundCK \/ RoundBasic \/ RoundMultiple \/ RoundRcu
           \/ RoundSpmc
  BY <1>1, RoundUnmerged
     DEF RoundSQueue, RoundCK, RoundBasic, RoundMultiple, RoundRcu, RoundSpmc
<1>2. CASE Create
  <2>1. /\ UNCHANGED <<argv, k, mpc, cur, num, stamps>>
        /\ tpc' = [tpc EXCEPT ![MyOrder[created + 1]] = "start"]
    BY <1>2 DEF Create, mergevars
  <2>2. /\ DOMAIN tpc' = DOMAIN tpc
        /\ \A t \in DOMAIN tpc : tpc'[t] = "count" => tpc[t] = "count"
    BY <2>1 DEF RoundInv, Types
  <2> QED  BY <1>2, <2>1, <2>2, CreateKeepsInv, NothingMerged
<1>3. CASE Join
  <2>1. UNCHANGED <<argv, k, mpc, cur, num, stamps, tpc>>
    BY <1>3 DEF Join, mergevars
  <2>2. \A r \in Roles : Merged(r)' = Merged(r)
    BY <2>1 DEF Merged
  <2> QED  BY <2>1, <2>2, NothingMerged
<1>4. CASE ComputeSummary \/ End
  BY <1>4 DEF ComputeSummary, End, MergeInv
<1>5. ASSUME NEW t \in DOMAIN tpc, Barrier(t) \/ Pass(t) \/ Lock(t) PROVE MergeInv'
  <2>1. UNCHANGED <<argv, k, mpc, cur, num, stamps>>
    BY <1>5 DEF Barrier, Pass, Lock, mainvars, mergevars
  <2>2. \A r \in Roles : Merged(r)' = Merged(r)
    BY <1>5, BarrierKeepsInv, PassKeepsInv, LockKeepsInv DEF Merged
  <2>3. /\ DOMAIN tpc' = DOMAIN tpc
        /\ \A u \in DOMAIN tpc : tpc'[u] = "count" => tpc[u] = "count"
    BY <1>5 DEF Barrier, Pass, Lock, RoundInv, Types
  <2> QED  BY <2>1, <2>2, <2>3, NothingMerged
<1>6. CASE \E t \in DOMAIN tpc : Thread(t)
  BY <1>5, <1>6, ThreadSteps, CopyKeepsMerge, CountKeepsMerge
<1>7. CASE UNCHANGED vars
  BY <1>7, NothingMerged DEF vars, Merged
<1> QED  BY <1>1, <1>2, <1>3, <1>4, <1>6, <1>7 DEF Next, Main, Exited

LEMMA InitMergeInv == Init => MergeInv
BY DEF Init, MergeInv

\* memcpy stays inside the global arrays, and these are still allocated, for
\* every number of samples and threads.
THEOREM MergesFit == Spec => []CopyInBounds
<1>1. RoundInv /\ MergeInv => CopyInBounds
  <2> SUFFICES ASSUME RoundInv, MergeInv, NEW t \in DOMAIN tpc, tpc[t] = "copy"
               PROVE  num[t[1]] .. num[t[1]] + Calls(t) - 1 \subseteq DOMAIN stamps[t[1]]
    BY DEF CopyInBounds
  <2>1. mpc = "round"
    BY DEF RoundInv, MainInv
  <2>2. t[1] \in Roles /\ Calls(t) = Share(t[1])
    BY <2>1, CallsByRole
  <2>3. num[t[1]] + Share(t[1]) <= NumSamples
    BY <2>1, <2>2, RoomForAll DEF MergeInv, Booked
  <2>4. DOMAIN stamps[t[1]] = 0 .. NumSamples - 1
    BY <2>1, <2>2 DEF MergeInv
  <2>5. num[t[1]] \in Nat /\ Share(t[1]) \in Nat /\ NumSamples \in Nat
    BY <2>1, ThreadFacts
  <2> QED  BY <2>2, <2>3, <2>4, <2>5
<1> QED  BY <1>1, InitRoundInv, StepKeepsRounds, InitMergeInv, StepKeepsMerge, PTL
         DEF Spec

\* No sample is merged twice, and none that has been counted is overwritten.
THEOREM EachMergedOnce == Spec => []MergedOnce
<1>1. RoundInv /\ MergeInv => MergedOnce
  <2> SUFFICES ASSUME RoundInv, MergeInv, mpc = "round", NEW r \in Roles
               PROVE  /\ \A j, h \in 0 .. num[r] - 1 :
                           stamps[r][j] = stamps[r][h] => j = h
                      /\ \A t \in DOMAIN tpc : tpc[t] = "returned" /\ t[1] = r =>
                           \A p \in 0 .. Calls(t) - 1 :
                             \E j \in 0 .. num[r] - 1 : stamps[r][j] = Sample(k, t, p)
    BY DEF MergedOnce
  <2>1. /\ \A j, h \in 0 .. num[r] - 1 : stamps[r][j] = stamps[r][h] => j = h
        /\ \A t \in Merged(r) : \A p \in 0 .. Share(r) - 1 :
             \E j \in 0 .. num[r] - 1 : stamps[r][j] = Sample(k, t, p)
    BY DEF MergeInv, Booked
  <2>2. \A t \in DOMAIN tpc : tpc[t] = "returned" /\ t[1] = r =>
          t \in Merged(r) /\ Calls(t) = Share(r)
    BY CallsByRole DEF Merged
  <2> QED  BY <2>1, <2>2
<1> QED  BY <1>1, InitRoundInv, StepKeepsRounds, InitMergeInv, StepKeepsMerge, PTL
         DEF Spec

-----------------------------------------------------------------------------
(* The report                                                              *)

\* The lines so far, one per round; case 5 never gets to a second round.
LinesInv ==
  /\ afp \in Seq(SUBSET Record)
  /\ Len(afp) = k - 1
  /\ argv.type = 5 /\ mpc \in {"next", "round"} => k = 1

\* When all threads have been joined the arrays hold all samples of the round
\* and no other.
LEMMA CollectedIsAll ==
  ASSUME RoundInv, MergeInv, AllJoined
  PROVE  Collected = SamplesOf(argv, k) /\ Collected \in SUBSET Record
<1>1. mpc = "round" /\ cur = CurNumThreads(argv, k)
  BY DEF AllJoined, RoundInv, MainInv
<1>2. ThreadsOf(argv, k) = DOMAIN tpc
  BY <1>1 DEF ThreadsOf, MyOrder, RoundInv, MainInv
<1>3. \A t \in DOMAIN tpc : /\ PerThread(argv.type, CurNumThreads(argv, k), t) = Share(t[1])
                            /\ t[1] \in Roles /\ t \in Merged(t[1])
  BY <1>1, CallsByRole, AllReturned DEF Calls, Merged
<1>4. ASSUME NEW x \in Collected PROVE x \in SamplesOf(argv, k)
  <2>1. PICK r \in Roles : \E j \in 0 .. num[r] - 1 : x = stamps[r][j]
    BY DEF Collected
  <2>2. PICK t \in Merged(r) : \E p \in 0 .. Share(r) - 1 : x = Sample(k, t, p)
    BY <1>1, <2>1 DEF MergeInv, Booked
  <2>3. t \in DOMAIN tpc /\ t[1] = r
    BY DEF Merged
  <2> QED  BY <1>2, <1>3, <2>2, <2>3 DEF SamplesOf
<1>5. ASSUME NEW x \in SamplesOf(argv, k)
      PROVE  x \in Collected /\ x \in Record
  <2>1. PICK t \in DOMAIN tpc : \E p \in 0 .. Share(t[1]) - 1 : x = Sample(k, t, p)
    BY <1>2, <1>3 DEF SamplesOf
  <2>2. PICK r \in Roles : r = t[1]
    BY <1>3
  <2>3. t \in Merged(r)
    BY <1>3, <2>2
  <2>4. PICK p \in 0 .. Share(r) - 1 : x = Sample(k, t, p)
    BY <2>1, <2>2
  <2>5. Booked(k, Share(r), Merged(r), num[r], stamps[r])
    BY <1>1 DEF MergeInv
  <2>6. \E j \in 0 .. num[r] - 1 : x = stamps[r][j]
    BY <2>3, <2>4, <2>5 DEF Booked
  <2>7. k \in Nat /\ t \in Roles \X Nat /\ Share(r) \in 0 .. NumSamples
    BY ShareFacts DEF RoundInv, Types
  <2>8. p \in Nat
    BY <2>7, BenchmarkAssumption
  <2>9. x \in Collected
    BY <2>6 DEF Collected
  <2> QED  BY <2>4, <2>7, <2>8, <2>9, SampleFacts
<1> QED  BY <1>4, <1>5

LEMMA InitLinesInv == Init => LinesInv
<1> SUFFICES ASSUME Init PROVE LinesInv
  OBVIOUS
<1>1. afp = <<>> /\ k = 1
  BY DEF Init
<1> QED  BY <1>1 DEF LinesInv

\* Only ComputeSummary writes a line.
LEMMA OthersWriteNothing ==
  ASSUME RoundInv, LinesInv, [Next]_vars
  PROVE  \/ ComputeSummary
         \/ UNCHANGED <<argv, afp, k>> /\ LinesInv'
<1>1. ASSUME NEW n, NEW queues, Round(n, queues)
      PROVE  UNCHANGED <<argv, afp, k>> /\ mpc = "next"
  BY <1>1 DEF Round
<1>2. CASE \/ RoundSQueue \/ RoundCK \/ RoundBasic \/ RoundMultiple \/ RoundRcu
           \/ RoundSpmc
  <2>1. UNCHANGED <<argv, afp, k>> /\ mpc = "next"
    BY <1>1, <1>2 DEF RoundSQueue, RoundCK, RoundBasic, RoundMultiple, RoundRcu,
                      RoundSpmc
  <2> QED  BY <2>1 DEF LinesInv
<1>3. CASE Create \/ Join \/ End
  <2>1. /\ UNCHANGED <<argv, afp, k>>
        /\ mpc' = mpc \/ mpc' = "end"
    BY <1>3 DEF Create, Join, End
  <2> QED  BY <2>1 DEF LinesInv
<1>4. CASE UNCHANGED vars
  BY <1>4 DEF vars, LinesInv
<1>5. CASE \E t \in DOMAIN tpc : Thread(t)
  <2>1. UNCHANGED mainvars
    BY <1>5, ThreadSteps DEF Barrier, Pass, Lock, Copy, Count
  <2> QED  BY <2>1 DEF mainvars, LinesInv
<1> QED  BY <1>2, <1>3, <1>4, <1>5 DEF Next, Main, Exited

\* The line ComputeSummary writes is the one that is due.
LEMMA SummaryIsDue ==
  ASSUME RoundInv, MergeInv, LinesInv, ComputeSummary
  PROVE  LinesInv' /\ [Report!Report]_(Report!vars)
<1>1. RoundInv /\ AllJoined /\ mpc = "round" /\ argv' = argv
  BY DEF ComputeSummary, AllJoined
<1>2. CASE \E r \in Roles : num[r] = 0
  <2>1. UNCHANGED <<argv, afp, k>> /\ mpc' = "crashed"
    BY <1>2 DEF ComputeSummary
  <2> QED  BY <2>1 DEF LinesInv, Report!vars
<1>3. CASE ~ \E r \in Roles : num[r] = 0
  <2>1. /\ mpc' = IF argv.type = 5 THEN "end" ELSE "next"
        /\ k' = k + 1 /\ afp' = Append(afp, Collected) /\ argv' = argv
    BY <1>3 DEF ComputeSummary
  <2>2. Collected = SamplesOf(argv, k) /\ Collected \in SUBSET Record
    BY <1>1, CollectedIsAll
  <2>3. /\ afp \in Seq(SUBSET Record) /\ Len(afp) = k - 1
        /\ k \in Nat \ {0} /\ k <= Len(argv.threads) /\ Len(argv.threads) \in Nat
        /\ argv.type = 5 => k = 1
    BY <1>1, ArgumentFacts DEF LinesInv, RoundInv, Types, MainInv
  <2>4. Len(afp) < RoundsOf(argv) /\ Len(afp) + 1 = k
    BY <2>3 DEF RoundsOf
  <2>5. LinesInv'
    <3>1. afp' \in Seq(SUBSET Record) /\ Len(afp') = Len(afp) + 1
      BY <2>1, <2>2, <2>3
    <3> QED  BY <2>1, <2>3, <3>1 DEF LinesInv
  <2>6. Report!Report
    BY <2>1, <2>2, <2>4 DEF Report!Report
  <2> QED  BY <2>5, <2>6
<1> QED  BY <1>2, <1>3

\* Every behaviour of the program is one of the benchmark as promised: a line
\* per thread count, in order, from all samples of the round and no others.
THEOREM ReportsAll == Spec => Report!Spec
<1>1. Init => Report!Init
  BY DEF Init, Report!Init
<1>2. RoundInv /\ MergeInv /\ LinesInv /\ [Next]_vars => LinesInv'
  BY OthersWriteNothing, SummaryIsDue
<1>3. RoundInv /\ MergeInv /\ LinesInv /\ [Next]_vars
        => [Report!Report]_(Report!vars)
  BY OthersWriteNothing, SummaryIsDue DEF Report!vars
<1> QED
  BY <1>1, <1>2, <1>3, InitRoundInv, StepKeepsRounds, InitMergeInv,
     StepKeepsMerge, InitLinesInv, PTL
  DEF Spec, Report!Spec

-----------------------------------------------------------------------------
(* The queues                                                              *)

\* The cases whose queues are to be drained, their queues, and the queue of the
\* p-th call of thread t.
Draining == argv.type \in {1, 2, 4, 8}

QueuesOf == IF argv.type \in {4, 8} THEN 0 .. cur - 1 ELSE {0}

QueueOf(type, c, t, p) ==
  IF type = 8 THEN IF t[1] = "enqueue" THEN p % c ELSE t[2]
  ELSE IF type = 4 THEN t[2] ELSE 0

\* The calls of the threads of role r that have gone to queue q, when thread t
\* of T has made n[t] calls.
CallsTo(type, c, T, n, r, q) ==
  {x \in T \X Nat : /\ x[1][1] = r /\ x[2] < n[x[1]]
                    /\ QueueOf(type, c, x[1], x[2]) = q}

\* One more call of t.
OneMore(n, t) == [n EXCEPT ![t] = @ + 1]

\* The queues count the calls.
Counting(type, c, T, n, Q, ins, outs) ==
  /\ ins \in [Q -> Nat] /\ outs \in [Q -> Nat]
  /\ \A q \in Q :
       /\ ins[q] = Cardinality(CallsTo(type, c, T, n, "enqueue", q))
       /\ outs[q] = Cardinality(CallsTo(type, c, T, n, "worker", q))

DrainInv ==
  Draining /\ mpc = "round" =>
    Counting(argv.type, cur, DOMAIN tpc, i, QueuesOf, put, taken)

\* Who has left its loop has made all its calls.
DoneInv ==
  mpc = "round" =>
    \A t \in DOMAIN tpc : tpc[t] \in {"copy", "count", "returned"} =>
      i[t] = Share(t[1])

LEMMA CallsFinite ==
  ASSUME NEW type, NEW c, NEW T, IsFiniteSet(T),
         NEW n \in [T -> 0 .. NumSamples], NEW r, NEW q
  PROVE  /\ IsFiniteSet(CallsTo(type, c, T, n, r, q))
         /\ Cardinality(CallsTo(type, c, T, n, r, q)) \in Nat
<1> DEFINE P == 0 .. NumSamples
<1>1. IsFiniteSet(P)
  BY BenchmarkAssumption, FS_Interval
<1>2. CallsTo(type, c, T, n, r, q) \subseteq T \X P
  <2> SUFFICES ASSUME NEW x \in T \X Nat, x[2] < n[x[1]] PROVE x \in T \X P
    BY DEF CallsTo
  <2>1. x[1] \in T /\ x[2] \in Nat /\ x = <<x[1], x[2]>>
    OBVIOUS
  <2>2. n[x[1]] \in 0 .. NumSamples
    BY <2>1
  <2>3. x[2] \in P
    BY <2>1, <2>2, BenchmarkAssumption
  <2> QED  BY <2>1, <2>3
<1> HIDE DEF P
<1>3. IsFiniteSet(T \X P)
  BY <1>1, FS_Product
<1> QED  BY <1>2, <1>3, FS_Subset, FS_CardinalityType

\* A call is one more of its role and queue, and of no other.
LEMMA OneMoreCall ==
  ASSUME NEW type, NEW c, NEW T, IsFiniteSet(T),
         NEW n \in [T -> 0 .. NumSamples], NEW t \in T, NEW m, m = OneMore(n, t)
  PROVE  \A r, q :
           /\ t[1] = r /\ QueueOf(type, c, t, n[t]) = q =>
                Cardinality(CallsTo(type, c, T, m, r, q))
                  = Cardinality(CallsTo(type, c, T, n, r, q)) + 1
           /\ t[1] # r \/ QueueOf(type, c, t, n[t]) # q =>
                CallsTo(type, c, T, m, r, q) = CallsTo(type, c, T, n, r, q)
<1> TAKE r, q
<1> DEFINE A == CallsTo(type, c, T, n, r, q)
           B == CallsTo(type, c, T, m, r, q)
           y == <<t, n[t]>>
<1>1. ASSUME NEW u \in T, NEW p \in Nat
      PROVE  p < m[u] <=> p < n[u] \/ <<u, p>> = y
  <2>1. n[u] \in Int /\ n[t] \in Int /\ m[u] = IF u = t THEN n[t] + 1 ELSE n[u]
    BY BenchmarkAssumption DEF OneMore
  <2>2. CASE u = t
    BY <2>1, <2>2
  <2>3. CASE u # t
    BY <2>1, <2>3
  <2> QED  BY <2>2, <2>3
<1>2. ASSUME NEW x \in T \X Nat
      PROVE  x[2] < m[x[1]] <=> x[2] < n[x[1]] \/ x = y
  <2>1. x[1] \in T /\ x[2] \in Nat /\ x = <<x[1], x[2]>>
    OBVIOUS
  <2> HIDE DEF y
  <2> QED  BY <1>1, <2>1
<1>3. y \in T \X Nat /\ y[1] = t /\ y[2] = n[t] /\ ~(n[t] < n[t])
  BY BenchmarkAssumption
<1>4. IsFiniteSet(A) /\ Cardinality(A) \in Nat
  BY CallsFinite
<1> HIDE DEF y
<1>5. CASE t[1] = r /\ QueueOf(type, c, t, n[t]) = q
  <2>1. B = A \cup {y}
    BY <1>2, <1>3, <1>5 DEF CallsTo
  <2>2. y \notin A
    BY <1>3 DEF CallsTo
  <2> HIDE DEF A, B
  <2>3. Cardinality(A \cup {y}) = Cardinality(A) + 1
    BY <1>4, <2>2, FS_AddElement
  <2> QED  BY <1>5, <2>1, <2>3 DEF A, B
<1>6. CASE ~(t[1] = r /\ QueueOf(type, c, t, n[t]) = q)
  <2>1. B = A
    BY <1>2, <1>3, <1>6 DEF CallsTo
  <2> QED  BY <1>4, <1>6, <2>1
<1> QED  BY <1>5, <1>6

\* What a thread does to the queues.
LEMMA QueueSteps ==
  ASSUME NEW t, Thread(t), Draining
  PROVE  \/ (Barrier(t) \/ Lock(t) \/ Copy(t) \/ Count(t)) /\ UNCHANGED queuevars
         \/ /\ Pass(t) /\ t[1] = "enqueue" /\ UNCHANGED taken
            /\ put' = [put EXCEPT ![QueueOf(argv.type, cur, t, i[t])] = @ + 1]
         \/ /\ Pass(t) /\ t[1] = "worker" /\ UNCHANGED put
            /\ taken' = [taken EXCEPT ![QueueOf(argv.type, cur, t, i[t])] = @ + 1]
<1>1. ASSUME Handler(t)
      PROVE  (Barrier(t) \/ Lock(t) \/ Copy(t) \/ Count(t)) /\ UNCHANGED queuevars
  BY <1>1 DEF Handler, Barrier, Lock, Copy, Count
<1>2. CASE enqueue_handler(t) \/ worker_handler(t)
  BY <1>1, <1>2 DEF enqueue_handler, worker_handler, Put, Take, QueueOf
<1>3. CASE bmm_enqueue_handler(t) \/ bmm_worker_handler(t)
  BY <1>1, <1>3 DEF bmm_enqueue_handler, bmm_worker_handler, Put, Take, QueueOf
<1>4. CASE enqueuemultiple_handler(t) \/ workermultiple_handler(t)
  BY <1>1, <1>4 DEF enqueuemultiple_handler, workermultiple_handler, Put, Take,
                    QueueOf
<1>5. CASE enqueuespmc_handler(t) \/ workerspmc_handler(t)
  BY <1>1, <1>5 DEF enqueuespmc_handler, workerspmc_handler, Put, Take, QueueOf
<1> QED  BY <1>2, <1>3, <1>4, <1>5
         DEF Thread, Draining, basicenqueue_handler, basicworker_handler,
             rculfenqueue_handler, rculfdequeue_handler

\* One more in a counter.
LEMMA CountUp ==
  ASSUME NEW Q, NEW f \in [Q -> Nat], NEW q, NEW g, g = OneMore(f, q)
  PROVE  g \in [Q -> Nat] /\ \A p \in Q : g[p] = IF q = p THEN f[p] + 1 ELSE f[p]
<1>1. \A p \in Q : g[p] = IF q = p THEN f[p] + 1 ELSE f[p]
  BY DEF OneMore
<1>2. DOMAIN g = Q /\ g = [p \in Q |-> g[p]]
  BY DEF OneMore
<1>3. \A p \in Q : f[p] \in Nat /\ f[p] + 1 \in Nat
  OBVIOUS
<1>4. \A p \in Q : g[p] \in Nat
  BY <1>1, <1>3
<1> QED  BY <1>1, <1>2, <1>4

\* One call and one element of its queue.
LEMMA CallCounted ==
  ASSUME NEW type, NEW c, NEW T, IsFiniteSet(T),
         NEW n \in [T -> 0 .. NumSamples], NEW t \in T, NEW m, m = OneMore(n, t),
         NEW Q, NEW ins, NEW outs, Counting(type, c, T, n, Q, ins, outs),
         NEW q, q = QueueOf(type, c, t, n[t])
  PROVE  /\ t[1] = "enqueue" =>
              Counting(type, c, T, m, Q, OneMore(ins, q), outs)
         /\ t[1] = "worker" =>
              Counting(type, c, T, m, Q, ins, OneMore(outs, q))
<1>1. \A r, p :
        /\ t[1] = r /\ QueueOf(type, c, t, n[t]) = p =>
             Cardinality(CallsTo(type, c, T, m, r, p))
               = Cardinality(CallsTo(type, c, T, n, r, p)) + 1
        /\ t[1] # r \/ QueueOf(type, c, t, n[t]) # p =>
             CallsTo(type, c, T, m, r, p) = CallsTo(type, c, T, n, r, p)
  BY OneMoreCall
<1>2. \A r, p : Cardinality(CallsTo(type, c, T, n, r, p)) \in Nat
  BY CallsFinite
<1>3. /\ ins \in [Q -> Nat] /\ outs \in [Q -> Nat]
      /\ \A p \in Q : /\ ins[p] = Cardinality(CallsTo(type, c, T, n, "enqueue", p))
                      /\ outs[p] = Cardinality(CallsTo(type, c, T, n, "worker", p))
  BY DEF Counting
<1>4. CASE t[1] = "enqueue"
  <2>1. PICK f : f = OneMore(ins, q)
    OBVIOUS
  <2>2. f \in [Q -> Nat] /\ \A p \in Q : f[p] = IF q = p THEN ins[p] + 1 ELSE ins[p]
    BY <1>3, <2>1, CountUp
  <2>3. ASSUME NEW p \in Q
        PROVE  /\ f[p] = Cardinality(CallsTo(type, c, T, m, "enqueue", p))
               /\ outs[p] = Cardinality(CallsTo(type, c, T, m, "worker", p))
    BY <1>1, <1>3, <1>4, <2>2
  <2>4. Counting(type, c, T, m, Q, f, outs)
    BY <1>3, <2>2, <2>3 DEF Counting
  <2> QED  BY <1>4, <2>1, <2>4
<1>5. CASE t[1] = "worker"
  <2>1. PICK f : f = OneMore(outs, q)
    OBVIOUS
  <2>2. f \in [Q -> Nat] /\ \A p \in Q : f[p] = IF q = p THEN outs[p] + 1 ELSE outs[p]
    BY <1>3, <2>1, CountUp
  <2>3. ASSUME NEW p \in Q
        PROVE  /\ ins[p] = Cardinality(CallsTo(type, c, T, m, "enqueue", p))
               /\ f[p] = Cardinality(CallsTo(type, c, T, m, "worker", p))
    BY <1>1, <1>3, <1>5, <2>2
  <2>4. Counting(type, c, T, m, Q, ins, f)
    BY <1>3, <2>2, <2>3 DEF Counting
  <2> QED  BY <1>5, <2>1, <2>4
<1> QED  BY <1>4, <1>5

\* A new round: empty queues and no calls.
LEMMA RoundCounted ==
  ASSUME RoundInv, NEW n, NEW queues, Round(n, queues),
         queues = IF argv.type \in {4, 8} THEN 0 .. CurNumThreads(argv, k) - 1
                  ELSE {0}
  PROVE  DrainInv' /\ DoneInv'
<1> DEFINE c == CurNumThreads(argv, k)
           T == Range(Order(argv.type, c))
<1>1. /\ cur' = c /\ argv' = argv
      /\ put' = [q \in queues |-> 0] /\ taken' = [q \in queues |-> 0]
      /\ tpc' = [t \in T |-> "none"] /\ i' = [t \in T |-> 0]
  BY DEF Round
<1>2. QueuesOf' = queues
  BY <1>1 DEF QueuesOf
<1>3. \A r, q : CallsTo(argv.type, c, T, i', r, q) = {}
  <2> HIDE DEF T, c
  <2> SUFFICES ASSUME NEW x \in T \X Nat, x[2] < i'[x[1]] PROVE FALSE
    BY DEF CallsTo
  <2>1. x[1] \in T /\ x[2] \in Nat
    OBVIOUS
  <2>2. i'[x[1]] = 0
    BY <1>1, <2>1
  <2> QED  BY <2>1, <2>2
<1>4. Counting(argv.type, c, T, i', queues, put', taken')
  <2> HIDE DEF T, c
  <2>1. \A q \in queues : put'[q] = 0 /\ taken'[q] = 0
    BY <1>1
  <2>2. put' \in [queues -> Nat] /\ taken' \in [queues -> Nat]
    BY <1>1
  <2> QED  BY <1>3, <2>1, <2>2, FS_EmptySet DEF Counting
<1> HIDE DEF T, c
<1>5. DrainInv'
  <2>1. DOMAIN tpc' = T
    BY <1>1
  <2> QED  BY <1>1, <1>2, <1>4, <2>1 DEF DrainInv
<1>6. DoneInv'
  BY <1>1 DEF DoneInv
<1> QED  BY <1>5, <1>6

\* Nothing is called: the counts stay.
LEMMA NothingCalled ==
  ASSUME DrainInv, DoneInv, UNCHANGED <<argv, mpc, cur, i, put, taken>>,
         DOMAIN tpc' = DOMAIN tpc,
         \A t \in DOMAIN tpc :
           \/ tpc'[t] \notin {"copy", "count", "returned"}
           \/ tpc'[t] = tpc[t]
           \/ i[t] = Share(t[1])
  PROVE  DrainInv' /\ DoneInv'
<1>1. Draining' = Draining /\ QueuesOf' = QueuesOf
  BY DEF Draining, QueuesOf
<1>2. \A r : Share(r)' = Share(r)
  BY DEF Share
<1>3. DrainInv'
  BY <1>1 DEF DrainInv
<1>4. DoneInv'
  BY <1>2 DEF DoneInv
<1> QED  BY <1>3, <1>4

LEMMA ThreadKeepsDrain ==
  ASSUME RoundInv, DrainInv, DoneInv, NEW t \in DOMAIN tpc, Thread(t)
  PROVE  DrainInv' /\ DoneInv'
<1>1. mpc = "round"
  BY ThreadSteps DEF Barrier, Pass, Lock, Copy, Count, RoundInv, MainInv
<1>2. t[1] \in Roles /\ Calls(t) = Share(t[1])
  BY <1>1, ThreadFacts
<1>3. UNCHANGED <<argv, mpc, cur>>
  BY ThreadSteps DEF Barrier, Pass, Lock, Copy, Count, mainvars
<1>4. DoneInv'
  <2>1. \A r : Share(r)' = Share(r)
    BY <1>3 DEF Share
  <2>2. CASE Pass(t)
    <3>1. tpc[t] = "loop" /\ tpc' = tpc /\ i' = [i EXCEPT ![t] = @ + 1]
      BY <2>2 DEF Pass
    <3>2. \A u \in DOMAIN tpc : u # t => i'[u] = i[u]
      BY <3>1 DEF RoundInv, Types
    <3> QED  BY <1>3, <2>1, <3>1, <3>2 DEF DoneInv
  <2>3. CASE Barrier(t) \/ Lock(t) \/ Copy(t) \/ Count(t)
    <3>1. i' = i /\ DOMAIN tpc' = DOMAIN tpc
      BY <2>3 DEF Barrier, Lock, Copy, Count, RoundInv, Types
    <3>2. ASSUME NEW u \in DOMAIN tpc, tpc'[u] \in {"copy", "count", "returned"}
          PROVE  tpc[u] \in {"copy", "count", "returned"} \/ i[u] = Share(u[1])
      <4>1. CASE Barrier(t)
        BY <3>2, <4>1 DEF Barrier, RoundInv, Types
      <4>2. CASE Lock(t)
        BY <1>2, <3>2, <4>2 DEF Lock, RoundInv, Types
      <4>3. CASE Copy(t) \/ Count(t)
        BY <3>2, <4>3 DEF Copy, Count, RoundInv, Types
      <4> QED  BY <2>3, <4>1, <4>2, <4>3
    <3> QED  BY <1>1, <1>3, <2>1, <3>1, <3>2 DEF DoneInv
  <2> QED  BY <2>2, <2>3, ThreadSteps
<1>5. CASE Draining
  <2>1. Counting(argv.type, cur, DOMAIN tpc, i, QueuesOf, put, taken)
    BY <1>1, <1>5 DEF DrainInv
  <2>2. UNCHANGED <<QueuesOf, Draining>>
    BY <1>3 DEF QueuesOf, Draining
  <2>3. CASE (Barrier(t) \/ Lock(t) \/ Copy(t) \/ Count(t)) /\ UNCHANGED queuevars
    <3>1. UNCHANGED <<i, put, taken>> /\ DOMAIN tpc' = DOMAIN tpc
      BY <2>3 DEF Barrier, Lock, Copy, Count, queuevars, RoundInv, Types
    <3> QED  BY <1>3, <1>4, <2>1, <2>2, <3>1 DEF DrainInv
  <2>4. CASE Pass(t)
    <3>1. i' = OneMore(i, t) /\ tpc' = tpc
      BY <2>4 DEF Pass, OneMore
    <3>2. IsFiniteSet(DOMAIN tpc) /\ i \in [DOMAIN tpc -> 0 .. NumSamples]
      BY DEF RoundInv, Types
    <3>3. PICK q : q = QueueOf(argv.type, cur, t, i[t])
      OBVIOUS
    <3>4. /\ t[1] = "enqueue" =>
               Counting(argv.type, cur, DOMAIN tpc, i', QueuesOf,
                        OneMore(put, q), taken)
          /\ t[1] = "worker" =>
               Counting(argv.type, cur, DOMAIN tpc, i', QueuesOf, put,
                        OneMore(taken, q))
      BY <2>1, <3>1, <3>2, <3>3, CallCounted
    <3>5. \/ /\ t[1] = "enqueue" /\ UNCHANGED taken
             /\ put' = OneMore(put, q)
          \/ /\ t[1] = "worker" /\ UNCHANGED put
             /\ taken' = OneMore(taken, q)
      BY <1>5, <2>4, <3>3, QueueSteps DEF OneMore, Pass, Barrier, Lock, Copy, Count
    <3>6. Counting(argv.type, cur, DOMAIN tpc, i', QueuesOf, put', taken')
      BY <3>4, <3>5
    <3> QED  BY <1>3, <1>4, <2>2, <3>1, <3>6 DEF DrainInv
  <2> QED  BY <1>5, <2>3, <2>4, QueueSteps
<1> QED  BY <1>3, <1>4, <1>5 DEF DrainInv, Draining

LEMMA StepKeepsDrain ==
  RoundInv /\ DrainInv /\ DoneInv /\ [Next]_vars => DrainInv' /\ DoneInv'
<1> SUFFICES ASSUME RoundInv, DrainInv, DoneInv, [Next]_vars
             PROVE  DrainInv' /\ DoneInv'
  OBVIOUS
<1>1. CASE \/ RoundSQueue \/ RoundCK \/ RoundBasic \/ RoundMultiple \/ RoundRcu
           \/ RoundSpmc
  BY <1>1, RoundCounted
     DEF RoundSQueue, RoundCK, RoundBasic, RoundMultiple, RoundRcu, RoundSpmc
<1>2. CASE Create
  <2>1. /\ UNCHANGED <<argv, mpc, cur, i, put, taken>>
        /\ tpc' = [tpc EXCEPT ![MyOrder[created + 1]] = "start"]
    BY <1>2 DEF Create, queuevars
  <2>2. /\ DOMAIN tpc' = DOMAIN tpc
        /\ \A t \in DOMAIN tpc : tpc'[t] = "start" \/ tpc'[t] = tpc[t]
    BY <2>1 DEF RoundInv, Types
  <2> QED  BY <2>1, <2>2, NothingCalled
<1>3. CASE Join
  <2>1. UNCHANGED <<argv, mpc, cur, i, put, taken, tpc>>
    BY <1>3 DEF Join, queuevars
  <2> QED  BY <2>1, NothingCalled
<1>4. CASE ComputeSummary \/ End
  BY <1>4 DEF ComputeSummary, End, DrainInv, DoneInv
<1>5. CASE \E t \in DOMAIN tpc : Thread(t)
  BY <1>5, ThreadKeepsDrain
<1>6. CASE UNCHANGED vars
  <2>1. UNCHANGED <<argv, mpc, cur, i, put, taken, tpc>>
    BY <1>6 DEF vars
  <2> QED  BY <2>1, NothingCalled
<1> QED  BY <1>1, <1>2, <1>3, <1>4, <1>5, <1>6 DEF Next, Main, Exited

LEMMA InitDrainInv == Init => DrainInv /\ DoneInv
BY DEF Init, DrainInv, DoneInv

\* The threads of a round, as a set.
LEMMA OrderAll ==
  ASSUME NEW type, NEW c \in Nat
  PROVE  Range(Order(type, c)) =
           IF type = 8 THEN {<<"enqueue", 0>>} \cup {"worker"} \X (0 .. c - 1)
                       ELSE Roles \X (0 .. c - 1)
<1> DEFINE T == Range(Order(type, c))
<1>1. \A j \in 1 .. Size(type, c) : Order(type, c)[j] \in T
  BY OrderFacts DEF Range
<1>2. \A t \in T : \E j \in 1 .. Size(type, c) : t = Order(type, c)[j]
  BY OrderFacts DEF Range
<1> HIDE DEF T
<1>3. CASE type = 8
  <2>1. \A j \in 1 .. c + 1 :
          Order(type, c)[j] = IF j = 1 THEN <<"enqueue", 0>> ELSE <<"worker", j - 2>>
    BY <1>3 DEF Order
  <2>2. \A t \in T : t \in {<<"enqueue", 0>>} \cup {"worker"} \X (0 .. c - 1)
    <3>1. ASSUME NEW j \in 1 .. c + 1
          PROVE  Order(type, c)[j] \in {<<"enqueue", 0>>} \cup {"worker"} \X (0 .. c - 1)
      <4>1. CASE j = 1
        BY <2>1, <4>1
      <4>2. CASE j # 1
        <5>1. j - 2 \in 0 .. c - 1
          BY <4>2
        <5>2. Order(type, c)[j] = <<"worker", j - 2>>
          BY <2>1, <4>2
        <5> QED  BY <5>1, <5>2
      <4> QED  BY <4>1, <4>2
    <3> QED  BY <1>2, <1>3, <3>1 DEF Size
  <2>3. <<"enqueue", 0>> \in T
    <3>1. 1 \in 1 .. c + 1
      OBVIOUS
    <3> QED  BY <1>1, <1>3, <2>1, <3>1 DEF Size
  <2>4. ASSUME NEW h \in 0 .. c - 1 PROVE <<"worker", h>> \in T
    <3>1. h + 2 \in 1 .. c + 1 /\ h + 2 # 1 /\ (h + 2) - 2 = h
      OBVIOUS
    <3>2. Order(type, c)[h + 2] = <<"worker", h>>
      BY <2>1, <3>1
    <3> QED  BY <1>1, <1>3, <3>1, <3>2 DEF Size
  <2>5. \A t \in {"worker"} \X (0 .. c - 1) : t \in T
    BY <2>4
  <2> QED  BY <1>3, <2>2, <2>3, <2>5 DEF T
<1>4. CASE type # 8
  <2>1. \A j \in 1 .. 2 * c :
          Order(type, c)[j] = IF j % 2 = 1 THEN <<"enqueue", j \div 2>>
                                           ELSE <<"worker", j \div 2 - 1>>
    BY <1>4 DEF Order
  <2>2. \A t \in T : t \in Roles \X (0 .. c - 1)
    <3>1. ASSUME NEW j \in 1 .. 2 * c
          PROVE  Order(type, c)[j] \in Roles \X Nat /\ Order(type, c)[j][2] \in 0 .. c - 1
      BY <1>4, OrderFacts DEF Size
    <3>2. ASSUME NEW t \in Roles \X Nat, t[2] \in 0 .. c - 1
          PROVE  t \in Roles \X (0 .. c - 1)
      BY <3>2
    <3> QED  BY <1>2, <1>4, <3>1, <3>2 DEF Size
  <2>3. ASSUME NEW h \in 0 .. c - 1
        PROVE  <<"enqueue", h>> \in T /\ <<"worker", h>> \in T
    <3>1. /\ 2 * h + 1 \in 1 .. 2 * c /\ (2 * h + 1) % 2 = 1 /\ (2 * h + 1) \div 2 = h
          /\ 2 * h + 2 \in 1 .. 2 * c /\ (2 * h + 2) % 2 # 1
          /\ (2 * h + 2) \div 2 - 1 = h
      OBVIOUS
    <3>2. PICK j \in 1 .. 2 * c : j % 2 = 1 /\ j \div 2 = h
      BY <3>1
    <3>3. PICK g \in 1 .. 2 * c : g % 2 # 1 /\ g \div 2 - 1 = h
      BY <3>1
    <3>4. Order(type, c)[j] = <<"enqueue", j \div 2>>
      BY <2>1, <3>2
    <3>5. Order(type, c)[g] = <<"worker", g \div 2 - 1>>
      BY <2>1, <3>3
    <3> QED  BY <1>1, <1>4, <3>2, <3>3, <3>4, <3>5 DEF Size
  <2>4. ASSUME NEW t \in Roles \X (0 .. c - 1) PROVE t \in T
    <3>1. t = <<"enqueue", t[2]>> \/ t = <<"worker", t[2]>>
      BY DEF Roles
    <3>2. t[2] \in 0 .. c - 1
      OBVIOUS
    <3> QED  BY <2>3, <3>1, <3>2
  <2> QED  BY <1>4, <2>2, <2>4 DEF T
<1> QED  BY <1>3, <1>4

\* A set with a one-to-one map into another has no more elements.
LEMMA FitsInto ==
  ASSUME NEW A, NEW B, IsFiniteSet(B), NEW f \in [A -> B],
         \A x, y \in A : f[x] = f[y] => x = y
  PROVE  Cardinality(A) <= Cardinality(B)
<1>1. f \in Injection(A, B)
  BY DEF Injection, IsInjective
<1> QED  BY <1>1, FS_Injection

\* As many threads on both sides with as many calls each: no more calls of one
\* role to a queue than of the other.
LEMMA SidesMatch ==
  ASSUME NEW type \in {1, 2, 4}, NEW c \in Nat, NEW T, T = Roles \X (0 .. c - 1),
         IsFiniteSet(T), NEW n \in [T -> 0 .. NumSamples],
         NEW m, \A t \in T : n[t] = m, NEW r \in Roles, NEW s \in Roles, NEW q
  PROVE  Cardinality(CallsTo(type, c, T, n, r, q))
           <= Cardinality(CallsTo(type, c, T, n, s, q))
<1> DEFINE A == CallsTo(type, c, T, n, r, q)
           B == CallsTo(type, c, T, n, s, q)
           f == [x \in A |-> <<<<s, x[1][2]>>, x[2]>>]
<1>1. ASSUME NEW x \in A
      PROVE  f[x] \in B /\ x = <<<<r, x[1][2]>>, x[2]>>
  <2>1. /\ x \in T \X Nat /\ x[1][1] = r /\ x[2] < n[x[1]]
        /\ QueueOf(type, c, x[1], x[2]) = q
    BY DEF CallsTo
  <2>2. x[1] \in T /\ x[2] \in Nat /\ x = <<x[1], x[2]>>
    BY <2>1
  <2>3. x[1][2] \in 0 .. c - 1 /\ x[1] = <<x[1][1], x[1][2]>>
    BY <2>2
  <2>4. PICK h, p : h = x[1][2] /\ p = x[2]
    OBVIOUS
  <2>5. <<s, h>> \in T /\ n[<<s, h>>] = m /\ p < m /\ p \in Nat
    BY <2>1, <2>2, <2>3, <2>4
  <2>6. QueueOf(type, c, <<s, h>>, p) = q
    BY <2>1, <2>4 DEF QueueOf
  <2>7. <<<<s, h>>, p>> \in B
    BY <2>5, <2>6 DEF CallsTo
  <2> QED  BY <2>1, <2>2, <2>3, <2>4, <2>7
<1>2. IsFiniteSet(B)
  BY CallsFinite
<1> HIDE DEF A, B
<1>3. f \in [A -> B]
  BY <1>1
<1>4. ASSUME NEW x \in A, NEW y \in A, f[x] = f[y] PROVE x = y
  <2>1. <<<<s, x[1][2]>>, x[2]>> = <<<<s, y[1][2]>>, y[2]>>
    BY <1>4
  <2>2. x[1][2] = y[1][2] /\ x[2] = y[2]
    BY <2>1
  <2> QED  BY <1>1, <2>2
<1> HIDE DEF f
<1>5. Cardinality(A) <= Cardinality(B)
  BY <1>2, <1>3, <1>4, FitsInto
<1> QED  BY <1>5 DEF A, B

\* Quotients and remainders.
LEMMA SameQuotient ==
  ASSUME NEW c \in Nat \ {0}, NEW p \in Nat, NEW g \in Nat,
         p \div c = g \div c, p % c = g % c
  PROVE  p = g
<1>1. p = c * (p \div c) + (p % c) /\ g = c * (g \div c) + (g % c)
  OBVIOUS
<1> QED  BY <1>1

LEMMA QuotientOrder ==
  ASSUME NEW N \in Nat, NEW c \in Nat \ {0}, NEW p \in Nat, p < N
  PROVE  p \div c \in Nat /\ p \div c <= N \div c
<1>1. PICK a \in Nat, b \in Nat : a = p \div c /\ b = N \div c
  OBVIOUS
<1>2. a * c <= p /\ N < b * c + c
  BY <1>1
<1>3. a * c < b * c + c
  BY <1>2
<1>4. ASSUME a >= b + 1 PROVE FALSE
  <2>1. a * c >= (b + 1) * c
    BY <1>4
  <2>2. (b + 1) * c = b * c + c
    OBVIOUS
  <2> QED  BY <1>3, <2>1, <2>2
<1> QED  BY <1>1, <1>4

LEMMA SameMultiple ==
  ASSUME NEW c \in Nat \ {0}, NEW q \in Nat, NEW h \in Nat, NEW g \in Nat,
         h * c + q = g * c + q
  PROVE  h = g
<1>1. h * c = g * c
  <2>1. h * c \in Nat /\ g * c \in Nat
    OBVIOUS
  <2> QED  BY <2>1
<1>2. ASSUME NEW a \in Nat, NEW b \in Nat, a * c = b * c, a > b PROVE FALSE
  <2>1. a * c >= (b + 1) * c
    BY <1>2
  <2>2. (b + 1) * c = b * c + c /\ b * c \in Nat
    OBVIOUS
  <2> QED  BY <1>2, <2>1, <2>2
<1> QED  BY <1>1, <1>2

LEMMA Quotients ==
  ASSUME NEW N \in Nat, NEW c \in Nat \ {0}, NEW q \in 0 .. c - 1
  PROVE  /\ N \div c \in Nat
         /\ \A h \in Nat : h < N \div c =>
              /\ h * c + q \in Nat /\ h * c + q < N
              /\ (h * c + q) % c = q
<1>1. ASSUME NEW p \in Nat
      PROVE  /\ p \div c \in Nat /\ p % c \in 0 .. c - 1
             /\ p = c * (p \div c) + (p % c)
  OBVIOUS
<1>2. ASSUME NEW h \in Nat, h < N \div c
      PROVE  /\ h * c + q \in Nat /\ h * c + q < N
             /\ (h * c + q) % c = q
  <2>1. PICK m \in Nat : m = N \div c
    BY <1>1
  <2>2. N >= m * c
    BY <1>1, <2>1
  <2>3. (h + 1) * c <= m * c
    BY <1>2, <2>1
  <2>4. (h + 1) * c = h * c + c /\ h * c \in Nat
    OBVIOUS
  <2>5. h * c + q \in Nat /\ h * c + q < N
    BY <2>2, <2>3, <2>4
  <2>6. (h * c + q) % c = q
    OBVIOUS
  <2> QED  BY <2>5, <2>6
<1> QED  BY <1>1, <1>2

\* The only producer deals its elements out in turn: a queue gets as many as its
\* worker takes, or one more.
LEMMA DealtOut ==
  ASSUME NEW c \in Nat \ {0}, NEW T,
         T = {<<"enqueue", 0>>} \cup {"worker"} \X (0 .. c - 1), IsFiniteSet(T),
         NEW n \in [T -> 0 .. NumSamples], n[<<"enqueue", 0>>] = NumSamples,
         \A h \in 0 .. c - 1 : n[<<"worker", h>>] = NumSamples \div c,
         NEW q \in 0 .. c - 1
  PROVE  /\ Cardinality(CallsTo(8, c, T, n, "worker", q))
              <= Cardinality(CallsTo(8, c, T, n, "enqueue", q))
         /\ Cardinality(CallsTo(8, c, T, n, "enqueue", q))
              <= Cardinality(CallsTo(8, c, T, n, "worker", q)) + 1
<1> DEFINE A == CallsTo(8, c, T, n, "enqueue", q)
           B == CallsTo(8, c, T, n, "worker", q)
           e == <<"enqueue", 0>>
           w == <<"worker", q>>
           y == <<w, NumSamples \div c>>
<1>1. NumSamples \in Nat /\ e \in T /\ w \in T
  BY BenchmarkAssumption
<1>2. IsFiniteSet(A) /\ IsFiniteSet(B) /\ Cardinality(B) \in Nat
  BY CallsFinite
<1>3. ASSUME NEW x \in A
      PROVE  /\ x = <<e, x[2]>> /\ x[2] \in Nat /\ x[2] < NumSamples /\ x[2] % c = q
  <2>1. /\ x \in T \X Nat /\ x[1][1] = "enqueue" /\ x[2] < n[x[1]]
        /\ QueueOf(8, c, x[1], x[2]) = q
    BY DEF CallsTo
  <2>2. x[1] = e
    BY <2>1
  <2>3. x[2] % c = q
    BY <2>1 DEF QueueOf
  <2> QED  BY <2>1, <2>2, <2>3
<1>4. ASSUME NEW x \in B
      PROVE  x = <<w, x[2]>> /\ x[2] \in Nat /\ x[2] < NumSamples \div c
  <2>1. /\ x \in T \X Nat /\ x[1][1] = "worker" /\ x[2] < n[x[1]]
        /\ QueueOf(8, c, x[1], x[2]) = q
    BY DEF CallsTo
  <2>2. x[1] \in {"worker"} \X (0 .. c - 1) /\ x[1][2] = q
    BY <2>1 DEF QueueOf
  <2>3. x[1] = w
    BY <2>2
  <2> QED  BY <2>1, <2>3
<1>5. ASSUME NEW p \in Nat, p < NumSamples, p % c = q PROVE <<e, p>> \in A
  BY <1>1, <1>5 DEF CallsTo, QueueOf
<1>6. ASSUME NEW p \in Nat, p < NumSamples \div c PROVE <<w, p>> \in B
  BY <1>1, <1>6 DEF CallsTo, QueueOf
<1> HIDE DEF A, B, e, w
<1>7. Cardinality(B) <= Cardinality(A)
  <2> DEFINE f == [x \in B |-> <<e, x[2] * c + q>>]
  <2>1. \A x \in B : f[x] \in A
    BY <1>1, <1>4, <1>5, Quotients
  <2>2. f \in [B -> A]
    <3> HIDE DEF A, B
    <3> QED  BY <2>1
  <2>3. ASSUME NEW x \in B, NEW z \in B, f[x] = f[z] PROVE x = z
    <3>1. x[2] * c + q = z[2] * c + q
      BY <2>3
    <3>2. q \in Nat /\ x[2] \in Nat /\ z[2] \in Nat
      BY <1>4
    <3>3. x[2] = z[2]
      BY <3>1, <3>2, SameMultiple
    <3> QED  BY <1>4, <3>3
  <2> HIDE DEF f
  <2> QED  BY <1>2, <2>2, <2>3, FitsInto
<1>8. y \notin B /\ IsFiniteSet(B \cup {y}) /\ Cardinality(B \cup {y}) = Cardinality(B) + 1
  <2>1. y \notin B
    <3> SUFFICES ASSUME y \in B PROVE FALSE
      OBVIOUS
    <3>1. y[2] < NumSamples \div c /\ y[2] = NumSamples \div c
      BY <1>4
    <3>2. NumSamples \div c \in Nat
      BY <1>1, Quotients
    <3> QED  BY <3>1, <3>2
  <2> HIDE DEF y
  <2> QED  BY <1>2, <2>1, FS_AddElement
<1>9. Cardinality(A) <= Cardinality(B \cup {y})
  <2> DEFINE f == [x \in A |-> <<w, x[2] \div c>>]
  <2>1. ASSUME NEW x \in A PROVE f[x] \in B \cup {y}
    <3>1. PICK z \in Nat : z = x[2] /\ z < NumSamples
      BY <1>3
    <3>2. z \div c \in Nat /\ z \div c <= NumSamples \div c
      BY <1>1, <3>1, QuotientOrder
    <3>3. NumSamples \div c \in Nat
      BY <1>1, Quotients
    <3>4. z \div c < NumSamples \div c \/ z \div c = NumSamples \div c
      BY <3>2, <3>3
    <3> QED  BY <1>6, <3>1, <3>2, <3>4
  <2>2. f \in [A -> B \cup {y}]
    <3> HIDE DEF y
    <3> QED  BY <2>1
  <2>3. ASSUME NEW x \in A, NEW z \in A, f[x] = f[z] PROVE x = z
    <3>1. x[2] \div c = z[2] \div c
      BY <2>3
    <3>2. PICK g \in Nat, h \in Nat :
            g = x[2] /\ h = z[2] /\ g % c = q /\ h % c = q /\ g \div c = h \div c
      BY <1>3, <3>1
    <3>3. g = h
      BY <3>2, SameQuotient
    <3> QED  BY <1>3, <3>2, <3>3
  <2> HIDE DEF f, y
  <2> QED  BY <1>8, <2>2, <2>3, FitsInto
<1> QED  BY <1>7, <1>8, <1>9 DEF A, B

\* When the round ends every queue that a worker waits for is drained, whatever
\* the order of the calls: nothing is left, or at most the element that the only
\* producer had put beyond the last worker's share.
THEOREM AllDrained == Spec => []QueuesDrained
<1>1. RoundInv /\ DrainInv /\ DoneInv => QueuesDrained
  <2> SUFFICES ASSUME RoundInv, DrainInv, DoneInv, AllJoined, Draining
               PROVE  /\ argv.type \in {1, 2, 4} => put = taken
                      /\ argv.type = 8 =>
                           \A q \in DOMAIN put : put[q] - taken[q] \in {0, 1}
    BY DEF QueuesDrained, Draining
  <2> DEFINE T == DOMAIN tpc
             In(q) == Cardinality(CallsTo(argv.type, cur, T, i, "enqueue", q))
             Out(q) == Cardinality(CallsTo(argv.type, cur, T, i, "worker", q))
  <2>1. mpc = "round" /\ \A t \in T : tpc[t] = "returned"
    BY AllReturned DEF AllJoined
  <2>2. \A t \in T : i[t] = Share(t[1])
    BY <2>1 DEF DoneInv
  <2>3. /\ put \in [QueuesOf -> Nat] /\ taken \in [QueuesOf -> Nat]
        /\ \A q \in QueuesOf : put[q] = In(q) /\ taken[q] = Out(q)
    BY <2>1 DEF DrainInv, Counting
  <2>4. /\ cur \in Nat /\ IsFiniteSet(T) /\ i \in [T -> 0 .. NumSamples]
        /\ T = Range(Order(argv.type, cur))
    BY <2>1 DEF RoundInv, Types, MainInv, MyOrder
  <2>5. \A q : In(q) \in Nat /\ Out(q) \in Nat
    BY <2>4, CallsFinite
  <2>6. CASE argv.type \in {1, 2, 4}
    <3>1. T = Roles \X (0 .. cur - 1)
      BY <2>4, <2>6, OrderAll
    <3>2. Share("enqueue") = Share("worker")
      BY <2>6 DEF Share
    <3>3. \A t \in T : i[t] = Share("worker")
      BY <2>2, <3>1, <3>2 DEF Roles
    <3>4. \A q : In(q) <= Out(q) /\ Out(q) <= In(q)
      BY <2>4, <2>6, <3>1, <3>3, SidesMatch DEF Roles
    <3>5. \A q : In(q) = Out(q)
      <4> HIDE DEF In, Out
      <4> QED  BY <2>5, <3>4
    <3>6. \A q \in QueuesOf : put[q] = taken[q]
      BY <2>3, <3>5
    <3>7. put = taken
      BY <2>3, <3>6
    <3> QED  BY <2>6, <3>7
  <2>7. CASE argv.type = 8
    <3> SUFFICES ASSUME NEW q \in QueuesOf PROVE put[q] - taken[q] \in {0, 1}
      BY <2>3, <2>7
    <3>1. cur \in Nat \ {0} /\ q \in 0 .. cur - 1
      BY <2>4, <2>7 DEF QueuesOf
    <3>2. T = {<<"enqueue", 0>>} \cup {"worker"} \X (0 .. cur - 1)
      BY <2>4, <2>7, OrderAll
    <3>3. Share("enqueue") = NumSamples /\ Share("worker") = NumSamples \div cur
      BY <2>7, <3>1 DEF Share
    <3>4. i[<<"enqueue", 0>>] = NumSamples
      BY <2>2, <3>2, <3>3
    <3>5. \A h \in 0 .. cur - 1 : i[<<"worker", h>>] = NumSamples \div cur
      BY <2>2, <3>2, <3>3
    <3>6. Out(q) <= In(q) /\ In(q) <= Out(q) + 1
      BY <2>4, <2>7, <3>1, <3>2, <3>4, <3>5, DealtOut
    <3>7. put[q] = In(q) /\ taken[q] = Out(q) /\ In(q) \in Nat /\ Out(q) \in Nat
      BY <2>3, <2>5
    <3> HIDE DEF In, Out
    <3> QED  BY <3>6, <3>7
  <2> QED  BY <2>6, <2>7 DEF Draining
<1> QED  BY <1>1, InitRoundInv, StepKeepsRounds, InitDrainInv, StepKeepsDrain, PTL
         DEF Spec

-----------------------------------------------------------------------------
(* The lock-free queue at its pace: the inductive invariant                *)

PushPlaces == {"idle", "tail", "node", "next", "check", "node_again", "link", "swing"}
PopPlaces ==
  {"idle", "tail", "tmp_node", "tmp", "next_node", "next", "compare", "value",
   "free_entry", "last_node", "move_entry", "old_tail", "move_tail", "free_cell",
   "swing_node", "succ", "unlink", "free_both"}
Elsewhere == {"help", "undefined"}

\* Types, where the threads are, and that who is in a call has one left.
TypesInv ==
  /\ QueueTypeOK
  /\ pc \in [Threads -> PushPlaces \cup PopPlaces \cup Elsewhere]
  /\ \A p \in Pushers : pc[p] \in PushPlaces \cup Elsewhere
  /\ \A g \in Poppers : pc[g] \in PopPlaces \cup Elsewhere
  /\ \A p \in Pushers : pc[p] \notin {"idle", "undefined"} => puts[p] < MyLimit
  /\ \A g \in Poppers :
       /\ Len(got[g]) <= MyLimit
       /\ pc[g] \notin {"idle", "undefined"} => Len(got[g]) < MyLimit

\* Sequences of items that are all different; the items of one, with NULL behind
\* the last; and that the next fields nx lead from `first` through all of it.
Items == {L \in Seq(Item) : IsInjective(L)}
ItemAt(L, j) == IF j \in 1 .. Len(L) THEN L[j] ELSE Null
Leads(nx, first, L) ==
  first = ItemAt(L, 1) /\ \A j \in 1 .. Len(L) : nx[L[j]] = ItemAt(L, j + 1)

\* The cell of the last item, and the node that this cell points to.
LastCell(L) == IF L = <<>> THEN Entry ELSE L[Len(L)]
LastNode(L) == IF L = <<>> THEN entry ELSE L[Len(L)]

\* The items whose nodes have been linked.
PutCount(p) == IF Linked(p) THEN puts[p] + 1 ELSE puts[p]
Pushed == {x \in Item : x[2] <= PutCount(x[1])}

\* The item that a pop has unlinked and not yet freed.
Kept == {seenNext[g] : g \in {h \in Poppers : pc[h] = "free_both"}}

\* One call of each kind at a time.
OneEach ==
  /\ \A p, q \in Pushers : pc[p] # "idle" /\ pc[q] # "idle" => p = q
  /\ \A g, h \in Poppers : pc[g] # "idle" /\ pc[h] # "idle" => g = h

\* The chain C behind the entry node: what is in it has not been freed, nor has the
\* entry, but for a pop that is about to replace it.
ChainInv(C) ==
  /\ Leads(next, next[entry], C)
  /\ entry \notin Range(C)
  /\ freedNodes \cap Range(C) = {} /\ freedCells \cap Range(C) = {}
  /\ entry \in freedNodes => \E g \in Poppers : pc[g] \in {"last_node", "move_entry"}

\* No item is linked before its push, and those that have been are in the chain,
\* the entry, freed or about to be.
PushedInv(C) ==
  /\ Range(C) \subseteq Pushed /\ entry \in Pushed \cup {Entry}
  /\ freedNodes \subseteq Pushed \cup {Entry} /\ freedCells \subseteq Pushed
  /\ \A x \in Item \ Pushed : next[x] = Null
  /\ Pushed \subseteq freedNodes \cup {entry} \cup Range(C) \cup Kept

\* Tail is the last cell, but while it is about to be moved.
TailInv(C) ==
  \/ \E p \in Pushers : pc[p] = "swing"
  \/ \E g \in Poppers : pc[g] \in {"old_tail", "move_tail"}
  \/ tail = LastCell(C)

\* What push p has seen is still so.
PushFacts(C, p) ==
  /\ pc[p] \in PushPlaces
  /\ pc[p] \in {"node", "next", "check", "node_again", "link"} =>
       seenTail[p] = LastCell(C)
  /\ pc[p] \in {"next", "link"} => node[p] = LastNode(C)
  /\ pc[p] = "check" => seenNext[p] = Null
  /\ pc[p] = "swing" =>
       /\ C # <<>> /\ C[Len(C)] = New(p) /\ tail = seenTail[p]
       /\ Len(C) >= 2 => tail = C[Len(C) - 1]

\* There are two items or more while a push and a pop are both under way.
ApartInv(C) ==
  \A g \in Poppers : pc[g] \notin {"idle", "free_both"} =>
    \A p \in Pushers : pc[p] # "idle" => Len(C) >= 2

\* What pop g has seen is still so: of what is in the chain, ...
PopFacts(C, g) ==
  /\ pc[g] \in PopPlaces
  /\ pc[g] \notin {"idle", "tail", "old_tail", "move_tail", "free_cell", "free_both"} =>
       C # <<>>
  /\ pc[g] \in {"tmp_node", "tmp", "next_node", "next", "compare"} =>
       seenTail[g] \in Range(C)
  /\ pc[g] \in {"tmp", "next", "succ", "unlink", "move_entry"} => node[g] = entry
  /\ pc[g] \in {"next_node", "next", "compare", "value", "swing_node", "succ", "unlink"} =>
       tmp[g] = C[1]
  /\ pc[g] \in {"compare", "value", "swing_node", "succ", "unlink", "free_entry",
                "last_node", "move_entry"} => seenNext[g] = C[1]
  /\ pc[g] \in {"swing_node", "succ", "unlink"} => Len(C) >= 2
  /\ pc[g] = "unlink" => succ[g] = C[2]
  /\ pc[g] \in {"free_entry", "last_node", "move_entry"} => Len(C) = 1

\* ... and of what is no longer, or about to leave it.
GoneFacts(C, g) ==
  /\ pc[g] \in {"last_node", "move_entry"} => entry \in freedNodes
  /\ pc[g] \in {"old_tail", "move_tail", "free_cell"} =>
       C = <<>> /\ seenNext[g] = entry /\ entry \in Item \ freedCells
  /\ pc[g] = "move_tail" => seenTail[g] = tail
  /\ pc[g] = "free_both" =>
       seenNext[g] \in Pushed \ (freedNodes \cup freedCells \cup Range(C) \cup {entry})

PushInv(C) == \A p \in Pushers : PushFacts(C, p)
PopInv(C)  == \A g \in Poppers : PopFacts(C, g) /\ GoneFacts(C, g)

PacedInv(C) ==
  /\ OneEach
  /\ ChainInv(C) /\ PushedInv(C) /\ TailInv(C)
  /\ ApartInv(C) /\ PushInv(C) /\ PopInv(C)

LockFreeInv == TypesInv /\ (paced => \E C \in Items : PacedInv(C))

-----------------------------------------------------------------------------
(* Chains                                                                  *)

NextFields == [Cell -> Item \cup {Null}]

LEMMA BelowLast ==
  ASSUME NEW a \in Nat, NEW b \in 1 .. a, b # a
  PROVE  b \in 1 .. a - 1 /\ b + 1 \in 1 .. a
OBVIOUS

LEMMA ItemsFacts ==
  ASSUME NEW L \in Items
  PROVE  /\ L \in Seq(Item) /\ Len(L) \in Nat /\ DOMAIN L = 1 .. Len(L)
         /\ \A j \in 1 .. Len(L) :
              /\ L[j] \in Item /\ L[j] # Null /\ L[j] # Entry /\ L[j] \in Cell
              /\ ItemAt(L, j) = L[j] /\ L[j] \in Range(L)
         /\ ItemAt(L, Len(L) + 1) = Null
         /\ \A j, h \in 1 .. Len(L) : L[j] = L[h] => j = h
         /\ Range(L) \subseteq Item
         /\ L = <<>> <=> Len(L) = 0
<1>1. /\ L \in Seq(Item) /\ Len(L) \in Nat /\ DOMAIN L = 1 .. Len(L)
      /\ IsInjective(L)
  BY DEF Items
<1>2. \A j \in 1 .. Len(L) : L[j] \in Item
  BY <1>1
<1>3. /\ \A x \in Item : x # Null /\ x # Entry /\ x \in Cell
  BY LockFreeAssumption DEF Cell
<1>4. \A j \in 1 .. Len(L) : ItemAt(L, j) = L[j] /\ L[j] \in Range(L)
  BY <1>1 DEF ItemAt, Range
<1>5. ItemAt(L, Len(L) + 1) = Null
  BY <1>1 DEF ItemAt
<1>6. \A j, h \in 1 .. Len(L) : L[j] = L[h] => j = h
  BY <1>1 DEF IsInjective
<1>7. Range(L) \subseteq Item
  BY <1>1, <1>2 DEF Range
<1>8. L = <<>> <=> Len(L) = 0
  BY <1>1
<1> QED  BY <1>1, <1>2, <1>3, <1>4, <1>5, <1>6, <1>7, <1>8

LEMMA NoItems ==
  /\ <<>> \in Items /\ Range(<<>>) = {} /\ Len(<<>>) = 0
  /\ \A nx, first : Leads(nx, first, <<>>) <=> first = Null
<1>1. <<>> \in Seq(Item) /\ Len(<<>>) = 0 /\ DOMAIN <<>> = {}
  OBVIOUS
<1>2. \A nx, first : Leads(nx, first, <<>>) <=> first = Null
  BY <1>1 DEF Leads, ItemAt
<1> QED  BY <1>1, <1>2 DEF Items, IsInjective, Range

\* Where the fields lead, item by item.
LEMMA LeadsFacts ==
  ASSUME NEW L \in Items, NEW nx, NEW first, Leads(nx, first, L)
  PROVE  /\ L = <<>> <=> first = Null
         /\ L # <<>> => first = L[1] /\ nx[L[Len(L)]] = Null
         /\ Len(L) = 1 => nx[L[1]] = Null
         /\ Len(L) >= 2 => nx[L[1]] = L[2] /\ L[2] # Null
<1>1. /\ Len(L) \in Nat /\ \A j \in 1 .. Len(L) : L[j] # Null /\ ItemAt(L, j) = L[j]
      /\ ItemAt(L, Len(L) + 1) = Null /\ (L = <<>> <=> Len(L) = 0)
  BY ItemsFacts
<1>2. first = ItemAt(L, 1) /\ \A j \in 1 .. Len(L) : nx[L[j]] = ItemAt(L, j + 1)
  BY DEF Leads
<1>3. CASE Len(L) = 0
  BY <1>1, <1>2, <1>3 DEF ItemAt
<1>4. CASE Len(L) > 0
  <2>1. 1 \in 1 .. Len(L) /\ Len(L) \in 1 .. Len(L)
    BY <1>1, <1>4
  <2>2. first = L[1] /\ nx[L[Len(L)]] = Null /\ L # <<>> /\ first # Null
    BY <1>1, <1>2, <1>4, <2>1
  <2>3. Len(L) >= 2 => nx[L[1]] = L[2] /\ L[2] # Null
    <3> SUFFICES ASSUME Len(L) >= 2 PROVE nx[L[1]] = L[2] /\ L[2] # Null
      OBVIOUS
    <3>1. 2 \in 1 .. Len(L) /\ 1 + 1 = 2
      BY <1>1
    <3> QED  BY <1>1, <1>2, <2>1, <3>1
  <2>4. Len(L) = 1 => nx[L[1]] = Null
    BY <2>2
  <2> QED  BY <2>2, <2>3, <2>4
<1> QED  BY <1>1, <1>3, <1>4

\* A new item behind the last: its node's next field is the one written.
Linking(L, nx, e, x, mx, M) ==
  /\ nx \in NextFields /\ e \in Cell /\ e \notin Range(L) /\ Leads(nx, nx[e], L)
  /\ x \in Item /\ x \notin Range(L) /\ x # e /\ nx[x] = Null
  /\ mx = [nx EXCEPT ![IF L = <<>> THEN e ELSE L[Len(L)]] = x]
  /\ M = Append(L, x)

HasAppended(L, e, x, mx, M) ==
  /\ M \in Items /\ Leads(mx, mx[e], M) /\ Range(M) = Range(L) \cup {x}
  /\ Len(M) = Len(L) + 1 /\ M[Len(M)] = x /\ M # <<>>
  /\ \A j \in 1 .. Len(L) : M[j] = L[j]

LEMMA LinkAppends ==
  ASSUME NEW L \in Items, NEW nx, NEW e, NEW x, NEW mx, NEW M,
         Linking(L, nx, e, x, mx, M)
  PROVE  HasAppended(L, e, x, mx, M)
<1> USE DEF Linking, HasAppended
<1> DEFINE last == IF L = <<>> THEN e ELSE L[Len(L)]
<1>1. /\ L \in Seq(Item) /\ Len(L) \in Nat /\ DOMAIN L = 1 .. Len(L)
      /\ \A j \in 1 .. Len(L) : /\ L[j] \in Item /\ L[j] \in Cell /\ ItemAt(L, j) = L[j]
                                /\ L[j] \in Range(L) /\ L[j] # e /\ L[j] # x
      /\ ItemAt(L, Len(L) + 1) = Null
      /\ \A j, h \in 1 .. Len(L) : L[j] = L[h] => j = h
      /\ L = <<>> <=> Len(L) = 0
  BY ItemsFacts
<1>2. /\ M \in Seq(Item) /\ Len(M) = Len(L) + 1 /\ DOMAIN M = 1 .. Len(L) + 1
      /\ M[Len(L) + 1] = x /\ \A j \in 1 .. Len(L) : M[j] = L[j]
  BY <1>1
<1>3. \A j \in 1 .. Len(L) + 1 : j = Len(L) + 1 \/ j \in 1 .. Len(L)
  BY <1>1
<1>4. M \in Items
  <2>1. \A a, b \in 1 .. Len(L) + 1 : M[a] = M[b] => a = b
    BY <1>1, <1>2, <1>3
  <2> QED  BY <1>2, <2>1 DEF Items, IsInjective
<1>5. Range(M) = Range(L) \cup {x}
  <2>1. Len(L) + 1 \in 1 .. Len(L) + 1 /\ \A j \in 1 .. Len(L) : j \in 1 .. Len(L) + 1
    BY <1>1
  <2> QED  BY <1>1, <1>2, <1>3, <2>1 DEF Range
<1>6. /\ mx[last] = x /\ \A c \in Cell : c # last => mx[c] = nx[c]
      /\ last \in Cell /\ x \in Cell /\ last # x
  <2>1. last \in Cell /\ last # x
    <3>1. CASE L = <<>>
      BY <3>1
    <3>2. CASE L # <<>>
      <4>1. Len(L) \in 1 .. Len(L)
        BY <1>1, <3>2
      <4> QED  BY <1>1, <3>2, <4>1
    <3> QED  BY <3>1, <3>2
  <2> QED  BY <2>1 DEF NextFields, Cell
<1>7. \A j \in 1 .. Len(L) + 1 : ItemAt(M, j) = M[j]
  BY <1>2 DEF ItemAt
<1>8. ItemAt(M, (Len(L) + 1) + 1) = Null
  BY <1>1, <1>2 DEF ItemAt
<1>9. mx[e] = ItemAt(M, 1)
  <2>1. 1 \in 1 .. Len(L) + 1
    BY <1>1
  <2>2. CASE L = <<>>
    BY <1>1, <1>2, <1>6, <1>7, <2>1, <2>2
  <2>3. CASE L # <<>>
    <3>1. 1 \in 1 .. Len(L) /\ Len(L) \in 1 .. Len(L)
      BY <1>1, <2>3
    <3>2. last # e
      BY <1>1, <2>3, <3>1
    <3>3. mx[e] = nx[e]
      BY <1>6, <3>2
    <3>4. nx[e] = L[1]
      BY <1>1, <3>1 DEF Leads
    <3> QED  BY <1>2, <1>7, <2>1, <3>1, <3>3, <3>4
  <2> QED  BY <2>2, <2>3
<1>10. ASSUME NEW j \in 1 .. Len(L) + 1
       PROVE  mx[M[j]] = ItemAt(M, j + 1)
  <2>1. CASE j = Len(L) + 1
    BY <1>2, <1>6, <1>8, <2>1
  <2>2. CASE j = Len(L)
    <3>1. Len(L) \in 1 .. Len(L) /\ L # <<>>
      BY <1>1, <1>10, <2>2
    <3>2. M[j] = last
      BY <1>2, <2>2, <3>1
    <3>3. ItemAt(M, j + 1) = x
      <4>1. j + 1 \in 1 .. Len(L) + 1
        BY <1>1, <2>2
      <4> QED  BY <1>2, <1>7, <2>2, <4>1
    <3> QED  BY <1>6, <3>2, <3>3
  <2>3. CASE j # Len(L) /\ j # Len(L) + 1
    <3>1. j \in 1 .. Len(L) /\ j + 1 \in 1 .. Len(L) /\ j + 1 \in 1 .. Len(L) + 1
      <4>1. Len(L) \in Nat /\ Len(L) + 1 \in Nat /\ (Len(L) + 1) - 1 = Len(L)
        BY <1>1
      <4>2. j \in 1 .. (Len(L) + 1) - 1 /\ j + 1 \in 1 .. Len(L) + 1
        BY <1>10, <2>3, <4>1, BelowLast
      <4>3. j \in 1 .. Len(L)
        BY <4>1, <4>2
      <4> QED  BY <2>3, <4>1, <4>2, <4>3, BelowLast
    <3>2. nx[L[j]] = L[j + 1]
      BY <1>1, <3>1 DEF Leads
    <3>3. M[j] = L[j] /\ ItemAt(M, j + 1) = L[j + 1]
      BY <1>2, <1>7, <3>1
    <3>4. L[j] # last
      <4>1. Len(L) \in 1 .. Len(L) /\ L # <<>>
        BY <1>1, <3>1
      <4> QED  BY <1>1, <2>3, <3>1, <4>1
    <3> QED  BY <1>1, <1>6, <3>1, <3>2, <3>3, <3>4
  <2> QED  BY <2>1, <2>2, <2>3
<1>11. Leads(mx, mx[e], M)
  BY <1>2, <1>9, <1>10 DEF Leads
<1> QED  BY <1>1, <1>2, <1>4, <1>5, <1>11

\* The entry led past the first of two items or more.
Unlinking(L, nx, e, mx, M) ==
  /\ nx \in NextFields /\ e \in Cell /\ e \notin Range(L) /\ Leads(nx, nx[e], L)
  /\ Len(L) >= 2 /\ mx = [nx EXCEPT ![e] = L[2]] /\ M = Tail(L)

HasDropped(L, e, mx, M) ==
  /\ M \in Items /\ Leads(mx, mx[e], M) /\ M # <<>>
  /\ Range(L) = Range(M) \cup {L[1]} /\ L[1] \notin Range(M)
  /\ Len(M) = Len(L) - 1 /\ M[Len(M)] = L[Len(L)]
  /\ Len(M) >= 2 => M[Len(M) - 1] = L[Len(L) - 1]

LEMMA UnlinkDrops ==
  ASSUME NEW L \in Items, NEW nx, NEW e, NEW mx, NEW M, Unlinking(L, nx, e, mx, M)
  PROVE  HasDropped(L, e, mx, M)
<1> USE DEF Unlinking, HasDropped
<1>1. /\ L \in Seq(Item) /\ Len(L) \in Nat /\ DOMAIN L = 1 .. Len(L)
      /\ \A j \in 1 .. Len(L) : /\ L[j] \in Item /\ L[j] \in Cell /\ ItemAt(L, j) = L[j]
                                /\ L[j] \in Range(L) /\ L[j] # e
      /\ ItemAt(L, Len(L) + 1) = Null
      /\ \A j, h \in 1 .. Len(L) : L[j] = L[h] => j = h
      /\ L # <<>> /\ 1 \in 1 .. Len(L) /\ 2 \in 1 .. Len(L)
  BY ItemsFacts
<1>2. /\ M \in Seq(Item) /\ Len(M) = Len(L) - 1 /\ DOMAIN M = 1 .. Len(L) - 1
      /\ \A j \in 1 .. Len(L) - 1 : M[j] = L[j + 1]
  BY <1>1
<1>3. /\ \A j \in 1 .. Len(L) - 1 : j + 1 \in 1 .. Len(L) /\ j + 1 # 1
      /\ Len(L) - 1 \in Nat /\ Len(L) - 1 >= 1
      /\ Len(L) - 1 \in 1 .. Len(L) - 1 /\ (Len(L) - 1) + 1 = Len(L)
      /\ 1 \in 1 .. Len(L) - 1
  BY <1>1
<1>4. M \in Items
  <2>1. ASSUME NEW a \in 1 .. Len(L) - 1, NEW b \in 1 .. Len(L) - 1, M[a] = M[b]
        PROVE  a = b
    <3>1. a + 1 = b + 1
      BY <1>1, <1>2, <1>3, <2>1
    <3> QED  BY <3>1
  <2> QED  BY <1>2, <2>1 DEF Items, IsInjective
<1>5. Range(L) = Range(M) \cup {L[1]} /\ L[1] \notin Range(M)
  <2>1. \A j \in 1 .. Len(L) : j = 1 \/ (j - 1 \in 1 .. Len(L) - 1 /\ (j - 1) + 1 = j)
    BY <1>1
  <2>2. ASSUME NEW y \in Range(L), y # L[1] PROVE y \in Range(M)
    <3>1. PICK m \in 1 .. Len(L) : y = L[m]
      BY <1>1, <2>2 DEF Range
    <3>2. m - 1 \in 1 .. Len(L) - 1 /\ M[m - 1] = y
      BY <1>2, <2>1, <2>2, <3>1
    <3> QED  BY <1>2, <3>2 DEF Range
  <2>3. ASSUME NEW y \in Range(M) PROVE y \in Range(L) /\ y # L[1]
    <3>1. PICK m \in 1 .. Len(L) - 1 : y = L[m + 1]
      BY <1>2, <2>3 DEF Range
    <3> QED  BY <1>1, <1>3, <3>1
  <2> QED  BY <1>1, <2>2, <2>3
<1>6. /\ mx[e] = L[2] /\ \A c \in Cell : c # e => mx[c] = nx[c]
  BY DEF NextFields
<1>7. \A j \in 1 .. Len(L) : ItemAt(M, j) = ItemAt(L, j + 1)
  <2>1. ASSUME NEW j \in 1 .. Len(L) PROVE ItemAt(M, j) = ItemAt(L, j + 1)
    <3>1. CASE j = Len(L)
      <4>1. j \notin 1 .. Len(M)
        BY <1>1, <1>2, <3>1
      <4> QED  BY <1>1, <3>1, <4>1 DEF ItemAt
    <3>2. CASE j # Len(L)
      <4>1. j \in 1 .. Len(L) - 1
        BY <1>1, <2>1, <3>2, BelowLast
      <4>2. ItemAt(M, j) = L[j + 1]
        BY <1>2, <4>1 DEF ItemAt
      <4> QED  BY <1>1, <1>3, <4>1, <4>2
    <3> QED  BY <3>1, <3>2
  <2> QED  BY <2>1
<1>8. mx[e] = ItemAt(M, 1)
  BY <1>2, <1>3, <1>6 DEF ItemAt
<1>9. ASSUME NEW j \in 1 .. Len(M) PROVE mx[M[j]] = ItemAt(M, j + 1)
  <2>1. j \in 1 .. Len(L) - 1 /\ j + 1 \in 1 .. Len(L) /\ M[j] = L[j + 1]
    BY <1>2, <1>3
  <2>2. mx[M[j]] = nx[L[j + 1]]
    BY <1>1, <1>6, <2>1
  <2>3. nx[L[j + 1]] = ItemAt(L, (j + 1) + 1)
    BY <2>1 DEF Leads
  <2> QED  BY <1>7, <2>1, <2>2, <2>3
<1>10. Leads(mx, mx[e], M)
  BY <1>8, <1>9 DEF Leads
<1>11. /\ M # <<>> /\ M[Len(M)] = L[Len(L)]
       /\ Len(M) >= 2 => M[Len(M) - 1] = L[Len(L) - 1]
  <2>1. M # <<>> /\ M[Len(M)] = L[Len(L)]
    <3>1. Len(M) >= 1
      BY <1>2, <1>3
    <3>2. M[Len(L) - 1] = L[(Len(L) - 1) + 1]
      BY <1>2, <1>3
    <3>3. M # <<>>
      BY ONLY <3>1, Len(<<>>) = 0
    <3>4. M[Len(L) - 1] = L[Len(L)]
      BY <1>3, <3>2
    <3> QED  BY <1>2, <3>3, <3>4
  <2>2. Len(M) >= 2 => /\ Len(M) - 1 \in 1 .. Len(L) - 1
                       /\ (Len(M) - 1) + 1 = Len(L) - 1
    BY <1>1, <1>2
  <2> QED  BY <1>2, <2>1, <2>2
<1> QED  BY <1>2, <1>4, <1>5, <1>10, <1>11

-----------------------------------------------------------------------------
(* Types                                                                   *)

LEMMA CellFacts ==
  /\ Item \subseteq Cell /\ Entry \in Cell /\ Null \notin Cell /\ Entry \notin Item
  /\ Null \notin Item /\ Entry # Null
  /\ Pushers \subseteq Threads /\ Poppers \subseteq Threads
  /\ \A t \in Threads : \/ t \in Pushers /\ t \notin Poppers
                        \/ t \in Poppers /\ t \notin Pushers
  /\ Limit \in Nat /\ FreeLimit \in Nat /\ MyLimit \in Nat /\ MyLimit <= Limit
<1>1. /\ Item \subseteq Cell /\ Entry \in Cell /\ Null \notin Cell /\ Entry \notin Item
      /\ Null \notin Item /\ Entry # Null
  BY LockFreeAssumption DEF Cell
<1>2. /\ Pushers \subseteq Threads /\ Poppers \subseteq Threads
      /\ \A t \in Threads : \/ t \in Pushers /\ t \notin Poppers
                            \/ t \in Poppers /\ t \notin Pushers
  <2>1. \A t : ~(t \in Pushers /\ t \in Poppers)
    BY LockFreeAssumption
  <2> QED  BY <2>1 DEF Threads
<1>3. Limit \in Nat /\ FreeLimit \in Nat /\ MyLimit \in Nat /\ MyLimit <= Limit
  BY LockFreeAssumption DEF MyLimit
<1> QED  BY <1>1, <1>2, <1>3

LEMMA NewIsItem ==
  ASSUME QueueTypeOK, NEW p \in Pushers, puts[p] < MyLimit
  PROVE  New(p) \in Item /\ New(p)[1] = p /\ New(p)[2] = puts[p] + 1
<1>1. puts[p] \in 0 .. Limit /\ Limit \in Nat /\ MyLimit <= Limit /\ MyLimit \in Nat
  BY CellFacts DEF QueueTypeOK
<1>2. puts[p] + 1 \in 1 .. Limit
  BY <1>1
<1> QED  BY <1>2 DEF New, Item

LEMMA LiveIsCell ==
  /\ \A c : LiveCell(c) => c \in Cell
  /\ \A c : LiveNode(c) => c \in Cell
  /\ entry \in Cell => \A c \in Cell : Target(c) \in Cell
BY DEF LiveCell, LiveNode, Target

\* A step of a pusher to s, if the fields keep their types.
LEMMA PusherTypes ==
  ASSUME TypesInv, QueueTypeOK', NEW p \in Pushers, NEW s \in PushPlaces \cup {"help"},
         Goto(p, s), paced' = paced, got' = got,
         s # "idle" => puts[p] < MyLimit /\ puts'[p] = puts[p],
         \A q \in Pushers : q # p => puts'[q] = puts[q]
  PROVE  TypesInv'
<1>1. p \in Threads /\ p \notin Poppers /\ MyLimit' = MyLimit
  BY CellFacts DEF MyLimit
<1>2. pc' \in [Threads -> PushPlaces \cup PopPlaces \cup Elsewhere]
  BY <1>1 DEF TypesInv, Goto, Elsewhere
<1>3. pc'[p] = s /\ \A t \in Threads : t # p => pc'[t] = pc[t]
  BY <1>1 DEF TypesInv, Goto
<1>4. \A q \in Pushers : pc'[q] \in PushPlaces \cup Elsewhere
  BY <1>1, <1>3, CellFacts DEF TypesInv, Elsewhere
<1>5. \A g \in Poppers : pc'[g] = pc[g]
  BY <1>1, <1>3, CellFacts
<1>6. \A q \in Pushers : pc'[q] \notin {"idle", "undefined"} => puts'[q] < MyLimit
  BY <1>1, <1>3, CellFacts DEF TypesInv
<1> QED  BY <1>1, <1>2, <1>4, <1>5, <1>6 DEF TypesInv

\* A step of a popper to s, if the fields keep their types.
LEMMA PopperTypes ==
  ASSUME TypesInv, QueueTypeOK', NEW g \in Poppers, NEW s \in PopPlaces \cup {"help"},
         Goto(g, s), paced' = paced, puts' = puts,
         Len(got'[g]) <= MyLimit, s # "idle" => Len(got'[g]) < MyLimit,
         \A h \in Poppers : h # g => got'[h] = got[h]
  PROVE  TypesInv'
<1>1. g \in Threads /\ g \notin Pushers /\ MyLimit' = MyLimit
  BY CellFacts DEF MyLimit
<1>2. pc' \in [Threads -> PushPlaces \cup PopPlaces \cup Elsewhere]
  BY <1>1 DEF TypesInv, Goto, Elsewhere
<1>3. pc'[g] = s /\ \A t \in Threads : t # g => pc'[t] = pc[t]
  BY <1>1 DEF TypesInv, Goto
<1>4. \A h \in Poppers : pc'[h] \in PopPlaces \cup Elsewhere
  BY <1>1, <1>3, CellFacts DEF TypesInv, Elsewhere
<1>5. \A p \in Pushers : pc'[p] = pc[p]
  BY <1>1, <1>3, CellFacts
<1>6. \A h \in Poppers :
        /\ Len(got'[h]) <= MyLimit
        /\ pc'[h] \notin {"idle", "undefined"} => Len(got'[h]) < MyLimit
  BY <1>1, <1>3, CellFacts DEF TypesInv
<1> QED  BY <1>1, <1>2, <1>4, <1>5, <1>6 DEF TypesInv

LEMMA UndefinedTypes ==
  ASSUME TypesInv, Undefined
  PROVE  TypesInv'
<1>1. QueueTypeOK' /\ MyLimit' = MyLimit /\ got' = got /\ puts' = puts
  BY DEF TypesInv, QueueTypeOK, Undefined, queue, heap, locals, calls, MyLimit
<1>2. pc' = [t \in Threads |-> "undefined"]
  BY DEF Undefined
<1> QED  BY <1>1, <1>2, CellFacts DEF TypesInv, Elsewhere

LEMMA ReturnTypes ==
  ASSUME TypesInv, NEW g \in Poppers, Len(got[g]) < MyLimit,
         NEW value \in Item \cup {Null}, Return(g, value)
  PROVE  /\ got' \in [Poppers -> Seq(Item \cup {Null})] /\ Len(got'[g]) <= MyLimit
         /\ \A h \in Poppers : h # g => got'[h] = got[h]
         /\ Goto(g, "idle")
<1>1. got \in [Poppers -> Seq(Item \cup {Null})] /\ got[g] \in Seq(Item \cup {Null})
      /\ got' = [got EXCEPT ![g] = Append(@, value)]
  BY DEF TypesInv, QueueTypeOK, Return
<1>2. Append(got[g], value) \in Seq(Item \cup {Null})
      /\ Len(Append(got[g], value)) = Len(got[g]) + 1
  BY <1>1
<1>3. Len(got[g]) \in Nat /\ MyLimit \in Nat
  BY <1>1, CellFacts
<1> QED  BY <1>1, <1>2, <1>3 DEF Return

LEMMA PushTypes ==
  ASSUME TypesInv, NEW p \in Pushers, qpush(p)
  PROVE  TypesInv'
<1>1. /\ QueueTypeOK /\ p \in Threads
      /\ pc[p] \notin {"idle", "undefined"} => puts[p] < MyLimit
  BY CellFacts DEF TypesInv
<1>2. CASE PushCall(p)
  <2>2. QueueTypeOK' /\ paced' = paced /\ got' = got
    BY <1>1, <1>2, CellFacts DEF PushCall, QueueTypeOK, queue, heap, locals, calls
  <2>3. PICK s \in PushPlaces \cup {"help"} :
          /\ Goto(p, s)
          /\ (s # "idle" => puts[p] < MyLimit /\ puts' = puts)
    BY <1>1, <1>2 DEF PushCall, PushPlaces, calls, locals, queue, heap
  <2>4. \A q \in Pushers : q # p => puts'[q] = puts[q]
    BY <1>1, <1>2 DEF PushCall, QueueTypeOK, queue, heap, locals, calls
  <2> QED  BY <2>2, <2>3, <2>4, PusherTypes
<1>3. CASE PushTail(p)
  <2>2. QueueTypeOK' /\ paced' = paced /\ got' = got
    BY <1>1, <1>3, CellFacts DEF PushTail, QueueTypeOK, queue, heap, locals, calls
  <2>3. PICK s \in PushPlaces \cup {"help"} :
          /\ Goto(p, s)
          /\ (s # "idle" => puts[p] < MyLimit /\ puts' = puts)
    BY <1>1, <1>3 DEF PushTail, PushPlaces, calls, locals, queue, heap
  <2>4. \A q \in Pushers : q # p => puts'[q] = puts[q]
    BY <1>1, <1>3 DEF PushTail, QueueTypeOK, queue, heap, locals, calls
  <2> QED  BY <2>2, <2>3, <2>4, PusherTypes
<1>4. CASE PushNode(p)
  <2>1. CASE Undefined
    BY <2>1, UndefinedTypes
  <2>2. CASE ~Undefined
    <3>2. QueueTypeOK' /\ paced' = paced /\ got' = got
      BY <1>1, <1>4, <2>2, CellFacts, LiveIsCell
         DEF PushNode, QueueTypeOK, queue, heap, locals, calls
    <3>3. PICK s \in PushPlaces \cup {"help"} :
            /\ Goto(p, s)
            /\ (s # "idle" => puts[p] < MyLimit /\ puts' = puts)
      BY <1>1, <1>4, <2>2 DEF PushNode, PushPlaces, calls, locals, queue, heap
    <3>4. \A q \in Pushers : q # p => puts'[q] = puts[q]
      BY <1>1, <1>4, <2>2 DEF PushNode, QueueTypeOK, queue, heap, locals, calls
    <3> QED  BY <3>2, <3>3, <3>4, PusherTypes
  <2> QED  BY <2>1, <2>2
<1>5. CASE PushNext(p)
  <2>1. CASE Undefined
    BY <2>1, UndefinedTypes
  <2>2. CASE ~Undefined
    <3>2. QueueTypeOK' /\ paced' = paced /\ got' = got
      BY <1>1, <1>5, <2>2, CellFacts, LiveIsCell
         DEF PushNext, QueueTypeOK, queue, heap, locals, calls
    <3>3. PICK s \in PushPlaces \cup {"help"} :
            /\ Goto(p, s)
            /\ (s # "idle" => puts[p] < MyLimit /\ puts' = puts)
      BY <1>1, <1>5, <2>2 DEF PushNext, PushPlaces, calls, locals, queue, heap
    <3>4. \A q \in Pushers : q # p => puts'[q] = puts[q]
      BY <1>1, <1>5, <2>2 DEF PushNext, QueueTypeOK, queue, heap, locals, calls
    <3> QED  BY <3>2, <3>3, <3>4, PusherTypes
  <2> QED  BY <2>1, <2>2
<1>6. CASE PushCheck(p)
  <2>2. QueueTypeOK' /\ paced' = paced /\ got' = got
    BY <1>1, <1>6, CellFacts DEF PushCheck, QueueTypeOK, queue, heap, locals, calls
  <2>3. PICK s \in PushPlaces \cup {"help"} :
          /\ Goto(p, s)
          /\ (s # "idle" => puts[p] < MyLimit /\ puts' = puts)
    BY <1>1, <1>6 DEF PushCheck, PushPlaces, calls, locals, queue, heap
  <2>4. \A q \in Pushers : q # p => puts'[q] = puts[q]
    BY <1>1, <1>6 DEF PushCheck, QueueTypeOK, queue, heap, locals, calls
  <2> QED  BY <2>2, <2>3, <2>4, PusherTypes
<1>7. CASE PushLink(p)
  <2>1. CASE Undefined
    BY <2>1, UndefinedTypes
  <2>2. CASE ~Undefined
    <3>1. puts[p] < MyLimit /\ New(p) \in Item
      BY <1>1, <1>7, NewIsItem DEF PushLink
    <3>5. next' \in [Cell -> Item \cup {Null}]
      BY <1>1, <1>7, <2>2, <3>1 DEF PushLink, QueueTypeOK
    <3>2. QueueTypeOK' /\ paced' = paced /\ got' = got
      BY <1>1, <1>7, <2>2, CellFacts, LiveIsCell, <3>1, <3>5
         DEF PushLink, QueueTypeOK, queue, heap, locals, calls
    <3>3. PICK s \in PushPlaces \cup {"help"} :
            /\ Goto(p, s)
            /\ (s # "idle" => puts[p] < MyLimit /\ puts' = puts)
      BY <1>1, <1>7, <2>2 DEF PushLink, PushPlaces, calls, locals, queue, heap
    <3>4. \A q \in Pushers : q # p => puts'[q] = puts[q]
      BY <1>1, <1>7, <2>2 DEF PushLink, QueueTypeOK, queue, heap, locals, calls
    <3> QED  BY <3>2, <3>3, <3>4, PusherTypes
  <2> QED  BY <2>1, <2>2
<1>8. CASE PushSwing(p)
  <2>1. puts[p] < MyLimit /\ New(p) \in Item
    BY <1>1, <1>8, NewIsItem DEF PushSwing
  <2>5. puts' \in [Pushers -> 0 .. Limit]
    <3>1. puts[p] + 1 \in 0 .. Limit /\ puts \in [Pushers -> 0 .. Limit]
      BY <1>1, <2>1, CellFacts DEF QueueTypeOK
    <3>2. puts' = puts \/ puts' = [puts EXCEPT ![p] = @ + 1]
      BY <1>8 DEF PushSwing
    <3> QED  BY <3>1, <3>2
  <2>6. tail' = tail \/ tail' \in Cell
    BY <1>8, <2>1, CellFacts DEF PushSwing
  <2>2. QueueTypeOK' /\ paced' = paced /\ got' = got
    BY <1>1, <1>8, CellFacts, <2>1, <2>5, <2>6
       DEF PushSwing, QueueTypeOK, queue, heap, locals, calls
  <2>3. PICK s \in PushPlaces \cup {"help"} :
          /\ Goto(p, s)
          /\ (s # "idle" => puts[p] < MyLimit /\ puts' = puts)
    BY <1>1, <1>8 DEF PushSwing, PushPlaces, calls, locals, queue, heap
  <2>4. \A q \in Pushers : q # p => puts'[q] = puts[q]
    BY <1>1, <1>8 DEF PushSwing, QueueTypeOK, queue, heap, locals, calls
  <2> QED  BY <2>2, <2>3, <2>4, PusherTypes
<1>9. CASE PushHelp(p)
  <2>1. CASE Undefined
    BY <2>1, UndefinedTypes
  <2>2. CASE ~Undefined
    <3>2. QueueTypeOK' /\ paced' = paced /\ got' = got
      BY <1>1, <1>9, <2>2, CellFacts, LiveIsCell
         DEF PushHelp, QueueTypeOK, queue, heap, locals, calls
    <3>3. PICK s \in PushPlaces \cup {"help"} :
            /\ Goto(p, s)
            /\ (s # "idle" => puts[p] < MyLimit /\ puts' = puts)
      BY <1>1, <1>9, <2>2 DEF PushHelp, PushPlaces, calls, locals, queue, heap
    <3>4. \A q \in Pushers : q # p => puts'[q] = puts[q]
      BY <1>1, <1>9, <2>2 DEF PushHelp, QueueTypeOK, queue, heap, locals, calls
    <3> QED  BY <3>2, <3>3, <3>4, PusherTypes
  <2> QED  BY <2>1, <2>2
<1> QED  BY <1>2, <1>3, <1>4, <1>5, <1>6, <1>7, <1>8, <1>9 DEF qpush

LEMMA PopTypes ==
  ASSUME TypesInv, NEW g \in Poppers, qpop(g)
  PROVE  TypesInv'
<1>1. /\ QueueTypeOK /\ g \in Threads /\ Len(got[g]) <= MyLimit
      /\ pc[g] \notin {"idle", "undefined"} => Len(got[g]) < MyLimit
  BY CellFacts DEF TypesInv
<1>2. CASE PopCall(g)
  <2>1. QueueTypeOK' /\ paced' = paced /\ puts' = puts /\ got' = got
    BY <1>1, <1>2, CellFacts DEF PopCall, QueueTypeOK, queue, heap, locals, calls
  <2>2. Len(got[g]) < MyLimit
    BY <1>1, <1>2 DEF PopCall
  <2>3. PICK s \in PopPlaces \cup {"help"} : Goto(g, s)
    BY <1>2 DEF PopCall, PopPlaces
  <2> QED  BY <1>1, <2>1, <2>2, <2>3, PopperTypes
<1>3. CASE PopTail(g)
  <2>1. Len(got[g]) < MyLimit
    BY <1>1, <1>3 DEF PopTail
  <2>2. CASE Return(g, Null)
    <3>1. Null \in Item \cup {Null}
      BY <1>1, <1>3, CellFacts DEF QueueTypeOK
    <3>2. /\ got' \in [Poppers -> Seq(Item \cup {Null})] /\ Len(got'[g]) <= MyLimit
          /\ \A h \in Poppers : h # g => got'[h] = got[h]
          /\ Goto(g, "idle")
      BY <2>1, <2>2, <3>1, ReturnTypes
    <3>3. QueueTypeOK' /\ paced' = paced /\ puts' = puts
      BY <1>1, <1>3, <3>2, CellFacts, LiveIsCell
         DEF PopTail, QueueTypeOK, queue, heap, locals, calls
    <3> QED  BY <3>2, <3>3, PopperTypes DEF PopPlaces
  <2>3. CASE ~Return(g, Null)
    <3>1. got' = got
      BY <1>3, <2>3 DEF PopTail
    <3>2. QueueTypeOK' /\ paced' = paced /\ puts' = puts
      BY <1>1, <1>3, <2>3, <3>1, CellFacts, LiveIsCell
         DEF PopTail, QueueTypeOK, queue, heap, locals, calls
    <3>3. PICK s \in PopPlaces \cup {"help"} : Goto(g, s)
      BY <1>3, <2>3 DEF PopTail, PopPlaces
    <3> QED  BY <1>1, <2>1, <3>1, <3>2, <3>3, PopperTypes
  <2> QED  BY <2>2, <2>3
<1>4. CASE PopNode(g)
  <2>1. QueueTypeOK' /\ paced' = paced /\ puts' = puts /\ got' = got
    BY <1>1, <1>4, CellFacts DEF PopNode, QueueTypeOK, queue, heap, locals, calls
  <2>2. Len(got[g]) < MyLimit
    BY <1>1, <1>4 DEF PopNode
  <2>3. PICK s \in PopPlaces \cup {"help"} : Goto(g, s)
    BY <1>4 DEF PopNode, PopPlaces
  <2> QED  BY <1>1, <2>1, <2>2, <2>3, PopperTypes
<1>5. CASE PopTmp(g)
  <2>1. CASE Undefined
    BY <2>1, UndefinedTypes
  <2>2. CASE ~Undefined
    <3>1. QueueTypeOK' /\ paced' = paced /\ puts' = puts /\ got' = got
      BY <1>1, <1>5, <2>2, CellFacts, LiveIsCell
         DEF PopTmp, QueueTypeOK, queue, heap, locals, calls
    <3>2. Len(got[g]) < MyLimit
      BY <1>1, <1>5, <2>2 DEF PopTmp
    <3>3. PICK s \in PopPlaces \cup {"help"} : Goto(g, s)
      BY <1>5, <2>2 DEF PopTmp, PopPlaces
    <3> QED  BY <1>1, <3>1, <3>2, <3>3, PopperTypes
  <2> QED  BY <2>1, <2>2
<1>6. CASE PopNext(g)
  <2>1. CASE Undefined
    BY <2>1, UndefinedTypes
  <2>2. CASE ~Undefined
    <3>1. Len(got[g]) < MyLimit
      BY <1>1, <1>6 DEF PopNext
    <3>2. CASE Return(g, Null)
      <4>1. Null \in Item \cup {Null}
        BY <1>1, <1>6, <2>2, CellFacts DEF QueueTypeOK
      <4>2. /\ got' \in [Poppers -> Seq(Item \cup {Null})] /\ Len(got'[g]) <= MyLimit
            /\ \A h \in Poppers : h # g => got'[h] = got[h]
            /\ Goto(g, "idle")
        BY <3>1, <3>2, <4>1, ReturnTypes
      <4>3. QueueTypeOK' /\ paced' = paced /\ puts' = puts
        <5>1. seenNext' \in [Threads -> Item \cup {Null}]
          BY <1>1, <1>6, <2>2, LiveIsCell DEF PopNext, QueueTypeOK
        <5>2. UNCHANGED <<paced, entry, tail, next, freedNodes, freedCells, seenTail,
                          node, tmp, succ, puts>>
          BY <1>6, <2>2 DEF PopNext, queue, heap
        <5> QED  BY <1>1, <4>2, <5>1, <5>2 DEF QueueTypeOK
      <4> QED  BY <4>2, <4>3, PopperTypes DEF PopPlaces
    <3>3. CASE ~Return(g, Null)
      <4>1. got' = got
        BY <1>6, <2>2, <3>3 DEF PopNext
      <4>2. QueueTypeOK' /\ paced' = paced /\ puts' = puts
        BY <1>1, <1>6, <2>2, <3>3, <4>1, CellFacts, LiveIsCell
           DEF PopNext, QueueTypeOK, queue, heap, locals, calls
      <4>3. PICK s \in PopPlaces \cup {"help"} : Goto(g, s)
        BY <1>6, <2>2, <3>3 DEF PopNext, PopPlaces
      <4> QED  BY <1>1, <3>1, <4>1, <4>2, <4>3, PopperTypes
    <3> QED  BY <3>2, <3>3
  <2> QED  BY <2>1, <2>2
<1>7. CASE PopCompare(g)
  <2>1. CASE Undefined
    BY <2>1, UndefinedTypes
  <2>2. CASE ~Undefined
    <3>1. QueueTypeOK' /\ paced' = paced /\ puts' = puts /\ got' = got
      BY <1>1, <1>7, <2>2, CellFacts, LiveIsCell
         DEF PopCompare, QueueTypeOK, queue, heap, locals, calls
    <3>2. Len(got[g]) < MyLimit
      BY <1>1, <1>7, <2>2 DEF PopCompare
    <3>3. PICK s \in PopPlaces \cup {"help"} : Goto(g, s)
      BY <1>7, <2>2 DEF PopCompare, PopPlaces
    <3> QED  BY <1>1, <3>1, <3>2, <3>3, PopperTypes
  <2> QED  BY <2>1, <2>2
<1>8. CASE PopHelp(g)
  <2>1. CASE Undefined
    BY <2>1, UndefinedTypes
  <2>2. CASE ~Undefined
    <3>1. QueueTypeOK' /\ paced' = paced /\ puts' = puts /\ got' = got
      BY <1>1, <1>8, <2>2, CellFacts, LiveIsCell
         DEF PopHelp, QueueTypeOK, queue, heap, locals, calls
    <3>2. Len(got[g]) < MyLimit
      BY <1>1, <1>8, <2>2 DEF PopHelp
    <3>3. PICK s \in PopPlaces \cup {"help"} : Goto(g, s)
      BY <1>8, <2>2 DEF PopHelp, PopPlaces
    <3> QED  BY <1>1, <3>1, <3>2, <3>3, PopperTypes
  <2> QED  BY <2>1, <2>2
<1>9. CASE PopValue(g)
  <2>1. CASE Undefined
    BY <2>1, UndefinedTypes
  <2>2. CASE ~Undefined
    <3>1. QueueTypeOK' /\ paced' = paced /\ puts' = puts /\ got' = got
      BY <1>1, <1>9, <2>2, CellFacts, LiveIsCell
         DEF PopValue, QueueTypeOK, queue, heap, locals, calls
    <3>2. Len(got[g]) < MyLimit
      BY <1>1, <1>9, <2>2 DEF PopValue
    <3>3. PICK s \in PopPlaces \cup {"help"} : Goto(g, s)
      BY <1>9, <2>2 DEF PopValue, PopPlaces
    <3> QED  BY <1>1, <3>1, <3>2, <3>3, PopperTypes
  <2> QED  BY <2>1, <2>2
<1>10. CASE PopFreeEntry(g)
  <2>1. CASE Undefined
    BY <2>1, UndefinedTypes
  <2>2. CASE ~Undefined
    <3>1. QueueTypeOK' /\ paced' = paced /\ puts' = puts /\ got' = got
      BY <1>1, <1>10, <2>2, CellFacts, LiveIsCell
         DEF PopFreeEntry, QueueTypeOK, queue, heap, locals, calls
    <3>2. Len(got[g]) < MyLimit
      BY <1>1, <1>10, <2>2 DEF PopFreeEntry
    <3>3. PICK s \in PopPlaces \cup {"help"} : Goto(g, s)
      BY <1>10, <2>2 DEF PopFreeEntry, PopPlaces
    <3> QED  BY <1>1, <3>1, <3>2, <3>3, PopperTypes
  <2> QED  BY <2>1, <2>2
<1>11. CASE PopMoveEntry(g)
  <2>1. CASE Undefined
    BY <2>1, UndefinedTypes
  <2>2. CASE ~Undefined
    <3>1. Len(got[g]) < MyLimit
      BY <1>1, <1>11 DEF PopMoveEntry
    <3>2. CASE Return(g, seenNext[g])
      <4>1. seenNext[g] \in Item \cup {Null}
        BY <1>1, <1>11, <2>2, CellFacts DEF QueueTypeOK
      <4>2. /\ got' \in [Poppers -> Seq(Item \cup {Null})] /\ Len(got'[g]) <= MyLimit
            /\ \A h \in Poppers : h # g => got'[h] = got[h]
            /\ Goto(g, "idle")
        BY <3>1, <3>2, <4>1, ReturnTypes
      <4>3. QueueTypeOK' /\ paced' = paced /\ puts' = puts
        BY <1>1, <1>11, <2>2, <4>2, CellFacts, LiveIsCell
           DEF PopMoveEntry, QueueTypeOK, queue, heap, locals, calls
      <4> QED  BY <4>2, <4>3, PopperTypes DEF PopPlaces
    <3>3. CASE ~Return(g, seenNext[g])
      <4>1. got' = got
        BY <1>11, <2>2, <3>3 DEF PopMoveEntry
      <4>2. QueueTypeOK' /\ paced' = paced /\ puts' = puts
        BY <1>1, <1>11, <2>2, <3>3, <4>1, CellFacts, LiveIsCell
           DEF PopMoveEntry, QueueTypeOK, queue, heap, locals, calls
      <4>3. PICK s \in PopPlaces \cup {"help"} : Goto(g, s)
        BY <1>11, <2>2, <3>3 DEF PopMoveEntry, PopPlaces
      <4> QED  BY <1>1, <3>1, <4>1, <4>2, <4>3, PopperTypes
    <3> QED  BY <3>2, <3>3
  <2> QED  BY <2>1, <2>2
<1>12. CASE PopOldTail(g)
  <2>1. QueueTypeOK' /\ paced' = paced /\ puts' = puts /\ got' = got
    BY <1>1, <1>12, CellFacts DEF PopOldTail, QueueTypeOK, queue, heap, locals, calls
  <2>2. Len(got[g]) < MyLimit
    BY <1>1, <1>12 DEF PopOldTail
  <2>3. PICK s \in PopPlaces \cup {"help"} : Goto(g, s)
    BY <1>12 DEF PopOldTail, PopPlaces
  <2> QED  BY <1>1, <2>1, <2>2, <2>3, PopperTypes
<1>13. CASE PopMoveTail(g)
  <2>1. QueueTypeOK' /\ paced' = paced /\ puts' = puts /\ got' = got
    BY <1>1, <1>13, CellFacts DEF PopMoveTail, QueueTypeOK, queue, heap, locals, calls
  <2>2. Len(got[g]) < MyLimit
    BY <1>1, <1>13 DEF PopMoveTail
  <2>3. PICK s \in PopPlaces \cup {"help"} : Goto(g, s)
    BY <1>13 DEF PopMoveTail, PopPlaces
  <2> QED  BY <1>1, <2>1, <2>2, <2>3, PopperTypes
<1>14. CASE PopFreeCell(g)
  <2>1. CASE Undefined
    BY <2>1, UndefinedTypes
  <2>2. CASE ~Undefined
    <3>1. Len(got[g]) < MyLimit
      BY <1>1, <1>14 DEF PopFreeCell
    <3>2. CASE Return(g, seenNext[g])
      <4>1. seenNext[g] \in Item \cup {Null}
        BY <1>1, <1>14, <2>2, CellFacts DEF QueueTypeOK
      <4>2. /\ got' \in [Poppers -> Seq(Item \cup {Null})] /\ Len(got'[g]) <= MyLimit
            /\ \A h \in Poppers : h # g => got'[h] = got[h]
            /\ Goto(g, "idle")
        BY <3>1, <3>2, <4>1, ReturnTypes
      <4>3. QueueTypeOK' /\ paced' = paced /\ puts' = puts
        BY <1>1, <1>14, <2>2, <4>2, CellFacts, LiveIsCell
           DEF PopFreeCell, QueueTypeOK, queue, heap, locals, calls
      <4> QED  BY <4>2, <4>3, PopperTypes DEF PopPlaces
    <3> QED  BY <1>14, <2>2, <3>2 DEF PopFreeCell
  <2> QED  BY <2>1, <2>2
<1>15. CASE PopSucc(g)
  <2>1. CASE Undefined
    BY <2>1, UndefinedTypes
  <2>2. CASE ~Undefined
    <3>1. QueueTypeOK' /\ paced' = paced /\ puts' = puts /\ got' = got
      BY <1>1, <1>15, <2>2, CellFacts, LiveIsCell
         DEF PopSucc, QueueTypeOK, queue, heap, locals, calls
    <3>2. Len(got[g]) < MyLimit
      BY <1>1, <1>15, <2>2 DEF PopSucc
    <3>3. PICK s \in PopPlaces \cup {"help"} : Goto(g, s)
      BY <1>15, <2>2 DEF PopSucc, PopPlaces
    <3> QED  BY <1>1, <3>1, <3>2, <3>3, PopperTypes
  <2> QED  BY <2>1, <2>2
<1>16. CASE PopUnlink(g)
  <2>1. CASE Undefined
    BY <2>1, UndefinedTypes
  <2>2. CASE ~Undefined
    <3>1. QueueTypeOK' /\ paced' = paced /\ puts' = puts /\ got' = got
      BY <1>1, <1>16, <2>2, CellFacts, LiveIsCell
         DEF PopUnlink, QueueTypeOK, queue, heap, locals, calls
    <3>2. Len(got[g]) < MyLimit
      BY <1>1, <1>16, <2>2 DEF PopUnlink
    <3>3. PICK s \in PopPlaces \cup {"help"} : Goto(g, s)
      BY <1>16, <2>2 DEF PopUnlink, PopPlaces
    <3> QED  BY <1>1, <3>1, <3>2, <3>3, PopperTypes
  <2> QED  BY <2>1, <2>2
<1>17. CASE PopFreeBoth(g)
  <2>1. CASE Undefined
    BY <2>1, UndefinedTypes
  <2>2. CASE ~Undefined
    <3>1. Len(got[g]) < MyLimit
      BY <1>1, <1>17 DEF PopFreeBoth
    <3>2. CASE Return(g, seenNext[g])
      <4>1. seenNext[g] \in Item \cup {Null}
        BY <1>1, <1>17, <2>2, CellFacts DEF QueueTypeOK
      <4>2. /\ got' \in [Poppers -> Seq(Item \cup {Null})] /\ Len(got'[g]) <= MyLimit
            /\ \A h \in Poppers : h # g => got'[h] = got[h]
            /\ Goto(g, "idle")
        BY <3>1, <3>2, <4>1, ReturnTypes
      <4>3. QueueTypeOK' /\ paced' = paced /\ puts' = puts
        BY <1>1, <1>17, <2>2, <4>2, CellFacts, LiveIsCell
           DEF PopFreeBoth, QueueTypeOK, queue, heap, locals, calls
      <4> QED  BY <4>2, <4>3, PopperTypes DEF PopPlaces
    <3> QED  BY <1>17, <2>2, <3>2 DEF PopFreeBoth
  <2> QED  BY <2>1, <2>2
<1> QED  BY <1>2, <1>3, <1>4, <1>5, <1>6, <1>7, <1>8, <1>9, <1>10, <1>11, <1>12, <1>13,
            <1>14, <1>15, <1>16, <1>17
            DEF qpop

LEMMA TypesInit == QueueInit => TypesInv
<1> SUFFICES ASSUME QueueInit PROVE TypesInv
  OBVIOUS
<1>1. QueueTypeOK
  BY CellFacts DEF QueueInit, QueueTypeOK
<1>2. \A g \in Poppers : Len(got[g]) = 0
  BY DEF QueueInit
<1> QED  BY <1>1, <1>2, CellFacts DEF QueueInit, TypesInv, PushPlaces, PopPlaces

LEMMA TypesStep == TypesInv /\ [QueueNext]_listvars => TypesInv'
<1> SUFFICES ASSUME TypesInv, [QueueNext]_listvars PROVE TypesInv'
  OBVIOUS
<1>1. CASE UNCHANGED listvars
  BY <1>1 DEF TypesInv, QueueTypeOK, MyLimit, listvars, queue, heap, locals, calls
<1>2. CASE \E p \in Pushers : qpush(p)
  BY <1>2, PushTypes
<1>3. CASE \E g \in Poppers : qpop(g)
  BY <1>3, PopTypes
<1> QED  BY <1>1, <1>2, <1>3 DEF QueueNext, Terminated

-----------------------------------------------------------------------------
(* What Chain computes                                                     *)

LEMMA Smallest ==
  ASSUME NEW T \in SUBSET Nat, T # {}
  PROVE  \E m \in T : \A y \in T : m <= y
<1>1. IsWellFoundedOn(OpToRel(<, Nat), Nat)
  BY NatLessThanWellFounded
<1>2. PICK m \in T : \A y \in T : ~(<<y, m>> \in OpToRel(<, Nat))
  BY <1>1, WFMin
<1>3. \A y \in T : ~(y < m)
  BY <1>2 DEF OpToRel
<1> QED  BY <1>3

\* A chain is no longer than there are items.
LEMMA ChainSize ==
  ASSUME NEW L \in Items
  PROVE  /\ Cardinality(Item) \in Nat /\ Len(L) <= Cardinality(Item)
         /\ Cardinality(1 .. Len(L)) = Len(L)
         /\ IsFiniteSet(Item) /\ Cardinality(Range(L)) = Len(L)
<1>1. /\ Len(L) \in Nat /\ L \in Seq(Item) /\ DOMAIN L = 1 .. Len(L)
      /\ IsInjective(L) /\ Range(L) \subseteq Item
  BY ItemsFacts DEF Items
<1>2. IsFiniteSet(Item)
  <2>1. IsFiniteSet(1 .. Limit)
    BY LockFreeAssumption, FS_Interval
  <2>2. IsFiniteSet(Pushers)
    BY LockFreeAssumption
  <2> QED  BY <2>1, <2>2, FS_Product DEF Item
<1>3. IsFiniteSet(Range(L)) /\ Cardinality(Range(L)) <= Cardinality(Item)
      /\ Cardinality(Item) \in Nat
  BY <1>1, <1>2, FS_Subset, FS_CardinalityType
<1>4. IsFiniteSet(1 .. Len(L)) /\ Cardinality(1 .. Len(L)) = Len(L)
  <2>1. /\ IsFiniteSet(1 .. Len(L))
        /\ Cardinality(1 .. Len(L)) = IF 1 > Len(L) THEN 0 ELSE Len(L) - 1 + 1
    BY <1>1, FS_Interval
  <2> QED  BY <1>1, <2>1
<1>5. L \in Bijection(1 .. Len(L), Range(L))
  <2>1. L \in [1 .. Len(L) -> Range(L)]
    BY <1>1 DEF Range
  <2>2. L \in Injection(1 .. Len(L), Range(L))
    BY <1>1, <2>1 DEF Injection, IsInjective
  <2>3. L \in Surjection(1 .. Len(L), Range(L))
    BY <1>1, <2>1 DEF Surjection, Range
  <2> QED  BY <2>2, <2>3 DEF Bijection
<1>6. Cardinality(1 .. Len(L)) = Cardinality(Range(L))
  <2>1. ExistsBijection(1 .. Len(L), Range(L))
    BY <1>5 DEF ExistsBijection
  <2> QED  BY <1>4, <2>1, FS_Bijection
<1> QED  BY <1>2, <1>3, <1>4, <1>6

\* The way along the next fields goes through the chain and then stays at NULL.
LEMMA PathIs ==
  ASSUME NEW L \in Items, Leads(next, next[entry], L)
  PROVE  Path = [j \in 1 .. Cardinality(Item) |-> ItemAt(L, j)]
<1> DEFINE C == Cardinality(Item)
           w == [j \in 1 .. C |-> ItemAt(L, j)]
           path == Path
<1>1. /\ Len(L) \in Nat /\ C \in Nat /\ next[entry] = ItemAt(L, 1)
      /\ \A j \in 1 .. Len(L) : L[j] # Null /\ ItemAt(L, j) = L[j]
      /\ \A j \in 1 .. Len(L) : next[L[j]] = ItemAt(L, j + 1)
  BY ItemsFacts, ChainSize DEF Leads
<1> HIDE DEF C
<1>2. ASSUME NEW j \in 1 .. C, j # 1
      PROVE  /\ j - 1 \in 1 .. C
             /\ ItemAt(L, j) = IF ItemAt(L, j - 1) = Null THEN Null ELSE next[ItemAt(L, j - 1)]
  <2>1. j - 1 \in 1 .. C /\ (j - 1) + 1 = j
    BY <1>1, <1>2
  <2>2. CASE j - 1 \in 1 .. Len(L)
    BY <1>1, <2>1, <2>2
  <2>3. CASE j - 1 \notin 1 .. Len(L)
    <3>1. j \notin 1 .. Len(L)
      BY <1>1, <1>2, <2>1, <2>3
    <3> QED  BY <2>1, <2>3, <3>1 DEF ItemAt
  <2> QED  BY <2>1, <2>2, <2>3
<1>3. w = [j \in 1 .. C |-> IF j = 1 THEN next[entry]
                            ELSE IF w[j - 1] = Null THEN Null ELSE next[w[j - 1]]]
  <2>1. ASSUME NEW j \in 1 .. C
        PROVE  w[j] = IF j = 1 THEN next[entry]
                      ELSE IF w[j - 1] = Null THEN Null ELSE next[w[j - 1]]
    BY <1>1, <1>2
  <2>2. w = [j \in 1 .. C |-> w[j]]
    OBVIOUS
  <2> HIDE DEF w
  <2> QED  BY <2>1, <2>2
<1> HIDE DEF w
<1>4. path = [j \in 1 .. C |-> IF j = 1 THEN next[entry]
                               ELSE IF path[j - 1] = Null THEN Null
                                    ELSE next[path[j - 1]]]
  BY <1>3 DEF Path, C
<1> HIDE DEF path
<1> DEFINE T == {j \in 1 .. C : path[j] # w[j]}
<1>5. T = {}
  <2> SUFFICES ASSUME T # {} PROVE FALSE
    OBVIOUS
  <2>1. T \in SUBSET Nat
    BY <1>1
  <2>2. PICK j \in T : \A y \in T : j <= y
    <3> HIDE DEF T
    <3> QED  BY <2>1, Smallest
  <2>3. j \in 1 .. C /\ path[j] # w[j]
    OBVIOUS
  <2>4. j # 1
    BY <1>3, <1>4, <2>3
  <2>5. j - 1 \in 1 .. C /\ ~(j <= j - 1)
    BY <1>1, <2>3, <2>4
  <2>6. path[j - 1] = w[j - 1]
    BY <2>2, <2>5
  <2>7. path[j] = IF path[j - 1] = Null THEN Null ELSE next[path[j - 1]]
    BY <1>4, <2>3, <2>4
  <2>8. w[j] = IF w[j - 1] = Null THEN Null ELSE next[w[j - 1]]
    BY <1>3, <2>3, <2>4
  <2> QED  BY <2>3, <2>6, <2>7, <2>8
<1>6. path = [j \in 1 .. C |-> path[j]] /\ w = [j \in 1 .. C |-> w[j]]
  BY <1>4, <1>3
<1>7. path = w
  BY <1>5, <1>6
<1> QED  BY <1>7 DEF path, w, C

\* Chain is what the next fields lead through.
ChainRead == \A L \in Items : Leads(next, next[entry], L) => Chain = L

LEMMA ChainIs == ChainRead
<1> SUFFICES ASSUME NEW L \in Items, Leads(next, next[entry], L)
             PROVE  Chain = L
  BY DEF ChainRead
<1> DEFINE C == Cardinality(Item)
           w == [j \in 1 .. C |-> ItemAt(L, j)]
<1>1. /\ Len(L) \in Nat /\ C \in Nat /\ Len(L) <= C /\ L \in Seq(Item)
      /\ \A j \in 1 .. Len(L) : L[j] # Null /\ ItemAt(L, j) = L[j]
  BY ItemsFacts, ChainSize
<1>2. Path = w
  BY PathIs
<1>3. {m \in DOMAIN w : w[m] # Null} = 1 .. Len(L)
  <2> HIDE DEF C
  <2>1. \A m \in 1 .. C : ItemAt(L, m) # Null <=> m \in 1 .. Len(L)
    BY <1>1 DEF ItemAt
  <2>2. \A m \in 1 .. Len(L) : m \in 1 .. C
    BY <1>1
  <2> QED  BY <2>1, <2>2
<1>4. Cardinality(1 .. Len(L)) = Len(L)
  BY ChainSize
<1>5. Chain = [j \in 1 .. Len(L) |-> w[j]]
  BY <1>2, <1>3, <1>4 DEF Chain
<1>6. \A j \in 1 .. Len(L) : w[j] = L[j]
  <2> HIDE DEF C
  <2>1. \A m \in 1 .. Len(L) : m \in 1 .. C
    BY <1>1
  <2> QED  BY <1>1, <2>1
<1>7. L = [j \in 1 .. Len(L) |-> L[j]]
  BY <1>1
<1> HIDE DEF w
<1> QED  BY <1>5, <1>6, <1>7

-----------------------------------------------------------------------------
(* Steps that change no more than what one thread has seen                 *)

\* The locals that the calls of a thread use.
SameLocals(t) ==
  seenTail'[t] = seenTail[t] /\ node'[t] = node[t] /\ seenNext'[t] = seenNext[t]

LEMMA GoneTo ==
  ASSUME TypesInv, NEW t \in Threads, NEW s, Goto(t, s)
  PROVE  pc'[t] = s /\ \A u \in Threads : u # t => pc'[u] = pc[u]
BY DEF TypesInv, Goto

LEMMA PushedSame ==
  ASSUME puts' = puts, \A p \in Pushers : pc'[p] = "swing" <=> pc[p] = "swing"
  PROVE  Pushed' = Pushed
<1>1. \A x \in Item : x[1] \in Pushers
  BY DEF Item
<1>2. \A p \in Pushers : PutCount(p)' = PutCount(p)
  BY DEF PutCount, Linked
<1> QED  BY <1>1, <1>2 DEF Pushed

LEMMA KeptSame ==
  ASSUME \A g \in Poppers : pc'[g] = "free_both" <=> pc[g] = "free_both",
         \A g \in Poppers : pc[g] = "free_both" => seenNext'[g] = seenNext[g]
  PROVE  Kept' = Kept
<1>1. {h \in Poppers : pc'[h] = "free_both"} = {h \in Poppers : pc[h] = "free_both"}
  OBVIOUS
<1> QED  BY <1>1 DEF Kept

\* A step of a push that links nothing and moves no tail.
LEMMA PusherKeeps ==
  ASSUME TypesInv, NEW C \in Items, PacedInv(C), NEW p \in Pushers,
         \A q \in Pushers : q # p => pc[q] = "idle",
         \A g \in Poppers : pc[g] \notin {"idle", "free_both"} => Len(C) >= 2,
         pc[p] # "swing", NEW s, s # "swing", Goto(p, s),
         UNCHANGED <<entry, tail, next, freedNodes, freedCells, tmp, succ, puts>>,
         \A g \in Poppers : SameLocals(g),
         PushFacts(C, p)'
  PROVE  PacedInv(C)'
<1>1. /\ pc'[p] = s
      /\ \A q \in Pushers : q # p => pc'[q] = "idle"
      /\ \A g \in Poppers : pc'[g] = pc[g]
  BY GoneTo, CellFacts
<1>2. Pushed' = Pushed
  BY <1>1, PushedSame
<1>3. Kept' = Kept
  BY <1>1, KeptSame DEF SameLocals
<1>4. OneEach'
  BY <1>1 DEF PacedInv, OneEach
<1>5. ChainInv(C)'
  BY <1>1 DEF PacedInv, ChainInv
<1>6. PushedInv(C)'
  BY <1>2, <1>3 DEF PacedInv, PushedInv
<1>7. TailInv(C)'
  BY <1>1 DEF PacedInv, TailInv
<1>8. ApartInv(C)'
  BY <1>1 DEF PacedInv, ApartInv
<1>9. PushInv(C)'
  <2>1. \A q \in Pushers : q # p => PushFacts(C, q)'
    BY <1>1 DEF PushFacts, PushPlaces
  <2> QED  BY <2>1 DEF PushInv
<1>10. PopInv(C)'
  <2>1. \A g \in Poppers : PopFacts(C, g)'
    BY <1>1 DEF PacedInv, PopInv, PopFacts, SameLocals
  <2>2. \A g \in Poppers : GoneFacts(C, g)'
    BY <1>1, <1>2 DEF PacedInv, PopInv, GoneFacts, SameLocals
  <2> QED  BY <2>1, <2>2 DEF PopInv
<1> QED  BY <1>4, <1>5, <1>6, <1>7, <1>8, <1>9, <1>10 DEF PacedInv

\* A step of a pop that frees and unlinks nothing and moves neither entry nor tail.
LEMMA PopperKeeps ==
  ASSUME TypesInv, NEW C \in Items, PacedInv(C), NEW g \in Poppers,
         \A h \in Poppers : h # g => pc[h] = "idle",
         pc[g] # "free_both", NEW s, s # "free_both", Goto(g, s),
         UNCHANGED <<entry, tail, next, freedNodes, freedCells, puts>>,
         \A p \in Pushers : SameLocals(p),
         s # "idle" => \A p \in Pushers : pc[p] # "idle" => Len(C) >= 2,
         pc[g] \in {"last_node", "move_entry"} => s \in {"last_node", "move_entry"},
         pc[g] \in {"old_tail", "move_tail"} => s \in {"old_tail", "move_tail"},
         PopFacts(C, g)', GoneFacts(C, g)'
  PROVE  PacedInv(C)'
<1>1. /\ pc'[g] = s
      /\ \A h \in Poppers : h # g => pc'[h] = "idle"
      /\ \A p \in Pushers : pc'[p] = pc[p]
  BY GoneTo, CellFacts
<1>2. Pushed' = Pushed
  BY <1>1, PushedSame
<1>3. Kept' = Kept
  BY <1>1, KeptSame
<1>4. OneEach'
  BY <1>1 DEF PacedInv, OneEach
<1>5. ChainInv(C)'
  BY <1>1 DEF PacedInv, ChainInv
<1>6. PushedInv(C)'
  BY <1>2, <1>3 DEF PacedInv, PushedInv
<1>7. TailInv(C)'
  BY <1>1 DEF PacedInv, TailInv
<1>8. ApartInv(C)'
  BY <1>1 DEF PacedInv, ApartInv
<1>9. PushInv(C)'
  BY <1>1 DEF PacedInv, PushInv, PushFacts, SameLocals, LastNode, New
<1>10. PopInv(C)'
  <2>1. \A h \in Poppers : h # g => PopFacts(C, h)'
    BY <1>1 DEF PopFacts, PopPlaces
  <2>2. \A h \in Poppers : h # g => GoneFacts(C, h)'
    BY <1>1 DEF GoneFacts
  <2> QED  BY <2>1, <2>2 DEF PopInv
<1> QED  BY <1>4, <1>5, <1>6, <1>7, <1>8, <1>9, <1>10 DEF PacedInv

\* What a push can rely on while it is in its call.
LEMMA PushView ==
  ASSUME TypesInv, NEW C \in Items, PacedInv(C), NEW p \in Pushers, pc[p] # "idle"
  PROVE  /\ pc[p] \in PushPlaces
         /\ \A q \in Pushers : q # p => pc[q] = "idle"
         /\ \A g \in Poppers : pc[g] \notin {"idle", "free_both"} => Len(C) >= 2
         /\ \A g \in Poppers : pc[g] \notin {"old_tail", "move_tail", "free_cell",
                                             "free_entry", "last_node", "move_entry"}
         /\ pc[p] # "swing" => tail = LastCell(C)
         /\ LiveCell(LastCell(C)) /\ Target(LastCell(C)) = LastNode(C)
         /\ LiveNode(LastNode(C)) /\ next[LastNode(C)] = Null
<1>1. pc[p] \in PushPlaces /\ \A q \in Pushers : q # p => pc[q] = "idle"
  BY DEF PacedInv, OneEach, PushInv, PushFacts
<1>2. \A g \in Poppers : pc[g] \notin {"idle", "free_both"} => Len(C) >= 2
  BY DEF PacedInv, ApartInv
<1>3. ASSUME NEW g \in Poppers
      PROVE  pc[g] \notin {"old_tail", "move_tail", "free_cell",
                           "free_entry", "last_node", "move_entry"}
  <2>1. Len(C) >= 2 => Len(C) # 0 /\ Len(C) # 1
    BY ItemsFacts
  <2>2. PopFacts(C, g) /\ GoneFacts(C, g) /\ (C = <<>> => Len(C) = 0)
    BY ItemsFacts DEF PacedInv, PopInv
  <2> QED  BY <1>2, <2>1, <2>2 DEF PopFacts, GoneFacts
<1>4. pc[p] # "swing" => tail = LastCell(C)
  BY <1>1, <1>3 DEF PacedInv, TailInv
<1>5. entry \in Cell \ freedNodes
  BY <1>3 DEF TypesInv, QueueTypeOK, PacedInv, ChainInv
<1>6. CASE C = <<>>
  <2>1. Entry \notin freedCells
    BY CellFacts DEF TypesInv, QueueTypeOK
  <2>2. next[entry] = Null
    BY <1>6, LeadsFacts DEF PacedInv, ChainInv
  <2> QED  BY <1>1, <1>2, <1>3, <1>4, <1>5, <1>6, <2>1, <2>2, CellFacts
           DEF LastCell, LastNode, LiveCell, LiveNode, Target
<1>7. CASE C # <<>>
  <2>1. Len(C) \in 1 .. Len(C)
    BY <1>7, ItemsFacts
  <2>2. C[Len(C)] \in Cell /\ C[Len(C)] \in Range(C) /\ C[Len(C)] # Entry
    BY <2>1, ItemsFacts
  <2>3. C[Len(C)] \notin freedNodes /\ C[Len(C)] \notin freedCells
    BY <2>2 DEF PacedInv, ChainInv
  <2>4. next[C[Len(C)]] = Null
    BY <1>7, LeadsFacts DEF PacedInv, ChainInv
  <2> QED  BY <1>1, <1>2, <1>3, <1>4, <1>7, <2>2, <2>3, <2>4
           DEF LastCell, LastNode, LiveCell, LiveNode, Target
<1> QED  BY <1>6, <1>7

\* What a pop can rely on while it is in its call.
LEMMA PopView ==
  ASSUME TypesInv, NEW C \in Items, PacedInv(C), NEW g \in Poppers, pc[g] # "idle"
  PROVE  /\ pc[g] \in PopPlaces
         /\ \A h \in Poppers : h # g => pc[h] = "idle"
         /\ pc[g] # "free_both" => \A p \in Pushers : pc[p] # "idle" => Len(C) >= 2
         /\ pc[g] \notin {"last_node", "move_entry"} => LiveNode(entry)
         /\ PopFacts(C, g) /\ GoneFacts(C, g)
         /\ C # <<>> => /\ next[entry] = C[1] /\ C[1] # Null /\ C[1] \in Item
                        /\ LiveCell(C[1]) /\ LiveNode(C[1]) /\ C[1] # entry
                        /\ C[1] \in Range(C)
         /\ Len(C) = 1 <=> C # <<>> /\ next[C[1]] = Null
         /\ Len(C) >= 2 => next[C[1]] = C[2]
<1>1. \A h \in Poppers : h # g => pc[h] = "idle"
  BY DEF PacedInv, OneEach
<1>2. pc[g] # "free_both" => \A p \in Pushers : pc[p] # "idle" => Len(C) >= 2
  BY DEF PacedInv, ApartInv
<1>3. PopFacts(C, g) /\ GoneFacts(C, g) /\ pc[g] \in PopPlaces
  BY DEF PacedInv, PopInv, PopFacts
<1>4. pc[g] \notin {"last_node", "move_entry"} => LiveNode(entry)
  BY <1>1 DEF PacedInv, ChainInv, LiveNode, TypesInv, QueueTypeOK
<1>5. Leads(next, next[entry], C)
  BY DEF PacedInv, ChainInv
<1>6. C # <<>> => /\ next[entry] = C[1] /\ C[1] # Null /\ C[1] \in Item
                  /\ LiveCell(C[1]) /\ LiveNode(C[1]) /\ C[1] # entry
                  /\ C[1] \in Range(C)
  <2> SUFFICES ASSUME C # <<>>
               PROVE  /\ next[entry] = C[1] /\ C[1] # Null /\ C[1] \in Item
                      /\ LiveCell(C[1]) /\ LiveNode(C[1]) /\ C[1] # entry
                      /\ C[1] \in Range(C)
    OBVIOUS
  <2>1. 1 \in 1 .. Len(C)
    BY ItemsFacts
  <2>2. C[1] \in Item /\ C[1] \in Cell /\ C[1] \in Range(C) /\ C[1] # Null
    BY <2>1, ItemsFacts
  <2> QED  BY <1>5, <2>2, LeadsFacts DEF PacedInv, ChainInv, LiveCell, LiveNode
<1>7. Len(C) = 1 <=> C # <<>> /\ next[C[1]] = Null
  <2>1. Len(C) = 0 \/ Len(C) = 1 \/ Len(C) >= 2
    <3>1. Len(C) \in Nat
      BY ItemsFacts
    <3>2. \A m \in Nat : m = 0 \/ m = 1 \/ m >= 2
      OBVIOUS
    <3> QED  BY <3>1, <3>2
  <2> QED  BY <1>5, <2>1, ItemsFacts, LeadsFacts
<1>8. Len(C) >= 2 => next[C[1]] = C[2]
  BY <1>5, LeadsFacts
<1> QED  BY <1>1, <1>2, <1>3, <1>4, <1>6, <1>7, <1>8

-----------------------------------------------------------------------------
(* The steps of a push                                                     *)

\* A push may start only when no other is in its call.
LEMMA PushStarts ==
  ASSUME TypesInv, paced, NEW C \in Items, PacedInv(C), NEW p \in Pushers, PushCall(p)
  PROVE  /\ \A q \in Pushers : q # p => pc[q] = "idle"
         /\ \A g \in Poppers : pc[g] \notin {"idle", "free_both"} => Len(C) >= 2
<1>1. Chain = C
  BY ChainIs DEF ChainRead, PacedInv, ChainInv
<1>2. PushAllowed
  BY DEF PushCall
<1> QED  BY <1>1, <1>2, CellFacts DEF PushAllowed, InCall

LEMMA PushReads ==
  ASSUME TypesInv, paced, NEW C \in Items, PacedInv(C), NEW p \in Pushers,
         PushCall(p) \/ PushTail(p) \/ PushNode(p) \/ PushNext(p) \/ PushCheck(p)
  PROVE  PacedInv(C)' /\ pc'[p] \notin {"swing", "undefined"}
<1>1. p \in Threads /\ p \notin Poppers /\ Poppers \subseteq Threads
      /\ seenTail \in [Threads -> Cell \cup {<<x>> : x \in Item} \cup {Null}]
      /\ node \in [Threads -> Cell \cup {Null}]
      /\ seenNext \in [Threads -> Item \cup {Null}]
  BY CellFacts DEF TypesInv, QueueTypeOK

<1>2. CASE PushCall(p)
  <2>1. /\ \A q \in Pushers : q # p => pc[q] = "idle"
        /\ \A g \in Poppers : pc[g] \notin {"idle", "free_both"} => Len(C) >= 2
    BY <1>2, PushStarts
  <2>2. /\ Goto(p, "tail")
        /\ UNCHANGED <<entry, tail, next, freedNodes, freedCells, tmp, succ, puts>>
        /\ seenTail' = seenTail /\ node' = node /\ seenNext' = seenNext
    BY <1>2, <2>1 DEF PushCall, PushFacts, queue, heap, locals, calls
  <2>3. pc'[p] = "tail"
    BY <1>1, <2>2, GoneTo
  <2>4. \A g \in Poppers : SameLocals(g)
    BY <1>1, <2>2 DEF SameLocals
  <2>5. PushFacts(C, p)'
    BY <1>1, <2>1, <2>2, <2>3, <1>2 DEF PushCall, PushFacts, PushPlaces, LastNode
  <2>6. pc[p] # "swing"
    BY <1>2 DEF PushCall
  <2> QED  BY <2>1, <2>2, <2>3, <2>4, <2>5, <2>6, PusherKeeps
<1>3. CASE PushTail(p)
  <2>1. /\ \A q \in Pushers : q # p => pc[q] = "idle"
        /\ \A g \in Poppers : pc[g] \notin {"idle", "free_both"} => Len(C) >= 2
        /\ tail = LastCell(C) /\ LiveCell(LastCell(C)) /\ LiveNode(LastNode(C))
        /\ Target(LastCell(C)) = LastNode(C) /\ next[LastNode(C)] = Null
        /\ PushFacts(C, p)
    BY <1>3, PushView DEF PushTail, PacedInv, PushInv
  <2>2. /\ Goto(p, "node")
        /\ UNCHANGED <<entry, tail, next, freedNodes, freedCells, tmp, succ, puts>>
        /\ seenTail' = [seenTail EXCEPT ![p] = tail]
        /\ node' = node /\ seenNext' = seenNext
    BY <1>3, <2>1 DEF PushTail, PushFacts, queue, heap, locals, calls
  <2>3. pc'[p] = "node"
    BY <1>1, <2>2, GoneTo
  <2>4. \A g \in Poppers : SameLocals(g)
    BY <1>1, <2>2 DEF SameLocals
  <2>5. PushFacts(C, p)'
    BY <1>1, <2>1, <2>2, <2>3, <1>3 DEF PushTail, PushFacts, PushPlaces, LastNode
  <2>6. pc[p] # "swing"
    BY <1>3 DEF PushTail
  <2> QED  BY <2>1, <2>2, <2>3, <2>4, <2>5, <2>6, PusherKeeps
<1>4. CASE PushNode(p)
  <2>1. /\ \A q \in Pushers : q # p => pc[q] = "idle"
        /\ \A g \in Poppers : pc[g] \notin {"idle", "free_both"} => Len(C) >= 2
        /\ tail = LastCell(C) /\ LiveCell(LastCell(C)) /\ LiveNode(LastNode(C))
        /\ Target(LastCell(C)) = LastNode(C) /\ next[LastNode(C)] = Null
        /\ PushFacts(C, p)
    BY <1>4, PushView DEF PushNode, PacedInv, PushInv
  <2>2. PICK s \in {"next", "link"} :
          /\ Goto(p, s)
          /\ UNCHANGED <<entry, tail, next, freedNodes, freedCells, tmp, succ, puts>>
          /\ seenTail' = seenTail /\ seenNext' = seenNext
          /\ node' = [node EXCEPT ![p] = Target(seenTail[p])]
    BY <1>4, <2>1 DEF PushNode, PushFacts, queue, heap, locals, calls
  <2>3. pc'[p] = s
    BY <1>1, <2>2, GoneTo
  <2>4. \A g \in Poppers : SameLocals(g)
    BY <1>1, <2>2 DEF SameLocals
  <2>5. PushFacts(C, p)'
    BY <1>1, <2>1, <2>2, <2>3, <1>4 DEF PushNode, PushFacts, PushPlaces, LastNode
  <2>6. pc[p] # "swing"
    BY <1>4 DEF PushNode
  <2> QED  BY <2>1, <2>2, <2>3, <2>4, <2>5, <2>6, PusherKeeps
<1>5. CASE PushNext(p)
  <2>1. /\ \A q \in Pushers : q # p => pc[q] = "idle"
        /\ \A g \in Poppers : pc[g] \notin {"idle", "free_both"} => Len(C) >= 2
        /\ tail = LastCell(C) /\ LiveCell(LastCell(C)) /\ LiveNode(LastNode(C))
        /\ Target(LastCell(C)) = LastNode(C) /\ next[LastNode(C)] = Null
        /\ PushFacts(C, p)
    BY <1>5, PushView DEF PushNext, PacedInv, PushInv
  <2>2. /\ Goto(p, "check")
        /\ UNCHANGED <<entry, tail, next, freedNodes, freedCells, tmp, succ, puts>>
        /\ seenNext' = [seenNext EXCEPT ![p] = next[node[p]]]
        /\ seenTail' = seenTail /\ node' = node
    BY <1>5, <2>1 DEF PushNext, PushFacts, queue, heap, locals, calls
  <2>3. pc'[p] = "check"
    BY <1>1, <2>2, GoneTo
  <2>4. \A g \in Poppers : SameLocals(g)
    BY <1>1, <2>2 DEF SameLocals
  <2>5. PushFacts(C, p)'
    BY <1>1, <2>1, <2>2, <2>3, <1>5 DEF PushNext, PushFacts, PushPlaces, LastNode
  <2>6. pc[p] # "swing"
    BY <1>5 DEF PushNext
  <2> QED  BY <2>1, <2>2, <2>3, <2>4, <2>5, <2>6, PusherKeeps
<1>6. CASE PushCheck(p)
  <2>1. /\ \A q \in Pushers : q # p => pc[q] = "idle"
        /\ \A g \in Poppers : pc[g] \notin {"idle", "free_both"} => Len(C) >= 2
        /\ tail = LastCell(C) /\ LiveCell(LastCell(C)) /\ LiveNode(LastNode(C))
        /\ Target(LastCell(C)) = LastNode(C) /\ next[LastNode(C)] = Null
        /\ PushFacts(C, p)
    BY <1>6, PushView DEF PushCheck, PacedInv, PushInv
  <2>2. /\ Goto(p, "node_again")
        /\ UNCHANGED <<entry, tail, next, freedNodes, freedCells, tmp, succ, puts>>
        /\ seenTail' = seenTail /\ node' = node /\ seenNext' = seenNext
    BY <1>6, <2>1 DEF PushCheck, PushFacts, queue, heap, locals, calls
  <2>3. pc'[p] = "node_again"
    BY <1>1, <2>2, GoneTo
  <2>4. \A g \in Poppers : SameLocals(g)
    BY <1>1, <2>2 DEF SameLocals
  <2>5. PushFacts(C, p)'
    BY <1>1, <2>1, <2>2, <2>3, <1>6 DEF PushCheck, PushFacts, PushPlaces, LastNode
  <2>6. pc[p] # "swing"
    BY <1>6 DEF PushCheck
  <2> QED  BY <2>1, <2>2, <2>3, <2>4, <2>5, <2>6, PusherKeeps
<1> QED  BY <1>2, <1>3, <1>4, <1>5, <1>6

\* The CAS of a push finds NULL, and the new item is behind all others.
LEMMA PushLinks ==
  ASSUME TypesInv, TypesInv', paced, NEW C \in Items, PacedInv(C), NEW p \in Pushers,
         PushLink(p), NEW D, D = Append(C, New(p))
  PROVE  /\ D \in Items /\ PacedInv(D)' /\ Goto(p, "swing") /\ pc[p] # "swing"
         /\ UNCHANGED <<seenNext, puts, got>> /\ New(p) \notin Range(C)
<1> DEFINE x == New(p)
<1>1. /\ p \in Threads /\ p \notin Poppers /\ Poppers \subseteq Threads
      /\ x \in Item /\ x[1] = p /\ x[2] = puts[p] + 1 /\ x \in Cell
      /\ \A q \in Pushers : puts[q] \in Nat
      /\ next \in NextFields /\ entry \in Cell
  <2>1. QueueTypeOK /\ puts[p] < MyLimit
    BY DEF PushLink, TypesInv
  <2>2. x \in Item /\ x[1] = p /\ x[2] = puts[p] + 1
    BY <2>1, NewIsItem
  <2>3. \A q \in Pushers : puts[q] \in Nat
    <3>1. puts \in [Pushers -> 0 .. Limit] /\ \A m \in 0 .. Limit : m \in Nat
      BY <2>1, CellFacts DEF QueueTypeOK
    <3> QED  BY <3>1
  <2>4. next \in NextFields /\ entry \in Cell
    BY <2>1 DEF QueueTypeOK, NextFields
  <2> HIDE DEF x
  <2> QED  BY <2>2, <2>3, <2>4, CellFacts
<1>2. /\ \A q \in Pushers : q # p => pc[q] = "idle"
      /\ \A g \in Poppers : pc[g] \notin {"idle", "free_both"} => Len(C) >= 2
      /\ \A g \in Poppers : pc[g] \notin {"old_tail", "move_tail", "free_cell",
                                          "free_entry", "last_node", "move_entry"}
      /\ tail = LastCell(C) /\ LiveNode(LastNode(C)) /\ next[LastNode(C)] = Null
      /\ seenTail[p] = LastCell(C) /\ node[p] = LastNode(C) /\ pc[p] = "link"
  BY PushView DEF PushLink, PacedInv, PushInv, PushFacts
<1>3. /\ next' = [next EXCEPT ![LastNode(C)] = x] /\ Goto(p, "swing")
      /\ UNCHANGED <<entry, tail, freedNodes, freedCells, seenTail, node, seenNext, tmp,
                     succ, puts, got>>
  BY <1>2 DEF PushLink, heap, locals, calls
<1>4. /\ pc'[p] = "swing" /\ \A q \in Pushers : q # p => pc'[q] = "idle"
      /\ \A g \in Poppers : pc'[g] = pc[g]
  BY <1>1, <1>2, <1>3, GoneTo, CellFacts
<1>5. x \notin Pushed
  <2>1. ~(puts[p] + 1 <= puts[p])
    BY <1>1
  <2> QED  BY <1>1, <1>2, <2>1 DEF Pushed, PutCount, Linked
<1>6. Pushed' = Pushed \cup {x}
  <2>1. \A y \in Item : y[1] \in Pushers /\ y[2] \in Nat /\ y = <<y[1], y[2]>>
    BY DEF Item
  <2>2. PutCount(p) = puts[p] /\ PutCount(p)' = puts[p] + 1
    BY <1>2, <1>3, <1>4 DEF PutCount, Linked
  <2>3. \A q \in Pushers : q # p => PutCount(q)' = PutCount(q)
    BY <1>2, <1>3, <1>4 DEF PutCount, Linked
  <2>4. \A m, l \in Nat : m <= l + 1 <=> m <= l \/ m = l + 1
    OBVIOUS
  <2>5. \A y \in Item : y[1] = p => (y[2] <= puts[p] + 1 <=> y[2] <= puts[p] \/ y = x)
    BY <1>1, <2>1, <2>4 DEF New
  <2>6. \A y \in Item : y[2] <= PutCount(y[1])' <=> (y[2] <= PutCount(y[1]) \/ y = x)
    BY <1>1, <2>1, <2>2, <2>3, <2>5
  <2> QED  BY <1>1, <2>6 DEF Pushed
<1>7. Kept' = Kept
  BY <1>3, <1>4, KeptSame
<1>8. /\ x \notin Range(C) /\ x # entry /\ x \notin freedNodes /\ x \notin freedCells
      /\ next[x] = Null /\ entry \notin Range(C) /\ Leads(next, next[entry], C)
  BY <1>1, <1>5, CellFacts DEF PacedInv, PushedInv, ChainInv
<1>9. /\ D \in Items /\ Leads(next', next'[entry], D) /\ Range(D) = Range(C) \cup {x}
      /\ Len(D) = Len(C) + 1 /\ D[Len(D)] = x /\ D # <<>>
      /\ \A j \in 1 .. Len(C) : D[j] = C[j]
  <2> HIDE DEF x
  <2>1. LastNode(C) = IF C = <<>> THEN entry ELSE C[Len(C)]
    BY DEF LastNode
  <2>2. D = Append(C, x)
    BY DEF x
  <2>3. PICK nx, mx, e, y : nx = next /\ mx = next' /\ e = entry /\ y = x
    OBVIOUS
  <2>4. Linking(C, nx, e, y, mx, D)
    BY <1>1, <1>3, <1>8, <2>1, <2>2, <2>3 DEF Linking
  <2>5. HasAppended(C, e, y, mx, D)
    BY <2>4, LinkAppends
  <2> QED  BY <2>3, <2>5 DEF HasAppended
<1> HIDE DEF x
<1>10. /\ Len(C) \in Nat /\ (C # <<>> => C[1] = D[1] /\ Len(C) \in 1 .. Len(C))
       /\ Len(C) >= 2 => D[2] = C[2] /\ Len(D) >= 2
       /\ C = <<>> <=> Len(C) = 0
  <2>1. Len(C) \in Nat /\ (C = <<>> <=> Len(C) = 0)
    BY ItemsFacts
  <2>2. C # <<>> => 1 \in 1 .. Len(C) /\ Len(C) \in 1 .. Len(C)
    BY <2>1
  <2>3. Len(C) >= 2 => 2 \in 1 .. Len(C) /\ Len(C) + 1 >= 2
    BY <2>1
  <2> QED  BY <1>9, <2>1, <2>2, <2>3
<1>11. OneEach'
  BY <1>4 DEF PacedInv, OneEach
<1>12. ChainInv(D)'
  BY <1>3, <1>4, <1>8, <1>9 DEF PacedInv, ChainInv
<1>13. PushedInv(D)'
  <2>1. LastNode(C) \in Pushed \cup {Entry}
    <3>1. C # <<>> => C[Len(C)] \in Range(C)
      BY <1>10, ItemsFacts
    <3> QED  BY <3>1 DEF PacedInv, PushedInv, LastNode
  <2>2. \A y \in Item \ Pushed' : next'[y] = Null
    <3>1. \A y \in Item \ Pushed' : y \in Item \ Pushed /\ y # LastNode(C) /\ y \in Cell
      BY <1>6, <2>1, CellFacts
    <3> QED  BY <1>1, <1>3, <3>1 DEF PacedInv, PushedInv, NextFields
  <2>3. /\ Range(D) \subseteq Pushed' /\ entry' \in Pushed' \cup {Entry}
        /\ freedNodes' \subseteq Pushed' \cup {Entry} /\ freedCells' \subseteq Pushed'
    BY <1>3, <1>6, <1>9 DEF PacedInv, PushedInv
  <2>4. Pushed' \subseteq freedNodes' \cup {entry'} \cup Range(D) \cup Kept'
    BY <1>3, <1>6, <1>7, <1>9 DEF PacedInv, PushedInv
  <2> QED  BY <2>2, <2>3, <2>4 DEF PushedInv
<1>14. TailInv(D)'
  BY <1>4 DEF TailInv
<1>15. ApartInv(D)'
  <2>1. \A g \in Poppers : pc[g] \notin {"idle", "free_both"} => Len(D) >= 2
    BY <1>2, <1>10
  <2> QED  BY <1>4, <2>1 DEF ApartInv
<1>16. PushInv(D)'
  <2>1. \A q \in Pushers : q # p => PushFacts(D, q)'
    BY <1>4 DEF PushFacts, PushPlaces
  <2>2. New(p)' = x
    BY <1>3 DEF New, x
  <2>3. Len(D) >= 2 => tail = D[Len(D) - 1]
    <3> SUFFICES ASSUME Len(D) >= 2 PROVE tail = D[Len(D) - 1]
      OBVIOUS
    <3>1. C # <<>> /\ Len(D) - 1 = Len(C)
      BY <1>9, <1>10
    <3> QED  BY <1>2, <1>9, <1>10, <3>1 DEF LastCell
  <2>4. PushFacts(D, p)'
    BY <1>2, <1>3, <1>4, <1>9, <2>2, <2>3 DEF PushFacts, PushPlaces
  <2> QED  BY <2>1, <2>4 DEF PushInv
<1>17. PopInv(D)'
  <2>1. ASSUME NEW g \in Poppers PROVE PopFacts(D, g)'
    <3>1. PopFacts(C, g) /\ (pc[g] \notin {"idle", "free_both"} => Len(C) >= 2 /\ C # <<>>)
      BY <1>2, <1>10 DEF PacedInv, PopInv
    <3> QED  BY <1>2, <1>3, <1>4, <1>9, <1>10, <3>1 DEF PopFacts
  <2>2. ASSUME NEW g \in Poppers PROVE GoneFacts(D, g)'
    <3>1. GoneFacts(C, g)
      BY DEF PacedInv, PopInv
    <3> QED  BY <1>2, <1>3, <1>4, <1>5, <1>6, <1>9, <3>1 DEF GoneFacts
  <2> QED  BY <2>1, <2>2 DEF PopInv
<1>18. PacedInv(D)'
  BY <1>11, <1>12, <1>13, <1>14, <1>15, <1>16, <1>17 DEF PacedInv
<1> QED  BY <1>2, <1>3, <1>8, <1>9, <1>18 DEF x

\* The CAS on tail finds what the push has seen.
LEMMA PushSwings ==
  ASSUME TypesInv, TypesInv', paced, NEW C \in Items, PacedInv(C), NEW p \in Pushers,
         PushSwing(p)
  PROVE  /\ PacedInv(C)' /\ Goto(p, "idle") /\ pc[p] = "swing"
         /\ puts' = [puts EXCEPT ![p] = @ + 1] /\ UNCHANGED <<seenNext, got>>
<1>1. /\ p \in Threads /\ p \notin Poppers /\ Poppers \subseteq Threads
      /\ puts \in [Pushers -> 0 .. Limit] /\ next \in NextFields /\ entry \in Cell
  BY CellFacts DEF PushSwing, TypesInv, QueueTypeOK, NextFields
<1>2. /\ \A q \in Pushers : q # p => pc[q] = "idle"
      /\ \A g \in Poppers : pc[g] \notin {"idle", "free_both"} => Len(C) >= 2
      /\ \A g \in Poppers : pc[g] \notin {"old_tail", "move_tail", "free_cell",
                                          "free_entry", "last_node", "move_entry"}
      /\ pc[p] = "swing" /\ C # <<>> /\ C[Len(C)] = New(p) /\ tail = seenTail[p]
  BY PushView DEF PushSwing, PacedInv, PushInv, PushFacts
<1>3. /\ tail' = New(p) /\ Goto(p, "idle") /\ puts' = [puts EXCEPT ![p] = @ + 1]
      /\ UNCHANGED <<entry, next, freedNodes, freedCells, seenTail, node, seenNext, tmp,
                     succ, got>>
  BY <1>2 DEF PushSwing, heap, locals
<1>4. /\ \A q \in Pushers : pc'[q] = "idle"
      /\ \A g \in Poppers : pc'[g] = pc[g]
  BY <1>1, <1>2, <1>3, GoneTo, CellFacts
<1>5. Pushed' = Pushed
  <2>1. \A x \in Item : x[1] \in Pushers
    BY DEF Item
  <2>2. \A q \in Pushers : PutCount(q)' = PutCount(q)
    BY <1>1, <1>2, <1>3, <1>4 DEF PutCount, Linked
  <2> QED  BY <2>1, <2>2 DEF Pushed
<1>6. Kept' = Kept
  BY <1>3, <1>4, KeptSame
<1>7. OneEach'
  BY <1>4 DEF PacedInv, OneEach
<1>8. ChainInv(C)'
  BY <1>3, <1>4 DEF PacedInv, ChainInv
<1>9. PushedInv(C)'
  BY <1>3, <1>5, <1>6 DEF PacedInv, PushedInv
<1>10. TailInv(C)'
  BY <1>2, <1>3 DEF TailInv, LastCell
<1>11. ApartInv(C)'
  BY <1>4 DEF ApartInv
<1>12. PushInv(C)'
  BY <1>4 DEF PushInv, PushFacts, PushPlaces
<1>13. PopInv(C)'
  <2>1. \A g \in Poppers : PopFacts(C, g)'
    BY <1>3, <1>4 DEF PacedInv, PopInv, PopFacts
  <2>2. \A g \in Poppers : GoneFacts(C, g)'
    BY <1>2, <1>3, <1>4, <1>5 DEF PacedInv, PopInv, GoneFacts
  <2> QED  BY <2>1, <2>2 DEF PopInv
<1> QED  BY <1>2, <1>3, <1>7, <1>8, <1>9, <1>10, <1>11, <1>12, <1>13 DEF PacedInv

\* Nobody is ever asked to help at the pace.
LEMMA PushNeverHelps ==
  ASSUME TypesInv, NEW C \in Items, PacedInv(C), NEW p \in Pushers
  PROVE  ~PushHelp(p)
BY DEF PushHelp, PacedInv, PushInv, PushFacts, PushPlaces

-----------------------------------------------------------------------------
(* The steps of a pop                                                      *)

\* A pop may start only when no other is in its call.
LEMMA PopStarts ==
  ASSUME TypesInv, paced, NEW C \in Items, PacedInv(C), NEW g \in Poppers, PopCall(g)
  PROVE  /\ \A h \in Poppers : h # g => pc[h] = "idle"
         /\ \A p \in Pushers : pc[p] # "idle" => Len(C) >= 2
<1>1. Chain = C
  BY ChainIs DEF ChainRead, PacedInv, ChainInv
<1>2. PopAllowed
  BY DEF PopCall
<1> QED  BY <1>1, <1>2, CellFacts DEF PopAllowed, InCall

\* Where tail is when a pop loads it: at Entry only if the chain is empty.
LEMMA PopSeesTail ==
  ASSUME TypesInv, NEW C \in Items, PacedInv(C), NEW g \in Poppers, pc[g] = "tail"
  PROVE  IF C = <<>> THEN tail = Entry ELSE tail \in Range(C) /\ tail # Entry
<1>1. /\ \A h \in Poppers : h # g => pc[h] = "idle"
      /\ \A p \in Pushers : pc[p] # "idle" => Len(C) >= 2
      /\ Len(C) \in Nat /\ (C = <<>> <=> Len(C) = 0)
  BY PopView, ItemsFacts
<1>2. CASE \E p \in Pushers : pc[p] = "swing"
  <2>1. PICK p \in Pushers : pc[p] = "swing"
    BY <1>2
  <2>2. Len(C) >= 2 /\ tail = C[Len(C) - 1]
    BY <1>1, <2>1 DEF PacedInv, PushInv, PushFacts
  <2>3. Len(C) - 1 \in 1 .. Len(C) /\ C # <<>>
    BY <1>1, <2>2
  <2> QED  BY <2>2, <2>3, ItemsFacts
<1>3. CASE ~\E p \in Pushers : pc[p] = "swing"
  <2>1. tail = LastCell(C)
    BY <1>1, <1>3 DEF PacedInv, TailInv
  <2>2. C # <<>> => Len(C) \in 1 .. Len(C)
    BY <1>1
  <2> QED  BY <2>1, <2>2, ItemsFacts DEF LastCell
<1> QED  BY <1>2, <1>3

LEMMA PopReads ==
  ASSUME TypesInv, paced, NEW C \in Items, PacedInv(C), NEW g \in Poppers,
         \/ PopCall(g) \/ PopTail(g) \/ PopNode(g) \/ PopTmp(g) \/ PopNext(g)
         \/ PopCompare(g) \/ PopValue(g) \/ PopOldTail(g) \/ PopSucc(g)
  PROVE  /\ PacedInv(C)' /\ pc'[g] # "free_both"
         /\ \A h \in Poppers : h # g => pc[h] = "idle" /\ pc'[h] = "idle"
         /\ pc[g] \in {"old_tail", "move_tail", "free_cell"}
              <=> pc'[g] \in {"old_tail", "move_tail", "free_cell"}
<1>1. /\ g \in Threads /\ g \notin Pushers /\ Pushers \subseteq Threads
      /\ Poppers \subseteq Threads
      /\ seenTail \in [Threads -> Cell \cup {<<x>> : x \in Item} \cup {Null}]
      /\ node \in [Threads -> Cell \cup {Null}]
      /\ seenNext \in [Threads -> Item \cup {Null}]
      /\ tmp \in [Poppers -> Item \cup {Null}]
      /\ succ \in [Poppers -> Item \cup {Null}]
  BY CellFacts DEF TypesInv, QueueTypeOK
<1>2. Entry \notin Range(C) /\ \A x \in Range(C) : LiveCell(x) /\ Target(x) = x /\ x # entry
  <2>1. Entry \notin Range(C) /\ Range(C) \subseteq Cell
    BY ItemsFacts, CellFacts
  <2> QED  BY <2>1 DEF PacedInv, ChainInv, LiveCell, Target

<1>3. CASE PopCall(g)
  <2>1. /\ \A h \in Poppers : h # g => pc[h] = "idle"
        /\ \A p \in Pushers : pc[p] # "idle" => Len(C) >= 2
    BY <1>3, PopStarts
  <2>2. /\ Goto(g, "tail")
        /\ UNCHANGED <<entry, tail, next, freedNodes, freedCells, puts>>
        /\ seenTail' = seenTail
        /\ node' = node
        /\ seenNext' = seenNext
        /\ tmp' = tmp
        /\ succ' = succ
    BY <1>3, <2>1 DEF PopCall, PopFacts, Return, queue, heap, locals, calls
  <2>3. pc'[g] = "tail" /\ \A t \in Threads : t # g => pc'[t] = pc[t]
    BY <1>1, <2>2, GoneTo
  <2>4. \A p \in Pushers : SameLocals(p)
    BY <1>1, <2>2 DEF SameLocals
  <2>5. PopFacts(C, g)'
    BY <1>1, <1>3, <2>1, <2>2, <2>3 DEF PopCall, PopFacts, PopPlaces, Goto
  <2>6. GoneFacts(C, g)'
    BY <1>1, <1>3, <2>1, <2>2, <2>3 DEF PopCall, GoneFacts, Goto
  <2> QED  BY <1>1, <1>3, <2>1, <2>2, <2>3, <2>4, <2>5, <2>6, PopperKeeps DEF PopCall
<1>4. CASE PopTail(g)
  <2>1. /\ \A h \in Poppers : h # g => pc[h] = "idle"
        /\ \A p \in Pushers : pc[p] # "idle" => Len(C) >= 2
        /\ PopFacts(C, g) /\ GoneFacts(C, g)
        /\ pc[g] \notin {"last_node", "move_entry"} => LiveNode(entry)
        /\ C # <<>> => /\ next[entry] = C[1] /\ C[1] # Null /\ C[1] \in Item
                       /\ LiveCell(C[1]) /\ LiveNode(C[1]) /\ C[1] \in Range(C)
        /\ Len(C) = 1 <=> C # <<>> /\ next[C[1]] = Null
        /\ Len(C) >= 2 => next[C[1]] = C[2]
    BY <1>4, PopView DEF PopTail
  <2>7. IF C = <<>> THEN tail = Entry ELSE tail \in Range(C) /\ tail # Entry
    BY <1>4, PopSeesTail DEF PopTail
  <2>2. PICK s \in {"idle", "tmp_node"} :
          /\ Goto(g, s) /\ UNCHANGED <<entry, tail, next, freedNodes, freedCells, puts>>
          /\ seenTail' = [seenTail EXCEPT ![g] = tail]
          /\ node' = node
          /\ seenNext' = seenNext
          /\ tmp' = tmp
          /\ succ' = succ
    BY <1>4, <2>1, <2>7 DEF PopTail, PopFacts, Return, queue, heap, locals, calls
  <2>3. pc'[g] = s /\ \A t \in Threads : t # g => pc'[t] = pc[t]
    BY <1>1, <2>2, GoneTo
  <2>4. \A p \in Pushers : SameLocals(p)
    BY <1>1, <2>2 DEF SameLocals
  <2>5. PopFacts(C, g)'
    BY <1>1, <1>4, <2>1, <2>2, <2>3, <2>7 DEF PopTail, PopFacts, PopPlaces, Goto, Return
  <2>6. GoneFacts(C, g)'
    BY <1>1, <1>4, <2>1, <2>2, <2>3, <2>7 DEF PopTail, GoneFacts, Goto
  <2> QED  BY <1>1, <1>4, <2>1, <2>2, <2>3, <2>4, <2>5, <2>6, PopperKeeps DEF PopTail
<1>5. CASE PopNode(g)
  <2>1. /\ \A h \in Poppers : h # g => pc[h] = "idle"
        /\ \A p \in Pushers : pc[p] # "idle" => Len(C) >= 2
        /\ PopFacts(C, g) /\ GoneFacts(C, g)
        /\ pc[g] \notin {"last_node", "move_entry"} => LiveNode(entry)
        /\ C # <<>> => /\ next[entry] = C[1] /\ C[1] # Null /\ C[1] \in Item
                       /\ LiveCell(C[1]) /\ LiveNode(C[1]) /\ C[1] \in Range(C)
        /\ Len(C) = 1 <=> C # <<>> /\ next[C[1]] = Null
        /\ Len(C) >= 2 => next[C[1]] = C[2]
    BY <1>5, PopView DEF PopNode
  <2>2. PICK s \in {"tmp", "next", "move_entry", "succ"} :
          /\ Goto(g, s) /\ UNCHANGED <<entry, tail, next, freedNodes, freedCells, puts>>
          /\ seenTail' = seenTail
          /\ node' = [node EXCEPT ![g] = entry]
          /\ seenNext' = seenNext
          /\ tmp' = tmp
          /\ succ' = succ
    BY <1>5, <2>1 DEF PopNode, PopFacts, Return, queue, heap, locals, calls
  <2>3. pc'[g] = s /\ \A t \in Threads : t # g => pc'[t] = pc[t]
    BY <1>1, <2>2, GoneTo
  <2>4. \A p \in Pushers : SameLocals(p)
    BY <1>1, <2>2 DEF SameLocals
  <2>5. PopFacts(C, g)'
    BY <1>1, <1>5, <2>1, <2>2, <2>3 DEF PopNode, PopFacts, PopPlaces, Goto
  <2>6. GoneFacts(C, g)'
    BY <1>1, <1>5, <2>1, <2>2, <2>3 DEF PopNode, GoneFacts, Goto
  <2> QED  BY <1>1, <1>5, <2>1, <2>2, <2>3, <2>4, <2>5, <2>6, PopperKeeps DEF PopNode
<1>6. CASE PopTmp(g)
  <2>1. /\ \A h \in Poppers : h # g => pc[h] = "idle"
        /\ \A p \in Pushers : pc[p] # "idle" => Len(C) >= 2
        /\ PopFacts(C, g) /\ GoneFacts(C, g)
        /\ pc[g] \notin {"last_node", "move_entry"} => LiveNode(entry)
        /\ C # <<>> => /\ next[entry] = C[1] /\ C[1] # Null /\ C[1] \in Item
                       /\ LiveCell(C[1]) /\ LiveNode(C[1]) /\ C[1] \in Range(C)
        /\ Len(C) = 1 <=> C # <<>> /\ next[C[1]] = Null
        /\ Len(C) >= 2 => next[C[1]] = C[2]
    BY <1>6, PopView DEF PopTmp
  <2>2. /\ Goto(g, "next_node")
        /\ UNCHANGED <<entry, tail, next, freedNodes, freedCells, puts>>
        /\ seenTail' = seenTail
        /\ node' = node
        /\ seenNext' = seenNext
        /\ tmp' = [tmp EXCEPT ![g] = next[node[g]]]
        /\ succ' = succ
    BY <1>6, <2>1 DEF PopTmp, PopFacts, Return, queue, heap, locals, calls
  <2>3. pc'[g] = "next_node" /\ \A t \in Threads : t # g => pc'[t] = pc[t]
    BY <1>1, <2>2, GoneTo
  <2>4. \A p \in Pushers : SameLocals(p)
    BY <1>1, <2>2 DEF SameLocals
  <2>5. PopFacts(C, g)'
    BY <1>1, <1>6, <2>1, <2>2, <2>3 DEF PopTmp, PopFacts, PopPlaces, Goto
  <2>6. GoneFacts(C, g)'
    BY <1>1, <1>6, <2>1, <2>2, <2>3 DEF PopTmp, GoneFacts, Goto
  <2> QED  BY <1>1, <1>6, <2>1, <2>2, <2>3, <2>4, <2>5, <2>6, PopperKeeps DEF PopTmp
<1>7. CASE PopNext(g)
  <2>1. /\ \A h \in Poppers : h # g => pc[h] = "idle"
        /\ \A p \in Pushers : pc[p] # "idle" => Len(C) >= 2
        /\ PopFacts(C, g) /\ GoneFacts(C, g)
        /\ pc[g] \notin {"last_node", "move_entry"} => LiveNode(entry)
        /\ C # <<>> => /\ next[entry] = C[1] /\ C[1] # Null /\ C[1] \in Item
                       /\ LiveCell(C[1]) /\ LiveNode(C[1]) /\ C[1] \in Range(C)
        /\ Len(C) = 1 <=> C # <<>> /\ next[C[1]] = Null
        /\ Len(C) >= 2 => next[C[1]] = C[2]
    BY <1>7, PopView DEF PopNext
  <2>2. /\ Goto(g, "compare")
        /\ UNCHANGED <<entry, tail, next, freedNodes, freedCells, puts>>
        /\ seenTail' = seenTail
        /\ node' = node
        /\ seenNext' = [seenNext EXCEPT ![g] = next[node[g]]]
        /\ tmp' = tmp
        /\ succ' = succ
    BY <1>7, <2>1 DEF PopNext, PopFacts, Return, queue, heap, locals, calls
  <2>3. pc'[g] = "compare" /\ \A t \in Threads : t # g => pc'[t] = pc[t]
    BY <1>1, <2>2, GoneTo
  <2>4. \A p \in Pushers : SameLocals(p)
    BY <1>1, <2>2 DEF SameLocals
  <2>5. PopFacts(C, g)'
    BY <1>1, <1>7, <2>1, <2>2, <2>3 DEF PopNext, PopFacts, PopPlaces, Goto
  <2>6. GoneFacts(C, g)'
    BY <1>1, <1>7, <2>1, <2>2, <2>3 DEF PopNext, GoneFacts, Goto
  <2> QED  BY <1>1, <1>7, <2>1, <2>2, <2>3, <2>4, <2>5, <2>6, PopperKeeps DEF PopNext
<1>8. CASE PopCompare(g)
  <2>1. /\ \A h \in Poppers : h # g => pc[h] = "idle"
        /\ \A p \in Pushers : pc[p] # "idle" => Len(C) >= 2
        /\ PopFacts(C, g) /\ GoneFacts(C, g)
        /\ pc[g] \notin {"last_node", "move_entry"} => LiveNode(entry)
        /\ C # <<>> => /\ next[entry] = C[1] /\ C[1] # Null /\ C[1] \in Item
                       /\ LiveCell(C[1]) /\ LiveNode(C[1]) /\ C[1] \in Range(C)
        /\ Len(C) = 1 <=> C # <<>> /\ next[C[1]] = Null
        /\ Len(C) >= 2 => next[C[1]] = C[2]
    BY <1>8, PopView DEF PopCompare
  <2>2. /\ Goto(g, "value")
        /\ UNCHANGED <<entry, tail, next, freedNodes, freedCells, puts>>
        /\ seenTail' = seenTail
        /\ node' = node
        /\ seenNext' = seenNext
        /\ tmp' = tmp
        /\ succ' = succ
    BY <1>8, <2>1, <1>2 DEF PopCompare, PopFacts, Return, queue, heap, locals, calls
  <2>3. pc'[g] = "value" /\ \A t \in Threads : t # g => pc'[t] = pc[t]
    BY <1>1, <2>2, GoneTo
  <2>4. \A p \in Pushers : SameLocals(p)
    BY <1>1, <2>2 DEF SameLocals
  <2>5. PopFacts(C, g)'
    BY <1>1, <1>8, <2>1, <2>2, <2>3 DEF PopCompare, PopFacts, PopPlaces, Goto
  <2>6. GoneFacts(C, g)'
    BY <1>1, <1>8, <2>1, <2>2, <2>3 DEF PopCompare, GoneFacts, Goto
  <2> QED  BY <1>1, <1>8, <2>1, <2>2, <2>3, <2>4, <2>5, <2>6, PopperKeeps DEF PopCompare
<1>9. CASE PopValue(g)
  <2>1. /\ \A h \in Poppers : h # g => pc[h] = "idle"
        /\ \A p \in Pushers : pc[p] # "idle" => Len(C) >= 2
        /\ PopFacts(C, g) /\ GoneFacts(C, g)
        /\ pc[g] \notin {"last_node", "move_entry"} => LiveNode(entry)
        /\ C # <<>> => /\ next[entry] = C[1] /\ C[1] # Null /\ C[1] \in Item
                       /\ LiveCell(C[1]) /\ LiveNode(C[1]) /\ C[1] \in Range(C)
        /\ Len(C) = 1 <=> C # <<>> /\ next[C[1]] = Null
        /\ Len(C) >= 2 => next[C[1]] = C[2]
    BY <1>9, PopView DEF PopValue
  <2>7. Len(C) = 0 \/ Len(C) = 1 \/ Len(C) >= 2
    <3>1. Len(C) \in Nat /\ \A m \in Nat : m = 0 \/ m = 1 \/ m >= 2
      BY ItemsFacts
    <3> QED  BY <3>1
  <2>8. C = <<>> <=> Len(C) = 0
    BY ItemsFacts
  <2>2. PICK s \in {"free_entry", "swing_node"} :
          /\ Goto(g, s) /\ UNCHANGED <<entry, tail, next, freedNodes, freedCells, puts>>
          /\ seenTail' = seenTail
          /\ node' = node
          /\ seenNext' = seenNext
          /\ tmp' = tmp
          /\ succ' = succ
    BY <1>9, <2>1, <2>7, <2>8 DEF PopValue, PopFacts, Return, queue, heap, locals, calls
  <2>3. pc'[g] = s /\ \A t \in Threads : t # g => pc'[t] = pc[t]
    BY <1>1, <2>2, GoneTo
  <2>4. \A p \in Pushers : SameLocals(p)
    BY <1>1, <2>2 DEF SameLocals
  <2>5. PopFacts(C, g)'
    BY <1>1, <1>9, <2>1, <2>2, <2>3, <2>7, <2>8 DEF PopValue, PopFacts, PopPlaces, Goto
  <2>6. GoneFacts(C, g)'
    BY <1>1, <1>9, <2>1, <2>2, <2>3, <2>7, <2>8 DEF PopValue, GoneFacts, Goto
  <2> QED  BY <1>1, <1>9, <2>1, <2>2, <2>3, <2>4, <2>5, <2>6, PopperKeeps DEF PopValue
<1>10. CASE PopOldTail(g)
  <2>1. /\ \A h \in Poppers : h # g => pc[h] = "idle"
        /\ \A p \in Pushers : pc[p] # "idle" => Len(C) >= 2
        /\ PopFacts(C, g) /\ GoneFacts(C, g)
        /\ pc[g] \notin {"last_node", "move_entry"} => LiveNode(entry)
        /\ C # <<>> => /\ next[entry] = C[1] /\ C[1] # Null /\ C[1] \in Item
                       /\ LiveCell(C[1]) /\ LiveNode(C[1]) /\ C[1] \in Range(C)
        /\ Len(C) = 1 <=> C # <<>> /\ next[C[1]] = Null
        /\ Len(C) >= 2 => next[C[1]] = C[2]
    BY <1>10, PopView DEF PopOldTail
  <2>2. /\ Goto(g, "move_tail")
        /\ UNCHANGED <<entry, tail, next, freedNodes, freedCells, puts>>
        /\ seenTail' = [seenTail EXCEPT ![g] = tail]
        /\ node' = node
        /\ seenNext' = seenNext
        /\ tmp' = tmp
        /\ succ' = succ
    BY <1>10, <2>1 DEF PopOldTail, PopFacts, Return, queue, heap, locals, calls
  <2>3. pc'[g] = "move_tail" /\ \A t \in Threads : t # g => pc'[t] = pc[t]
    BY <1>1, <2>2, GoneTo
  <2>4. \A p \in Pushers : SameLocals(p)
    BY <1>1, <2>2 DEF SameLocals
  <2>5. PopFacts(C, g)'
    BY <1>1, <1>10, <2>1, <2>2, <2>3 DEF PopOldTail, PopFacts, PopPlaces, Goto
  <2>6. GoneFacts(C, g)'
    BY <1>1, <1>10, <2>1, <2>2, <2>3 DEF PopOldTail, GoneFacts, Goto
  <2> QED  BY <1>1, <1>10, <2>1, <2>2, <2>3, <2>4, <2>5, <2>6, PopperKeeps DEF PopOldTail
<1>11. CASE PopSucc(g)
  <2>1. /\ \A h \in Poppers : h # g => pc[h] = "idle"
        /\ \A p \in Pushers : pc[p] # "idle" => Len(C) >= 2
        /\ PopFacts(C, g) /\ GoneFacts(C, g)
        /\ pc[g] \notin {"last_node", "move_entry"} => LiveNode(entry)
        /\ C # <<>> => /\ next[entry] = C[1] /\ C[1] # Null /\ C[1] \in Item
                       /\ LiveCell(C[1]) /\ LiveNode(C[1]) /\ C[1] \in Range(C)
        /\ Len(C) = 1 <=> C # <<>> /\ next[C[1]] = Null
        /\ Len(C) >= 2 => next[C[1]] = C[2]
    BY <1>11, PopView DEF PopSucc
  <2>2. /\ Goto(g, "unlink")
        /\ UNCHANGED <<entry, tail, next, freedNodes, freedCells, puts>>
        /\ seenTail' = seenTail
        /\ node' = node
        /\ seenNext' = seenNext
        /\ tmp' = tmp
        /\ succ' = [succ EXCEPT ![g] = next[seenNext[g]]]
    BY <1>11, <2>1 DEF PopSucc, PopFacts, Return, queue, heap, locals, calls
  <2>3. pc'[g] = "unlink" /\ \A t \in Threads : t # g => pc'[t] = pc[t]
    BY <1>1, <2>2, GoneTo
  <2>4. \A p \in Pushers : SameLocals(p)
    BY <1>1, <2>2 DEF SameLocals
  <2>5. PopFacts(C, g)'
    BY <1>1, <1>11, <2>1, <2>2, <2>3 DEF PopSucc, PopFacts, PopPlaces, Goto
  <2>6. GoneFacts(C, g)'
    BY <1>1, <1>11, <2>1, <2>2, <2>3 DEF PopSucc, GoneFacts, Goto
  <2> QED  BY <1>1, <1>11, <2>1, <2>2, <2>3, <2>4, <2>5, <2>6, PopperKeeps DEF PopSucc
<1> QED  BY <1>3, <1>4, <1>5, <1>6, <1>7, <1>8, <1>9, <1>10, <1>11

\* The entry node is freed before another takes its place.
LEMMA PopFreesEntry ==
  ASSUME TypesInv, paced, NEW C \in Items, PacedInv(C), NEW g \in Poppers, PopFreeEntry(g)
  PROVE  /\ PacedInv(C)' /\ Goto(g, "last_node") /\ pc[g] = "free_entry"
         /\ UNCHANGED <<seenNext, puts, got>>
<1>1. /\ g \in Threads /\ g \notin Pushers /\ Pushers \subseteq Threads
      /\ Poppers \subseteq Threads /\ pc[g] = "free_entry" /\ Len(C) = 1
      /\ \A h \in Poppers : h # g => pc[h] = "idle"
      /\ \A p \in Pushers : pc[p] # "idle" => Len(C) >= 2
      /\ LiveNode(entry) /\ PopFacts(C, g) /\ GoneFacts(C, g)
  BY PopView, CellFacts DEF PopFreeEntry, PopFacts
<1>2. /\ freedNodes' = freedNodes \cup {entry} /\ Goto(g, "last_node")
      /\ UNCHANGED <<entry, tail, next, freedCells, seenTail, node, seenNext, tmp, succ,
                     puts, got>>
  BY <1>1 DEF PopFreeEntry, queue, locals, calls
<1>3. /\ pc'[g] = "last_node" /\ \A h \in Poppers : h # g => pc'[h] = "idle"
      /\ \A p \in Pushers : pc'[p] = pc[p]
  BY <1>1, <1>2, GoneTo
<1>4. Pushed' = Pushed
  BY <1>2, <1>3, PushedSame
<1>5. Kept' = Kept
  BY <1>1, <1>2, <1>3, KeptSame
<1>6. OneEach'
  BY <1>3 DEF PacedInv, OneEach
<1>7. ChainInv(C)'
  BY <1>2, <1>3 DEF PacedInv, ChainInv
<1>8. PushedInv(C)'
  BY <1>2, <1>4, <1>5 DEF PacedInv, PushedInv
<1>9. TailInv(C)'
  BY <1>1, <1>2, <1>3 DEF PacedInv, TailInv
<1>10. ApartInv(C)'
  BY <1>1, <1>3 DEF ApartInv
<1>11. PushInv(C)'
  BY <1>2, <1>3 DEF PacedInv, PushInv, PushFacts, LastNode, New
<1>12. PopInv(C)'
  <2>1. \A h \in Poppers : PopFacts(C, h)'
    BY <1>1, <1>2, <1>3 DEF PopFacts, PopPlaces
  <2>2. \A h \in Poppers : GoneFacts(C, h)'
    BY <1>2, <1>3 DEF GoneFacts
  <2> QED  BY <2>1, <2>2 DEF PopInv
<1> QED  BY <1>1, <1>2, <1>6, <1>7, <1>8, <1>9, <1>10, <1>11, <1>12 DEF PacedInv

\* A chain of one item is that item.
LEMMA Single ==
  ASSUME NEW L \in Items, Len(L) = 1
  PROVE  Range(L) = {L[1]} /\ L[1] \in Item /\ L = <<L[1]>>
<1>1. L \in Seq(Item) /\ DOMAIN L = 1 .. 1 /\ 1 \in 1 .. 1 /\ \A j \in 1 .. 1 : j = 1
  BY ItemsFacts
<1> QED  BY <1>1, ItemsFacts DEF Range

\* The last item becomes the entry: the chain is empty.
LEMMA PopMovesEntry ==
  ASSUME TypesInv, paced, NEW C \in Items, PacedInv(C), NEW g \in Poppers, PopMoveEntry(g)
  PROVE  /\ PacedInv(<<>>)' /\ Goto(g, "old_tail") /\ pc[g] = "move_entry"
         /\ Len(C) = 1 /\ seenNext[g] = C[1] /\ UNCHANGED <<seenNext, puts, got>>
<1>1. /\ g \in Threads /\ g \notin Pushers /\ Pushers \subseteq Threads
      /\ Poppers \subseteq Threads /\ pc[g] = "move_entry" /\ Len(C) = 1
      /\ \A h \in Poppers : h # g => pc[h] = "idle"
      /\ \A p \in Pushers : pc[p] # "idle" => Len(C) >= 2
      /\ node[g] = entry /\ seenNext[g] = C[1] /\ C # <<>> /\ entry \in freedNodes
      /\ next[C[1]] = Null /\ C[1] \in Item /\ LiveCell(C[1]) /\ LiveNode(C[1])
  BY PopView, CellFacts DEF PopMoveEntry, PopFacts, GoneFacts
<1>2. /\ entry' = C[1] /\ Goto(g, "old_tail")
      /\ UNCHANGED <<tail, next, freedNodes, freedCells, seenTail, node, seenNext, tmp,
                     succ, puts, got>>
  BY <1>1 DEF PopMoveEntry, heap, locals
<1>3. /\ pc'[g] = "old_tail" /\ \A h \in Poppers : h # g => pc'[h] = "idle"
      /\ \A p \in Pushers : pc'[p] = "idle" /\ pc[p] = "idle"
  <2>1. ~(1 >= 2)
    OBVIOUS
  <2> QED  BY <1>1, <1>2, <2>1, GoneTo
<1>4. Pushed' = Pushed
  BY <1>2, <1>3, PushedSame
<1>5. Kept' = {} /\ Kept = {}
  BY <1>1, <1>3 DEF Kept
<1>6. OneEach'
  BY <1>3 DEF PacedInv, OneEach
<1>7. Range(C) = {C[1]}
  BY <1>1, Single
<1>8. ChainInv(<<>>)'
  BY <1>1, <1>2, NoItems DEF ChainInv, LiveNode
<1>9. PushedInv(<<>>)'
  <2>1. Pushed \subseteq freedNodes \cup {C[1]}
    BY <1>1, <1>5, <1>7 DEF PacedInv, PushedInv
  <2>2. C[1] \in Pushed
    BY <1>7 DEF PacedInv, PushedInv
  <2> QED  BY <1>2, <1>4, <1>5, <2>1, <2>2, NoItems DEF PacedInv, PushedInv
<1>10. TailInv(<<>>)'
  BY <1>3 DEF TailInv
<1>11. ApartInv(<<>>)'
  BY <1>3 DEF ApartInv
<1>12. PushInv(<<>>)'
  BY <1>3 DEF PushInv, PushFacts, PushPlaces
<1>13. PopInv(<<>>)'
  <2>1. \A h \in Poppers : PopFacts(<<>>, h)'
    BY <1>3 DEF PopFacts, PopPlaces
  <2>2. \A h \in Poppers : GoneFacts(<<>>, h)'
    BY <1>1, <1>2, <1>3 DEF GoneFacts, LiveCell
  <2> QED  BY <2>1, <2>2 DEF PopInv
<1> QED  BY <1>1, <1>2, <1>6, <1>8, <1>9, <1>10, <1>11, <1>12, <1>13 DEF PacedInv

\* Then tail goes back to Entry.
LEMMA PopMovesTail ==
  ASSUME TypesInv, paced, NEW C \in Items, PacedInv(C), NEW g \in Poppers, PopMoveTail(g)
  PROVE  /\ PacedInv(C)' /\ Goto(g, "free_cell") /\ pc[g] = "move_tail"
         /\ UNCHANGED <<seenNext, puts, got>>
<1>1. /\ g \in Threads /\ g \notin Pushers /\ Pushers \subseteq Threads
      /\ Poppers \subseteq Threads /\ pc[g] = "move_tail"
      /\ \A h \in Poppers : h # g => pc[h] = "idle"
      /\ \A p \in Pushers : pc[p] # "idle" => Len(C) >= 2
      /\ C = <<>> /\ Len(C) = 0
      /\ seenNext[g] = entry /\ entry \in Item \ freedCells /\ seenTail[g] = tail
  BY PopView, CellFacts, ItemsFacts DEF PopMoveTail, GoneFacts
<1>2. /\ tail' = Entry /\ Goto(g, "free_cell")
      /\ UNCHANGED <<entry, next, freedNodes, freedCells, seenTail, node, seenNext, tmp,
                     succ, puts, got>>
  BY <1>1 DEF PopMoveTail, heap, locals, calls
<1>3. /\ pc'[g] = "free_cell" /\ \A h \in Poppers : h # g => pc'[h] = "idle"
      /\ \A p \in Pushers : pc'[p] = "idle" /\ pc[p] = "idle"
  <2>1. ~(0 >= 2)
    OBVIOUS
  <2> QED  BY <1>1, <1>2, <2>1, GoneTo
<1>4. Pushed' = Pushed
  BY <1>2, <1>3, PushedSame
<1>5. Kept' = Kept
  BY <1>1, <1>2, <1>3, KeptSame
<1>6. OneEach'
  BY <1>3 DEF PacedInv, OneEach
<1>7. ChainInv(C)'
  BY <1>1, <1>2, <1>3 DEF PacedInv, ChainInv
<1>8. PushedInv(C)'
  BY <1>2, <1>4, <1>5 DEF PacedInv, PushedInv
<1>9. TailInv(C)'
  BY <1>1, <1>2 DEF TailInv, LastCell
<1>10. ApartInv(C)'
  BY <1>3 DEF ApartInv
<1>11. PushInv(C)'
  BY <1>3 DEF PushInv, PushFacts, PushPlaces
<1>12. PopInv(C)'
  <2>1. \A h \in Poppers : PopFacts(C, h)'
    BY <1>3 DEF PopFacts, PopPlaces
  <2>2. \A h \in Poppers : GoneFacts(C, h)'
    BY <1>1, <1>2, <1>3 DEF GoneFacts
  <2> QED  BY <2>1, <2>2 DEF PopInv
<1> QED  BY <1>1, <1>2, <1>6, <1>7, <1>8, <1>9, <1>10, <1>11, <1>12 DEF PacedInv

\* The cell of the item that is now the entry is freed; its node is not.
LEMMA PopFreesCell ==
  ASSUME TypesInv, paced, NEW C \in Items, PacedInv(C), NEW g \in Poppers, PopFreeCell(g)
  PROVE  /\ PacedInv(C)' /\ Return(g, seenNext[g]) /\ pc[g] = "free_cell"
         /\ UNCHANGED <<seenNext, puts>>
<1>1. /\ g \in Threads /\ g \notin Pushers /\ Pushers \subseteq Threads
      /\ Poppers \subseteq Threads /\ pc[g] = "free_cell"
      /\ \A h \in Poppers : h # g => pc[h] = "idle"
      /\ \A p \in Pushers : pc[p] # "idle" => Len(C) >= 2
      /\ C = <<>> /\ Len(C) = 0
      /\ seenNext[g] = entry /\ entry \in Item \ freedCells
      /\ LiveCell(seenNext[g])
  BY PopView, CellFacts, ItemsFacts DEF PopFreeCell, GoneFacts, LiveCell
<1>2. /\ freedCells' = freedCells \cup {entry} /\ Return(g, seenNext[g]) /\ Goto(g, "idle")
      /\ UNCHANGED <<entry, tail, next, freedNodes, seenTail, node, seenNext, tmp, succ,
                     puts>>
  BY <1>1 DEF PopFreeCell, queue, locals, Return
<1>3. /\ \A h \in Poppers : pc'[h] = "idle"
      /\ \A p \in Pushers : pc'[p] = "idle" /\ pc[p] = "idle"
  <2>1. ~(0 >= 2)
    OBVIOUS
  <2> QED  BY <1>1, <1>2, <2>1, GoneTo
<1>4. Pushed' = Pushed
  BY <1>2, <1>3, PushedSame
<1>5. Kept' = Kept
  BY <1>1, <1>2, <1>3, KeptSame
<1>6. OneEach'
  BY <1>3 DEF PacedInv, OneEach
<1>7. ChainInv(C)'
  BY <1>1, <1>2, NoItems DEF PacedInv, ChainInv
<1>8. PushedInv(C)'
  BY <1>1, <1>2, <1>4, <1>5, CellFacts DEF PacedInv, PushedInv
<1>9. TailInv(C)'
  BY <1>1, <1>2, <1>3 DEF PacedInv, TailInv
<1>10. ApartInv(C)'
  BY <1>3 DEF ApartInv
<1>11. PushInv(C)'
  BY <1>3 DEF PushInv, PushFacts, PushPlaces
<1>12. PopInv(C)'
  BY <1>3 DEF PopInv, PopFacts, GoneFacts, PopPlaces
<1> QED  BY <1>1, <1>2, <1>6, <1>7, <1>8, <1>9, <1>10, <1>11, <1>12 DEF PacedInv


\* The entry node is led past the first item of two or more.
LEMMA PopUnlinks ==
  ASSUME TypesInv, paced, NEW C \in Items, PacedInv(C), NEW g \in Poppers, PopUnlink(g),
         NEW D, D = Tail(C)
  PROVE  /\ D \in Items /\ PacedInv(D)' /\ Goto(g, "free_both") /\ pc[g] = "unlink"
         /\ C # <<>> /\ seenNext[g] = C[1] /\ UNCHANGED <<seenNext, puts, got>>
<1>1. /\ g \in Threads /\ g \notin Pushers /\ Pushers \subseteq Threads
      /\ Poppers \subseteq Threads /\ pc[g] = "unlink" /\ Len(C) >= 2 /\ C # <<>>
      /\ \A h \in Poppers : h # g => pc[h] = "idle"
      /\ LiveNode(entry) /\ node[g] = entry /\ tmp[g] = C[1] /\ seenNext[g] = C[1]
      /\ succ[g] = C[2] /\ next[entry] = C[1] /\ C[1] \in Item /\ LiveCell(C[1])
      /\ LiveNode(C[1]) /\ C[1] # entry /\ C[1] \in Range(C)
      /\ next \in NextFields /\ entry \in Cell
  <2>1. pc[g] = "unlink" /\ PopFacts(C, g)
    BY PopView DEF PopUnlink
  <2>2. /\ Len(C) >= 2 /\ C # <<>> /\ node[g] = entry /\ tmp[g] = C[1]
        /\ seenNext[g] = C[1] /\ succ[g] = C[2]
    BY <2>1 DEF PopFacts
  <2>3. next \in NextFields /\ entry \in Cell
    BY DEF TypesInv, QueueTypeOK, NextFields
  <2> QED  BY <2>1, <2>2, <2>3, PopView, CellFacts
<1>2. /\ next' = [next EXCEPT ![entry] = C[2]] /\ Goto(g, "free_both")
      /\ UNCHANGED <<entry, tail, freedNodes, freedCells, seenTail, node, seenNext, tmp,
                     succ, puts, got>>
  BY <1>1 DEF PopUnlink, heap, locals, calls
<1>3. /\ pc'[g] = "free_both" /\ \A h \in Poppers : h # g => pc'[h] = "idle"
      /\ \A p \in Pushers : pc'[p] = pc[p]
  BY <1>1, <1>2, GoneTo
<1>4. Pushed' = Pushed
  BY <1>2, <1>3, PushedSame
<1>5. Kept = {} /\ Kept' = {C[1]}
  BY <1>1, <1>2, <1>3 DEF Kept
<1>6. /\ D \in Items /\ Leads(next', next'[entry], D) /\ D # <<>>
      /\ Range(C) = Range(D) \cup {C[1]} /\ C[1] \notin Range(D)
      /\ Len(D) = Len(C) - 1 /\ D[Len(D)] = C[Len(C)]
      /\ Len(D) >= 2 => D[Len(D) - 1] = C[Len(C) - 1]
  <2>1. PICK nx, mx, e : nx = next /\ mx = next' /\ e = entry
    OBVIOUS
  <2>2. Unlinking(C, nx, e, mx, D)
    BY <1>1, <1>2, <2>1 DEF PacedInv, ChainInv, Unlinking
  <2>3. HasDropped(C, e, mx, D)
    BY <2>2, UnlinkDrops
  <2> QED  BY <2>1, <2>3 DEF HasDropped
<1>7. Len(D) >= 2 => Len(C) >= 2 /\ D[Len(D) - 1] = C[Len(C) - 1]
  BY <1>1, <1>6
<1>8. LastCell(D) = LastCell(C) /\ LastNode(D)' = LastNode(C)
  BY <1>1, <1>2, <1>6 DEF LastCell, LastNode
<1>9. OneEach'
  BY <1>3 DEF PacedInv, OneEach
<1>10. ChainInv(D)'
  BY <1>1, <1>2, <1>3, <1>6 DEF PacedInv, ChainInv
<1>11. PushedInv(D)'
  <2>1. \A y \in Item \ Pushed' : next'[y] = Null
    <3>1. \A y \in Item \ Pushed' : y \in Item \ Pushed /\ y # entry /\ y \in Cell
      BY <1>4, CellFacts DEF PacedInv, PushedInv
    <3> QED  BY <1>1, <1>2, <3>1 DEF PacedInv, PushedInv, NextFields
  <2>2. /\ Range(D) \subseteq Pushed' /\ entry' \in Pushed' \cup {Entry}
        /\ freedNodes' \subseteq Pushed' \cup {Entry} /\ freedCells' \subseteq Pushed'
    BY <1>2, <1>4, <1>6 DEF PacedInv, PushedInv
  <2>3. Pushed' \subseteq freedNodes' \cup {entry'} \cup Range(D) \cup Kept'
    BY <1>2, <1>4, <1>5, <1>6 DEF PacedInv, PushedInv
  <2> QED  BY <2>1, <2>2, <2>3 DEF PushedInv
<1>12. TailInv(D)'
  BY <1>1, <1>2, <1>3, <1>8 DEF PacedInv, TailInv
<1>13. ApartInv(D)'
  BY <1>3 DEF ApartInv
<1>14. PushInv(D)'
  <2>1. ASSUME NEW p \in Pushers PROVE PushFacts(D, p)'
    <3>1. PushFacts(C, p) /\ pc'[p] = pc[p] /\ seenTail'[p] = seenTail[p]
          /\ node'[p] = node[p] /\ seenNext'[p] = seenNext[p] /\ tail' = tail
          /\ New(p)' = New(p)
      BY <1>2, <1>3 DEF PacedInv, PushInv, New
    <3> QED  BY <1>6, <1>7, <1>8, <3>1 DEF PushFacts
  <2> QED  BY <2>1 DEF PushInv
<1>15. PopInv(D)'
  <2>1. \A h \in Poppers : PopFacts(D, h)'
    BY <1>3 DEF PopFacts, PopPlaces
  <2>2. C[1] \in Pushed' \ (freedNodes' \cup freedCells' \cup Range(D) \cup {entry'})
    BY <1>1, <1>2, <1>4, <1>6 DEF PacedInv, PushedInv, LiveCell, LiveNode
  <2>3. \A h \in Poppers : GoneFacts(D, h)'
    BY <1>1, <1>2, <1>3, <2>2 DEF GoneFacts
  <2> QED  BY <2>1, <2>3 DEF PopInv
<1> QED  BY <1>1, <1>2, <1>6, <1>9, <1>10, <1>11, <1>12, <1>13, <1>14, <1>15 DEF PacedInv

\* Node and cell of the item that was unlinked are freed.
LEMMA PopFreesBoth ==
  ASSUME TypesInv, paced, NEW C \in Items, PacedInv(C), NEW g \in Poppers, PopFreeBoth(g)
  PROVE  /\ PacedInv(C)' /\ Return(g, seenNext[g]) /\ pc[g] = "free_both"
         /\ UNCHANGED <<seenNext, puts>>
<1>1. /\ g \in Threads /\ g \notin Pushers /\ Pushers \subseteq Threads
      /\ Poppers \subseteq Threads /\ pc[g] = "free_both"
      /\ \A h \in Poppers : h # g => pc[h] = "idle"
      /\ seenNext[g] \in Pushed \ (freedNodes \cup freedCells \cup Range(C) \cup {entry})
  BY PopView, CellFacts DEF PopFreeBoth, GoneFacts
<1>2. seenNext[g] \in Cell /\ LiveCell(seenNext[g]) /\ LiveNode(seenNext[g])
  BY <1>1, CellFacts DEF Pushed, LiveCell, LiveNode
<1>3. /\ freedNodes' = freedNodes \cup {seenNext[g]}
      /\ freedCells' = freedCells \cup {seenNext[g]}
      /\ Return(g, seenNext[g]) /\ Goto(g, "idle")
      /\ UNCHANGED <<entry, tail, next, seenTail, node, seenNext, tmp, succ, puts>>
  BY <1>1, <1>2 DEF PopFreeBoth, queue, locals, Return
<1>4. /\ \A h \in Poppers : pc'[h] = "idle" /\ \A p \in Pushers : pc'[p] = pc[p]
  BY <1>1, <1>3, GoneTo
<1>5. Pushed' = Pushed
  BY <1>3, <1>4, PushedSame
<1>6. Kept = {seenNext[g]} /\ Kept' = {}
  BY <1>1, <1>4 DEF Kept
<1>7. OneEach'
  BY <1>4 DEF PacedInv, OneEach
<1>8. ChainInv(C)'
  BY <1>1, <1>3, <1>4 DEF PacedInv, ChainInv
<1>9. PushedInv(C)'
  BY <1>1, <1>3, <1>5, <1>6 DEF PacedInv, PushedInv
<1>10. TailInv(C)'
  BY <1>1, <1>3, <1>4 DEF PacedInv, TailInv
<1>11. ApartInv(C)'
  BY <1>4 DEF ApartInv
<1>12. PushInv(C)'
  BY <1>3, <1>4 DEF PacedInv, PushInv, PushFacts, LastNode, New
<1>13. PopInv(C)'
  BY <1>4 DEF PopInv, PopFacts, GoneFacts, PopPlaces
<1> QED  BY <1>1, <1>3, <1>7, <1>8, <1>9, <1>10, <1>11, <1>12, <1>13 DEF PacedInv

\* Nobody is ever asked to help at the pace.
LEMMA PopNeverHelps ==
  ASSUME TypesInv, NEW C \in Items, PacedInv(C), NEW g \in Poppers
  PROVE  ~PopHelp(g)
BY DEF PopHelp, PacedInv, PopInv, PopFacts, PopPlaces

-----------------------------------------------------------------------------
(* The refinement                                                          *)

PutsNow == [p \in Pushers |-> IF Linked(p) THEN puts[p] + 1 ELSE puts[p]]
GotNow  == [g \in Poppers |-> IF Taken(g) THEN Append(got[g], seenNext[g]) ELSE got[g]]

LEMMA ListVars ==
  /\ List!vars = <<Chain, PutsNow, GotNow>>
  /\ UNCHANGED <<Chain, PutsNow, GotNow>> => UNCHANGED List!vars
BY DEF List!vars, PutsNow, GotNow

LEMMA ChainOf ==
  ASSUME NEW C \in Items, PacedInv(C)
  PROVE  Chain = C
BY ChainIs DEF ChainRead, PacedInv, ChainInv

LEMMA ChainThen ==
  ASSUME NEW C \in Items, PacedInv(C)'
  PROVE  Chain' = C
<1>1. ChainRead'
  BY ChainIs, PTL
<1> QED  BY <1>1 DEF ChainRead, PacedInv, ChainInv

LEMMA PacedStays ==
  ASSUME QueueNext
  PROVE  paced' = paced
<1>1. ASSUME NEW p \in Pushers, qpush(p) PROVE paced' = paced
  BY <1>1 DEF qpush, PushCall, PushTail, PushNode, PushNext, PushCheck, PushLink,
              PushSwing, PushHelp, Undefined, heap, locals
<1>2. ASSUME NEW g \in Poppers, qpop(g) PROVE paced' = paced
  <2>1. CASE PopCall(g) \/ PopTail(g) \/ PopNode(g) \/ PopTmp(g) \/ PopNext(g)
             \/ PopCompare(g) \/ PopHelp(g) \/ PopValue(g)
    BY <2>1 DEF PopCall, PopTail, PopNode, PopTmp, PopNext, PopCompare, PopHelp, PopValue,
                Undefined, heap, locals
  <2>2. CASE PopFreeEntry(g) \/ PopMoveEntry(g) \/ PopOldTail(g) \/ PopMoveTail(g)
             \/ PopFreeCell(g) \/ PopSucc(g) \/ PopUnlink(g) \/ PopFreeBoth(g)
    BY <2>2 DEF PopFreeEntry, PopMoveEntry, PopOldTail, PopMoveTail, PopFreeCell, PopSucc,
                PopUnlink, PopFreeBoth, Undefined, heap, locals
  <2> QED  BY <1>2, <2>1, <2>2 DEF qpop
<1> QED  BY <1>1, <1>2 DEF QueueNext, Terminated, listvars, heap

\* A push keeps the invariant, and is a Put when it links its node.
LEMMA PushImplements ==
  ASSUME TypesInv, TypesInv', paced, NEW C \in Items, PacedInv(C), NEW p \in Pushers,
         qpush(p)
  PROVE  /\ \E D \in Items : PacedInv(D)'
         /\ List!Put(p) \/ UNCHANGED <<Chain, PutsNow, GotNow>>
<1>1. /\ p \in Threads /\ p \notin Poppers /\ Pushers \subseteq Threads
      /\ Poppers \subseteq Threads /\ Chain = C
      /\ puts \in [Pushers -> 0 .. Limit]
  BY ChainOf, CellFacts DEF TypesInv, QueueTypeOK
<1>2. ASSUME NEW s, Goto(p, s)
      PROVE  /\ pc'[p] = s /\ \A q \in Pushers : q # p => pc'[q] = pc[q]
             /\ \A g \in Poppers : pc'[g] = pc[g]
  BY <1>1, <1>2, GoneTo
<1>3. ASSUME NEW s, Goto(p, s), got' = got, \A g \in Poppers : seenNext'[g] = seenNext[g]
      PROVE  GotNow' = GotNow
  <2>1. \A g \in Poppers : Taken(g)' = Taken(g)
    BY <1>2, <1>3 DEF Taken
  <2> QED  BY <1>3, <2>1 DEF GotNow
<1>4. CASE PushCall(p) \/ PushTail(p) \/ PushNode(p) \/ PushNext(p) \/ PushCheck(p)
  <2>1. PacedInv(C)' /\ pc'[p] \notin {"swing", "undefined"}
    BY <1>4, PushReads
  <2>2. /\ puts' = puts /\ got' = got /\ pc[p] # "swing"
        /\ \A g \in Poppers : seenNext'[g] = seenNext[g]
        /\ \E s : Goto(p, s)
    <3>1. ~Undefined
      BY <1>1, <2>1 DEF Undefined
    <3>2. seenNext \in [Threads -> Item \cup {Null}]
      BY DEF TypesInv, QueueTypeOK
    <3> QED  BY <1>1, <1>4, <3>1, <3>2
             DEF PushCall, PushTail, PushNode, PushNext, PushCheck, calls, locals
  <2>3. Chain' = C
    BY <2>1, ChainThen
  <2>4. PICK s : Goto(p, s)
    BY <2>2
  <2>5. \A q \in Pushers : Linked(q)' = Linked(q)
    BY <1>2, <2>1, <2>2, <2>4 DEF Linked
  <2>6. PutsNow' = PutsNow
    BY <2>2, <2>5 DEF PutsNow
  <2>7. GotNow' = GotNow
    BY <1>3, <2>2, <2>4
  <2> QED  BY <1>1, <2>1, <2>3, <2>6, <2>7
<1>5. CASE PushLink(p)
  <2>1. PICK D : D = Append(C, New(p))
    OBVIOUS
  <2>2. /\ D \in Items /\ PacedInv(D)' /\ Goto(p, "swing") /\ pc[p] # "swing"
        /\ UNCHANGED <<seenNext, puts, got>> /\ New(p) \notin Range(C)
    BY <1>5, <2>1, PushLinks
  <2>3. Chain' = D
    BY <2>2, ChainThen
  <2>4. Len(C) < Cardinality(Item)
    <3>1. Len(D) = Len(C) + 1 /\ Len(C) \in Nat
      BY <2>1, ItemsFacts
    <3>2. Len(D) <= Cardinality(Item) /\ Cardinality(Item) \in Nat
      BY <2>2, ChainSize
    <3> QED  BY <3>1, <3>2
  <2>5. puts[p] < Limit
    <3>1. puts[p] < MyLimit
      BY <1>5 DEF PushLink, TypesInv
    <3>2. puts[p] \in Nat /\ MyLimit \in Nat /\ Limit \in Nat /\ MyLimit <= Limit
      BY <1>1, CellFacts
    <3> QED  BY <3>1, <3>2
  <2>6. PutsNow[p] = puts[p]
    BY <2>2 DEF PutsNow, Linked
  <2>7. PutsNow' = [PutsNow EXCEPT ![p] = @ + 1]
    <3>1. PutsNow'[p] = puts[p] + 1 /\ DOMAIN PutsNow' = Pushers /\ DOMAIN PutsNow = Pushers
      BY <1>2, <2>2 DEF PutsNow, Linked
    <3>2. \A q \in Pushers : q # p => PutsNow'[q] = PutsNow[q]
      BY <1>2, <2>2 DEF PutsNow, Linked
    <3>3. PutsNow' = [q \in Pushers |-> PutsNow'[q]]
      BY DEF PutsNow
    <3>4. [PutsNow EXCEPT ![p] = @ + 1]
            = [q \in Pushers |-> IF q = p THEN PutsNow[p] + 1 ELSE PutsNow[q]]
      BY DEF PutsNow
    <3> HIDE DEF PutsNow
    <3> QED  BY <2>6, <3>1, <3>2, <3>3, <3>4
  <2>8. GotNow' = GotNow
    BY <1>3, <2>2
  <2>9. Chain' = Append(Chain, <<p, PutsNow[p] + 1>>)
    BY <1>1, <2>1, <2>3, <2>6 DEF New
  <2> HIDE DEF PutsNow, GotNow
  <2>10. List!Put(p)
    <3>1. PutsNow[p] < Limit /\ Len(Chain) < Cardinality(Item)
      BY <1>1, <2>4, <2>5, <2>6
    <3> QED  BY <2>7, <2>8, <2>9, <3>1 DEF List!Put, PutsNow, GotNow
  <2> QED  BY <2>2, <2>10
<1>6. CASE PushSwing(p)
  <2>1. /\ PacedInv(C)' /\ Goto(p, "idle") /\ pc[p] = "swing"
        /\ puts' = [puts EXCEPT ![p] = @ + 1] /\ UNCHANGED <<seenNext, got>>
    BY <1>6, PushSwings
  <2>2. Chain' = C
    BY <2>1, ChainThen
  <2>3. PutsNow' = PutsNow
    BY <1>1, <1>2, <2>1 DEF PutsNow, Linked
  <2>4. GotNow' = GotNow
    BY <1>3, <2>1
  <2> QED  BY <1>1, <2>1, <2>2, <2>3, <2>4
<1>7. ~PushHelp(p)
  BY PushNeverHelps
<1> QED  BY <1>4, <1>5, <1>6, <1>7 DEF qpush

\* A pop keeps the invariant; it is a Get when it unlinks the first item or makes it
\* the entry, and a Miss when it sees tail at Entry.
LEMMA PopImplements ==
  ASSUME TypesInv, TypesInv', paced, NEW C \in Items, PacedInv(C), NEW g \in Poppers,
         qpop(g)
  PROVE  /\ \E D \in Items : PacedInv(D)'
         /\ List!Get(g) \/ List!Miss(g) \/ UNCHANGED <<Chain, PutsNow, GotNow>>
<1>1. /\ g \in Threads /\ g \notin Pushers /\ Pushers \subseteq Threads
      /\ Poppers \subseteq Threads /\ Chain = C
      /\ got \in [Poppers -> Seq(Item \cup {Null})]
      /\ pc[g] \notin {"idle", "undefined"} => Len(got[g]) < MyLimit
      /\ Len(got[g]) \in Nat
  <2>1. got \in [Poppers -> Seq(Item \cup {Null})]
    BY DEF TypesInv, QueueTypeOK
  <2> QED  BY <2>1, ChainOf, CellFacts DEF TypesInv
<1>2. ASSUME NEW s, Goto(g, s)
      PROVE  /\ pc'[g] = s /\ \A h \in Poppers : h # g => pc'[h] = pc[h]
             /\ \A p \in Pushers : pc'[p] = pc[p]
  BY <1>1, <1>2, GoneTo
<1>3. ASSUME NEW s, Goto(g, s), puts' = puts
      PROVE  PutsNow' = PutsNow
  BY <1>2, <1>3 DEF PutsNow, Linked
<1>4. \A h \in Poppers : h # g => pc[h] = "idle" \/ pc[g] = "idle"
  BY PopView
<1>5. Len(got[g]) < MyLimit => Len(got[g]) < Limit
  <2>1. MyLimit \in Nat /\ Limit \in Nat /\ MyLimit <= Limit
    BY CellFacts
  <2> QED  BY <1>1, <2>1
<1>6. ASSUME NEW s, NEW value, Goto(g, s), Len(got[g]) < MyLimit, ~Taken(g),
             GotNow'[g] = Append(got[g], value),
             \A h \in Poppers : h # g => ~Taken(h) /\ got'[h] = got[h]
      PROVE  /\ GotNow' = [GotNow EXCEPT ![g] = Append(@, value)]
             /\ Len(GotNow[g]) < Limit
  <2>1. GotNow[g] = got[g]
    BY <1>6 DEF GotNow
  <2>2. \A h \in Poppers : h # g => GotNow'[h] = GotNow[h]
    BY <1>2, <1>6 DEF GotNow, Taken
  <2>3. GotNow' = [h \in Poppers |-> GotNow'[h]]
    BY DEF GotNow
  <2>4. [GotNow EXCEPT ![g] = Append(@, value)]
          = [h \in Poppers |-> IF h = g THEN Append(GotNow[g], value) ELSE GotNow[h]]
    BY DEF GotNow
  <2> HIDE DEF GotNow
  <2> QED  BY <1>5, <1>6, <2>1, <2>2, <2>3, <2>4
<1>7. ASSUME pc[g] # "idle"
      PROVE  \A h \in Poppers : h # g => ~Taken(h)
  BY <1>4, <1>7 DEF Taken
<1>8. CASE PopTail(g) /\ tail = Entry
  <2>1. PacedInv(C)'
    BY <1>8, PopReads
  <2>2. /\ Return(g, Null) /\ puts' = puts /\ pc[g] = "tail" /\ Goto(g, "idle")
        /\ got' = [got EXCEPT ![g] = Append(@, Null)]
    BY <1>8 DEF PopTail, Return
  <2>3. C = <<>>
    BY <1>8, <2>2, PopSeesTail
  <2>4. Chain' = C
    BY <2>1, ChainThen
  <2>5. got'[g] = Append(got[g], Null) /\ \A h \in Poppers : h # g => got'[h] = got[h]
    BY <1>1, <2>2
  <2>6. GotNow'[g] = Append(got[g], Null)
    BY <1>2, <2>2, <2>5 DEF GotNow, Taken
  <2>7. /\ GotNow' = [GotNow EXCEPT ![g] = Append(@, Null)] /\ Len(GotNow[g]) < Limit
    <3>1. Len(got[g]) < MyLimit /\ ~Taken(g) /\ pc[g] # "idle"
      BY <1>1, <2>2 DEF Taken
    <3> QED  BY <1>6, <1>7, <2>2, <2>5, <2>6, <3>1
  <2>8. PutsNow' = PutsNow
    BY <1>3, <2>2
  <2> HIDE DEF PutsNow, GotNow
  <2>9. List!Miss(g)
    BY <1>1, <2>3, <2>4, <2>7, <2>8 DEF List!Miss, PutsNow, GotNow
  <2> QED  BY <2>1, <2>9
<1>9. CASE \/ PopCall(g) \/ (PopTail(g) /\ tail # Entry) \/ PopNode(g) \/ PopTmp(g)
           \/ PopNext(g) \/ PopCompare(g) \/ PopValue(g) \/ PopOldTail(g) \/ PopSucc(g)
  <2>1. /\ PacedInv(C)' /\ pc'[g] # "free_both"
        /\ \A h \in Poppers : h # g => pc[h] = "idle" /\ pc'[h] = "idle"
        /\ pc[g] \in {"old_tail", "move_tail", "free_cell"}
             <=> pc'[g] \in {"old_tail", "move_tail", "free_cell"}
    BY <1>9, PopReads
  <2>2. Chain' = C
    BY <2>1, ChainThen
  <2>3. ~Undefined
    <3>1. PopFacts(C, g)'
      BY <2>1 DEF PacedInv, PopInv
    <3>2. pc'[g] # "undefined"
      BY <3>1 DEF PopFacts, PopPlaces
    <3> QED  BY <1>1, <3>2 DEF Undefined
  <2>4. PopNext(g) => next[node[g]] # Null
    <3> SUFFICES ASSUME PopNext(g) PROVE next[node[g]] # Null
      OBVIOUS
    <3>1. pc[g] = "next"
      BY DEF PopNext
    <3> QED  BY <3>1, PopView DEF PopFacts
  <2>5. /\ puts' = puts /\ got' = got /\ (\E s : Goto(g, s)) /\ pc[g] # "free_both"
        /\ pc[g] = "next" \/ seenNext' = seenNext
    BY <1>9, <2>3, <2>4
       DEF PopCall, PopTail, PopNode, PopTmp, PopNext, PopCompare, PopValue, PopOldTail,
           PopSucc, calls, locals
  <2>6. PutsNow' = PutsNow
    BY <1>3, <2>5
  <2>7. GotNow' = GotNow
    <3>1. \A h \in Poppers : Taken(h)' = Taken(h)
      BY <2>1, <2>5 DEF Taken
    <3>2. \A h \in Poppers : Taken(h) => seenNext'[h] = seenNext[h]
      BY <2>1, <2>5 DEF Taken
    <3> QED  BY <2>5, <3>1, <3>2 DEF GotNow
  <2> QED  BY <1>1, <2>1, <2>2, <2>6, <2>7

<1>10. CASE PopFreeEntry(g)
  <2>1. /\ PacedInv(C)' /\ Goto(g, "last_node") /\ pc[g] = "free_entry"
        /\ UNCHANGED <<seenNext, puts, got>>
    BY <1>10, PopFreesEntry
  <2>2. Chain' = C
    BY <2>1, ChainThen
  <2>3. PutsNow' = PutsNow
    BY <1>3, <2>1
  <2>4. \A h \in Poppers : Taken(h)' = Taken(h)
    BY <1>2, <2>1 DEF Taken
  <2>5. GotNow' = GotNow
    BY <2>1, <2>4 DEF GotNow
  <2> QED  BY <1>1, <2>1, <2>2, <2>3, <2>5
<1>11. CASE PopMoveTail(g)
  <2>1. /\ PacedInv(C)' /\ Goto(g, "free_cell") /\ pc[g] = "move_tail"
        /\ UNCHANGED <<seenNext, puts, got>>
    BY <1>11, PopMovesTail
  <2>2. Chain' = C
    BY <2>1, ChainThen
  <2>3. PutsNow' = PutsNow
    BY <1>3, <2>1
  <2>4. \A h \in Poppers : Taken(h)' = Taken(h)
    BY <1>2, <2>1 DEF Taken
  <2>5. GotNow' = GotNow
    BY <2>1, <2>4 DEF GotNow
  <2> QED  BY <1>1, <2>1, <2>2, <2>3, <2>5
<1>12. CASE PopFreeCell(g)
  <2>1. /\ PacedInv(C)' /\ Return(g, seenNext[g]) /\ pc[g] = "free_cell"
        /\ UNCHANGED <<seenNext, puts>>
    BY <1>12, PopFreesCell
  <2>2. Chain' = C
    BY <2>1, ChainThen
  <2>3. Goto(g, "idle") /\ got' = [got EXCEPT ![g] = Append(@, seenNext[g])]
    BY <2>1 DEF Return
  <2>4. PutsNow' = PutsNow
    BY <1>3, <2>1, <2>3
  <2>5. \A h \in Poppers : GotNow'[h] = GotNow[h]
    <3>1. /\ got'[g] = Append(got[g], seenNext[g])
          /\ \A h \in Poppers : h # g => got'[h] = got[h]
      BY <1>1, <2>3
    <3>2. Taken(g) /\ ~Taken(g)' /\ \A h \in Poppers : h # g => Taken(h)' = Taken(h)
      BY <1>2, <2>1, <2>3 DEF Taken
    <3> QED  BY <2>1, <3>1, <3>2 DEF GotNow
  <2>6. GotNow' = GotNow
    <3>1. GotNow' = [h \in Poppers |-> GotNow'[h]] /\ GotNow = [h \in Poppers |-> GotNow[h]]
      BY DEF GotNow
    <3> HIDE DEF GotNow
    <3> QED  BY <2>5, <3>1
  <2> QED  BY <1>1, <2>1, <2>2, <2>4, <2>6
<1>13. CASE PopFreeBoth(g)
  <2>1. /\ PacedInv(C)' /\ Return(g, seenNext[g]) /\ pc[g] = "free_both"
        /\ UNCHANGED <<seenNext, puts>>
    BY <1>13, PopFreesBoth
  <2>2. Chain' = C
    BY <2>1, ChainThen
  <2>3. Goto(g, "idle") /\ got' = [got EXCEPT ![g] = Append(@, seenNext[g])]
    BY <2>1 DEF Return
  <2>4. PutsNow' = PutsNow
    BY <1>3, <2>1, <2>3
  <2>5. \A h \in Poppers : GotNow'[h] = GotNow[h]
    <3>1. /\ got'[g] = Append(got[g], seenNext[g])
          /\ \A h \in Poppers : h # g => got'[h] = got[h]
      BY <1>1, <2>3
    <3>2. Taken(g) /\ ~Taken(g)' /\ \A h \in Poppers : h # g => Taken(h)' = Taken(h)
      BY <1>2, <2>1, <2>3 DEF Taken
    <3> QED  BY <2>1, <3>1, <3>2 DEF GotNow
  <2>6. GotNow' = GotNow
    <3>1. GotNow' = [h \in Poppers |-> GotNow'[h]] /\ GotNow = [h \in Poppers |-> GotNow[h]]
      BY DEF GotNow
    <3> HIDE DEF GotNow
    <3> QED  BY <2>5, <3>1
  <2> QED  BY <1>1, <2>1, <2>2, <2>4, <2>6
<1>14. CASE PopMoveEntry(g)
  <2>1. /\ PacedInv(<<>>)' /\ Goto(g, "old_tail") /\ pc[g] = "move_entry"
        /\ Len(C) = 1 /\ seenNext[g] = C[1] /\ UNCHANGED <<seenNext, puts, got>>
    BY <1>14, PopMovesEntry
  <2>2. PICK D : D = Tail(C)
    OBVIOUS
  <2>3. D = <<>> /\ D \in Items /\ C # <<>> /\ Head(C) = C[1]
    <3>1. C = <<C[1]>>
      BY <2>1, Single
    <3>2. C # <<>> /\ C \in Seq(Item)
      <4>1. Len(C) # 0
        BY <2>1
      <4> QED  BY <4>1, ItemsFacts
    <3>3. Len(D) = 0 /\ D \in Seq(Item)
      BY <2>1, <2>2, <3>2
    <3> QED  BY <3>2, <3>3, NoItems
  <2>4. Chain' = D
    BY <2>1, <2>3, ChainThen
  <2>5. PutsNow' = PutsNow
    BY <1>3, <2>1
  <2>6. GotNow'[g] = Append(got[g], C[1])
    BY <1>2, <2>1 DEF GotNow, Taken
  <2>7. /\ GotNow' = [GotNow EXCEPT ![g] = Append(@, C[1])] /\ Len(GotNow[g]) < Limit
    <3>1. Len(got[g]) < MyLimit /\ ~Taken(g) /\ pc[g] # "idle"
      BY <1>1, <2>1 DEF Taken
    <3> QED  BY <1>6, <1>7, <2>1, <2>6, <3>1
  <2> HIDE DEF PutsNow, GotNow
  <2>8. List!Get(g)
    BY <1>1, <2>2, <2>3, <2>4, <2>5, <2>7 DEF List!Get, PutsNow, GotNow
  <2> QED  BY <2>1, <2>3, <2>8
<1>15. CASE PopUnlink(g)
  <2>2. PICK D : D = Tail(C)
    OBVIOUS
  <2>1. /\ D \in Items /\ PacedInv(D)' /\ Goto(g, "free_both") /\ pc[g] = "unlink"
        /\ C # <<>> /\ seenNext[g] = C[1] /\ UNCHANGED <<seenNext, puts, got>>
    BY <1>15, <2>2, PopUnlinks
  <2>3. D \in Items /\ C # <<>> /\ Head(C) = C[1]
    BY <2>1, ItemsFacts
  <2>4. Chain' = D
    BY <2>1, <2>3, ChainThen
  <2>5. PutsNow' = PutsNow
    BY <1>3, <2>1
  <2>6. GotNow'[g] = Append(got[g], C[1])
    BY <1>2, <2>1 DEF GotNow, Taken
  <2>7. /\ GotNow' = [GotNow EXCEPT ![g] = Append(@, C[1])] /\ Len(GotNow[g]) < Limit
    <3>1. Len(got[g]) < MyLimit /\ ~Taken(g) /\ pc[g] # "idle"
      BY <1>1, <2>1 DEF Taken
    <3> QED  BY <1>6, <1>7, <2>1, <2>6, <3>1
  <2> HIDE DEF PutsNow, GotNow
  <2>8. List!Get(g)
    BY <1>1, <2>2, <2>3, <2>4, <2>5, <2>7 DEF List!Get, PutsNow, GotNow
  <2> QED  BY <2>1, <2>3, <2>8
<1>16. ~PopHelp(g)
  BY PopNeverHelps
<1> QED  BY <1>8, <1>9, <1>10, <1>11, <1>12, <1>13, <1>14, <1>15, <1>16 DEF qpop

-----------------------------------------------------------------------------
(* The theorems on the lock-free queue                                     *)

LEMMA StepKeepsList ==
  ASSUME LockFreeInv, [QueueNext]_listvars
  PROVE  /\ LockFreeInv'
         /\ paced => List!Next \/ UNCHANGED List!vars
<1>1. TypesInv /\ TypesInv'
  BY TypesStep DEF LockFreeInv
<1>2. CASE ~paced
  <2>1. ~paced'
    BY <1>2, PacedStays DEF listvars, heap
  <2> QED  BY <1>1, <1>2, <2>1 DEF LockFreeInv
<1>3. CASE paced
  <2>1. PICK C \in Items : PacedInv(C)
    BY <1>3 DEF LockFreeInv
  <2>2. CASE \E p \in Pushers : qpush(p)
    <3>1. PICK p \in Pushers : qpush(p)
      BY <2>2
    <3>2. /\ \E D \in Items : PacedInv(D)'
          /\ List!Put(p) \/ UNCHANGED <<Chain, PutsNow, GotNow>>
      BY <1>1, <1>3, <2>1, <3>1, PushImplements
    <3> QED  BY <1>1, <3>2, ListVars DEF LockFreeInv, List!Next
  <2>3. CASE \E g \in Poppers : qpop(g)
    <3>1. PICK g \in Poppers : qpop(g)
      BY <2>3
    <3>2. /\ \E D \in Items : PacedInv(D)'
          /\ List!Get(g) \/ List!Miss(g) \/ UNCHANGED <<Chain, PutsNow, GotNow>>
      BY <1>1, <1>3, <2>1, <3>1, PopImplements
    <3> QED  BY <1>1, <3>2, ListVars DEF LockFreeInv, List!Next
  <2>4. CASE UNCHANGED listvars
    <3>1. UNCHANGED <<entry, tail, next, paced, freedNodes, freedCells, pc, seenTail, node,
                      seenNext, tmp, succ, puts, got>>
      BY <2>4 DEF listvars, queue, heap, locals, calls
    <3>2. Pushed' = Pushed /\ Kept' = Kept
      BY <3>1, PushedSame, KeptSame
    <3>3. PacedInv(C)'
      <4>1. OneEach' /\ ChainInv(C)' /\ TailInv(C)' /\ ApartInv(C)'
        BY <2>1, <3>1 DEF PacedInv, OneEach, ChainInv, TailInv, ApartInv
      <4>2. PushedInv(C)'
        BY <2>1, <3>1, <3>2 DEF PacedInv, PushedInv
      <4>3. PushInv(C)'
        BY <2>1, <3>1 DEF PacedInv, PushInv, PushFacts, LastNode, New
      <4>4. PopInv(C)'
        BY <2>1, <3>1, <3>2 DEF PacedInv, PopInv, PopFacts, GoneFacts
      <4> QED  BY <4>1, <4>2, <4>3, <4>4 DEF PacedInv
    <3>4. Chain' = Chain
      BY <2>1, <3>3, ChainOf, ChainThen
    <3>5. PutsNow' = PutsNow /\ GotNow' = GotNow
      BY <3>1 DEF PutsNow, GotNow, Linked, Taken
    <3> QED  BY <1>1, <3>3, <3>4, <3>5, ListVars DEF LockFreeInv
  <2> QED  BY <2>2, <2>3, <2>4 DEF QueueNext, Terminated
<1> QED  BY <1>2, <1>3

LEMMA InitLockFree == QueueInit => LockFreeInv
<1> SUFFICES ASSUME QueueInit PROVE LockFreeInv
  OBVIOUS
<1>1. Pushed = {} /\ Kept = {}
  <2>1. \A x \in Item : x[1] \in Pushers /\ x[2] \in 1 .. Limit
    BY DEF Item
  <2>2. \A p \in Pushers : p \in Threads /\ puts[p] = 0 /\ pc[p] = "idle"
    BY CellFacts DEF QueueInit
  <2>3. \A g \in Poppers : pc[g] = "idle"
    BY CellFacts DEF QueueInit
  <2>4. \A m \in 1 .. Limit : ~(m <= 0)
    BY CellFacts
  <2>5. \A p \in Pushers : PutCount(p) = 0
    BY <2>2 DEF PutCount, Linked
  <2> QED  BY <2>1, <2>3, <2>4, <2>5 DEF Pushed, Kept
<1>2. \A t \in Threads : pc[t] = "idle"
  BY DEF QueueInit
<1>3. next[entry] = Null /\ \A x \in Item : next[x] = Null
  BY CellFacts DEF QueueInit
<1>4. OneEach /\ ChainInv(<<>>) /\ ApartInv(<<>>)
  BY <1>2, <1>3, NoItems, CellFacts DEF OneEach, ChainInv, ApartInv, QueueInit
<1>5. PushedInv(<<>>)
  BY <1>1, <1>3, NoItems DEF PushedInv, QueueInit
<1>6. TailInv(<<>>)
  BY DEF TailInv, LastCell, QueueInit
<1>7. PushInv(<<>>) /\ PopInv(<<>>)
  BY <1>2, CellFacts DEF PushInv, PopInv, PushFacts, PopFacts, GoneFacts, PushPlaces,
                         PopPlaces
<1> QED  BY <1>4, <1>5, <1>6, <1>7, TypesInit, NoItems DEF LockFreeInv, PacedInv

LEMMA LockFreeInvariant == QueueSpec => []LockFreeInv
<1>1. LockFreeInv /\ [QueueNext]_listvars => LockFreeInv'
  BY StepKeepsList
<1> QED  BY InitLockFree, <1>1, PTL DEF QueueSpec

LEMMA InvIsConsistent == LockFreeInv => Consistent
<1> SUFFICES ASSUME LockFreeInv PROVE Consistent
  OBVIOUS
<1>1. QueueTypeOK
  BY DEF LockFreeInv, TypesInv
<1>2. ASSUME paced PROVE NeverUndefined
  <2>1. PICK C \in Items : PacedInv(C)
    BY <1>2 DEF LockFreeInv
  <2>2. \A p \in Pushers : pc[p] \in PushPlaces
    BY <2>1 DEF PacedInv, PushInv, PushFacts
  <2>3. \A g \in Poppers : pc[g] \in PopPlaces
    BY <2>1 DEF PacedInv, PopInv, PopFacts
  <2> QED  BY <2>2, <2>3, CellFacts DEF NeverUndefined, PushPlaces, PopPlaces
<1>3. ASSUME paced, InCall(Threads) = {}
      PROVE  /\ IF Chain = <<>> THEN tail = Entry ELSE tail = Last(Chain)
             /\ freedNodes \cap ({entry} \cup Range(Chain)) = {}
             /\ freedCells \cap Range(Chain) = {}
             /\ \A p \in Pushers : \A m \in 1 .. puts[p] :
                  <<p, m>> \in freedNodes \cup {entry} \cup Range(Chain)
  <2>1. PICK C \in Items : PacedInv(C)
    BY <1>3 DEF LockFreeInv
  <2>2. Chain = C /\ \A t \in Threads : pc[t] = "idle"
    BY <1>3, <2>1, ChainOf DEF InCall
  <2>3. /\ \A p \in Pushers : pc[p] = "idle"
        /\ \A g \in Poppers : pc[g] = "idle"
    BY <2>2, CellFacts
  <2>4. IF C = <<>> THEN tail = Entry ELSE tail = Last(C)
    BY <2>1, <2>3 DEF PacedInv, TailInv, LastCell, Last
  <2>5. freedNodes \cap ({entry} \cup Range(C)) = {} /\ freedCells \cap Range(C) = {}
    BY <2>1, <2>3 DEF PacedInv, ChainInv
  <2>6. ASSUME NEW p \in Pushers, NEW m \in 1 .. puts[p]
        PROVE  <<p, m>> \in freedNodes \cup {entry} \cup Range(C)
    <3>1. puts[p] \in 0 .. Limit /\ Limit \in Nat
      BY <1>1, CellFacts DEF QueueTypeOK
    <3>2. m \in 1 .. Limit /\ m <= puts[p]
      BY <3>1
    <3>3. <<p, m>> \in Pushed
      BY <2>3, <3>2 DEF Pushed, Item, PutCount, Linked
    <3>4. Kept = {}
      BY <2>3 DEF Kept
    <3> QED  BY <2>1, <3>3, <3>4 DEF PacedInv, PushedInv
  <2> QED  BY <2>2, <2>4, <2>5, <2>6
<1> QED  BY <1>1, <1>2, <1>3 DEF Consistent

\* At the pace, for any number of pushers, poppers and calls: no thread follows NULL, a
\* freed address or a node taken for a cell, none frees twice, and between two calls
\* tail, the chain and what has been freed agree.
THEOREM LockFreeConsistent == QueueSpec => []Consistent
BY LockFreeInvariant, InvIsConsistent, PTL

\* At the pace the linked queue is a FIFO queue: the CAS of a push puts its item, the
\* step that unlinks a node or makes it the entry gets it, and a pop returns NULL only
\* from an empty queue.
THEOREM LockFreeRefines == QueueSpec => ImplementsFifo
<1>1. QueueInit => List!Init
  <2> SUFFICES ASSUME QueueInit PROVE List!Init
    OBVIOUS
  <2>1. Chain = <<>>
    <3>1. next[entry] = Null
      BY CellFacts DEF QueueInit
    <3> QED  BY <3>1, NoItems, ChainIs DEF ChainRead
  <2>2. \A t \in Threads : pc[t] = "idle"
    BY DEF QueueInit
  <2> QED  BY <2>1, <2>2, CellFacts DEF List!Init, QueueInit, Linked, Taken
<1>2. LockFreeInv /\ [QueueNext]_listvars => [paced => [List!Next]_(List!vars)]_listvars
  BY StepKeepsList
<1> QED  BY <1>1, <1>2, LockFreeInvariant, PTL DEF QueueSpec, ImplementsFifo

\* The items that the calls of the poppers have taken.
AllOf(G) == UNION {Range(G[g]) : g \in Poppers}
TakenItems == AllOf(GotNow)

\* An item that has been linked is in the chain or has been taken.
Accounted ==
  paced => \A p \in Pushers : \A m \in 1 .. PutsNow[p] :
             <<p, m>> \in Range(Chain) \cup TakenItems

LEMMA RangeOfAppend ==
  ASSUME NEW S, NEW L \in Seq(S), NEW x \in S
  PROVE  Range(Append(L, x)) = Range(L) \cup {x}
<1>1. /\ Len(L) \in Nat /\ DOMAIN L = 1 .. Len(L) /\ DOMAIN Append(L, x) = 1 .. Len(L) + 1
      /\ Append(L, x)[Len(L) + 1] = x /\ \A j \in 1 .. Len(L) : Append(L, x)[j] = L[j]
  OBVIOUS
<1>2. /\ \A j \in 1 .. Len(L) + 1 : j = Len(L) + 1 \/ j \in 1 .. Len(L)
      /\ Len(L) + 1 \in 1 .. Len(L) + 1 /\ \A j \in 1 .. Len(L) : j \in 1 .. Len(L) + 1
  BY <1>1
<1> QED  BY <1>1, <1>2 DEF Range

LEMMA RangeOfTail ==
  ASSUME NEW S, NEW L \in Seq(S), L # <<>>
  PROVE  Range(L) \subseteq Range(Tail(L)) \cup {Head(L)}
<1>1. /\ Len(L) \in Nat /\ DOMAIN L = 1 .. Len(L) /\ Tail(L) \in Seq(S)
      /\ DOMAIN Tail(L) = 1 .. Len(L) - 1 /\ Head(L) = L[1]
      /\ \A j \in 1 .. Len(L) - 1 : Tail(L)[j] = L[j + 1]
  OBVIOUS
<1>2. \A j \in 1 .. Len(L) : j = 1 \/ (j - 1 \in 1 .. Len(L) - 1 /\ (j - 1) + 1 = j)
  BY <1>1
<1>3. ASSUME NEW j \in 1 .. Len(L) PROVE L[j] \in Range(Tail(L)) \cup {Head(L)}
  <2>1. CASE j = 1
    BY <1>1, <2>1
  <2>2. CASE j # 1
    <3>1. j - 1 \in 1 .. Len(L) - 1 /\ (j - 1) + 1 = j
      BY <1>2, <2>2
    <3>2. PICK T : T = Tail(L)
      OBVIOUS
    <3>3. j - 1 \in DOMAIN T /\ T[j - 1] = L[j]
      BY <1>1, <3>1, <3>2
    <3>4. L[j] \in Range(T)
      BY <3>3 DEF Range
    <3> QED  BY <3>2, <3>4
  <2> QED  BY <2>1, <2>2
<1> QED  BY <1>1, <1>3 DEF Range

\* What pops have taken stays taken.
Takes(g, x, G, H) ==
  /\ G \in [Poppers -> Seq(Item \cup {Null})] /\ x \in Item \cup {Null}
  /\ H = [G EXCEPT ![g] = Append(@, x)]

LEMMA TakenGrows ==
  ASSUME NEW g \in Poppers, NEW x, NEW G, NEW H, Takes(g, x, G, H)
  PROVE  AllOf(H) = AllOf(G) \cup {x}
<1> USE DEF Takes
<1>1. /\ H[g] = Append(G[g], x) /\ \A h \in Poppers : h # g => H[h] = G[h]
      /\ G[g] \in Seq(Item \cup {Null})
  OBVIOUS
<1>2. Range(H[g]) = Range(G[g]) \cup {x}
  BY <1>1, RangeOfAppend
<1>3. \A h \in Poppers : h # g => Range(H[h]) = Range(G[h])
  BY <1>1
<1>4. \A y : y \in AllOf(H) <=> \E h \in Poppers : y \in Range(H[h])
  BY DEF AllOf
<1>5. \A y : y \in AllOf(G) <=> \E h \in Poppers : y \in Range(G[h])
  BY DEF AllOf
<1>6. \A y : y \in AllOf(H) <=> y \in AllOf(G) \cup {x}
  BY <1>2, <1>3, <1>4, <1>5
<1> QED  BY <1>6

LEMMA NowTypes ==
  ASSUME TypesInv
  PROVE  /\ PutsNow \in [Pushers -> Nat]
         /\ GotNow \in [Poppers -> Seq(Item \cup {Null})]
<1>1. /\ puts \in [Pushers -> 0 .. Limit] /\ Limit \in Nat
      /\ got \in [Poppers -> Seq(Item \cup {Null})] /\ Poppers \subseteq Threads
      /\ seenNext \in [Threads -> Item \cup {Null}]
  BY CellFacts DEF TypesInv, QueueTypeOK
<1>2. ASSUME NEW p \in Pushers
      PROVE  (IF Linked(p) THEN puts[p] + 1 ELSE puts[p]) \in Nat
  <2>1. puts[p] \in Nat
    BY <1>1
  <2> QED  BY <2>1
<1>3. ASSUME NEW g \in Poppers
      PROVE  (IF Taken(g) THEN Append(got[g], seenNext[g]) ELSE got[g])
               \in Seq(Item \cup {Null})
  <2>1. got[g] \in Seq(Item \cup {Null}) /\ seenNext[g] \in Item \cup {Null}
    BY <1>1
  <2>2. Append(got[g], seenNext[g]) \in Seq(Item \cup {Null})
    BY <2>1
  <2> QED  BY <2>1, <2>2
<1> QED  BY <1>2, <1>3 DEF PutsNow, GotNow

LEMMA StepKeepsAccount ==
  ASSUME LockFreeInv, LockFreeInv', [QueueNext]_listvars, Accounted
  PROVE  Accounted'
<1> SUFFICES ASSUME paced' PROVE Accounted'
  BY DEF Accounted
<1>1. paced
  BY PacedStays DEF listvars, heap
<1>2. List!Next \/ UNCHANGED List!vars
  BY <1>1, StepKeepsList
<1>3. PICK C \in Items : Chain = C
  BY <1>1, ChainOf DEF LockFreeInv
<1>4. PICK D \in Items : Chain' = D
  BY ChainThen DEF LockFreeInv
<1>5. C \in Seq(Item) /\ D \in Seq(Item)
  BY ItemsFacts
<1>6. /\ PutsNow \in [Pushers -> Nat]
      /\ GotNow \in [Poppers -> Seq(Item \cup {Null})]
  BY NowTypes DEF LockFreeInv
<1>7. \A p \in Pushers : \A m \in 1 .. PutsNow[p] : <<p, m>> \in Range(C) \cup TakenItems
  BY <1>1, <1>3 DEF Accounted
<1> SUFFICES \A p \in Pushers : \A m \in 1 .. PutsNow'[p] :
               <<p, m>> \in Range(D) \cup TakenItems'
  BY <1>4 DEF Accounted
<1>8. CASE \E p \in Pushers : List!Put(p)
  <2>1. PICK p \in Pushers : List!Put(p)
    BY <1>8
  <2>2. /\ D = Append(C, <<p, PutsNow[p] + 1>>) /\ GotNow' = GotNow
        /\ PutsNow' = [PutsNow EXCEPT ![p] = @ + 1] /\ PutsNow[p] < Limit
    BY <1>3, <1>4, <2>1 DEF List!Put, PutsNow, GotNow
  <2> HIDE DEF PutsNow, GotNow
  <2>3. <<p, PutsNow[p] + 1>> \in Item
    <3>1. PutsNow[p] \in Nat /\ Limit \in Nat
      BY <1>6, CellFacts
    <3>2. PutsNow[p] + 1 \in 1 .. Limit
      BY <2>2, <3>1
    <3> QED  BY <3>2 DEF Item
  <2>4. Range(D) = Range(C) \cup {<<p, PutsNow[p] + 1>>}
    <3>1. PICK x \in Item : x = <<p, PutsNow[p] + 1>>
      BY <2>3
    <3> QED  BY <1>5, <2>2, <3>1, RangeOfAppend
  <2>5. TakenItems' = TakenItems
    BY <2>2 DEF TakenItems
  <2>6. ASSUME NEW q \in Pushers, NEW m \in 1 .. PutsNow'[q]
        PROVE  m \in 1 .. PutsNow[q] \/ (q = p /\ m = PutsNow[p] + 1)
    <3>1. CASE q = p
      <4>1. PutsNow'[q] = PutsNow[p] + 1 /\ PutsNow[p] \in Nat
        BY <1>6, <2>2, <3>1
      <4> QED  BY <3>1, <4>1
    <3>2. CASE q # p
      BY <1>6, <2>2, <3>2
    <3> QED  BY <3>1, <3>2
  <2> QED  BY <1>7, <2>4, <2>5, <2>6
<1>9. CASE \E g \in Poppers : List!Get(g)
  <2>1. PICK g \in Poppers : List!Get(g)
    BY <1>9
  <2>2. /\ D = Tail(C) /\ C # <<>> /\ PutsNow' = PutsNow
        /\ GotNow' = [GotNow EXCEPT ![g] = Append(@, Head(C))]
    BY <1>3, <1>4, <2>1 DEF List!Get, PutsNow, GotNow
  <2> HIDE DEF PutsNow, GotNow
  <2>3. Range(C) \subseteq Range(D) \cup {Head(C)}
    BY <1>5, <2>2, RangeOfTail
  <2>4. TakenItems' = TakenItems \cup {Head(C)}
    <3>1. PICK G, H, x : G = GotNow /\ H = GotNow' /\ x = Head(C)
      OBVIOUS
    <3>2. Takes(g, x, G, H)
      BY <1>5, <1>6, <2>2, <3>1 DEF Takes
    <3>3. AllOf(H) = AllOf(G) \cup {x}
      BY <3>2, TakenGrows
    <3> QED  BY <3>1, <3>3 DEF TakenItems
  <2> QED  BY <1>7, <2>2, <2>3, <2>4
<1>10. CASE \E g \in Poppers : List!Miss(g)
  <2>1. PICK g \in Poppers : List!Miss(g)
    BY <1>10
  <2>2. /\ D = C /\ PutsNow' = PutsNow
        /\ GotNow' = [GotNow EXCEPT ![g] = Append(@, Null)]
    BY <1>3, <1>4, <2>1 DEF List!Miss, PutsNow, GotNow
  <2> HIDE DEF PutsNow, GotNow
  <2>3. TakenItems \subseteq TakenItems'
    <3>1. PICK G, H, x : G = GotNow /\ H = GotNow' /\ x = Null
      OBVIOUS
    <3>2. Takes(g, x, G, H)
      BY <1>6, <2>2, <3>1 DEF Takes
    <3>3. AllOf(H) = AllOf(G) \cup {x}
      BY <3>2, TakenGrows
    <3> QED  BY <3>1, <3>3 DEF TakenItems
  <2> QED  BY <1>7, <2>2, <2>3
<1>11. CASE UNCHANGED List!vars
  <2>1. D = C /\ PutsNow' = PutsNow /\ GotNow' = GotNow
    BY <1>3, <1>4, <1>11 DEF List!vars, PutsNow, GotNow
  <2>2. TakenItems' = TakenItems
    BY <2>1 DEF TakenItems
  <2> QED  BY <1>7, <2>1, <2>2
<1> QED  BY <1>2, <1>8, <1>9, <1>10, <1>11 DEF List!Next

LEMMA AccountedStays ==
  ASSUME LockFreeInv, Accounted
  PROVE  paced => PushesStay
<1> SUFFICES ASSUME paced, NEW p \in Pushers, NEW m \in 1 .. puts[p]
             PROVE  <<p, m>> \in Gone \cup Range(Chain)
  BY DEF PushesStay
<1>1. /\ puts[p] \in Nat /\ seenNext \in [Threads -> Item \cup {Null}]
      /\ got \in [Poppers -> Seq(Item \cup {Null})] /\ Poppers \subseteq Threads
  BY CellFacts DEF LockFreeInv, TypesInv, QueueTypeOK
<1>2. m \in 1 .. PutsNow[p]
  <2>1. PutsNow[p] = puts[p] \/ PutsNow[p] = puts[p] + 1
    BY DEF PutsNow
  <2> HIDE DEF PutsNow
  <2> QED  BY <1>1, <2>1
<1>3. <<p, m>> \in Range(Chain) \cup TakenItems
  BY <1>2 DEF Accounted
<1>4. ASSUME NEW g \in Poppers
      PROVE  Range(GotNow[g]) \subseteq Gone
  <2>1. CASE Taken(g)
    <3>1. PICK x \in Item \cup {Null} : x = seenNext[g]
      BY <1>1
    <3>2. GotNow[g] = Append(got[g], x) /\ got[g] \in Seq(Item \cup {Null})
      BY <1>1, <2>1, <3>1 DEF GotNow
    <3>3. Range(GotNow[g]) = Range(got[g]) \cup {x}
      BY <3>2, RangeOfAppend
    <3>4. Range(got[g]) \subseteq Gone
      BY DEF Gone
    <3>5. seenNext[g] \in {seenNext[f] : f \in {h \in Poppers : Taken(h)}}
      BY <2>1
    <3>6. seenNext[g] \in Gone
      BY <3>5 DEF Gone
    <3> QED  BY <3>1, <3>3, <3>4, <3>6
  <2>2. CASE ~Taken(g)
    BY <2>2 DEF GotNow, Gone
  <2> QED  BY <2>1, <2>2
<1> QED  BY <1>3, <1>4 DEF TakenItems, AllOf

\* At the pace a push that has returned is in the chain until a pop takes it.
THEOREM PushesStayAtThePace == QueueSpec => [](paced => PushesStay)
<1>1. QueueInit => Accounted
  <2> SUFFICES ASSUME QueueInit PROVE Accounted
    OBVIOUS
  <2>1. \A p \in Pushers : PutsNow[p] = 0
    BY CellFacts DEF QueueInit, PutsNow, Linked
  <2> HIDE DEF PutsNow
  <2> QED  BY <2>1 DEF Accounted
<1>2. LockFreeInv /\ LockFreeInv' /\ [QueueNext]_listvars /\ Accounted => Accounted'
  BY StepKeepsAccount
<1>3. LockFreeInv /\ Accounted => (paced => PushesStay)
  BY AccountedStays
<1> QED  BY <1>1, <1>2, <1>3, LockFreeInvariant, PTL DEF QueueSpec

=============================================================================
