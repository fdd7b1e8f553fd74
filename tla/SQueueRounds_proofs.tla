------------------------- MODULE SQueueRounds_proofs -------------------------
(***************************************************************************)
(* Proofs about SQueueRounds, for any number of threads, samples and       *)
(* slots: a line of cycle counts is printed when all the threads of its    *)
(* round have added theirs; and a round whose elements fit the ring and    *)
(* divide evenly among its threads leaves nothing in it.                   *)
(***************************************************************************)
EXTENDS SQueueRounds, FiniteSetTheorems, TLAPS

Places == {"none", "claim", "store", "spin", "clear", "returned"}
Tick   == Nat \X Nat \X Nat
Line   == [op : {"enqueue", "dequeue"}, round : Nat \X Nat, ticks : SUBSET Tick]

\* The threads of round n of series s have all added their ticks to the sum.
AllAdded(s, n, ticks) == \A t \in 0 .. n - 1 : <<s, n, t>> \in ticks

\* The claim of LinesComplete about one line.
LineComplete(l) ==
  l.op = "dequeue" \/ l.round[1] = 2 => AllAdded(l.round[1], l.round[2], l.ticks)

\* Where main is in its series and its round.
MainInv ==
  /\ series \in 1 .. 3 /\ k \in Nat \ {0} /\ k <= NumThreads
  /\ created \in Nat /\ joined \in Nat
  /\ mpc \in {"fill", "createEnqueuers", "joinEnqueuers", "createWorkers",
              "joinWorkers", "end"}
  /\ mpc = "end" <=> series = 3
  /\ Enqueuing => series = 2
  /\ mpc = "fill" => series = 1
  /\ mpc \in {"createEnqueuers", "createWorkers"} => created < k /\ joined = 0
  /\ mpc \in {"joinEnqueuers", "joinWorkers"} => created = k /\ joined < k
  /\ mpc \in {"fill", "end"} => created = 0 /\ joined = 0

\* Threads run from their creation to their join.
ThreadInv ==
  /\ tpc \in [Threads -> Places]
  /\ \A t \in Threads : /\ t >= created => tpc[t] = "none"
                        /\ t < joined => tpc[t] = "returned"

\* A thread that has returned has added its ticks to the sum of its side.
TicksInv ==
  /\ enqueueTicks \subseteq Tick /\ dequeueTicks \subseteq Tick
  /\ \A t \in Threads : tpc[t] = "returned" =>
       <<series, k, t>> \in IF Enqueuing THEN enqueueTicks ELSE dequeueTicks
  /\ series = 2 /\ mpc \in {"createWorkers", "joinWorkers"} =>
       AllAdded(2, k, enqueueTicks)

\* What has been printed.
LinesInv ==
  /\ lines \in Seq(Line)
  /\ \A n \in 1 .. Len(lines) : LineComplete(lines[n])

RoundInv == MainInv /\ ThreadInv /\ TicksInv /\ LinesInv

-----------------------------------------------------------------------------
\* A complete line may be printed.
LEMMA PrintLine ==
  ASSUME NEW s \in Seq(Line), \A n \in 1 .. Len(s) : LineComplete(s[n]),
         NEW l \in Line, LineComplete(l)
  PROVE  /\ Append(s, l) \in Seq(Line)
         /\ \A n \in 1 .. Len(Append(s, l)) : LineComplete(Append(s, l)[n])
<1>1. Append(s, l) \in Seq(Line) /\ Len(Append(s, l)) = Len(s) + 1
  OBVIOUS
<1>2. Append(s, l)[Len(s) + 1] = l
  OBVIOUS
<1>3. ASSUME NEW n \in 1 .. Len(Append(s, l)) PROVE LineComplete(Append(s, l)[n])
  <2>1. CASE n = Len(s) + 1
    BY <1>2, <2>1
  <2>2. CASE n # Len(s) + 1
    <3>1. n \in 1 .. Len(s) /\ Append(s, l)[n] = s[n]
      BY <1>1, <2>2
    <3> QED  BY <3>1
  <2> QED  BY <2>1, <2>2
<1> QED  BY <1>1, <1>3

LEMMA LinesInvSuffices == RoundInv => LinesComplete
BY DEF RoundInv, LinesInv, LinesComplete, LineComplete, AllAdded

LEMMA InitInv == Init => RoundInv
<1> SUFFICES ASSUME Init PROVE RoundInv
  OBVIOUS
<1> USE SQueueRoundsAssumption
<1>1. MainInv
  BY DEF Init, MainInv, FirstPlace, Enqueuing
<1>2. ThreadInv /\ TicksInv
  BY DEF Init, ThreadInv, TicksInv, Places, Threads
<1>3. LinesInv
  BY DEF Init, LinesInv
<1> QED  BY <1>1, <1>2, <1>3 DEF RoundInv

-----------------------------------------------------------------------------
(* The steps                                                               *)

LEMMA FillKeepsInv ==
  ASSUME RoundInv, Fill \/ Filled
  PROVE  RoundInv'
<1>1. /\ UNCHANGED <<series, k, created, joined, enqueueTicks, dequeueTicks,
                     lines, tpc>>
      /\ mpc = "fill" /\ mpc' \in {"fill", "createWorkers"}
  BY DEF Fill, Filled
<1>2. series = 1 /\ created = 0 /\ joined = 0
  BY <1>1 DEF RoundInv, MainInv
<1>3. MainInv'
  BY <1>1, <1>2 DEF RoundInv, MainInv, Enqueuing
<1>4. ThreadInv' /\ LinesInv'
  BY <1>1 DEF RoundInv, ThreadInv, LinesInv
<1>5. TicksInv'
  BY <1>1, <1>2 DEF RoundInv, TicksInv, ThreadInv, Enqueuing
<1> QED  BY <1>3, <1>4, <1>5 DEF RoundInv

LEMMA CreateKeepsInv ==
  ASSUME RoundInv, Create
  PROVE  RoundInv'
<1> USE SQueueRoundsAssumption
<1> DEFINE own == [op |-> "enqueue", round |-> <<1, k>>, ticks |-> {<<1, k, Main>>}]
<1>1. /\ mpc \in {"createEnqueuers", "createWorkers"}
      /\ created' = created + 1
      /\ tpc' = [tpc EXCEPT ![created] = "claim"]
      /\ UNCHANGED <<series, k, joined, enqueueTicks, dequeueTicks>>
  BY DEF Create
<1>2. /\ created' < k => UNCHANGED <<mpc, lines>>
      /\ ~(created' < k) =>
           /\ mpc' = IF Enqueuing THEN "joinEnqueuers" ELSE "joinWorkers"
           /\ lines' = IF series = 1 THEN Append(lines, own) ELSE lines
  BY DEF Create
<1>3. /\ created \in Nat /\ created < k /\ joined = 0 /\ k \in Nat
      /\ k <= NumThreads /\ series \in 1 .. 2
  BY <1>1 DEF RoundInv, MainInv
<1>4. Enqueuing' = Enqueuing
  BY <1>1, <1>2 DEF Enqueuing
<1>5. MainInv'
  BY <1>1, <1>2, <1>3, <1>4 DEF RoundInv, MainInv, Enqueuing
<1>6. created \in Threads /\ \A t \in Threads : t \in Nat
  BY <1>3 DEF Threads
<1>7. ThreadInv' /\ \A t \in Threads : tpc'[t] = "returned" => tpc[t] = "returned"
  BY <1>1, <1>3, <1>6 DEF RoundInv, ThreadInv, Places
<1>8. TicksInv'
  BY <1>1, <1>2, <1>4, <1>7 DEF RoundInv, TicksInv, Enqueuing
<1>9. LinesInv'
  <2>1. own \in Line /\ LineComplete(own)
    BY <1>3 DEF Line, Tick, LineComplete, Main
  <2> HIDE DEF own
  <2> QED  BY <1>2, <2>1, PrintLine DEF RoundInv, LinesInv
<1> QED  BY <1>5, <1>7, <1>8, <1>9 DEF RoundInv

\* Up to the last join of a phase nothing else changes; then all the threads of
\* the phase have added their ticks.
LEMMA JoinKeepsInv ==
  ASSUME RoundInv, Join
  PROVE  RoundInv'
<1> USE SQueueRoundsAssumption
<1>1. /\ mpc \in {"joinEnqueuers", "joinWorkers"} /\ tpc[joined] = "returned"
      /\ UNCHANGED <<enqueueTicks, dequeueTicks>>
  BY DEF Join
<1>2. /\ created = k /\ joined \in Nat /\ joined < k /\ k \in Nat \ {0}
      /\ k <= NumThreads /\ series \in 1 .. 2
      /\ Enqueuing => series = 2
  BY <1>1 DEF RoundInv, MainInv
<1>3. CASE joined + 1 < k
  <2>1. joined' = joined + 1 /\ UNCHANGED <<created, tpc, series, k, mpc, lines>>
    BY <1>3 DEF Join
  <2>2. MainInv'
    BY <1>1, <1>2, <1>3, <2>1 DEF RoundInv, MainInv, Enqueuing
  <2>3. ThreadInv'
    <3>1. \A t \in Threads : t < joined + 1 => t < joined \/ t = joined
      BY <1>2 DEF Threads
    <3> QED  BY <1>1, <2>1, <3>1 DEF RoundInv, ThreadInv
  <2>4. TicksInv' /\ LinesInv'
    BY <1>1, <2>1 DEF RoundInv, TicksInv, LinesInv, Enqueuing
  <2> QED  BY <2>2, <2>3, <2>4 DEF RoundInv
<1>4. CASE ~(joined + 1 < k)
  <2>1. /\ joined' = 0 /\ created' = 0 /\ tpc' = [t \in Threads |-> "none"]
        /\ AfterJoin
    BY <1>4 DEF Join
  <2>2. AllAdded(series, k, IF Enqueuing THEN enqueueTicks ELSE dequeueTicks)
    <3>1. \A t \in 0 .. k - 1 : t \in Threads /\ (t < joined \/ t = joined)
      BY <1>2, <1>4 DEF Threads
    <3> QED  BY <1>1, <3>1 DEF RoundInv, ThreadInv, TicksInv, AllAdded
  <2>3. ThreadInv'
    BY <2>1 DEF ThreadInv, Places, Threads
  <2>4. CASE Enqueuing
    <3>1. mpc' = "createWorkers" /\ UNCHANGED <<series, k, lines>>
      BY <2>1, <2>4 DEF AfterJoin
    <3>2. MainInv'
      BY <1>2, <2>1, <3>1 DEF RoundInv, MainInv, Enqueuing
    <3>3. TicksInv' /\ LinesInv'
      BY <1>1, <1>2, <2>1, <2>2, <2>4, <3>1
         DEF RoundInv, TicksInv, LinesInv, Enqueuing
    <3> QED  BY <2>3, <3>2, <3>3 DEF RoundInv
  <2>5. CASE ~Enqueuing
    <3> DEFINE esum == [op |-> "enqueue", round |-> <<series, k>>,
                        ticks |-> enqueueTicks]
               dsum == [op |-> "dequeue", round |-> <<series, k>>,
                        ticks |-> dequeueTicks]
    <3>1. /\ lines' = lines \o (IF series = 1 THEN <<dsum>> ELSE <<esum, dsum>>)
          /\ IF GoesOn THEN k' = 2 * k /\ series' = series
                       ELSE k' = 1 /\ series' = series + 1
          /\ mpc' = IF series' = 3 THEN "end" ELSE FirstPlace(series')
      BY <2>1, <2>5 DEF AfterJoin
    <3>2. MainInv'
      <4>1. k' \in Nat \ {0} /\ k' <= NumThreads /\ series' \in 1 .. 3
        BY <1>2, <3>1 DEF GoesOn
      <4> QED  BY <2>1, <3>1, <4>1 DEF MainInv, Enqueuing, FirstPlace
    <3>3. TicksInv'
      <4>1. mpc' \in {"fill", "createEnqueuers", "end"}
        BY <3>1 DEF FirstPlace
      <4> QED  BY <1>1, <2>1, <4>1 DEF RoundInv, TicksInv
    <3>4. dsum \in Line /\ LineComplete(dsum)
      BY <1>2, <2>2, <2>5 DEF RoundInv, TicksInv, Line, LineComplete
    <3>5. series = 2 => esum \in Line /\ LineComplete(esum)
      BY <1>1, <1>2, <2>5 DEF RoundInv, TicksInv, Line, LineComplete, Enqueuing
    <3> HIDE DEF esum, dsum
    <3>6. CASE series = 1
      <4>1. lines' = Append(lines, dsum)
        BY <3>1, <3>4, <3>6 DEF RoundInv, LinesInv
      <4>2. LinesInv'
        BY <3>4, <4>1, PrintLine DEF RoundInv, LinesInv
      <4> QED  BY <2>3, <3>2, <3>3, <4>2 DEF RoundInv
    <3>7. CASE series = 2
      <4> DEFINE half == Append(lines, esum)
      <4>1. half \in Seq(Line) /\ \A n \in 1 .. Len(half) : LineComplete(half[n])
        BY <3>5, <3>7, PrintLine DEF RoundInv, LinesInv
      <4>2. lines' = Append(half, dsum)
        BY <3>1, <3>4, <3>5, <3>7 DEF RoundInv, LinesInv
      <4> HIDE DEF half
      <4>3. LinesInv'
        BY <3>4, <4>1, <4>2, PrintLine DEF LinesInv
      <4> QED  BY <2>3, <3>2, <3>3, <4>3 DEF RoundInv
    <3> QED  BY <1>2, <3>6, <3>7
  <2> QED  BY <2>4, <2>5
<1> QED  BY <1>3, <1>4

\* A thread adds its ticks in the step in which it returns.
LEMMA HandlerKeepsInv ==
  ASSUME RoundInv, NEW t \in Threads, handler(t)
  PROVE  RoundInv'
<1> USE SQueueRoundsAssumption
<1>1. UNCHANGED <<series, k, mpc, created, joined, lines>>
  BY DEF handler, Claim, Store, Spin, Clear, Return, mainvars
<1>2. /\ tpc[t] \in {"claim", "store", "spin", "clear"}
      /\ \E p \in {"claim", "store", "spin", "clear", "returned"} :
           tpc' = [tpc EXCEPT ![t] = p]
  BY DEF handler, Claim, Store, Spin, Clear, Return, Goto
<1>3. MainInv' /\ LinesInv' /\ Enqueuing' = Enqueuing
  BY <1>1 DEF RoundInv, MainInv, LinesInv, Enqueuing
<1>4. /\ ThreadInv'
      /\ \A u \in Threads : u # t => tpc'[u] = tpc[u]
  BY <1>1, <1>2 DEF RoundInv, ThreadInv, Places
<1>5. TicksInv'
  <2>1. series \in Nat /\ k \in Nat /\ t \in Nat
    BY DEF RoundInv, MainInv, Threads
  <2>2. CASE Return(t)
    <3>1. IF Enqueuing
            THEN /\ enqueueTicks' = enqueueTicks \cup {<<series, k, t>>}
                 /\ UNCHANGED dequeueTicks
            ELSE /\ dequeueTicks' = dequeueTicks \cup {<<series, k, t>>}
                 /\ UNCHANGED enqueueTicks
      BY <2>2 DEF Return
    <3>2. enqueueTicks' \subseteq Tick /\ dequeueTicks' \subseteq Tick
      BY <2>1, <3>1 DEF RoundInv, TicksInv, Tick
    <3>3. \A u \in Threads : tpc'[u] = "returned" =>
            <<series, k, u>> \in IF Enqueuing THEN enqueueTicks' ELSE dequeueTicks'
      BY <1>4, <3>1 DEF RoundInv, TicksInv
    <3>4. enqueueTicks \subseteq enqueueTicks'
      BY <3>1
    <3> QED  BY <1>1, <1>3, <3>2, <3>3, <3>4 DEF RoundInv, TicksInv, AllAdded
  <2>3. CASE ~Return(t)
    <3>1. UNCHANGED <<enqueueTicks, dequeueTicks>> /\ tpc'[t] # "returned"
      BY <2>3 DEF handler, Claim, Store, Spin, Clear, Goto, RoundInv, ThreadInv
    <3> QED  BY <1>1, <1>3, <1>4, <3>1 DEF RoundInv, TicksInv, AllAdded
  <2> QED  BY <2>2, <2>3
<1> QED  BY <1>3, <1>4, <1>5 DEF RoundInv

LEMMA StepKeepsInv == RoundInv /\ [Next]_vars => RoundInv'
<1> SUFFICES ASSUME RoundInv, [Next]_vars PROVE RoundInv'
  OBVIOUS
<1>1. CASE main
  BY <1>1, FillKeepsInv, CreateKeepsInv, JoinKeepsInv DEF main
<1>2. CASE \E t \in Threads : handler(t)
  BY <1>2, HandlerKeepsInv
<1>3. CASE UNCHANGED vars
  BY <1>3 DEF vars, RoundInv, MainInv, ThreadInv, TicksInv, LinesInv, Enqueuing
<1> QED  BY <1>1, <1>2, <1>3 DEF Next, Ended

\* main joins every thread of a round before it prints the sums, whatever the
\* number of threads: a line is never short of a thread's ticks.
THEOREM SumsAreComplete == Spec => []LinesComplete
BY InitInv, StepKeepsInv, LinesInvSuffices, PTL DEF Spec

-----------------------------------------------------------------------------
(* The types                                                               *)

\* The values of k: 1 and its doubles up to NUM_THREADS.
ThreadCounts ==
  {n \in 1 .. NumThreads :
     \A S \in SUBSET (1 .. NumThreads) :
       1 \in S /\ (\A m \in S : 2 * m <= NumThreads => 2 * m \in S) => n \in S}

\* Main waits for workers or creates them.
Taking == mpc \in {"createWorkers", "joinWorkers"}

\* t has drawn a ticket and not yet done with its slot.
Holding(t) == tpc[t] \in {"store", "spin", "clear"}

\* Where the calls of the threads are.
PlaceInv ==
  \A t \in Threads :
    /\ tpc[t] = "store" => Enqueuing
    /\ tpc[t] \in {"spin", "clear"} => Taking
    /\ tpc[t] = "clear" => elem[t] \in Atom
    /\ tpc[t] = "claim" => i[t] <= PerThread
    /\ Holding(t) => i[t] < PerThread
    /\ tpc[t] = "returned" => i[t] = PerThread

TypeInv == TypeOK /\ k \in ThreadCounts /\ PlaceInv

LEMMA CountsDouble ==
  /\ 1 \in ThreadCounts
  /\ \A n \in ThreadCounts : 2 * n <= NumThreads => 2 * n \in ThreadCounts
<1>1. NumThreads \in Nat \ {0}
  BY SQueueRoundsAssumption
<1>2. 1 \in ThreadCounts
  BY <1>1 DEF ThreadCounts
<1>3. ASSUME NEW n \in ThreadCounts, 2 * n <= NumThreads
      PROVE  2 * n \in ThreadCounts
  <2>1. n \in 1 .. NumThreads /\ 2 * n \in 1 .. NumThreads
    BY <1>1, <1>3 DEF ThreadCounts
  <2>2. ASSUME NEW S \in SUBSET (1 .. NumThreads), 1 \in S,
               \A m \in S : 2 * m <= NumThreads => 2 * m \in S
        PROVE  2 * n \in S
    <3>1. n \in S
      BY <2>2 DEF ThreadCounts
    <3> QED  BY <1>3, <2>2, <3>1
  <2> QED  BY <2>1, <2>2 DEF ThreadCounts
<1> QED  BY <1>2, <1>3

LEMMA ShareFacts ==
  ASSUME NEW n \in Nat \ {0}
  PROVE  /\ NumSamples \div n \in Nat /\ NumSamples \div n <= NumSamples
         /\ NumSamples % n = 0 => n * (NumSamples \div n) = NumSamples
<1> DEFINE d == NumSamples \div n
<1>1. NumSamples \in Nat
  BY SQueueRoundsAssumption
<1>2. \A a \in Nat : a \div n \in Nat /\ a = n * (a \div n) + (a % n) /\ a % n \in Nat
  OBVIOUS
<1>3. d \in Nat /\ NumSamples = n * d + (NumSamples % n) /\ NumSamples % n \in Nat
  BY <1>1, <1>2
<1> HIDE DEF d
<1>4. n * d = d + (n - 1) * d /\ (n - 1) * d \in Nat /\ n * d \in Nat
  BY <1>3
<1>5. d <= NumSamples
  BY <1>1, <1>3, <1>4
<1>6. NumSamples % n = 0 => n * d = NumSamples
  BY <1>1, <1>3, <1>4
<1> QED  BY <1>3, <1>5, <1>6 DEF d

LEMMA SlotRange == \A n \in Int : Slot(n) \in 0 .. MaxSize - 1
<1>1. \A m \in Nat \ {0} : \A n \in Int : n % m \in 0 .. m - 1
  OBVIOUS
<1> QED  BY ONLY <1>1, SQueueRoundsAssumption DEF Slot

LEMMA InitTypes == Init => TypeInv
<1> SUFFICES ASSUME Init PROVE TypeInv
  OBVIOUS
<1> USE SQueueRoundsAssumption
<1>1. TypeOK
  BY DEF Init, TypeOK, FirstPlace
<1>2. PlaceInv
  BY DEF Init, PlaceInv, Holding
<1> QED  BY <1>1, <1>2, CountsDouble DEF Init, TypeInv

LEMMA MainKeepsTypes ==
  ASSUME RoundInv, RoundInv', TypeInv, main
  PROVE  TypeInv'
<1> USE SQueueRoundsAssumption
<1>1. /\ series' \in 1 .. 3 /\ k' \in 1 .. NumThreads /\ created' \in 0 .. k'
      /\ joined' \in 0 .. k'
      /\ mpc' \in {"fill", "createEnqueuers", "joinEnqueuers", "createWorkers",
                   "joinWorkers", "end"}
      /\ tpc' \in [Threads -> Places]
  BY DEF RoundInv, MainInv, ThreadInv
<1>2. CASE Fill
  <2>1. /\ <<Main, filled + 1>> \in Atom /\ filled' = filled + 1
        /\ filled' \in 0 .. NumSamples
    BY <1>2 DEF Fill, TypeInv, TypeOK, Atom
  <2>2. tail' = tail + 1 /\ tail' \in Int /\ Slot(tail') \in 0 .. MaxSize - 1
    <3>1. tail' = tail + 1 /\ tail' \in Int
      BY <1>2 DEF Fill, TypeInv, TypeOK
    <3> QED  BY <3>1, SlotRange
  <2>3. theQueue' \in [0 .. MaxSize - 1 -> Atom \cup {Null}] /\ stored' \subseteq Atom
    BY <1>2, <2>1, <2>2 DEF Fill, TypeInv, TypeOK
  <2>4. UNCHANGED <<k, mpc, head, tpc, i, ticket, elem, got>>
    BY <1>2 DEF Fill
  <2>5. TypeOK'
    BY <1>1, <2>1, <2>2, <2>3, <2>4 DEF TypeInv, TypeOK, Places
  <2>6. PlaceInv'
    BY <2>4 DEF TypeInv, PlaceInv, Holding, Enqueuing, Taking, PerThread
  <2> QED  BY <2>4, <2>5, <2>6 DEF TypeInv
<1>3. CASE Filled
  <2>1. UNCHANGED <<k, filled, tpc, i, ticket, elem, stored, got, head, tail, theQueue>>
    BY <1>3 DEF Filled, ring
  <2>2. TypeOK'
    BY <1>1, <2>1 DEF TypeInv, TypeOK, Places
  <2>3. \A t \in Threads : tpc[t] = "none"
    BY <1>3 DEF RoundInv, MainInv, ThreadInv, Filled, Threads
  <2>4. PlaceInv'
    BY <2>1, <2>3 DEF PlaceInv, Holding
  <2> QED  BY <2>1, <2>2, <2>4 DEF TypeInv
<1>4. CASE Create
  <2>1. /\ UNCHANGED <<k, filled, ticket, elem, stored, got, head, tail, theQueue>>
        /\ tpc' = [tpc EXCEPT ![created] = "claim"]
        /\ i' = [i EXCEPT ![created] = 0]
        /\ mpc \in {"createEnqueuers", "createWorkers"}
        /\ mpc' = mpc \/ mpc' = IF Enqueuing THEN "joinEnqueuers" ELSE "joinWorkers"
    BY <1>4 DEF Create, ring
  <2>2. i' \in [Threads -> 0 .. NumSamples]
    <3>1. i \in [Threads -> 0 .. NumSamples] /\ 0 \in 0 .. NumSamples
      BY DEF TypeInv, TypeOK
    <3> QED  BY ONLY <2>1, <3>1
  <2>3. TypeOK'
    BY <1>1, <2>1, <2>2 DEF TypeInv, TypeOK, Places
  <2>4. Enqueuing' = Enqueuing /\ Taking' = Taking
    BY <2>1 DEF Enqueuing, Taking
  <2>5. PerThread \in Nat /\ PerThread' = PerThread
    BY <2>1, ShareFacts DEF TypeInv, TypeOK, PerThread
  <2>6. PlaceInv'
    <3> SUFFICES ASSUME NEW t \in Threads PROVE
           /\ tpc'[t] = "store" => Enqueuing'
           /\ tpc'[t] \in {"spin", "clear"} => Taking'
           /\ tpc'[t] = "clear" => elem'[t] \in Atom
           /\ tpc'[t] = "claim" => i'[t] <= PerThread'
           /\ Holding(t)' => i'[t] < PerThread'
           /\ tpc'[t] = "returned" => i'[t] = PerThread'
      BY DEF PlaceInv
    <3>1. CASE t = created
      <4>1. tpc'[t] = "claim" /\ i'[t] = 0
        BY <2>1, <3>1 DEF TypeInv, TypeOK
      <4> QED  BY <2>5, <4>1 DEF Holding
    <3>2. CASE t # created
      <4>1. tpc'[t] = tpc[t] /\ i'[t] = i[t]
        BY <2>1, <3>2 DEF TypeInv, TypeOK
      <4> QED  BY <2>1, <2>4, <2>5, <4>1 DEF Holding, TypeInv, PlaceInv
    <3> QED  BY <3>1, <3>2
  <2> QED  BY <2>1, <2>3, <2>6 DEF TypeInv
<1>5. CASE Join
  <2>1. UNCHANGED <<i, ticket, elem, head, tail, theQueue>>
    BY <1>5 DEF Join, ring
  <2>2. CASE joined + 1 < k
    <3>1. UNCHANGED <<tpc, k, mpc, filled, stored, got>>
      BY <1>5, <2>2 DEF Join
    <3>2. TypeOK'
      BY <1>1, <2>1, <3>1 DEF TypeInv, TypeOK
    <3>3. PlaceInv'
      BY <2>1, <3>1 DEF TypeInv, PlaceInv, Holding, Enqueuing, Taking, PerThread
    <3> QED  BY <3>1, <3>2, <3>3 DEF TypeInv
  <2>3. CASE ~(joined + 1 < k)
    <3>1. tpc' = [t \in Threads |-> "none"] /\ AfterJoin
      BY <1>5, <2>3 DEF Join
    <3>2. /\ filled' \in 0 .. NumSamples /\ stored' \subseteq Atom
          /\ got' \in Seq(Atom)
      <4>1. CASE Enqueuing
        BY <3>1, <4>1 DEF AfterJoin, TypeInv, TypeOK
      <4>2. CASE ~Enqueuing
        <5>1. filled' = 0 /\ stored' = {} /\ got' = <<>>
          BY <3>1, <4>2 DEF AfterJoin
        <5> QED  BY <5>1
      <4> QED  BY <4>1, <4>2
    <3>3. k' \in ThreadCounts
      BY <3>1, CountsDouble DEF AfterJoin, TypeInv, GoesOn
    <3>4. TypeOK'
      BY <1>1, <2>1, <3>2 DEF TypeInv, TypeOK, Places
    <3>5. PlaceInv'
      BY <3>1 DEF PlaceInv, Holding
    <3> QED  BY <3>3, <3>4, <3>5 DEF TypeInv
  <2> QED  BY <2>2, <2>3
<1> QED  BY <1>2, <1>3, <1>4, <1>5 DEF main

LEMMA HandlerKeepsTypes ==
  ASSUME RoundInv, TypeInv, NEW t \in Threads, handler(t)
  PROVE  TypeInv'
<1> USE SQueueRoundsAssumption
<1>1. UNCHANGED <<series, k, mpc, filled, created, joined>>
  BY DEF handler, Claim, Store, Spin, Clear, Return, mainvars
<1>2. Enqueuing' = Enqueuing /\ Taking' = Taking /\ PerThread' = PerThread
  BY <1>1 DEF Enqueuing, Taking, PerThread
<1>3. PerThread \in 0 .. NumSamples
  BY ShareFacts DEF PerThread, TypeInv, TypeOK
<1>4. PlaceInv /\ TypeOK /\ (Enqueuing \/ Taking)
  <2>1. tpc[t] # "none"
    BY DEF handler, Claim, Store, Spin, Clear, Return
  <2>2. mpc \notin {"fill", "end"}
    BY <2>1 DEF RoundInv, MainInv, ThreadInv, Threads
  <2> QED  BY <2>2 DEF TypeInv, TypeOK, Enqueuing, Taking
\* Of the threads only t changes.
<1>5. ASSUME NEW p \in Places, tpc' = [tpc EXCEPT ![t] = p],
             NEW n \in 0 .. NumSamples, i' = [i EXCEPT ![t] = n],
             NEW e \in Atom \cup {Null}, elem' = [elem EXCEPT ![t] = e],
             p = "store" => Enqueuing,
             p \in {"spin", "clear"} => Taking,
             p = "clear" => e \in Atom,
             p = "claim" => n <= PerThread,
             p \in {"store", "spin", "clear"} => n < PerThread,
             p = "returned" => n = PerThread,
             theQueue' \in [0 .. MaxSize - 1 -> Atom \cup {Null}],
             head' \in Int, tail' \in Int, ticket' \in [Threads -> Int],
             stored' \subseteq Atom, got' \in Seq(Atom)
      PROVE  TypeInv'
  <2>1. /\ tpc' \in [Threads -> Places] /\ i' \in [Threads -> 0 .. NumSamples]
        /\ elem' \in [Threads -> Atom \cup {Null}]
    BY <1>4, <1>5 DEF TypeOK, Places
  <2>2. TypeOK'
    BY <1>1, <1>4, <1>5, <2>1 DEF TypeOK, Places
  <2>3. ASSUME NEW u \in Threads
        PROVE  /\ tpc'[u] = "store" => Enqueuing'
               /\ tpc'[u] \in {"spin", "clear"} => Taking'
               /\ tpc'[u] = "clear" => elem'[u] \in Atom
               /\ tpc'[u] = "claim" => i'[u] <= PerThread'
               /\ tpc'[u] \in {"store", "spin", "clear"} => i'[u] < PerThread'
               /\ tpc'[u] = "returned" => i'[u] = PerThread'
    <3>1. CASE u = t
      <4>1. tpc'[t] = p /\ i'[t] = n /\ elem'[t] = e
        BY <1>4, <1>5 DEF TypeOK
      <4> QED  BY <1>2, <1>5, <3>1, <4>1
    <3>2. CASE u # t
      <4>1. tpc'[u] = tpc[u] /\ i'[u] = i[u] /\ elem'[u] = elem[u]
        BY <1>4, <1>5, <3>2 DEF TypeOK
      <4> QED  BY <1>2, <1>4, <4>1 DEF PlaceInv, Holding
    <3> QED  BY <3>1, <3>2
  <2>4. PlaceInv'
    BY <2>3 DEF PlaceInv, Holding
  <2> QED  BY <1>1, <2>2, <2>4 DEF TypeInv
<1>6. /\ i[t] \in 0 .. NumSamples /\ i = [i EXCEPT ![t] = i[t]]
      /\ elem[t] \in Atom \cup {Null} /\ elem = [elem EXCEPT ![t] = elem[t]]
      /\ ticket[t] \in Int /\ Slot(ticket[t]) \in 0 .. MaxSize - 1
  BY <1>4, SlotRange DEF TypeOK
<1>7. Holding(t) => i[t] + 1 \in 0 .. NumSamples /\ i[t] < PerThread
                    /\ i[t] + 1 <= PerThread
  BY <1>3, <1>4, <1>6 DEF PlaceInv
<1>8. CASE Claim(t)
  <2> DEFINE p == IF Enqueuing THEN "store" ELSE "spin"
  <2>1. /\ i[t] < PerThread
        /\ tpc' = [tpc EXCEPT ![t] = p] /\ p \in Places
        /\ p = "store" => Enqueuing
        /\ p = "spin" => Taking
        /\ p \in {"store", "spin"}
    BY <1>4, <1>8 DEF Claim, Goto, Places
  <2>2. head' \in Int /\ tail' \in Int
    BY <1>4, <1>8 DEF Claim, TypeOK
  <2>3. ticket' \in [Threads -> Int]
    <3>1. PICK n \in Int : ticket' = [ticket EXCEPT ![t] = n]
      BY <1>8, <2>2 DEF Claim
    <3> QED  BY <1>4, <3>1 DEF TypeOK
  <2>4. UNCHANGED <<i, elem, theQueue, stored, got>>
    BY <1>8 DEF Claim
  <2>5. /\ theQueue' \in [0 .. MaxSize - 1 -> Atom \cup {Null}]
        /\ stored' \subseteq Atom /\ got' \in Seq(Atom)
    BY <1>4, <2>4 DEF TypeOK
  <2> HIDE DEF p
  <2> QED  BY <1>5, <1>6, <2>1, <2>2, <2>3, <2>4, <2>5
<1>9. CASE Store(t)
  <2>1. /\ tpc[t] = "store" /\ tpc' = [tpc EXCEPT ![t] = "claim"]
        /\ UNCHANGED <<ticket, elem, head, tail, got>>
    BY <1>9 DEF Store, Goto
  <2>2. i' = [i EXCEPT ![t] = i[t] + 1] /\ i'[t] = i[t] + 1
    BY <1>4, <1>9 DEF Store, TypeOK
  <2>3. i[t] + 1 \in 0 .. NumSamples /\ i[t] + 1 <= PerThread
    BY <1>7, <2>1 DEF Holding
  <2>4. <<t, i[t] + 1>> \in Atom
    BY <1>6, <2>3 DEF Atom
  <2>5. /\ theQueue' = [theQueue EXCEPT ![Slot(ticket[t])] = <<t, i[t] + 1>>]
        /\ stored' = stored \cup {<<t, i[t] + 1>>}
    BY <1>9, <2>2 DEF Store
  <2>6. /\ theQueue' \in [0 .. MaxSize - 1 -> Atom \cup {Null}]
        /\ stored' \subseteq Atom /\ got' \in Seq(Atom)
        /\ head' \in Int /\ tail' \in Int /\ ticket' \in [Threads -> Int]
    BY <1>4, <2>1, <2>4, <2>5 DEF TypeOK
  <2>7. "claim" \in Places
    BY DEF Places
  <2> QED  BY <1>5, <1>6, <2>1, <2>2, <2>3, <2>6, <2>7
<1>10. CASE Spin(t)
  <2>1. /\ tpc[t] = "spin" /\ tpc' = [tpc EXCEPT ![t] = "clear"]
        /\ elem' = [elem EXCEPT ![t] = theQueue[Slot(ticket[t])]]
        /\ theQueue[Slot(ticket[t])] # Null
        /\ UNCHANGED <<i, ticket, stored, got, head, tail, theQueue>>
    BY <1>10 DEF Spin, Goto, ring
  <2>2. theQueue[Slot(ticket[t])] \in Atom /\ Taking
    BY <1>4, <1>6, <2>1 DEF TypeOK, PlaceInv
  <2>3. i[t] < PerThread
    BY <1>7, <2>1 DEF Holding
  <2>4. /\ theQueue' \in [0 .. MaxSize - 1 -> Atom \cup {Null}]
        /\ stored' \subseteq Atom /\ got' \in Seq(Atom)
        /\ head' \in Int /\ tail' \in Int /\ ticket' \in [Threads -> Int]
    BY <1>4, <2>1 DEF TypeOK
  <2>5. "clear" \in Places
    BY DEF Places
  <2> QED  BY <1>5, <1>6, <2>1, <2>2, <2>3, <2>4, <2>5
<1>11. CASE Clear(t)
  <2>1. /\ tpc[t] = "clear" /\ tpc' = [tpc EXCEPT ![t] = "claim"]
        /\ theQueue' = [theQueue EXCEPT ![Slot(ticket[t])] = Null]
        /\ got' = Append(got, elem[t])
        /\ UNCHANGED <<ticket, elem, head, tail, stored>>
    BY <1>11 DEF Clear, Goto
  <2>2. i' = [i EXCEPT ![t] = i[t] + 1]
    BY <1>11 DEF Clear
  <2>3. i[t] + 1 \in 0 .. NumSamples /\ i[t] + 1 <= PerThread
    BY <1>7, <2>1 DEF Holding
  <2>4. elem[t] \in Atom
    BY <1>4, <2>1 DEF PlaceInv
  <2>5. /\ theQueue' \in [0 .. MaxSize - 1 -> Atom \cup {Null}]
        /\ stored' \subseteq Atom /\ got' \in Seq(Atom)
        /\ head' \in Int /\ tail' \in Int /\ ticket' \in [Threads -> Int]
    <3>1. got \in Seq(Atom) /\ got' \in Seq(Atom)
      BY <1>4, <2>1, <2>4 DEF TypeOK
    <3>2. /\ theQueue' \in [0 .. MaxSize - 1 -> Atom \cup {Null}]
          /\ stored' \subseteq Atom
          /\ head' \in Int /\ tail' \in Int /\ ticket' \in [Threads -> Int]
      BY <1>4, <2>1 DEF TypeOK
    <3> QED  BY <3>1, <3>2
  <2>6. "claim" \in Places
    BY DEF Places
  <2> QED  BY <1>5, <1>6, <2>1, <2>2, <2>3, <2>5, <2>6
<1>12. CASE Return(t)
  <2>1. /\ i[t] = PerThread /\ tpc' = [tpc EXCEPT ![t] = "returned"]
        /\ UNCHANGED <<i, ticket, elem, stored, got, head, tail, theQueue>>
    BY <1>12 DEF Return, Goto, ring
  <2>2. /\ theQueue' \in [0 .. MaxSize - 1 -> Atom \cup {Null}]
        /\ stored' \subseteq Atom /\ got' \in Seq(Atom)
        /\ head' \in Int /\ tail' \in Int /\ ticket' \in [Threads -> Int]
    BY <1>4, <2>1 DEF TypeOK
  <2>3. "returned" \in Places
    BY DEF Places
  <2> QED  BY <1>5, <1>6, <2>1, <2>2, <2>3
<1> QED  BY <1>8, <1>9, <1>10, <1>11, <1>12 DEF handler

LEMMA StepKeepsTypes ==
  ASSUME RoundInv, RoundInv', TypeInv, [Next]_vars
  PROVE  TypeInv'
<1>1. CASE main
  BY <1>1, MainKeepsTypes
<1>2. CASE \E t \in Threads : handler(t)
  BY <1>2, HandlerKeepsTypes
<1>3. CASE UNCHANGED vars
  BY <1>3 DEF vars, TypeInv, TypeOK, PlaceInv, Holding, Enqueuing, Taking,
              PerThread
<1> QED  BY <1>1, <1>2, <1>3 DEF Next, Ended

\* Whatever the workload, no thread makes more calls than its share, and a worker
\* returns elements only.
THEOREM TypeCorrect == Spec => []TypeOK
<1>1. TypeInv => TypeOK
  BY DEF TypeInv
<1> QED  BY <1>1, InitInv, InitTypes, StepKeepsInv, StepKeepsTypes, PTL DEF Spec

-----------------------------------------------------------------------------
(* The calls                                                               *)

\* The first b[t] calls of each of n threads.
Calls(n, b) == {x \in (0 .. n - 1) \X (1 .. NumSamples) : x[2] <= b[x[1]]}

LEMMA CallsFinite ==
  ASSUME NEW n \in Nat, NEW b
  PROVE  IsFiniteSet(Calls(n, b)) /\ Cardinality(Calls(n, b)) \in Nat
<1> DEFINE A == 0 .. n - 1
           B == 1 .. NumSamples
<1>1. IsFiniteSet(A) /\ IsFiniteSet(B)
  BY SQueueRoundsAssumption, FS_Interval
<1>2. Calls(n, b) \subseteq A \X B
  BY DEF Calls
<1> HIDE DEF A, B
<1>3. IsFiniteSet(A \X B)
  BY <1>1, FS_Product
<1> QED  BY <1>2, <1>3, FS_Subset, FS_CardinalityType

\* One more call of t.
LEMMA OneMoreCall ==
  ASSUME NEW n \in Nat, n <= NumThreads, NEW t \in 0 .. n - 1,
         NEW b \in [Threads -> Nat], b[t] < NumSamples,
         NEW c, c = [b EXCEPT ![t] = b[t] + 1]
  PROVE  Cardinality(Calls(n, c)) = Cardinality(Calls(n, b)) + 1
<1> DEFINE y == <<t, b[t] + 1>>
<1>1. NumSamples \in Nat /\ NumThreads \in Nat
  BY SQueueRoundsAssumption
<1>2. b[t] \in Nat /\ t \in Threads /\ b[t] + 1 \in 1 .. NumSamples
  BY <1>1 DEF Threads
<1>3. ASSUME NEW u \in 0 .. n - 1, NEW p \in 1 .. NumSamples
      PROVE  p <= c[u] <=> p <= b[u] \/ (u = t /\ p = b[t] + 1)
  <2>1. b[u] \in Nat /\ c[u] = IF u = t THEN b[t] + 1 ELSE b[u]
    BY <1>1, <1>2 DEF Threads
  <2>2. CASE u = t
    BY <1>2, <2>1, <2>2
  <2>3. CASE u # t
    BY <2>1, <2>3
  <2> QED  BY <2>2, <2>3
<1>4. Calls(n, c) = Calls(n, b) \cup {y}
  <2>1. ASSUME NEW x \in (0 .. n - 1) \X (1 .. NumSamples)
        PROVE  x[2] <= c[x[1]] <=> x[2] <= b[x[1]] \/ x = y
    <3>1. /\ x[1] \in 0 .. n - 1 /\ x[2] \in 1 .. NumSamples
          /\ x = y <=> x[1] = t /\ x[2] = b[t] + 1
      OBVIOUS
    <3> QED  BY <1>3, <3>1
  <2>2. y \in (0 .. n - 1) \X (1 .. NumSamples)
    BY <1>2
  <2> HIDE DEF y
  <2> QED  BY <2>1, <2>2 DEF Calls
<1>5. y \notin Calls(n, b)
  <2>1. ~(b[t] + 1 <= b[t])
    BY <1>2
  <2> QED  BY <2>1 DEF Calls
<1>6. IsFiniteSet(Calls(n, b))
  BY CallsFinite
<1> HIDE DEF y
<1> QED  BY <1>4, <1>5, <1>6, FS_AddElement

\* If the samples divide evenly, n threads have NUM_SAMPLES calls to make, and
\* have made them all when each has made its share.
LEMMA AllCalls ==
  ASSUME NEW n \in Nat \ {0}, NumSamples % n = 0, NEW b \in [Threads -> Nat],
         n <= NumThreads,
         \A t \in 0 .. n - 1 : b[t] <= NumSamples \div n
  PROVE  /\ Cardinality(Calls(n, b)) <= NumSamples
         /\ (\A t \in 0 .. n - 1 : b[t] = NumSamples \div n) =>
              Cardinality(Calls(n, b)) = NumSamples
<1> DEFINE A == 0 .. n - 1
           d == NumSamples \div n
           B == 1 .. d
<1>1. NumSamples \in Nat /\ d \in Nat /\ d <= NumSamples /\ n * d = NumSamples
  BY ShareFacts, SQueueRoundsAssumption
<1> HIDE DEF d
<1>2. IsFiniteSet(A) /\ Cardinality(A) = n
  <2>1. /\ IsFiniteSet(A)
        /\ Cardinality(A) = IF 0 > n - 1 THEN 0 ELSE (n - 1) - 0 + 1
    BY FS_Interval
  <2> QED  BY <2>1
<1>3. IsFiniteSet(B) /\ Cardinality(B) = d
  <2>1. IsFiniteSet(B) /\ Cardinality(B) = IF 1 > d THEN 0 ELSE d - 1 + 1
    BY <1>1, FS_Interval
  <2> QED  BY <1>1, <2>1
<1>4. \A t \in A : b[t] \in Nat /\ b[t] <= d
  BY SQueueRoundsAssumption DEF Threads, d
<1>5. ASSUME NEW x \in Calls(n, b) PROVE x \in A \X B
  <2>1. /\ x[1] \in A /\ x[2] \in 1 .. NumSamples /\ x[2] <= b[x[1]]
        /\ x = <<x[1], x[2]>>
    BY DEF Calls
  <2>2. x[2] \in B
    BY <1>1, <1>4, <2>1
  <2> QED  BY <2>1, <2>2
<1>6. ASSUME \A t \in A : b[t] = d, NEW x \in A \X B PROVE x \in Calls(n, b)
  <2>1. x[1] \in A /\ x[2] \in B /\ x = <<x[1], x[2]>>
    OBVIOUS
  <2>2. x[2] \in 1 .. NumSamples /\ x[2] <= b[x[1]]
    BY <1>1, <1>6, <2>1
  <2> QED  BY <2>1, <2>2 DEF Calls
<1> HIDE DEF A, B
<1>7. IsFiniteSet(A \X B) /\ Cardinality(A \X B) = n * d
  BY <1>2, <1>3, FS_Product
<1>8. Cardinality(Calls(n, b)) <= NumSamples
  <2>1. Calls(n, b) \subseteq A \X B
    BY <1>5
  <2>2. Cardinality(Calls(n, b)) <= Cardinality(A \X B)
    BY <1>7, <2>1, FS_Subset
  <2> QED  BY <1>1, <1>7, <2>2
<1>9. ASSUME \A t \in A : b[t] = d PROVE Cardinality(Calls(n, b)) = NumSamples
  <2>1. Calls(n, b) = A \X B
    BY <1>5, <1>6, <1>9
  <2> QED  BY <1>1, <1>7, <2>1
<1> QED  BY <1>8, <1>9 DEF A, d

LEMMA NoCalls ==
  ASSUME NEW n \in Nat, NEW b, \A t \in 0 .. n - 1 : b[t] = 0
  PROVE  Cardinality(Calls(n, b)) = 0
<1>1. ASSUME NEW x \in Calls(n, b) PROVE FALSE
  <2>1. x[1] \in 0 .. n - 1 /\ x[2] \in 1 .. NumSamples /\ x[2] <= b[x[1]]
    BY DEF Calls
  <2> QED  BY <2>1, SQueueRoundsAssumption
<1>2. Calls(n, b) = {}
  BY <1>1
<1> QED  BY <1>2, FS_EmptySet

-----------------------------------------------------------------------------
(* The slots                                                               *)

\* The slots of the tickets U, and no others, are occupied.
Occupied(Q, U) ==
  /\ \A n \in U : Q[Slot(n)] # Null
  /\ \A s \in 0 .. MaxSize - 1 : Q[s] # Null => \E n \in U : s = Slot(n)

\* What is in the slots.
Inside(Q) == {Q[s] : s \in 0 .. MaxSize - 1} \ {Null}

\* Of the elements S that were put, G have been taken and the others are in the
\* slots, each of them once.
Accounted(Q, S, G) ==
  /\ \A r \in 0 .. MaxSize - 1 : \A s \in 0 .. MaxSize - 1 :
       Q[r] # Null /\ Q[r] = Q[s] => r = s
  /\ S = Range(G) \cup Inside(Q)
  /\ Range(G) \cap Inside(Q) = {}
  /\ IsInjective(G)

LEMMA ModInjective ==
  ASSUME NEW m \in Nat \ {0}, NEW a \in Int, NEW b \in Int,
         a % m = b % m, a - b < m, b - a < m
  PROVE  a = b
<1>1. \A c \in Int : c \div m \in Int /\ c = m * (c \div m) + (c % m)
  OBVIOUS
<1> DEFINE p == a \div m
           q == b \div m
<1>2. p \in Int /\ q \in Int /\ a - b = m * p - m * q
  BY <1>1
<1> HIDE DEF p, q
<1>3. p = q
  <2>1. m * p \in Int /\ m * q \in Int
    BY <1>2
  <2>2. ASSUME p >= q + 1 PROVE FALSE
    <3>1. m * p >= m * (q + 1)
      BY <1>2, <2>2
    <3>2. m * (q + 1) = m * q + m
      BY <1>2
    <3> QED  BY <1>2, <2>1, <3>1, <3>2
  <2>3. ASSUME q >= p + 1 PROVE FALSE
    <3>1. m * q >= m * (p + 1)
      BY <1>2, <2>3
    <3>2. m * (p + 1) = m * p + m
      BY <1>2
    <3> QED  BY <1>2, <2>1, <3>1, <3>2
  <2> QED  BY <1>2, <2>2, <2>3
<1> QED  BY <1>2, <1>3

\* Tickets less than a ring apart have slots of their own.
LEMMA SlotsApart ==
  ASSUME NEW a \in Int, NEW b \in Int, a - b < MaxSize, b - a < MaxSize,
         Slot(a) = Slot(b)
  PROVE  a = b
<1>1. MaxSize \in Nat \ {0}
  BY SQueueRoundsAssumption
<1> QED  BY <1>1, ModInjective DEF Slot

\* An element put into a free slot.
LEMMA PutSlot ==
  ASSUME NEW Q \in [0 .. MaxSize - 1 -> Atom \cup {Null}], NEW U \in SUBSET Int,
         Occupied(Q, U), NEW S, NEW G, Accounted(Q, S, G),
         NEW n \in Int, \A u \in U : Slot(u) # Slot(n),
         NEW x \in Atom, x \notin S,
         NEW P, P = [Q EXCEPT ![Slot(n)] = x]
  PROVE  Occupied(P, U \cup {n}) /\ Accounted(P, S \cup {x}, G)
<1> DEFINE A == 0 .. MaxSize - 1
           z == Slot(n)
<1>1. z \in A /\ x # Null /\ \A u \in U : Slot(u) \in A
  BY SlotRange, SQueueRoundsAssumption
<1>2. Q[z] = Null
  BY <1>1 DEF Occupied
<1>3. P[z] = x /\ \A s \in A : s # z => P[s] = Q[s]
  BY <1>1
<1>4. Occupied(P, U \cup {n})
  BY <1>1, <1>3 DEF Occupied
<1>5. \A s \in A : Q[s] # x
  BY <1>1 DEF Accounted, Inside
<1>6. ASSUME NEW r \in A, NEW s \in A, P[r] # Null, P[r] = P[s] PROVE r = s
  BY <1>1, <1>3, <1>5, <1>6 DEF Accounted
<1>7. Inside(P) = Inside(Q) \cup {x}
  <2>1. ASSUME NEW y \in Inside(P) PROVE y \in Inside(Q) \cup {x}
    BY <1>3 DEF Inside
  <2>2. ASSUME NEW y \in Inside(Q) PROVE y \in Inside(P)
    <3>1. PICK s \in A : y = Q[s] /\ y # Null
      BY DEF Inside
    <3>2. P[s] = y
      BY <1>2, <1>3, <3>1
    <3> QED  BY <3>1, <3>2 DEF Inside
  <2>3. x \in Inside(P)
    BY <1>1, <1>3 DEF Inside
  <2> QED  BY <2>1, <2>2, <2>3
<1> HIDE DEF z
<1> QED  BY <1>4, <1>6, <1>7 DEF Accounted

\* Element y taken out of its slot.
LEMMA TakeSlot ==
  ASSUME NEW Q \in [0 .. MaxSize - 1 -> Atom \cup {Null}], NEW U \in SUBSET Int,
         Occupied(Q, U), NEW S, NEW G \in Seq(Atom), Accounted(Q, S, G),
         NEW n \in U, \A u \in U : Slot(u) = Slot(n) => u = n,
         NEW y \in Atom, y = Q[Slot(n)],
         NEW P, P = [Q EXCEPT ![Slot(n)] = Null]
  PROVE  Occupied(P, U \ {n}) /\ Accounted(P, S, Append(G, y))
<1> DEFINE A == 0 .. MaxSize - 1
           z == Slot(n)
           H == Append(G, y)
<1>1. z \in A /\ \A u \in U : Slot(u) \in A
  BY SlotRange
<1>2. Q[z] # Null /\ y \in Inside(Q)
  BY <1>1 DEF Occupied, Inside
<1>3. P[z] = Null /\ \A s \in A : s # z => P[s] = Q[s]
  BY <1>1
<1>4. Occupied(P, U \ {n})
  BY <1>1, <1>3 DEF Occupied
<1>5. \A s \in A : Q[s] = y => s = z
  BY <1>1, <1>2 DEF Accounted
<1>6. \A r \in A : \A s \in A : P[r] # Null /\ P[r] = P[s] => r = s
  BY <1>1, <1>3 DEF Accounted
<1>7. Inside(P) = Inside(Q) \ {y}
  <2>1. ASSUME NEW x \in Inside(P) PROVE x \in Inside(Q) /\ x # y
    BY <1>3, <1>5 DEF Inside
  <2>2. ASSUME NEW x \in Inside(Q), x # y PROVE x \in Inside(P)
    <3>1. PICK s \in A : x = Q[s] /\ x # Null
      BY DEF Inside
    <3>2. P[s] = x
      BY <1>3, <2>2, <3>1
    <3> QED  BY <3>1, <3>2 DEF Inside
  <2> QED  BY <2>1, <2>2
<1>8. /\ DOMAIN H = 1 .. Len(G) + 1 /\ DOMAIN G = 1 .. Len(G) /\ Len(G) \in Nat
      /\ H[Len(G) + 1] = y /\ \A m \in 1 .. Len(G) : H[m] = G[m]
  OBVIOUS
<1>9. y \notin Range(G)
  BY <1>2 DEF Accounted
<1> HIDE DEF H
<1>10. \A m \in 1 .. Len(G) : G[m] # y
  BY <1>8, <1>9 DEF Range
<1>11. Range(H) = Range(G) \cup {y}
  <2>1. ASSUME NEW x \in Range(H) PROVE x \in Range(G) \cup {y}
    <3>1. PICK m \in 1 .. Len(G) + 1 : x = H[m]
      BY <1>8 DEF Range
    <3>2. m = Len(G) + 1 \/ m \in 1 .. Len(G)
      BY <1>8
    <3> QED  BY <1>8, <3>1, <3>2 DEF Range
  <2>2. ASSUME NEW x \in Range(G) PROVE x \in Range(H)
    <3>1. PICK m \in 1 .. Len(G) : x = G[m]
      BY <1>8 DEF Range
    <3>2. m \in 1 .. Len(G) + 1
      BY <1>8
    <3> QED  BY <1>8, <3>1, <3>2 DEF Range
  <2>3. y \in Range(H)
    <3>1. Len(G) + 1 \in 1 .. Len(G) + 1
      BY <1>8
    <3> QED  BY <1>8, <3>1 DEF Range
  <2> QED  BY <2>1, <2>2, <2>3
<1>12. IsInjective(H)
  <2>1. ASSUME NEW a \in DOMAIN H, NEW b \in DOMAIN H, H[a] = H[b] PROVE a = b
    <3>1. /\ a = Len(G) + 1 \/ a \in 1 .. Len(G)
          /\ b = Len(G) + 1 \/ b \in 1 .. Len(G)
      BY <1>8
    <3>2. \A c \in 1 .. Len(G) : \A d \in 1 .. Len(G) : G[c] = G[d] => c = d
      BY <1>8 DEF Accounted, IsInjective
    <3> QED  BY <1>8, <1>10, <2>1, <3>1, <3>2
  <2> QED  BY <2>1 DEF IsInjective
<1>13. /\ S = Range(H) \cup Inside(P) /\ Range(H) \cap Inside(P) = {}
  BY <1>2, <1>7, <1>11 DEF Accounted
<1> QED  BY <1>4, <1>6, <1>12, <1>13 DEF Accounted, H

-----------------------------------------------------------------------------
(* A round                                                                 *)

\* NUM_SAMPLES is a multiple of every number of threads.
EvenShares == \A n \in ThreadCounts : NumSamples % n = 0

\* The calls that have drawn a ticket.
Begun == [t \in Threads |-> IF tpc[t] = "none" THEN 0
                            ELSE IF Holding(t) THEN i[t] + 1 ELSE i[t]]

Drawn == Cardinality(Calls(k, Begun))

\* The tickets in hand.
Held == {ticket[t] : t \in {u \in Threads : Holding(u)}}

\* The tickets of the round are those from First + 1 to tail; those whose element
\* is in the ring are InUse.
First == IF Taking THEN tail - NumSamples ELSE head
InUse == IF Taking THEN (head + 1 .. tail) \cup Held ELSE (head + 1 .. tail) \ Held

\* How far the round is.
CountInv ==
  /\ mpc = "fill" => tail - head = filled
  /\ Enqueuing => tail - head = Drawn
  /\ Taking => head - First = Drawn
  /\ mpc = "end" => tail = head

HeldInv ==
  /\ \A t \in Threads : Holding(t) => /\ ticket[t] \in First + 1 .. tail
                                      /\ Taking => ticket[t] <= head
  /\ \A t \in Threads : \A u \in Threads :
       Holding(t) /\ Holding(u) /\ ticket[t] = ticket[u] => t = u

SlotInv ==
  /\ Occupied(theQueue, InUse)
  /\ \A t \in Threads : tpc[t] = "clear" => elem[t] = theQueue[Slot(ticket[t])]

\* Whose the elements put so far are.
WhoseInv ==
  /\ mpc = "fill" => \A x \in stored : x[1] = Main /\ x[2] <= filled
  /\ Enqueuing => \A x \in stored : /\ x[1] \in Threads /\ tpc[x[1]] # "none"
                                    /\ x[2] <= i[x[1]]

ElemInv == Accounted(theQueue, stored, got) /\ WhoseInv

DrainInv == CountInv /\ HeldInv /\ SlotInv /\ ElemInv

LEMMA BegunFacts ==
  ASSUME EvenShares, RoundInv, TypeInv
  PROVE  /\ k \in Nat \ {0} /\ k <= NumThreads /\ NumSamples % k = 0
         /\ PerThread \in 0 .. NumSamples
         /\ Begun \in [Threads -> Nat]
         /\ \A t \in 0 .. k - 1 : t \in Threads /\ Begun[t] <= PerThread
         /\ Drawn \in 0 .. NumSamples
<1> USE SQueueRoundsAssumption
<1>1. k \in Nat \ {0} /\ k <= NumThreads /\ k \in ThreadCounts /\ TypeOK /\ PlaceInv
  BY DEF RoundInv, MainInv, TypeInv
<1>2. NumSamples % k = 0 /\ PerThread \in 0 .. NumSamples
  BY <1>1, ShareFacts DEF EvenShares, PerThread
<1>3. \A t \in Threads : i[t] \in 0 .. NumSamples /\ tpc[t] \in Places
  BY <1>1 DEF TypeOK, Places
<1>4. ASSUME NEW t \in Threads PROVE Begun[t] \in Nat /\ Begun[t] <= PerThread
  <2>1. Begun[t] = IF tpc[t] = "none" THEN 0
                   ELSE IF Holding(t) THEN i[t] + 1 ELSE i[t]
    BY DEF Begun
  <2>2. /\ Holding(t) => i[t] < PerThread
        /\ tpc[t] = "claim" => i[t] <= PerThread
        /\ tpc[t] = "returned" => i[t] = PerThread
    BY <1>1 DEF PlaceInv
  <2>3. tpc[t] = "none" \/ Holding(t) \/ tpc[t] = "claim" \/ tpc[t] = "returned"
    BY <1>3 DEF Holding, Places
  <2> QED  BY <1>2, <1>3, <2>1, <2>2, <2>3
<1>5. \A t \in 0 .. k - 1 : t \in Threads
  BY <1>1 DEF Threads
<1>6. Begun \in [Threads -> Nat]
  BY <1>4 DEF Begun
<1>7. Drawn \in 0 .. NumSamples
  <2>1. \A t \in 0 .. k - 1 : Begun[t] <= NumSamples \div k
    BY <1>4, <1>5 DEF PerThread
  <2>2. Drawn \in Nat
    BY <1>1, CallsFinite DEF Drawn
  <2>3. Drawn <= NumSamples
    BY <1>1, <1>2, <1>6, <2>1, AllCalls DEF Drawn
  <2> QED  BY <2>2, <2>3
<1> QED  BY <1>1, <1>2, <1>4, <1>5, <1>6, <1>7

LEMMA Phases ==
  ASSUME RoundInv
  PROVE  /\ mpc = "fill" \/ Enqueuing \/ Taking \/ mpc = "end"
         /\ ~(Enqueuing /\ Taking)
         /\ mpc \in {"fill", "end"} => ~Enqueuing /\ ~Taking
                                       /\ \A t \in Threads : tpc[t] = "none"
BY DEF RoundInv, MainInv, ThreadInv, Enqueuing, Taking, Threads

\* The tickets of a round are at most NUM_SAMPLES.
LEMMA Ranges ==
  ASSUME EvenShares, RoundInv, TypeInv, CountInv, HeldInv
  PROVE  /\ head \in Int /\ tail \in Int /\ First \in Int
         /\ First <= head /\ head <= tail /\ tail - First <= NumSamples
         /\ Held \subseteq First + 1 .. tail /\ InUse \subseteq First + 1 .. tail
<1>1. /\ head \in Int /\ tail \in Int /\ filled \in 0 .. NumSamples
      /\ NumSamples \in Nat
  BY SQueueRoundsAssumption DEF TypeInv, TypeOK
<1>2. Drawn \in 0 .. NumSamples
  BY BegunFacts
<1>3. /\ First \in Int /\ First <= head /\ head <= tail
      /\ tail - First <= NumSamples
  <2>1. CASE Taking
    BY <1>1, <1>2, <2>1 DEF First, CountInv
  <2>2. CASE ~Taking
    <3>1. mpc = "fill" \/ Enqueuing \/ mpc = "end"
      BY <2>2, Phases
    <3> QED  BY <1>1, <1>2, <2>2, <3>1 DEF First, CountInv
  <2> QED  BY <2>1, <2>2
<1>4. Held \subseteq First + 1 .. tail
  BY DEF Held, HeldInv
<1>5. InUse \subseteq First + 1 .. tail
  <2>1. \A n \in head + 1 .. tail : n \in First + 1 .. tail
    BY <1>1, <1>3
  <2> QED  BY <1>4, <2>1 DEF InUse
<1> QED  BY <1>1, <1>3, <1>4, <1>5

\* So that in a ring with as many slots each has a slot of its own.
LEMMA OwnSlots ==
  ASSUME NumSamples <= MaxSize, NEW f \in Int, NEW l \in Int, l - f <= NumSamples,
         NEW a \in f + 1 .. l, NEW b \in f + 1 .. l, Slot(a) = Slot(b)
  PROVE  a = b
<1>1. NumSamples \in Nat /\ MaxSize \in Nat
  BY SQueueRoundsAssumption
<1>2. a \in Int /\ b \in Int /\ a - b < MaxSize /\ b - a < MaxSize
  BY <1>1
<1> QED  BY <1>2, SlotsApart

LEMMA InitDrain == Init => DrainInv
<1> SUFFICES ASSUME Init PROVE DrainInv
  OBVIOUS
<1> USE SQueueRoundsAssumption
<1>1. /\ mpc = "fill" /\ ~Enqueuing /\ ~Taking /\ head = -1 /\ tail = -1
      /\ \A t \in Threads : tpc[t] = "none"
      /\ stored = {} /\ got = <<>> /\ filled = 0
      /\ \A s \in 0 .. MaxSize - 1 : theQueue[s] = Null
  BY DEF Init, FirstPlace, Enqueuing, Taking
<1>2. CountInv /\ HeldInv /\ WhoseInv
  BY <1>1 DEF CountInv, HeldInv, WhoseInv, Holding
<1>3. InUse = {}
  <2>1. \A n \in head + 1 .. tail : FALSE
    BY <1>1
  <2> QED  BY <1>1, <2>1 DEF InUse
<1>4. SlotInv
  BY <1>1, <1>3 DEF SlotInv, Occupied
<1>5. Inside(theQueue) = {} /\ Range(got) = {} /\ IsInjective(got)
  <2>1. DOMAIN got = {}
    BY <1>1
  <2> QED  BY <1>1, <2>1 DEF Inside, Range, IsInjective
<1>6. Accounted(theQueue, stored, got)
  BY <1>1, <1>5 DEF Accounted
<1> QED  BY <1>2, <1>4, <1>6 DEF DrainInv, ElemInv

\* Steps that neither draw a ticket nor touch a slot.
LEMMA QuietStep ==
  ASSUME DrainInv, UNCHANGED <<k, head, tail, theQueue, stored, got, ticket>>,
         Taking' = Taking, Enqueuing' = Enqueuing, Begun' = Begun,
         \A t \in Threads : (Holding(t))' <=> Holding(t),
         \A t \in Threads : tpc'[t] = "clear" =>
           \/ tpc[t] = "clear" /\ elem'[t] = elem[t]
           \/ elem'[t] = theQueue[Slot(ticket[t])],
         UNCHANGED <<mpc, filled>> \/ mpc' \notin {"fill", "end"}
  PROVE  CountInv' /\ HeldInv' /\ SlotInv' /\ (Accounted(theQueue, stored, got))'
<1>1. First' = First /\ Drawn' = Drawn
  BY DEF First, Drawn
<1>2. Held' = Held
  BY DEF Held
<1>3. InUse' = InUse
  BY <1>2 DEF InUse
<1>4. CountInv'
  BY <1>1 DEF DrainInv, CountInv
<1>5. HeldInv'
  BY <1>1 DEF DrainInv, HeldInv
<1>6. SlotInv'
  BY <1>3 DEF DrainInv, SlotInv
<1>7. (Accounted(theQueue, stored, got))'
  BY DEF DrainInv, ElemInv
<1> QED  BY <1>4, <1>5, <1>6, <1>7

\* When all threads of a phase have returned they have made all its calls.
LEMMA AllReturned ==
  ASSUME EvenShares, RoundInv, TypeInv, DrainInv, created = k,
         \A t \in 0 .. k - 1 : tpc[t] = "returned"
  PROVE  /\ Drawn = NumSamples /\ Held = {}
         /\ \A t \in Threads : ~Holding(t)
<1>1. /\ k \in Nat \ {0} /\ k <= NumThreads /\ NumSamples % k = 0
      /\ Begun \in [Threads -> Nat] /\ \A t \in 0 .. k - 1 : t \in Threads
  BY BegunFacts
<1>2. \A t \in 0 .. k - 1 : Begun[t] = NumSamples \div k
  <2> TAKE t \in 0 .. k - 1
  <2>1. i[t] = NumSamples \div k
    BY <1>1 DEF TypeInv, PlaceInv, PerThread
  <2> QED  BY <1>1, <2>1 DEF Begun, Holding
<1>3. Drawn = NumSamples
  <2>1. NumSamples \div k \in Nat
    BY <1>1, ShareFacts
  <2>2. \A t \in 0 .. k - 1 : Begun[t] <= NumSamples \div k
    BY <1>2, <2>1
  <2> QED  BY <1>1, <1>2, <2>2, AllCalls DEF Drawn
<1>4. ASSUME NEW t \in Threads PROVE ~Holding(t)
  <2>1. t \in Nat /\ k \in Nat
    BY <1>1 DEF Threads
  <2>2. CASE t >= k
    BY <2>2 DEF RoundInv, ThreadInv, Holding
  <2>3. CASE ~(t >= k)
    <3>1. t \in 0 .. k - 1
      BY <2>1, <2>3
    <3> QED  BY <3>1 DEF Holding
  <2> QED  BY <2>2, <2>3
<1> QED  BY <1>3, <1>4 DEF Held

\* An empty ring.
LEMMA NothingInside ==
  ASSUME Occupied(theQueue, {})
  PROVE  /\ \A s \in 0 .. MaxSize - 1 : theQueue[s] = Null
         /\ Inside(theQueue) = {}
BY DEF Occupied, Inside

LEMMA FillKeepsDrain ==
  ASSUME EvenShares, NumSamples <= MaxSize, RoundInv, TypeInv, DrainInv, Fill
  PROVE  DrainInv'
<1> USE SQueueRoundsAssumption
<1>1. /\ mpc = "fill" /\ mpc' = "fill" /\ filled < NumSamples
      /\ filled' = filled + 1 /\ tail' = tail + 1
      /\ theQueue' = [theQueue EXCEPT ![Slot(tail + 1)] = <<Main, filled + 1>>]
      /\ stored' = stored \cup {<<Main, filled + 1>>}
      /\ UNCHANGED <<head, tpc, i, ticket, elem, got>>
  BY DEF Fill
<1>2. /\ ~Taking /\ ~Enqueuing /\ ~Taking' /\ ~Enqueuing'
      /\ \A t \in Threads : tpc[t] = "none"
  BY <1>1 DEF RoundInv, MainInv, ThreadInv, Enqueuing, Taking, Threads
<1>3. /\ head \in Int /\ tail \in Int /\ tail - head = filled /\ filled \in Nat
      /\ filled + 1 \in 1 .. NumSamples
  BY <1>1 DEF TypeInv, TypeOK, DrainInv, CountInv
<1>4. CountInv'
  BY <1>1, <1>2, <1>3 DEF CountInv
<1>5. HeldInv'
  BY <1>1, <1>2 DEF HeldInv, Holding
<1>6. InUse = head + 1 .. tail /\ InUse' = (head + 1 .. tail) \cup {tail + 1}
  <2>1. Held = {} /\ Held' = {}
    BY <1>1, <1>2 DEF Held, Holding
  <2>2. InUse = head + 1 .. tail /\ InUse' = head + 1 .. tail + 1
    BY <1>1, <1>2, <2>1 DEF InUse
  <2>3. head + 1 .. tail + 1 = (head + 1 .. tail) \cup {tail + 1}
    BY <1>3
  <2> QED  BY <2>2, <2>3
<1> DEFINE x == <<Main, filled + 1>>
           n == tail + 1
<1>7. x \in Atom /\ x \notin stored
  <2>1. \A y \in stored : y[2] <= filled
    BY <1>1 DEF DrainInv, ElemInv, WhoseInv
  <2>2. ~(filled + 1 <= filled)
    BY <1>3
  <2> QED  BY <1>3, <2>1, <2>2 DEF Atom
<1>8. n \in Int /\ \A u \in InUse : Slot(u) # Slot(n)
  <2>1. n - head <= NumSamples /\ n \in head + 1 .. n
        /\ \A u \in InUse : u \in head + 1 .. n /\ u # n
    BY <1>3, <1>6
  <2> HIDE DEF n
  <2>2. n \in Int
    BY <1>3 DEF n
  <2> QED  BY <1>3, <2>1, <2>2, OwnSlots
<1>9. /\ theQueue \in [0 .. MaxSize - 1 -> Atom \cup {Null}]
      /\ InUse \in SUBSET Int /\ Occupied(theQueue, InUse)
      /\ Accounted(theQueue, stored, got)
  BY <1>3, <1>6 DEF TypeInv, TypeOK, DrainInv, SlotInv, ElemInv
<1>10. theQueue' = [theQueue EXCEPT ![Slot(n)] = x]
  BY <1>1
<1> HIDE DEF x, n
<1>11. Occupied(theQueue', InUse \cup {n}) /\ Accounted(theQueue', stored \cup {x}, got)
  BY <1>7, <1>8, <1>9, <1>10, PutSlot
<1>12. SlotInv'
  <2>1. InUse' = InUse \cup {n}
    BY <1>6 DEF n
  <2> QED  BY <1>1, <1>2, <1>11, <2>1 DEF SlotInv
<1>13. ElemInv'
  <2>1. stored' = stored \cup {x} /\ got' = got
    BY <1>1 DEF x
  <2>2. WhoseInv'
    <3>1. \A y \in stored : y[1] = Main /\ y[2] <= filled /\ y[2] \in Nat
      BY <1>1 DEF DrainInv, ElemInv, WhoseInv, TypeInv, TypeOK, Atom
    <3>2. \A y \in stored' : y[1] = Main /\ y[2] <= filled + 1
      BY <1>3, <2>1, <3>1 DEF x
    <3> QED  BY <1>1, <1>2, <3>2 DEF WhoseInv
  <2> QED  BY <1>11, <2>1, <2>2 DEF ElemInv
<1> QED  BY <1>4, <1>5, <1>12, <1>13 DEF DrainInv

LEMMA FilledKeepsDrain ==
  ASSUME EvenShares, RoundInv, TypeInv, DrainInv, Filled
  PROVE  DrainInv'
<1> USE SQueueRoundsAssumption
<1>1. /\ mpc = "fill" /\ mpc' = "createWorkers" /\ filled = NumSamples
      /\ UNCHANGED <<k, tpc, i, ticket, elem, stored, got, head, tail, theQueue>>
  BY DEF Filled, ring
<1>2. /\ ~Taking /\ ~Enqueuing /\ Taking' /\ ~Enqueuing'
      /\ \A t \in Threads : tpc[t] = "none"
  BY <1>1 DEF RoundInv, MainInv, ThreadInv, Enqueuing, Taking, Threads
<1>3. /\ head \in Int /\ tail \in Int /\ tail - head = NumSamples
      /\ NumSamples \in Nat
  BY <1>1 DEF TypeInv, TypeOK, DrainInv, CountInv
<1>4. CountInv'
  <2>1. \A t \in Threads : Begun'[t] = 0
    BY <1>1, <1>2 DEF Begun
  <2>2. k \in Nat /\ \A t \in 0 .. k - 1 : t \in Threads
    BY BegunFacts
  <2>3. Cardinality(Calls(k, Begun')) = 0
    BY <2>1, <2>2, NoCalls
  <2>4. Drawn' = 0
    BY <1>1, <2>3 DEF Drawn
  <2> QED  BY <1>1, <1>2, <1>3, <2>4 DEF CountInv, First
<1>5. HeldInv'
  BY <1>1, <1>2 DEF HeldInv, Holding
<1>6. InUse' = InUse
  <2>1. Held = {} /\ Held' = {}
    BY <1>1, <1>2 DEF Held, Holding
  <2> QED  BY <1>1, <1>2, <2>1 DEF InUse
<1>7. SlotInv'
  BY <1>1, <1>2, <1>6 DEF DrainInv, SlotInv
<1>8. ElemInv'
  BY <1>1, <1>2 DEF DrainInv, ElemInv, WhoseInv
<1> QED  BY <1>4, <1>5, <1>7, <1>8 DEF DrainInv

LEMMA CreateKeepsDrain ==
  ASSUME RoundInv, TypeInv, DrainInv, Create
  PROVE  DrainInv'
<1> USE SQueueRoundsAssumption
<1>1. /\ UNCHANGED <<k, filled, ticket, elem, stored, got, head, tail, theQueue>>
      /\ tpc' = [tpc EXCEPT ![created] = "claim"]
      /\ i' = [i EXCEPT ![created] = 0]
      /\ mpc \in {"createEnqueuers", "createWorkers"}
      /\ mpc' = mpc \/ mpc' = IF Enqueuing THEN "joinEnqueuers" ELSE "joinWorkers"
  BY DEF Create, ring
<1>2. Enqueuing' = Enqueuing /\ Taking' = Taking /\ mpc' \notin {"fill", "end"}
  BY <1>1 DEF Enqueuing, Taking
<1>3. /\ created \in Threads /\ tpc[created] = "none"
  BY <1>1 DEF RoundInv, MainInv, ThreadInv, Threads
<1>4. /\ tpc'[created] = "claim" /\ i'[created] = 0
      /\ \A t \in Threads : t # created => tpc'[t] = tpc[t] /\ i'[t] = i[t]
  BY <1>1, <1>3 DEF TypeInv, TypeOK
<1>5. \A t \in Threads : (Holding(t))' <=> Holding(t)
  BY <1>3, <1>4 DEF Holding
<1>6. Begun' = Begun
  <2>1. ASSUME NEW t \in Threads PROVE Begun'[t] = Begun[t]
    <3>1. CASE t = created
      BY <1>3, <1>4, <3>1 DEF Begun, Holding
    <3>2. CASE t # created
      BY <1>4, <1>5, <3>2 DEF Begun
    <3> QED  BY <3>1, <3>2
  <2>2. /\ Begun = [t \in Threads |-> Begun[t]]
        /\ Begun' = [t \in Threads |-> Begun'[t]]
    BY DEF Begun
  <2> QED  BY <2>1, <2>2
<1>7. \A t \in Threads : tpc'[t] = "clear" => tpc[t] = "clear" /\ elem'[t] = elem[t]
  BY <1>1, <1>4
<1>8. CountInv' /\ HeldInv' /\ SlotInv' /\ (Accounted(theQueue, stored, got))'
  BY <1>1, <1>2, <1>5, <1>6, <1>7, QuietStep
<1>9. WhoseInv'
  <2>1. ASSUME Enqueuing, NEW x \in stored
        PROVE  x[1] \in Threads /\ tpc'[x[1]] # "none" /\ x[2] <= i'[x[1]]
    <3>1. x[1] \in Threads /\ tpc[x[1]] # "none" /\ x[2] <= i[x[1]]
      BY <2>1 DEF DrainInv, ElemInv, WhoseInv
    <3> QED  BY <1>3, <1>4, <3>1
  <2> QED  BY <1>1, <1>2, <2>1 DEF WhoseInv
<1> QED  BY <1>8, <1>9 DEF DrainInv, ElemInv

LEMMA JoinKeepsDrain ==
  ASSUME EvenShares, RoundInv, RoundInv', TypeInv, TypeInv', DrainInv, Join
  PROVE  DrainInv'
<1> USE SQueueRoundsAssumption
<1>1. /\ mpc \in {"joinEnqueuers", "joinWorkers"} /\ tpc[joined] = "returned"
      /\ UNCHANGED <<i, ticket, elem, head, tail, theQueue>>
      /\ created = k /\ joined \in Nat /\ joined < k /\ k \in Nat \ {0}
  BY DEF Join, ring, RoundInv, MainInv
<1>2. CASE joined + 1 < k
  <2>1. UNCHANGED <<tpc, k, mpc, filled, stored, got>>
    BY <1>2 DEF Join
  <2>2. /\ Enqueuing' = Enqueuing /\ Taking' = Taking /\ Begun' = Begun
        /\ \A t \in Threads : (Holding(t))' <=> Holding(t)
    BY <1>1, <2>1 DEF Enqueuing, Taking, Begun, Holding
  <2>3. CountInv' /\ HeldInv' /\ SlotInv' /\ (Accounted(theQueue, stored, got))'
    BY <1>1, <2>1, <2>2, QuietStep
  <2>4. WhoseInv'
    BY <1>1, <2>1 DEF DrainInv, ElemInv, WhoseInv, Enqueuing
  <2> QED  BY <2>3, <2>4 DEF DrainInv, ElemInv
<1>3. CASE ~(joined + 1 < k)
  <2>1. tpc' = [t \in Threads |-> "none"] /\ AfterJoin
    BY <1>3 DEF Join
  <2>2. \A t \in 0 .. k - 1 : tpc[t] = "returned"
    <3>1. \A t \in 0 .. k - 1 : t \in Threads /\ (t < joined \/ t = joined)
      BY <1>1, <1>3 DEF Threads, RoundInv, MainInv
    <3> QED  BY <1>1, <3>1 DEF RoundInv, ThreadInv
  <2>3. Drawn = NumSamples /\ Held = {}
    BY <1>1, <2>2, AllReturned
  <2>4. /\ \A t \in Threads : ~(Holding(t))' /\ tpc'[t] = "none"
        /\ Held' = {}
    BY <2>1 DEF Held, Holding
  <2>5. Drawn' = 0
    <3>1. \A t \in Threads : Begun'[t] = 0
      BY <2>1 DEF Begun
    <3>2. k' \in Nat /\ \A t \in 0 .. k' - 1 : t \in Threads
      <4>1. k' \in Nat \ {0} /\ k' <= NumThreads
        BY DEF RoundInv, MainInv
      <4>2. \A m \in Nat : m <= NumThreads => \A t \in 0 .. m - 1 : t \in Threads
        BY DEF Threads
      <4> QED  BY <4>1, <4>2
    <3>3. Cardinality(Calls(k', Begun')) = 0
      BY <3>1, <3>2, NoCalls
    <3> QED  BY <3>3 DEF Drawn
  <2>6. HeldInv'
    BY <2>4 DEF HeldInv
  <2>7. head \in Int /\ tail \in Int /\ NumSamples \in Nat
    BY DEF TypeInv, TypeOK
  <2>8. CASE Enqueuing
    <3>1. /\ mpc' = "createWorkers" /\ UNCHANGED <<stored, got>>
          /\ ~Taking /\ Taking' /\ ~Enqueuing'
      BY <2>1, <2>8 DEF AfterJoin, Enqueuing, Taking
    <3>2. CountInv'
      BY <1>1, <2>3, <2>5, <2>7, <2>8, <3>1 DEF DrainInv, CountInv, First
    <3>3. InUse' = InUse
      BY <1>1, <2>3, <2>4, <3>1 DEF InUse
    <3>4. SlotInv'
      BY <1>1, <2>4, <3>3 DEF DrainInv, SlotInv
    <3>5. ElemInv'
      BY <1>1, <3>1 DEF DrainInv, ElemInv, WhoseInv
    <3> QED  BY <2>6, <3>2, <3>4, <3>5 DEF DrainInv
  <2>9. CASE ~Enqueuing
    <3>1. Taking
      BY <1>1, <2>9 DEF Enqueuing, Taking
    <3>2. /\ mpc' \in {"fill", "createEnqueuers", "end"}
          /\ stored' = {} /\ got' = <<>> /\ filled' = 0
      BY <2>1, <2>9 DEF AfterJoin, FirstPlace
    <3>3. ~Taking'
      BY <3>2 DEF Taking
    <3>4. head = tail
      BY <2>3, <2>7, <3>1 DEF DrainInv, CountInv, First
    <3>5. InUse = {} /\ InUse' = {}
      <4>1. head + 1 .. tail = {}
        BY <2>7, <3>4
      <4> QED  BY <1>1, <2>3, <2>4, <3>1, <3>3, <4>1 DEF InUse
    <3>6. CountInv'
      BY <1>1, <2>5, <2>7, <3>2, <3>3, <3>4 DEF CountInv, Enqueuing
    <3>7. Occupied(theQueue, {})
      BY <3>5 DEF DrainInv, SlotInv
    <3>8. SlotInv'
      BY <1>1, <2>4, <3>5, <3>7 DEF SlotInv
    <3>9. Accounted(theQueue, {}, <<>>)
      <4>1. Range(<<>>) = {} /\ IsInjective(<<>>)
        <5>1. DOMAIN <<>> = {}
          OBVIOUS
        <5> QED  BY <5>1 DEF Range, IsInjective
      <4> QED  BY <3>7, <4>1, NothingInside DEF Accounted
    <3>10. ElemInv'
      BY <1>1, <3>2, <3>9 DEF ElemInv, WhoseInv
    <3> QED  BY <2>6, <3>6, <3>8, <3>10 DEF DrainInv
  <2> QED  BY <2>8, <2>9
<1> QED  BY <1>2, <1>3

\* What a call's steps leave alone.
LEMMA HandlerFrame ==
  ASSUME RoundInv, TypeInv, NEW t \in Threads, handler(t)
  PROVE  /\ UNCHANGED <<k, mpc, filled>>
         /\ Enqueuing' = Enqueuing /\ Taking' = Taking
         /\ mpc \notin {"fill", "end"} /\ (Enqueuing \/ Taking)
         /\ t \in 0 .. k - 1
<1>1. UNCHANGED <<k, mpc, filled>>
  BY DEF handler, Claim, Store, Spin, Clear, Return, mainvars
<1>2. tpc[t] # "none"
  BY DEF handler, Claim, Store, Spin, Clear, Return
<1>3. mpc \notin {"fill", "end"} /\ (Enqueuing \/ Taking)
  BY <1>2, Phases
<1>4. t \in 0 .. k - 1
  <2>1. t \in Nat /\ created \in Nat /\ created <= k /\ k \in Nat /\ ~(t >= created)
    BY <1>2, <1>3, SQueueRoundsAssumption
       DEF RoundInv, MainInv, ThreadInv, Threads
  <2> QED  BY <2>1
<1> QED  BY <1>1, <1>3, <1>4 DEF Enqueuing, Taking

LEMMA ClaimKeepsDrain ==
  ASSUME EvenShares, RoundInv, TypeInv, TypeInv', RoundInv', DrainInv,
         NEW t \in Threads, Claim(t)
  PROVE  DrainInv'
<1> USE SQueueRoundsAssumption
<1> DEFINE n == IF Enqueuing THEN tail + 1 ELSE head + 1
<1>1. /\ UNCHANGED <<k, mpc, filled>> /\ Enqueuing' = Enqueuing
      /\ Taking' = Taking /\ mpc \notin {"fill", "end"} /\ t \in 0 .. k - 1
      /\ (Enqueuing /\ ~Taking) \/ (Taking /\ ~Enqueuing)
  BY HandlerFrame, Phases DEF handler
<1>2. /\ tpc[t] = "claim" /\ i[t] < PerThread
      /\ UNCHANGED <<i, elem, theQueue, stored, got>>
      /\ Enqueuing => tail' = tail + 1 /\ head' = head
                      /\ tpc' = [tpc EXCEPT ![t] = "store"]
      /\ ~Enqueuing => head' = head + 1 /\ tail' = tail
                       /\ tpc' = [tpc EXCEPT ![t] = "spin"]
      /\ ticket' = [ticket EXCEPT ![t] = n]
  BY DEF Claim, Goto
<1>3. /\ ticket'[t] = n
      /\ \A u \in Threads : u # t => tpc'[u] = tpc[u] /\ ticket'[u] = ticket[u]
      /\ tpc'[t] \in {"store", "spin"}
  BY <1>2 DEF TypeInv, TypeOK
<1>4. /\ ~Holding(t) /\ (Holding(t))'
      /\ \A u \in Threads : u # t => ((Holding(u))' <=> Holding(u))
  BY <1>2, <1>3 DEF Holding
<1>5. /\ Begun' = [Begun EXCEPT ![t] = Begun[t] + 1]
      /\ Begun[t] = i[t]
  <2>1. Begun[t] = i[t] /\ Begun'[t] = i[t] + 1
    BY <1>2, <1>3, <1>4 DEF Begun
  <2>2. \A u \in Threads : u # t => Begun'[u] = Begun[u]
    BY <1>2, <1>3, <1>4 DEF Begun
  <2>3. Begun = [u \in Threads |-> Begun[u]] /\ Begun' = [u \in Threads |-> Begun'[u]]
    BY DEF Begun
  <2> HIDE DEF Begun
  <2>4. [Begun EXCEPT ![t] = Begun[t] + 1]
          = [u \in Threads |-> IF u = t THEN Begun[t] + 1 ELSE Begun[u]]
    BY <2>3
  <2>5. \A u \in Threads : Begun'[u] = IF u = t THEN Begun[t] + 1 ELSE Begun[u]
    BY <2>1, <2>2
  <2> QED  BY <2>1, <2>3, <2>4, <2>5
<1>6. Drawn' = Drawn + 1 /\ Drawn \in Nat /\ Drawn + 1 <= NumSamples
  <2>1. /\ k \in Nat \ {0} /\ k <= NumThreads /\ Begun \in [Threads -> Nat]
        /\ PerThread \in 0 .. NumSamples
    BY BegunFacts
  <2>2. Begun[t] < NumSamples
    <3>1. i[t] \in 0 .. NumSamples /\ NumSamples \in Nat
      BY DEF TypeInv, TypeOK
    <3> QED  BY <1>2, <1>5, <2>1, <3>1
  <2>3. Cardinality(Calls(k, Begun')) = Drawn + 1
    <3>1. PICK b \in [Threads -> Nat] : b = Begun
      BY <2>1
    <3>2. PICK c : c = Begun'
      OBVIOUS
    <3>3. c = [b EXCEPT ![t] = b[t] + 1] /\ b[t] < NumSamples
      BY <1>5, <2>2, <3>1, <3>2
    <3>4. k \in Nat /\ k <= NumThreads /\ t \in 0 .. k - 1
      BY <1>1, <2>1
    <3>5. Cardinality(Calls(k, c)) = Cardinality(Calls(k, b)) + 1
      BY ONLY <3>1, <3>3, <3>4, OneMoreCall
    <3> QED  BY <3>1, <3>2, <3>5 DEF Drawn
  <2>4. Drawn' = Drawn + 1
    BY <1>1, <2>3 DEF Drawn
  <2>5. Drawn' \in 0 .. NumSamples /\ Drawn \in 0 .. NumSamples
    <3>1. Drawn \in 0 .. NumSamples
      BY BegunFacts
    <3>2. (EvenShares /\ RoundInv /\ TypeInv => Drawn \in 0 .. NumSamples)'
      BY BegunFacts, PTL
    <3> QED  BY <3>1, <3>2 DEF EvenShares
  <2> QED  BY <2>4, <2>5
<1>7. /\ head \in Int /\ tail \in Int /\ First \in Int /\ First <= head
      /\ head <= tail /\ tail - First <= NumSamples
  BY Ranges DEF DrainInv
<1>8. CountInv'
  BY <1>1, <1>2, <1>6, <1>7 DEF DrainInv, CountInv, First
<1>9. CASE Enqueuing
  <2>1. /\ n = tail + 1 /\ tail' = tail + 1 /\ head' = head
        /\ First = head /\ First' = head /\ ~Taking /\ ~Taking'
    BY <1>1, <1>2, <1>9 DEF First
  <2>2. HeldInv'
    BY <1>3, <1>4, <1>7, <2>1 DEF DrainInv, HeldInv
  <2>3. Held' = Held \cup {tail + 1}
    BY <1>3, <1>4, <2>1 DEF Held
  <2>4. InUse' = InUse
    <3>1. \A m \in Int : m \in head + 1 .. tail + 1 /\ m # tail + 1
                           <=> m \in head + 1 .. tail
      BY <1>7
    <3>2. /\ InUse = (head + 1 .. tail) \ Held
          /\ InUse' = (head + 1 .. tail + 1) \ (Held \cup {tail + 1})
      BY <2>1, <2>3 DEF InUse
    <3> QED  BY <1>7, <3>1, <3>2
  <2> QED  BY <1>1, <1>2, <1>3, <1>8, <2>1, <2>2, <2>4 DEF DrainInv, SlotInv, ElemInv, WhoseInv
<1>10. CASE ~Enqueuing
  <2>1. /\ n = head + 1 /\ tail' = tail /\ head' = head + 1
        /\ First' = First /\ Taking /\ Taking'
    BY <1>1, <1>2, <1>10 DEF First
  <2>2. head + 1 <= tail
    BY <1>6, <1>7, <2>1 DEF DrainInv, CountInv, First, TypeInv, TypeOK
  <2>3. HeldInv'
    BY <1>3, <1>4, <1>7, <2>1, <2>2 DEF DrainInv, HeldInv
  <2>4. Held' = Held \cup {head + 1}
    BY <1>3, <1>4, <2>1 DEF Held
  <2>5. InUse' = InUse
    <3>1. \A m \in Int : m \in head + 2 .. tail \/ m = head + 1
                           <=> m \in head + 1 .. tail
      BY <1>7, <2>2
    <3>2. /\ InUse = (head + 1 .. tail) \cup Held
          /\ InUse' = (head + 2 .. tail) \cup (Held \cup {head + 1})
      BY <1>7, <2>1, <2>4 DEF InUse
    <3> QED  BY <1>7, <3>1, <3>2
  <2> QED  BY <1>1, <1>2, <1>3, <1>8, <1>10, <2>1, <2>3, <2>5
           DEF DrainInv, SlotInv, ElemInv, WhoseInv
<1> QED  BY <1>9, <1>10

\* A thread is done with its slot.
LEMMA Released ==
  ASSUME HeldInv, NEW t \in Threads, Holding(t), ~(Holding(t))',
         \A u \in Threads : u # t => ((Holding(u))' <=> Holding(u)),
         UNCHANGED ticket
  PROVE  /\ Held' = Held \ {ticket[t]} /\ ticket[t] \in Held
BY DEF HeldInv, Held

LEMMA StoreKeepsDrain ==
  ASSUME EvenShares, NumSamples <= MaxSize, RoundInv, TypeInv, DrainInv,
         NEW t \in Threads, Store(t)
  PROVE  DrainInv'
<1> USE SQueueRoundsAssumption
<1> DEFINE x == <<t, i[t] + 1>>
           n == ticket[t]
<1>1. /\ tpc[t] = "store" /\ tpc' = [tpc EXCEPT ![t] = "claim"]
      /\ i' = [i EXCEPT ![t] = i[t] + 1]
      /\ UNCHANGED <<ticket, elem, head, tail, got>>
  BY DEF Store, Goto
<1>2. /\ UNCHANGED <<k, mpc, filled>> /\ Enqueuing' = Enqueuing
      /\ Taking' = Taking /\ Enqueuing /\ ~Taking /\ mpc # "fill" /\ mpc # "end"
  <2>1. Enqueuing
    BY <1>1 DEF TypeInv, PlaceInv
  <2> QED  BY <2>1, HandlerFrame, Phases DEF handler
<1>3. /\ i'[t] = i[t] + 1 /\ tpc'[t] = "claim"
      /\ \A u \in Threads : u # t => tpc'[u] = tpc[u] /\ i'[u] = i[u]
  BY <1>1 DEF TypeInv, TypeOK
<1>4. theQueue' = [theQueue EXCEPT ![Slot(n)] = x] /\ stored' = stored \cup {x}
  BY <1>3 DEF Store
<1>5. /\ Holding(t) /\ ~(Holding(t))'
      /\ \A u \in Threads : u # t => ((Holding(u))' <=> Holding(u))
  BY <1>1, <1>3 DEF Holding
<1>6. Held' = Held \ {n} /\ n \in Held
  BY <1>1, <1>5, Released DEF DrainInv
<1>7. Drawn' = Drawn
  <2>1. \A u \in Threads : Begun'[u] = Begun[u]
    BY <1>1, <1>3, <1>5 DEF Begun
  <2>2. Begun' = Begun
    <3>1. Begun = [u \in Threads |-> Begun[u]] /\ Begun' = [u \in Threads |-> Begun'[u]]
      BY DEF Begun
    <3> HIDE DEF Begun
    <3> QED  BY <2>1, <3>1
  <2> QED  BY <1>2, <2>2 DEF Drawn
<1>8. CountInv'
  BY <1>1, <1>2, <1>7 DEF DrainInv, CountInv, First
<1>9. HeldInv'
  BY <1>1, <1>2, <1>5 DEF DrainInv, HeldInv, First
<1>10. /\ head \in Int /\ tail \in Int /\ head <= tail /\ First = head
       /\ tail - head <= NumSamples
       /\ Held \subseteq head + 1 .. tail /\ InUse \subseteq head + 1 .. tail
  BY <1>2, Ranges DEF DrainInv, First
<1>11. /\ InUse' = InUse \cup {n} /\ n \notin InUse
  <2>1. /\ InUse = (head + 1 .. tail) \ Held
        /\ InUse' = (head + 1 .. tail) \ (Held \ {n})
    BY <1>1, <1>2, <1>6 DEF InUse
  <2> QED  BY <1>6, <1>10, <2>1
<1>12. n \in Int /\ \A u \in InUse : Slot(u) # Slot(n)
  <2>1. n \in head + 1 .. tail /\ \A u \in InUse : u \in head + 1 .. tail /\ u # n
    BY <1>6, <1>10, <1>11
  <2> HIDE DEF n
  <2>2. n \in Int
    BY <1>10, <2>1
  <2> QED  BY <1>10, <2>1, <2>2, OwnSlots
<1>13. x \in Atom /\ x \notin stored
  <2>1. i[t] \in Nat /\ i[t] + 1 \in 1 .. NumSamples
    <3>1. PerThread \in 0 .. NumSamples
      BY BegunFacts
    <3>2. i[t] < PerThread /\ i[t] \in 0 .. NumSamples
      BY <1>5 DEF TypeInv, TypeOK, PlaceInv
    <3> QED  BY <3>1, <3>2
  <2>2. \A y \in stored : y[2] <= i[y[1]]
    BY <1>2 DEF DrainInv, ElemInv, WhoseInv
  <2>3. ~(i[t] + 1 <= i[t])
    BY <2>1
  <2> QED  BY <2>1, <2>2, <2>3 DEF Atom
<1>14. /\ theQueue \in [0 .. MaxSize - 1 -> Atom \cup {Null}]
       /\ InUse \in SUBSET Int /\ Occupied(theQueue, InUse)
       /\ Accounted(theQueue, stored, got)
  BY <1>10 DEF TypeInv, TypeOK, DrainInv, SlotInv, ElemInv
<1> HIDE DEF n
<1>15. WhoseInv'
  <2>1. \A y \in stored : /\ y[1] \in Threads /\ tpc[y[1]] # "none"
                          /\ y[2] <= i[y[1]] /\ y[2] \in Nat
    BY <1>2 DEF DrainInv, ElemInv, WhoseInv, TypeInv, TypeOK, Atom
  <2>2. \A u \in Threads : i[u] \in Nat
    BY DEF TypeInv, TypeOK
  <2>3. ASSUME NEW y \in stored'
        PROVE  y[1] \in Threads /\ tpc'[y[1]] # "none" /\ y[2] <= i'[y[1]]
    <3>1. CASE y = x
      BY <1>3, <2>2, <3>1
    <3>2. CASE y \in stored /\ y[1] = t
      BY <1>3, <2>1, <2>2, <3>2
    <3>3. CASE y \in stored /\ y[1] # t
      BY <1>3, <2>1, <3>3
    <3> QED  BY <1>4, <3>1, <3>2, <3>3
  <2> QED  BY <1>2, <2>3 DEF WhoseInv
<1> HIDE DEF x
<1>16. Occupied(theQueue', InUse \cup {n}) /\ Accounted(theQueue', stored \cup {x}, got)
  BY <1>4, <1>12, <1>13, <1>14, PutSlot
<1>17. SlotInv'
  <2>1. \A u \in Threads : tpc[u] # "clear"
    BY <1>2 DEF TypeInv, PlaceInv
  <2>2. \A u \in Threads : tpc'[u] # "clear"
    BY <1>3, <2>1
  <2> QED  BY <1>11, <1>16, <2>2 DEF SlotInv
<1>18. ElemInv'
  BY <1>1, <1>4, <1>15, <1>16 DEF ElemInv
<1> QED  BY <1>8, <1>9, <1>17, <1>18 DEF DrainInv

LEMMA ClearKeepsDrain ==
  ASSUME EvenShares, NumSamples <= MaxSize, RoundInv, TypeInv, DrainInv,
         NEW t \in Threads, Clear(t)
  PROVE  DrainInv'
<1> USE SQueueRoundsAssumption
<1> DEFINE y == elem[t]
           n == ticket[t]
<1>1. /\ tpc[t] = "clear" /\ tpc' = [tpc EXCEPT ![t] = "claim"]
      /\ i' = [i EXCEPT ![t] = i[t] + 1]
      /\ UNCHANGED <<ticket, elem, head, tail, stored>>
      /\ theQueue' = [theQueue EXCEPT ![Slot(n)] = Null]
      /\ got' = Append(got, y)
  BY DEF Clear, Goto
<1>2. /\ UNCHANGED <<k, mpc, filled>> /\ Enqueuing' = Enqueuing
      /\ Taking' = Taking /\ Taking /\ ~Enqueuing /\ mpc # "fill" /\ mpc # "end"
  <2>1. Taking
    BY <1>1 DEF TypeInv, PlaceInv
  <2> QED  BY <2>1, HandlerFrame, Phases DEF handler
<1>3. /\ i'[t] = i[t] + 1 /\ tpc'[t] = "claim"
      /\ \A u \in Threads : u # t => tpc'[u] = tpc[u] /\ i'[u] = i[u]
  BY <1>1 DEF TypeInv, TypeOK
<1>4. /\ Holding(t) /\ ~(Holding(t))'
      /\ \A u \in Threads : u # t => ((Holding(u))' <=> Holding(u))
  BY <1>1, <1>3 DEF Holding
<1>5. Held' = Held \ {n} /\ n \in Held
  BY <1>1, <1>4, Released DEF DrainInv
<1>6. Drawn' = Drawn
  <2>1. \A u \in Threads : Begun'[u] = Begun[u]
    BY <1>1, <1>3, <1>4 DEF Begun
  <2>2. Begun' = Begun
    <3>1. Begun = [u \in Threads |-> Begun[u]] /\ Begun' = [u \in Threads |-> Begun'[u]]
      BY DEF Begun
    <3> HIDE DEF Begun
    <3> QED  BY <2>1, <3>1
  <2> QED  BY <1>2, <2>2 DEF Drawn
<1>7. CountInv'
  BY <1>1, <1>2, <1>6 DEF DrainInv, CountInv, First
<1>8. HeldInv'
  BY <1>1, <1>2, <1>4 DEF DrainInv, HeldInv, First
<1>9. /\ head \in Int /\ tail \in Int /\ First \in Int /\ First <= head
      /\ tail - First <= NumSamples
      /\ Held \subseteq First + 1 .. tail /\ InUse \subseteq First + 1 .. tail
  BY Ranges DEF DrainInv
<1>10. InUse' = InUse \ {n} /\ n \in InUse
  <2>1. n <= head
    BY <1>2, <1>4 DEF DrainInv, HeldInv
  <2>2. n \notin head + 1 .. tail
    BY <1>9, <2>1
  <2>3. /\ InUse = (head + 1 .. tail) \cup Held
        /\ InUse' = (head + 1 .. tail) \cup (Held \ {n})
    BY <1>1, <1>2, <1>5 DEF InUse
  <2> QED  BY <1>5, <2>2, <2>3
<1> HIDE DEF n
<1>11. \A u \in InUse : Slot(u) = Slot(n) => u = n
  BY <1>9, <1>10, OwnSlots
<1>12. y \in Atom /\ y = theQueue[Slot(n)]
  BY <1>1 DEF TypeInv, PlaceInv, DrainInv, SlotInv, n
<1>13. /\ theQueue \in [0 .. MaxSize - 1 -> Atom \cup {Null}]
       /\ got \in Seq(Atom) /\ Occupied(theQueue, InUse)
       /\ Accounted(theQueue, stored, got)
  BY DEF TypeInv, TypeOK, DrainInv, SlotInv, ElemInv
<1>14. InUse \in SUBSET Int
  BY <1>9
<1> HIDE DEF y
<1>15. Occupied(theQueue', InUse \ {n}) /\ Accounted(theQueue', stored, Append(got, y))
  BY <1>1, <1>10, <1>11, <1>12, <1>13, <1>14, TakeSlot
<1>16. ASSUME NEW u \in Threads, tpc'[u] = "clear"
       PROVE  elem'[u] = theQueue'[Slot(ticket'[u])]
  <2>1. u # t /\ tpc[u] = "clear"
    BY <1>3, <1>16
  <2>2. Holding(u) /\ ticket[u] # n
    BY <1>4, <2>1 DEF Holding, DrainInv, HeldInv, n
  <2>3. ticket[u] \in Held
    BY <2>2 DEF Held
  <2>4. Slot(ticket[u]) # Slot(n)
    BY <1>5, <1>9, <2>2, <2>3, OwnSlots
  <2>5. theQueue'[Slot(ticket[u])] = theQueue[Slot(ticket[u])]
    BY <1>1, <1>13, <2>4
  <2> QED  BY <1>1, <2>1, <2>5 DEF DrainInv, SlotInv
<1>17. SlotInv'
  BY <1>10, <1>15, <1>16 DEF SlotInv
<1>18. ElemInv'
  BY <1>1, <1>2, <1>15 DEF ElemInv, WhoseInv
<1> QED  BY <1>7, <1>8, <1>17, <1>18 DEF DrainInv

LEMMA SpinKeepsDrain ==
  ASSUME RoundInv, TypeInv, DrainInv, NEW t \in Threads, Spin(t) \/ Return(t)
  PROVE  DrainInv'
<1>1. /\ UNCHANGED <<k, mpc, filled>> /\ Enqueuing' = Enqueuing /\ Taking' = Taking
  BY HandlerFrame DEF handler
<1>2. /\ UNCHANGED <<head, tail, theQueue, stored, got, ticket, i>>
      /\ \/ /\ tpc[t] = "spin" /\ tpc' = [tpc EXCEPT ![t] = "clear"]
            /\ elem' = [elem EXCEPT ![t] = theQueue[Slot(ticket[t])]]
         \/ /\ tpc[t] = "claim" /\ tpc' = [tpc EXCEPT ![t] = "returned"]
            /\ elem' = elem
  BY DEF Spin, Return, Goto, ring
<1>3. /\ \A u \in Threads : u # t => tpc'[u] = tpc[u] /\ elem'[u] = elem[u]
      /\ \/ /\ tpc[t] = "spin" /\ tpc'[t] = "clear"
            /\ elem'[t] = theQueue[Slot(ticket[t])]
         \/ tpc[t] = "claim" /\ tpc'[t] = "returned"
  BY <1>2 DEF TypeInv, TypeOK
<1>4. \A u \in Threads : (Holding(u))' <=> Holding(u)
  BY <1>3 DEF Holding
<1>5. Begun' = Begun
  <2>1. \A u \in Threads : Begun'[u] = Begun[u]
    BY <1>2, <1>3, <1>4 DEF Begun
  <2>2. Begun = [u \in Threads |-> Begun[u]] /\ Begun' = [u \in Threads |-> Begun'[u]]
    BY DEF Begun
  <2> HIDE DEF Begun
  <2> QED  BY <2>1, <2>2
<1>6. \A u \in Threads : tpc'[u] = "clear" =>
        \/ tpc[u] = "clear" /\ elem'[u] = elem[u]
        \/ elem'[u] = theQueue[Slot(ticket[u])]
  BY <1>3
<1>7. CountInv' /\ HeldInv' /\ SlotInv' /\ (Accounted(theQueue, stored, got))'
  BY <1>1, <1>2, <1>4, <1>5, <1>6, QuietStep
<1>8. WhoseInv'
  <2>1. \A u \in Threads : tpc[u] # "none" => tpc'[u] # "none"
    BY <1>3
  <2> QED  BY <1>1, <1>2, <2>1 DEF DrainInv, ElemInv, WhoseInv
<1> QED  BY <1>7, <1>8 DEF DrainInv, ElemInv

LEMMA StepKeepsDrain ==
  ASSUME EvenShares, NumSamples <= MaxSize, RoundInv, RoundInv', TypeInv, TypeInv',
         DrainInv, [Next]_vars
  PROVE  DrainInv'
<1>1. CASE main
  BY <1>1, FillKeepsDrain, FilledKeepsDrain, CreateKeepsDrain, JoinKeepsDrain
     DEF main
<1>2. CASE \E t \in Threads : handler(t)
  BY <1>2, ClaimKeepsDrain, StoreKeepsDrain, SpinKeepsDrain, ClearKeepsDrain
     DEF handler
<1>3. CASE UNCHANGED vars
  <2>1. /\ UNCHANGED <<k, head, tail, theQueue, stored, got, ticket, mpc, filled,
                       tpc, i, elem>>
    BY <1>3 DEF vars
  <2>2. /\ Taking' = Taking /\ Enqueuing' = Enqueuing /\ Begun' = Begun
        /\ \A t \in Threads : (Holding(t))' <=> Holding(t)
    BY <2>1 DEF Taking, Enqueuing, Begun, Holding
  <2>3. CountInv' /\ HeldInv' /\ SlotInv' /\ (Accounted(theQueue, stored, got))'
    BY <2>1, <2>2, QuietStep
  <2> QED  BY <2>1, <2>2, <2>3 DEF DrainInv, ElemInv, WhoseInv
<1> QED  BY <1>1, <1>2, <1>3 DEF Next, Ended

LEMMA DrainSuffices ==
  ASSUME EvenShares, RoundInv, TypeInv, DrainInv
  PROVE  RoundDrained
<1> SUFFICES ASSUME mpc = "joinWorkers", \A t \in 0 .. k - 1 : tpc[t] = "returned"
             PROVE  /\ IsInjective(got) /\ Range(got) = stored
                    /\ \A s \in DOMAIN theQueue : theQueue[s] = Null
                    /\ head = tail
  BY DEF RoundDrained, TypeInv
<1>1. Taking /\ created = k
  BY DEF Taking, RoundInv, MainInv
<1>2. Drawn = NumSamples /\ Held = {}
  BY <1>1, AllReturned
<1>3. head \in Int /\ tail \in Int /\ NumSamples \in Nat
  BY SQueueRoundsAssumption DEF TypeInv, TypeOK
<1>4. head = tail
  BY <1>1, <1>2, <1>3 DEF DrainInv, CountInv, First
<1>5. InUse = {}
  <2>1. head + 1 .. tail = {}
    BY <1>3, <1>4
  <2> QED  BY <1>1, <1>2, <2>1 DEF InUse
<1>6. Occupied(theQueue, {})
  BY <1>5 DEF DrainInv, SlotInv
<1>7. /\ DOMAIN theQueue = 0 .. MaxSize - 1
      /\ \A s \in 0 .. MaxSize - 1 : theQueue[s] = Null
      /\ Inside(theQueue) = {}
  BY <1>6, NothingInside DEF TypeInv, TypeOK
<1>8. IsInjective(got) /\ Range(got) = stored
  BY <1>7 DEF DrainInv, ElemInv, Accounted
<1> QED  BY <1>4, <1>7, <1>8

\* If the samples of a round fit the ring and are a multiple of every number of
\* threads, the workers of each round take what was put in it, each element once,
\* and leave an empty ring to the next round.
THEOREM RoundsDrain ==
  ASSUME EvenShares, NumSamples <= MaxSize
  PROVE  Spec => []RoundDrained
<1> DEFINE IInv == RoundInv /\ TypeInv /\ DrainInv
<1>1. Init => IInv
  BY InitInv, InitTypes, InitDrain
<1>2. IInv /\ [Next]_vars => IInv'
  BY StepKeepsInv, StepKeepsTypes, StepKeepsDrain
<1>3. IInv => RoundDrained
  BY DrainSuffices
<1> QED  BY <1>1, <1>2, <1>3, PTL DEF Spec

=============================================================================
