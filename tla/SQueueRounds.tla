---------------------------- MODULE SQueueRounds ----------------------------
(***************************************************************************)
(* SQueue/sqmain.c over SQueue/squeue.c, the first version of the program: *)
(* two series of rounds on one ring, with 1, 2, 4, ... threads.            *)
(*                                                                         *)
(* In the first series main itself enqueues NUM_SAMPLES elements before it *)
(* creates the workers; in the second, the enqueuers have all been joined  *)
(* before the workers are created.  So the two ends of the ring are never  *)
(* used at once, and all elements of a round are in it when the first      *)
(* worker starts.  The ring is initialised once, and nothing else is reset *)
(* between the rounds.                                                     *)
(*                                                                         *)
(* An element is <<who, value>>: who enqueued it, main or a thread.        *)
(***************************************************************************)
EXTENDS Integers, Sequences, SequencesExt

CONSTANTS
  NumThreads,   \* NUM_THREADS: k runs over the powers of two up to it
  NumSamples,   \* NUM_SAMPLES
  MaxSize,      \* MAX_SIZE
  Null          \* the 0 of a free slot

Main    == NumThreads          \* main, as the one who enqueues
Threads == 0 .. NumThreads - 1 \* worker_threads[i] or enqueue_threads[i]
Atom    == (Threads \cup {Main}) \X (1 .. NumSamples)

ASSUME SQueueRoundsAssumption ==
  /\ NumThreads \in Nat \ {0}
  /\ NumSamples \in Nat
  /\ MaxSize \in Nat \ {0}
  /\ Null \notin Atom

VARIABLES
  series, k,         \* main: which of its two loops, CUR_NUM_THREADS
  mpc, filled,       \* main: place, i of its own enqueue loop
  created, joined,   \* threads created and joined in this phase
  enqueueTicks, dequeueTicks,   \* the sums, as the sets of what was added
  lines,             \* what has been printed, and in which round
  head, tail, theQueue,
  tpc, i, ticket, elem,         \* threads: place, loop index, cur_head or
                                \* cur_tail, element read
  stored, got        \* history of the round: elements enqueued; dequeued,
                     \* in the order of the calls' ends

ring == <<head, tail, theQueue>>
mainvars == <<series, k, mpc, filled, created, joined, lines>>
vars == <<series, k, mpc, filled, created, joined, enqueueTicks, dequeueTicks,
          lines, head, tail, theQueue, tpc, i, ticket, elem, stored, got>>

Slot(n) == n % MaxSize

\* NUM_SAMPLES_PER_THREAD
PerThread == NumSamples \div k

\* The running threads are enqueuers or workers: main never has both.
Enqueuing == mpc \in {"createEnqueuers", "joinEnqueuers"}

FirstPlace(s) == IF s = 1 THEN "fill" ELSE "createEnqueuers"

\* InitQueue has run.
Init ==
  /\ series = 1 /\ k = 1
  /\ mpc = FirstPlace(1) /\ filled = 0
  /\ created = 0 /\ joined = 0
  /\ enqueueTicks = {} /\ dequeueTicks = {}
  /\ lines = <<>>
  /\ head = -1 /\ tail = -1
  /\ theQueue = [s \in 0 .. MaxSize - 1 |-> Null]
  /\ tpc = [t \in Threads |-> "none"]
  /\ i = [t \in Threads |-> 0]
  /\ ticket = [t \in Threads |-> -1]
  /\ elem = [t \in Threads |-> Null]
  /\ stored = {} /\ got = <<>>

-----------------------------------------------------------------------------
(* main                                                                    *)

\* Enqueue(i + 1), by main while no thread is running; the sum of its ticks
\* is a local of main.
Fill ==
  /\ mpc = "fill"
  /\ filled < NumSamples
  /\ filled' = filled + 1
  /\ tail' = tail + 1
  /\ theQueue' = [theQueue EXCEPT ![Slot(tail')] = <<Main, filled'>>]
  /\ stored' = stored \cup {<<Main, filled'>>}
  /\ UNCHANGED <<series, k, mpc, created, joined, enqueueTicks, dequeueTicks,
                 lines, head, tpc, i, ticket, elem, got>>

Filled ==
  /\ mpc = "fill"
  /\ filled = NumSamples
  /\ mpc' = "createWorkers"
  /\ UNCHANGED <<series, k, filled, created, joined, enqueueTicks,
                 dequeueTicks, lines, tpc, i, ticket, elem, stored, got>>
  /\ UNCHANGED ring

\* pthread_create; after the last worker of the first series, main prints the
\* line of its own loop.
Create ==
  /\ mpc \in {"createEnqueuers", "createWorkers"}
  /\ created' = created + 1
  /\ tpc' = [tpc EXCEPT ![created] = "claim"]
  /\ i' = [i EXCEPT ![created] = 0]
  /\ IF created' < k
       THEN UNCHANGED <<mpc, lines>>
       ELSE /\ mpc' = IF Enqueuing THEN "joinEnqueuers" ELSE "joinWorkers"
            /\ lines' = IF series = 1
                          THEN Append(lines, [op |-> "enqueue", round |-> <<1, k>>,
                                              ticks |-> {<<1, k, Main>>}])
                          ELSE lines
  /\ UNCHANGED <<series, k, filled, joined, enqueueTicks, dequeueTicks,
                 ticket, elem, stored, got>>
  /\ UNCHANGED ring

\* Does the loop over k go on?
GoesOn == 2 * k <= NumThreads

\* What follows the last pthread_join: the workers of the second series are
\* created, or the lines of the round are printed and the next one begins.
AfterJoin ==
  IF Enqueuing
    THEN /\ mpc' = "createWorkers"
         /\ UNCHANGED <<series, k, filled, lines, stored, got>>
    ELSE LET sum(op) == [op |-> op, round |-> <<series, k>>,
                         ticks |-> IF op = "enqueue" THEN enqueueTicks
                                                     ELSE dequeueTicks]
         IN
         /\ lines' = lines \o (IF series = 1
                                 THEN <<sum("dequeue")>>
                                 ELSE <<sum("enqueue"), sum("dequeue")>>)
         /\ IF GoesOn
              THEN k' = 2 * k /\ series' = series
              ELSE k' = 1 /\ series' = series + 1
         /\ mpc' = IF series' = 3 THEN "end" ELSE FirstPlace(series')
         /\ filled' = 0 /\ stored' = {} /\ got' = <<>>

\* Faulty variant: main does not wait for the thread.
JoinAtOnce ==
  /\ mpc \in {"joinEnqueuers", "joinWorkers"}
  /\ IF joined + 1 < k
       THEN joined' = joined + 1
            /\ UNCHANGED <<created, tpc, series, k, mpc, filled, lines, stored, got>>
       ELSE joined' = 0 /\ created' = 0
            /\ tpc' = [t \in Threads |-> "none"] /\ AfterJoin
  /\ UNCHANGED <<enqueueTicks, dequeueTicks, i, ticket, elem>>
  /\ UNCHANGED ring

\* pthread_join
Join ==
  /\ mpc \in {"joinEnqueuers", "joinWorkers"}
  /\ tpc[joined] = "returned"
  /\ IF joined + 1 < k
       THEN joined' = joined + 1
            /\ UNCHANGED <<created, tpc, series, k, mpc, filled, lines, stored, got>>
       ELSE joined' = 0 /\ created' = 0
            /\ tpc' = [t \in Threads |-> "none"] /\ AfterJoin
  /\ UNCHANGED <<enqueueTicks, dequeueTicks, i, ticket, elem>>
  /\ UNCHANGED ring

main == Fill \/ Filled \/ Create \/ Join

-----------------------------------------------------------------------------
(* The threads                                                             *)

Goto(t, place) == tpc' = [tpc EXCEPT ![t] = place]

\* cur_tail or cur_head = __sync_add_and_fetch(&tail or &head, 1)
Claim(t) ==
  /\ tpc[t] = "claim"
  /\ i[t] < PerThread
  /\ IF Enqueuing
       THEN tail' = tail + 1 /\ head' = head /\ Goto(t, "store")
       ELSE head' = head + 1 /\ tail' = tail /\ Goto(t, "spin")
  /\ ticket' = [ticket EXCEPT ![t] = IF Enqueuing THEN tail' ELSE head']
  /\ UNCHANGED <<enqueueTicks, dequeueTicks, i, elem, theQueue, stored, got>>
  /\ UNCHANGED mainvars

\* theQueue[cur_tail % MAX_SIZE] = elem
Store(t) ==
  /\ tpc[t] = "store"
  /\ i' = [i EXCEPT ![t] = @ + 1]
  /\ theQueue' = [theQueue EXCEPT ![Slot(ticket[t])] = <<t, i'[t]>>]
  /\ stored' = stored \cup {<<t, i'[t]>>}
  /\ Goto(t, "claim")
  /\ UNCHANGED <<enqueueTicks, dequeueTicks, ticket, elem, head, tail, got>>
  /\ UNCHANGED mainvars

\* while (!*target) {} elem = *target
Spin(t) ==
  /\ tpc[t] = "spin"
  /\ theQueue[Slot(ticket[t])] # Null
  /\ elem' = [elem EXCEPT ![t] = theQueue[Slot(ticket[t])]]
  /\ Goto(t, "clear")
  /\ UNCHANGED <<enqueueTicks, dequeueTicks, i, ticket, stored, got>>
  /\ UNCHANGED ring /\ UNCHANGED mainvars

\* Faulty variant: the slot is not set back.
ClearNothing(t) ==
  /\ tpc[t] = "clear"
  /\ got' = Append(got, elem[t])
  /\ i' = [i EXCEPT ![t] = @ + 1]
  /\ Goto(t, "claim")
  /\ UNCHANGED <<enqueueTicks, dequeueTicks, ticket, elem, stored>>
  /\ UNCHANGED ring /\ UNCHANGED mainvars

\* __sync_fetch_and_and(target, 0); return elem
Clear(t) ==
  /\ tpc[t] = "clear"
  /\ theQueue' = [theQueue EXCEPT ![Slot(ticket[t])] = Null]
  /\ got' = Append(got, elem[t])
  /\ i' = [i EXCEPT ![t] = @ + 1]
  /\ Goto(t, "claim")
  /\ UNCHANGED <<enqueueTicks, dequeueTicks, ticket, elem, head, tail, stored>>
  /\ UNCHANGED mainvars


\* __sync_add_and_fetch(&..._ticks, diff_tick); return 0
Return(t) ==
  /\ tpc[t] = "claim"
  /\ i[t] = PerThread
  /\ IF Enqueuing
       THEN /\ enqueueTicks' = enqueueTicks \cup {<<series, k, t>>}
            /\ UNCHANGED dequeueTicks
       ELSE /\ dequeueTicks' = dequeueTicks \cup {<<series, k, t>>}
            /\ UNCHANGED enqueueTicks
  /\ Goto(t, "returned")
  /\ UNCHANGED <<i, ticket, elem, stored, got>>
  /\ UNCHANGED ring /\ UNCHANGED mainvars

handler(t) == Claim(t) \/ Store(t) \/ Spin(t) \/ Clear(t) \/ Return(t)

-----------------------------------------------------------------------------
Ended == mpc = "end" /\ UNCHANGED vars

Next == main \/ (\E t \in Threads : handler(t)) \/ Ended

Spec == Init /\ [][Next]_vars

FairSpec == Spec /\ WF_vars(main) /\ \A t \in Threads : WF_vars(handler(t))
-----------------------------------------------------------------------------
(* Properties                                                              *)

TypeOK ==
  /\ series \in 1 .. 3 /\ k \in 1 .. NumThreads
  /\ mpc \in {"fill", "createEnqueuers", "joinEnqueuers", "createWorkers",
              "joinWorkers", "end"}
  /\ filled \in 0 .. NumSamples
  /\ created \in 0 .. k /\ joined \in 0 .. k
  /\ head \in Int /\ tail \in Int
  /\ theQueue \in [0 .. MaxSize - 1 -> Atom \cup {Null}]
  /\ tpc \in [Threads ->
               {"none", "claim", "store", "spin", "clear", "returned"}]
  /\ i \in [Threads -> 0 .. NumSamples]
  /\ ticket \in [Threads -> Int]
  /\ elem \in [Threads -> Atom \cup {Null}]
  /\ stored \subseteq Atom /\ got \in Seq(Atom)

\* The workers of a round take what the enqueuers of the same round put,
\* each element once, although the ring goes on from where it was: when they
\* have all returned nothing of the round is left for the next.
RoundDrained ==
  /\ TypeOK
  /\ mpc = "joinWorkers" /\ (\A t \in 0 .. k - 1 : tpc[t] = "returned") =>
       /\ IsInjective(got) /\ Range(got) = stored
       /\ \A s \in DOMAIN theQueue : theQueue[s] = Null
       /\ head = tail

\* A line is printed when all threads of its round have added their ticks.
LinesComplete ==
  \A n \in 1 .. Len(lines) :
    LET r == lines[n].round IN
    lines[n].op = "dequeue" \/ r[1] = 2 =>
      \A t \in 0 .. r[2] - 1 : <<r[1], r[2], t>> \in lines[n].ticks

\* "Operation,NumSamples,CycleCount,NumThreads": a line gives the cycles of its
\* own round, the one with the number of threads it names.
OwnTicks ==
  \A n \in 1 .. Len(lines) :
    \A x \in lines[n].ticks : <<x[1], x[2]>> = lines[n].round

\* Both series come to an end.
Termination == <>(mpc = "end")
=============================================================================
