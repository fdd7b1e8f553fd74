----------------------------- MODULE LockBench -----------------------------
(***************************************************************************)
(* locks/locks.c: rounds of 1, 2, 4, ... threads that add to one counter,  *)
(* NUM_SAMPLES times each, under the lock that run selects.                *)
(*                                                                         *)
(* main asks for run 6 only, the OpenMP lock olock.  worker_handler knows  *)
(* six more: an atomic add (0); a semaphore, a mutex and a spin lock (1,   *)
(* 2, 3), which are locals of the handler, so that no two threads ever use *)
(* the same one and none of them waits; nothing at all (4); and a counter  *)
(* of the thread's own (5).  The names are such that the module can be     *)
(* extended together with BlockingQueue.                                   *)
(***************************************************************************)
EXTENDS Integers, Sequences, FiniteSets

CONSTANTS
  Runs,           \* the values of run to choose from
  TotalThreads,   \* TOTAL_THREADS
  NumSamples,     \* NUM_SAMPLES
  NoOwner         \* the owner of the free lock

Workers == 0 .. TotalThreads - 1

ASSUME LockBenchAssumption ==
  /\ Runs \subseteq 0 .. 6
  /\ TotalThreads \in Nat \ {0}
  /\ NumSamples \in Nat
  /\ NoOwner \notin Workers

VARIABLES
  run,              \* what main gives its threads
  k, mpc,           \* main: NUM_THREADS, place
  created, joined,  \* threads of the round
  dequeueTicks,     \* dequeue_ticks, as the set of what was added to it
  lines,            \* what main has printed
  olock,            \* who holds the lock
  counter,
  tpc, i, load      \* threads: place, loop index, the counter as read

benchvars == <<run, k, mpc, created, joined, dequeueTicks, lines, olock,
               counter, tpc, i, load>>
mainvars == <<run, k, mpc, created, joined, lines>>

BenchInit ==
  /\ run \in Runs
  /\ k = 1 /\ mpc = "round"
  /\ created = 0 /\ joined = 0
  /\ dequeueTicks = {} /\ lines = <<>>
  /\ olock = NoOwner
  /\ counter = 0
  /\ tpc = [t \in Workers |-> "none"]
  /\ i = [t \in Workers |-> 0]
  /\ load = [t \in Workers |-> 0]

-----------------------------------------------------------------------------
(* main                                                                    *)

\* Faulty variant: the sum is not set back.
RoundOnly ==
  /\ mpc = "round"
  /\ k <= TotalThreads
  /\ mpc' = "create"
  /\ UNCHANGED <<run, dequeueTicks, k, created, joined, lines, olock, counter,
                 tpc, i, load>>

\* The head of a round: dequeue_ticks = 0.  The counter goes on.
Round ==
  /\ mpc = "round"
  /\ k <= TotalThreads
  /\ dequeueTicks' = {}
  /\ mpc' = "create"
  /\ UNCHANGED <<run, k, created, joined, lines, olock, counter, tpc, i, load>>

\* pthread_create
Create ==
  /\ mpc = "create"
  /\ created' = created + 1
  /\ tpc' = [tpc EXCEPT ![created] = "pass"]
  /\ i' = [i EXCEPT ![created] = 0]
  /\ mpc' = IF created' = k THEN "join" ELSE mpc
  /\ UNCHANGED <<run, k, joined, dequeueTicks, lines, olock, counter, load>>

\* What follows the join of a thread: after the last one main prints a line
\* and doubles the number of threads.
Joined ==
  IF joined + 1 < k
    THEN joined' = joined + 1 /\ UNCHANGED <<k, mpc, created, lines>>
    ELSE /\ joined' = 0 /\ created' = 0
         /\ lines' = Append(lines, [threads |-> k, ticks |-> dequeueTicks])
         /\ k' = 2 * k
         /\ mpc' = "round"

\* pthread_join
Join ==
  /\ mpc = "join"
  /\ tpc[joined] = "returned"
  /\ Joined
  /\ UNCHANGED <<run, dequeueTicks, olock, counter, tpc, i, load>>

End ==
  /\ mpc = "round"
  /\ k > TotalThreads
  /\ mpc' = "end"
  /\ UNCHANGED <<run, k, created, joined, dequeueTicks, lines, olock, counter,
                 tpc, i, load>>

main == Round \/ Create \/ Join \/ End

-----------------------------------------------------------------------------
(* worker_handler(run)                                                     *)

Move(t, place) == tpc' = [tpc EXCEPT ![t] = place]

\* Faulty variant: the lock is a local of the handler, as in runs 1 to 3.
AcquireOwn(t) ==
  /\ tpc[t] = "pass"
  /\ i[t] < NumSamples
  /\ run \in {1, 2, 3, 4, 6}
  /\ Move(t, "load")
  /\ UNCHANGED <<olock, counter, i, load, dequeueTicks>> /\ UNCHANGED mainvars

\* What the thread does before counter++, by run: only olock is shared.
Acquire(t) ==
  /\ tpc[t] = "pass"
  /\ i[t] < NumSamples
  /\ run \in {1, 2, 3, 4, 6}
  /\ IF run = 6 THEN olock = NoOwner /\ olock' = t ELSE UNCHANGED olock
  /\ Move(t, "load")
  /\ UNCHANGED <<counter, i, load, dequeueTicks>> /\ UNCHANGED mainvars

\* counter++ reads the counter ...
Load(t) ==
  /\ tpc[t] = "load"
  /\ load' = [load EXCEPT ![t] = counter]
  /\ Move(t, "store")
  /\ UNCHANGED <<olock, counter, i, dequeueTicks>> /\ UNCHANGED mainvars

\* ... and writes it.
Store(t) ==
  /\ tpc[t] = "store"
  /\ counter' = load[t] + 1
  /\ Move(t, "release")
  /\ UNCHANGED <<olock, i, load, dequeueTicks>> /\ UNCHANGED mainvars

\* The lock is given back, the time recorded.
Release(t) ==
  /\ tpc[t] = "release"
  /\ olock' = IF run = 6 THEN NoOwner ELSE olock
  /\ i' = [i EXCEPT ![t] = @ + 1]
  /\ Move(t, "pass")
  /\ UNCHANGED <<counter, load, dequeueTicks>> /\ UNCHANGED mainvars

\* A pass of run 0, __sync_fetch_and_add(&counter, 1), or of run 5, which
\* leaves the counter alone.
SinglePass(t) ==
  /\ tpc[t] = "pass"
  /\ i[t] < NumSamples
  /\ run \in {0, 5}
  /\ counter' = IF run = 0 THEN counter + 1 ELSE counter
  /\ i' = [i EXCEPT ![t] = @ + 1]
  /\ UNCHANGED <<tpc, olock, load, dequeueTicks>> /\ UNCHANGED mainvars

\* The thread's average goes into dequeue_ticks; it returns.
Finish(t) ==
  /\ tpc[t] = "pass"
  /\ i[t] = NumSamples
  /\ dequeueTicks' = dequeueTicks \cup {<<k, t>>}
  /\ Move(t, "returned")
  /\ UNCHANGED <<olock, counter, i, load>> /\ UNCHANGED mainvars

worker_handler(t) ==
  \/ Acquire(t) \/ Load(t) \/ Store(t) \/ Release(t)
  \/ SinglePass(t) \/ Finish(t)

-----------------------------------------------------------------------------
Ended == mpc = "end" /\ UNCHANGED benchvars

BenchNext == main \/ (\E t \in Workers : worker_handler(t)) \/ Ended

BenchSpec == BenchInit /\ [][BenchNext]_benchvars
-----------------------------------------------------------------------------
(* Properties                                                              *)

BenchTypeOK ==
  /\ run \in 0 .. 6
  /\ k \in Nat /\ mpc \in {"round", "create", "join", "end"}
  /\ created \in 0 .. k /\ joined \in 0 .. k
  /\ olock \in Workers \cup {NoOwner}
  /\ counter \in Nat
  /\ tpc \in [Workers ->
               {"none", "pass", "load", "store", "release", "returned"}]
  /\ i \in [Workers -> 0 .. NumSamples]
  /\ load \in [Workers -> Nat]

\* The additions to the counter in this round (a thread on its way out of the
\* pass has made its own).
Added(t) == i[t] + (IF tpc[t] = "release" THEN 1 ELSE 0)
Additions ==
  {x \in (0 .. created - 1) \X (1 .. NumSamples) : x[2] <= Added(x[1])}

\* With olock or with the atomic add no addition is lost: the counter is what
\* the rounds so far and the threads of this one have added to it.
CounterExact ==
  /\ BenchTypeOK
  /\ run \in {0, 6} /\ mpc \in {"create", "join"} =>
       counter = NumSamples * (k - 1) + Cardinality(Additions)

\* A line is the average over the threads of its own round, all of them.
LinesOwn ==
  \A n \in 1 .. Len(lines) :
    lines[n].ticks = {lines[n].threads} \X (0 .. lines[n].threads - 1)
=============================================================================
