------------------------------ MODULE Benchmark ------------------------------
(***************************************************************************)
(* QueueBenchmarks/sqmain.c, built with -DLATENCY as its Makefile does:    *)
(* main runs one round per thread count of its list.  A round creates the  *)
(* enqueue and worker threads, which meet at a barrier, time their calls   *)
(* into local arrays and merge these into two global arrays; main joins    *)
(* the threads, writes a summary line and frees the global arrays.         *)
(*                                                                         *)
(* The handlers of sqmain.c repeat one another's text and differ in which  *)
(* queue they call and how often, and so do the cases of main.  They are   *)
(* written here once, as Handler and Round, with what differs as           *)
(* parameters.  The queues are counts of elements: SQueue and its like     *)
(* say how they work.                                                      *)
(***************************************************************************)
EXTENDS Integers, Sequences, FiniteSets, Functions

CONSTANTS
  Arguments,   \* command lines: records [type, threads]
  NumSamples,  \* NUM_SAMPLES
  Nobody,      \* the owner of a free lock
  NoSample     \* the 0 of an entry that has not been merged

Roles == {"enqueue", "worker"}

ASSUME BenchmarkAssumption ==
  /\ NumSamples \in Nat
  /\ \A a \in Arguments : /\ a.type \in {1, 2, 3, 4, 5, 8}
                          /\ a.threads \in Seq(Nat)
  /\ Nobody \notin Roles \X Nat

VARIABLES
  argv,        \* the command line
  k, mpc,      \* main: round, place
  cur,         \* CUR_NUM_THREADS
  created, joined,   \* threads of this round created and joined by main
  afp,         \* the lines of the summary file, as sets of samples
  need, waiting,     \* barrier: its count, the threads inside barrier_wait
  tpc, i,      \* threads: place, loop index
  put, taken,  \* elements that went into and out of each queue
  lock,        \* who holds the mutex lock
  num,         \* numEnqueue and numDequeue, by role
  stamps       \* enqueuetimestamp and dequeuetimestamp, by role

mainvars  == <<argv, k, mpc, cur, created, joined, afp>>
queuevars == <<put, taken>>
mergevars == <<lock, num, stamps>>
vars == <<argv, k, mpc, cur, created, joined, afp, need, waiting, tpc, i, put,
          taken, lock, num, stamps>>

\* The value CUR_NUM_THREADS gets from threads[n].
CurNumThreads(a, n) ==
  IF a.type = 8 THEN a.threads[n] ELSE a.threads[n] \div 2

\* The threads of a round, in the order main creates and joins them.
Order(type, c) ==
  IF type = 8
    THEN [j \in 1 .. c + 1 |-> IF j = 1 THEN <<"enqueue", 0>>
                                        ELSE <<"worker", j - 2>>]
    ELSE [j \in 1 .. 2 * c |-> IF j % 2 = 1 THEN <<"enqueue", j \div 2>>
                                            ELSE <<"worker", j \div 2 - 1>>]

\* NUM_SAMPLES_PER_THREAD
PerThread(type, c, t) ==
  IF type = 8 /\ t[1] = "enqueue" THEN NumSamples ELSE NumSamples \div c

ThreadsOf(a, n) == Range(Order(a.type, CurNumThreads(a, n)))

MyOrder  == Order(argv.type, cur)
Calls(t) == PerThread(argv.type, cur, t)

\* No thread of the round is running: what main does in between rounds.
NoThreads == [t \in {} |-> 0]

Init ==
  /\ argv \in Arguments
  /\ k = 1
  /\ mpc = "next"
  /\ cur = 0
  /\ created = 0 /\ joined = 0
  /\ afp = <<>>
  /\ need = 0 /\ waiting = {}
  /\ tpc = NoThreads /\ i = NoThreads
  /\ put = NoThreads /\ taken = NoThreads
  /\ lock = Nobody
  /\ num = [r \in Roles |-> 0]
  /\ stamps = [r \in Roles |-> <<>>]

-----------------------------------------------------------------------------
(* Faulty variants of definitions below, one slip each.  No behaviour of   *)
(* the specification uses them: they show that the properties can fail.    *)

\* main goes on without waiting for the thread.
JoinAtOnce ==
  /\ mpc = "round"
  /\ created = Len(MyOrder)
  /\ joined < created
  /\ joined' = joined + 1
  /\ UNCHANGED <<argv, k, mpc, cur, created, afp, need, waiting, tpc, i>>
  /\ UNCHANGED queuevars /\ UNCHANGED mergevars

\* One pass too many.
PassOffByOne(t) ==
  /\ tpc[t] = "loop"
  /\ i[t] <= Calls(t)
  /\ i' = [i EXCEPT ![t] = @ + 1]
  /\ UNCHANGED <<tpc, need, waiting>>
  /\ UNCHANGED mainvars /\ UNCHANGED mergevars

\* The merge does not take the mutex.
LockNotTaken(t) ==
  /\ tpc[t] = "loop"
  /\ i[t] = Calls(t)
  /\ tpc' = [tpc EXCEPT ![t] = "copy"]
  /\ UNCHANGED <<i, need, waiting, lock, num, stamps>>
  /\ UNCHANGED mainvars /\ UNCHANGED queuevars

-----------------------------------------------------------------------------
(* main                                                                    *)

\* The head of a round: the queues are initialised, ResetCounters is called,
\* the global arrays are allocated and zeroed and the barrier gets its count.
Round(count, queues) ==
  LET c == CurNumThreads(argv, k) IN
  /\ mpc = "next"
  /\ k <= Len(argv.threads)
  /\ mpc' = "round"
  /\ cur' = c
  /\ created' = 0 /\ joined' = 0
  /\ need' = count
  /\ put' = [q \in queues |-> 0]
  /\ taken' = [q \in queues |-> 0]
  /\ num' = [r \in Roles |-> 0]
  /\ stamps' = [r \in Roles |-> [j \in 0 .. NumSamples - 1 |-> NoSample]]
  /\ tpc' = [t \in Range(Order(argv.type, c)) |-> "none"]
  /\ i' = [t \in Range(Order(argv.type, c)) |-> 0]
  /\ UNCHANGED <<argv, k, afp, waiting, lock>>

\* Faulty: the barrier counts the threads of one side only.
RoundHalfBarrier == argv.type = 1 /\ Round(CurNumThreads(argv, k), {0})

\* The cases of the switch.
RoundSQueue   == argv.type = 1 /\ Round(argv.threads[k], {0})
RoundCK       == argv.type = 2 /\ Round(argv.threads[k], {0})
RoundBasic    == argv.type = 3 /\ Round(argv.threads[k], {0})
RoundMultiple ==
  argv.type = 4 /\ Round(argv.threads[k], 0 .. CurNumThreads(argv, k) - 1)
RoundRcu      == argv.type = 5 /\ Round(argv.threads[k], {0})
RoundSpmc     ==
  /\ argv.type = 8
  /\ Round(CurNumThreads(argv, k) + 1, 0 .. CurNumThreads(argv, k) - 1)

\* pthread_create
Create ==
  /\ mpc = "round"
  /\ created < Len(MyOrder)
  /\ created' = created + 1
  /\ tpc' = [tpc EXCEPT ![MyOrder[created']] = "start"]
  /\ UNCHANGED <<argv, k, mpc, cur, joined, afp, need, waiting, i>>
  /\ UNCHANGED queuevars /\ UNCHANGED mergevars

\* pthread_join
Join ==
  /\ mpc = "round"
  /\ created = Len(MyOrder)
  /\ joined < created
  /\ tpc[MyOrder[joined + 1]] = "returned"
  /\ joined' = joined + 1
  /\ UNCHANGED <<argv, k, mpc, cur, created, afp, need, waiting, tpc, i>>
  /\ UNCHANGED queuevars /\ UNCHANGED mergevars

\* Every thread of the round has been joined.
AllJoined == mpc = "round" /\ joined = Len(MyOrder)

\* What ComputeSummary finds in the first numEnqueue and numDequeue entries.
Collected ==
  UNION {{stamps[r][j] : j \in 0 .. num[r] - 1} : r \in Roles}

\* ComputeSummary divides by numEnqueue and by numDequeue: without samples
\* the process dies.  Otherwise it writes a line and the arrays are freed;
\* case 5 then returns from main, the others go on with the next count.
ComputeSummary ==
  /\ AllJoined
  /\ IF \E r \in Roles : num[r] = 0
       THEN /\ mpc' = "crashed"
            /\ UNCHANGED <<k, afp, stamps>>
       ELSE /\ mpc' = IF argv.type = 5 THEN "end" ELSE "next"
            /\ k' = k + 1
            /\ afp' = Append(afp, Collected)
            /\ stamps' = [r \in Roles |-> <<>>]
  /\ UNCHANGED <<argv, cur, created, joined, need, waiting, tpc, i, lock, num>>
  /\ UNCHANGED queuevars

\* No thread count is left: the files are closed.
End ==
  /\ mpc = "next"
  /\ k > Len(argv.threads)
  /\ mpc' = "end"
  /\ UNCHANGED <<argv, k, cur, created, joined, afp, need, waiting, tpc, i>>
  /\ UNCHANGED queuevars /\ UNCHANGED mergevars

Main ==
  \/ RoundSQueue \/ RoundCK \/ RoundBasic \/ RoundMultiple \/ RoundRcu
  \/ RoundSpmc
  \/ Create \/ Join \/ ComputeSummary \/ End

-----------------------------------------------------------------------------
(* The handlers                                                            *)

\* pthread_barrier_wait: the thread that completes the count releases all.
Barrier(t) ==
  /\ tpc[t] = "start"
  /\ IF Cardinality(waiting) + 1 = need
       THEN /\ tpc' = [u \in DOMAIN tpc |->
                         IF u \in waiting \cup {t} THEN "loop" ELSE tpc[u]]
            /\ waiting' = {}
       ELSE /\ tpc' = [tpc EXCEPT ![t] = "wait"]
            /\ waiting' = waiting \cup {t}
  /\ UNCHANGED <<i, need>>
  /\ UNCHANGED mainvars /\ UNCHANGED queuevars /\ UNCHANGED mergevars

\* One pass of the timing loop: a call of the queue between two getticks.
Pass(t) ==
  /\ tpc[t] = "loop"
  /\ i[t] < Calls(t)
  /\ i' = [i EXCEPT ![t] = @ + 1]
  /\ UNCHANGED <<tpc, need, waiting>>
  /\ UNCHANGED mainvars /\ UNCHANGED mergevars

\* The call stores an element in queue q.
Put(t, q) ==
  /\ Pass(t)
  /\ put' = [put EXCEPT ![q] = @ + 1]
  /\ UNCHANGED taken

\* The call waits until there is an element in queue q, and takes it.
Take(t, q) ==
  /\ Pass(t)
  /\ taken[q] < put[q]
  /\ taken' = [taken EXCEPT ![q] = @ + 1]
  /\ UNCHANGED put

\* The call does not wait: it takes an element if there is one.
TryTake(t, q) ==
  /\ Pass(t)
  /\ taken' = [taken EXCEPT ![q] = IF @ < put[q] THEN @ + 1 ELSE @]
  /\ UNCHANGED put

\* pthread_mutex_lock(&lock)
Lock(t) ==
  /\ tpc[t] = "loop"
  /\ i[t] = Calls(t)
  /\ lock = Nobody
  /\ lock' = t
  /\ tpc' = [tpc EXCEPT ![t] = "copy"]
  /\ UNCHANGED <<i, need, waiting, num, stamps>>
  /\ UNCHANGED mainvars /\ UNCHANGED queuevars

\* The sample of the j-th pass of t's loop in round n.
Sample(n, t, j) == [round |-> n, thread |-> t, pass |-> j]


\* memcpy of the local array behind the entries merged so far
Copy(t) ==
  /\ tpc[t] = "copy"
  /\ stamps' = [stamps EXCEPT ![t[1]] =
       [j \in DOMAIN @ |-> IF j - num[t[1]] \in 0 .. Calls(t) - 1
                             THEN Sample(k, t, j - num[t[1]]) ELSE @[j]]]
  /\ tpc' = [tpc EXCEPT ![t] = "count"]
  /\ UNCHANGED <<i, need, waiting, lock, num>>
  /\ UNCHANGED mainvars /\ UNCHANGED queuevars

\* The counter is moved past the copy, the mutex unlocked; return 0.
Count(t) ==
  /\ tpc[t] = "count"
  /\ num' = [num EXCEPT ![t[1]] = @ + Calls(t)]
  /\ lock' = Nobody
  /\ tpc' = [tpc EXCEPT ![t] = "returned"]
  /\ UNCHANGED <<i, need, waiting, stamps>>
  /\ UNCHANGED mainvars /\ UNCHANGED queuevars

\* What all handlers do around the queue call.
Handler(t) == Barrier(t) \/ Lock(t) \/ Copy(t) \/ Count(t)

\* Faulty: the worker does not wait for its element.
worker_no_wait(t) ==
  argv.type = 1 /\ t[1] = "worker" /\ (Handler(t) \/ TryTake(t, 0))

enqueue_handler(t) ==
  argv.type = 1 /\ t[1] = "enqueue" /\ (Handler(t) \/ Put(t, 0))
worker_handler(t) ==
  argv.type = 1 /\ t[1] = "worker" /\ (Handler(t) \/ Take(t, 0))

\* The bmm queue refuses nothing here (it has room for NUM_SAMPLES) and the
\* worker repeats a dequeue that found nothing.
bmm_enqueue_handler(t) ==
  argv.type = 2 /\ t[1] = "enqueue" /\ (Handler(t) \/ Put(t, 0))
bmm_worker_handler(t) ==
  argv.type = 2 /\ t[1] = "worker" /\ (Handler(t) \/ Take(t, 0))

\* BasicDequeue does not wait for an element.
basicenqueue_handler(t) ==
  argv.type = 3 /\ t[1] = "enqueue" /\ (Handler(t) \/ Put(t, 0))
basicworker_handler(t) ==
  argv.type = 3 /\ t[1] = "worker" /\ (Handler(t) \/ TryTake(t, 0))

\* my_cpu, the argument given to pthread_create, is the number of the queue.
enqueuemultiple_handler(t) ==
  argv.type = 4 /\ t[1] = "enqueue" /\ (Handler(t) \/ Put(t, t[2]))
workermultiple_handler(t) ==
  argv.type = 4 /\ t[1] = "worker" /\ (Handler(t) \/ Take(t, t[2]))

\* cds_lfq_dequeue_rcu returns NULL when it finds nothing.
rculfenqueue_handler(t) ==
  argv.type = 5 /\ t[1] = "enqueue" /\ (Handler(t) \/ Put(t, 0))
rculfdequeue_handler(t) ==
  argv.type = 5 /\ t[1] = "worker" /\ (Handler(t) \/ TryTake(t, 0))

\* The only producer deals its elements out to the NUM_QUEUES queues in turn.
enqueuespmc_handler(t) ==
  /\ argv.type = 8 /\ t[1] = "enqueue"
  /\ Handler(t) \/ Put(t, i[t] % cur)
workerspmc_handler(t) ==
  argv.type = 8 /\ t[1] = "worker" /\ (Handler(t) \/ Take(t, t[2]))

Thread(t) ==
  \/ enqueue_handler(t) \/ worker_handler(t)
  \/ bmm_enqueue_handler(t) \/ bmm_worker_handler(t)
  \/ basicenqueue_handler(t) \/ basicworker_handler(t)
  \/ enqueuemultiple_handler(t) \/ workermultiple_handler(t)
  \/ rculfenqueue_handler(t) \/ rculfdequeue_handler(t)
  \/ enqueuespmc_handler(t) \/ workerspmc_handler(t)

\* The process is gone.
Exited == mpc \in {"end", "crashed"} /\ UNCHANGED vars

Next == Main \/ (\E t \in DOMAIN tpc : Thread(t)) \/ Exited

Spec == Init /\ [][Next]_vars

\* The scheduler runs main and every thread; the mutex is taken once by each
\* thread of a round, so that weak fairness lets every one of them have it.
Everyone ==
  UNION {UNION {ThreadsOf(a, n) : n \in 1 .. Len(a.threads)} : a \in Arguments}
Fairness ==
  /\ WF_vars(Main)
  /\ \A t \in Everyone : WF_vars(t \in DOMAIN tpc /\ Thread(t))

FairSpec == Spec /\ Fairness
-----------------------------------------------------------------------------
(* Properties                                                              *)

TypeOK ==
  /\ argv \in Arguments
  /\ k \in 1 .. Len(argv.threads) + 1
  /\ mpc \in {"next", "round", "end", "crashed"}
  /\ created \in Nat /\ joined \in 0 .. created
  /\ need \in Nat /\ waiting \subseteq DOMAIN tpc
  /\ \A t \in DOMAIN tpc : /\ t[1] \in Roles
                           /\ tpc[t] \in {"none", "start", "wait", "loop",
                                          "copy", "count", "returned"}
  /\ DOMAIN i = DOMAIN tpc /\ \A t \in DOMAIN i : i[t] \in 0 .. NumSamples
  /\ lock \in DOMAIN tpc \cup {Nobody}
  /\ num \in [Roles -> Nat]

\* "Set number of threads that will call the barrier_wait to total of enqueue
\* and dequeue threads": nobody times a call before every thread of the round
\* is there, so the latencies are measured under contention from the start.
StartsTogether ==
  \A t \in DOMAIN tpc : tpc[t] \notin {"none", "start", "wait"} =>
    \A u \in DOMAIN tpc : tpc[u] \notin {"none", "start"}

\* A merge writes inside the global arrays, which are still allocated.
CopyInBounds ==
  \A t \in DOMAIN tpc : tpc[t] = "copy" =>
    num[t[1]] .. num[t[1]] + Calls(t) - 1 \subseteq DOMAIN stamps[t[1]]

\* Nothing is merged twice or overwritten: the entries counted so far are
\* all different and belong to threads of this round that have merged.
MergedOnce ==
  mpc = "round" => \A r \in Roles :
    /\ \A j, h \in 0 .. num[r] - 1 : stamps[r][j] = stamps[r][h] => j = h
    /\ \A t \in DOMAIN tpc : tpc[t] = "returned" /\ t[1] = r =>
         \A p \in 0 .. Calls(t) - 1 :
           \E j \in 0 .. num[r] - 1 : stamps[r][j] = Sample(k, t, p)

\* Where Dequeue waits for its element, the workers together take all that was
\* put, whatever the order of the calls; the single producer of case 8, which
\* puts NUM_SAMPLES and not a multiple of the number of queues, leaves at most
\* one element in a queue.
QueuesDrained ==
  AllJoined =>
    /\ argv.type \in {1, 2, 4} => put = taken
    /\ argv.type = 8 => \A q \in DOMAIN put : put[q] - taken[q] \in {0, 1}

\* The usage text gives a list of thread counts: the program gets through it.
Completes == <>(mpc = "end")

\* ComputeSummary always has samples to divide by.
NeverCrashes == mpc # "crashed"

\* The program implements its promise: one line per thread count (case 5:
\* for the first only), computed from all the samples of its own round.
RoundsOf(a) ==
  IF a.type = 5 /\ Len(a.threads) > 1 THEN 1 ELSE Len(a.threads)
SamplesOf(a, n) ==
  UNION {{Sample(n, t, p) :
            p \in 0 .. PerThread(a.type, CurNumThreads(a, n), t) - 1} :
           t \in ThreadsOf(a, n)}
Report == INSTANCE BenchmarkReport WITH
            Rounds <- RoundsOf, Samples <- SamplesOf, args <- argv, lines <- afp
=============================================================================
