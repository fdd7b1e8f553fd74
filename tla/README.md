# TLA+ models of the queues and benchmarks of MyWork

The repository holds a family of concurrent queues in C and the programs that
measure them. This directory holds TLA+ modules for them, TLC configurations
that check the modules on small instances, and proofs, checked by TLAPS, that
hold for every instance. Source locations are given as `path:line`, relative to
the root of the repository.

Running it: `tlc -config SQueueLatency.cfg MCSQueue.tla` (and so on, see
*Runs*), `tlapm SQueue_proofs.tla` (and `BasicQueue_proofs`, `Benchmark_proofs`,
`BlockingQueue_proofs`, `MPIQueue_proofs`, `SQueueMultiple_proofs`, `SQueueRounds_proofs`,
`SemiBlockingQueue_proofs`).

## 1. The system

### 1.1 Components

| Component | Sources | State | Operations | What makes it correct |
|---|---|---|---|---|
| SQueue, the ticket ring | `QueueBenchmarks/squeue.c` | `head`, `tail` (last ticket given out on each side), `theQueue[MAX_SIZE]`, 0 = free slot | `InitQueue`, `Enqueue`, `Dequeue`, `isEmpty`; never called: `isFull`, `ClearQueue` | every element goes to the one Dequeue that holds its ticket; a slot is never overwritten while in use |
| Latency / throughput benchmark | `QueueBenchmarks/sqmain.c` | barrier, `lock`, `numEnqueue`, `numDequeue`, the two timestamp arrays, throughput totals | a handler per queue type and role; `main` with a case per queue type; `ResetCounters`, `ComputeSummary`, `rand_interval`, `cmpfunc` | threads start together; every sample is merged once, inside the array; one line per thread count; the program ends |
| SQueue, first version | `SQueue/squeue.c`, `SQueue/sqmain.c` | as above, plus tick totals | as above, without the empty check | as above; rounds follow one another without `InitQueue` |
| SQueueMultiple | `QueueBenchmarks/squeuemultiple.c` | an array of rings of `MAX_SIZE / numQueues` slots | `InitQueues`, `EnqueueMultiple`, `DequeueMultiple` | each thread's elements fit its ring |
| XTaskQueue | `QueueBenchmarks/xtaskqueue.c`, `mpi_queue/xtaskqueue.c` | a ring in a `struct queue` | `EnqueueToQ`, `DequeueFromQ`, `isQueueEmpty`, `isQueueFull` | every task runs once |
| BasicQueue | `QueueBenchmarks/basicqueue.c`, `SimpleQueueImpl/basicqueue.c` | a `CIRCLEQ` list and a mutex | `BasicEnqueue`, `BasicDequeue` | list well formed; a Dequeue returns an element |
| Blocking queue | `SimpleQueueImpl/blockingqueue.c` | ring, two semaphores, mutex | `enqueue_blocking`, `dequeue_blocking` | bounded FIFO, no deadlock |
| Semi-blocking queue | `SimpleQueueImpl/semiblockingqueue.c` | two linked lists: `in_queue`, pushed by compare-and-swap, and `out_queue`, popped under a mutex | `queue_put`, `queue_get` | FIFO, no node lost, no endless retry |
| Atomic queue | `SimpleQueueImpl/queue_atomic.c` | ring with atomic indices | `enqueue_atomic`, `dequeue_atomic` | FIFO, bounds |
| Lock-free queue | `SimpleQueueImpl/lockfreequeue.c` | linked list of pointer cells, `head`, `tail` and `next` moved by compare-and-swap, nodes freed by the pop | `qpush`, `qpop` | FIFO, no element lost |
| Sequential queue and drivers | `SimpleQueueImpl/queue.c`, `SimpleQueueImpl/main.c` | array queue; counters of the driver | the drivers' handlers | counts at the end |
| Lock benchmark | `locks/locks.c` | mutex and spin lock, local to each thread | lock/unlock loops | mutual exclusion |
| MPI program | `mpi_queue/main.c` | the server's queue, messages | server and worker ranks | every task is handed out once; all ranks stop |
| STL / Boost benchmark | `stlqueue/src/stlqueue.cpp` | queues of Boost, timestamp arrays with a shared index | producer and consumer threads | every sample recorded |

Not components: project files, Makefiles, test scripts, object files and
disassemblies (`*.dis`), editor backups. The thread lists in
`QueueBenchmarks/*.sh` and the flags in `QueueBenchmarks/Makefile` tell which
instances are real: latency builds (`-DLATENCY`) are the default.

### 1.2 How they interact

`main` of `sqmain.c` picks a queue type, and for each thread count of its list
initialises the queue, the counters and a barrier, creates enqueue and worker
threads, and joins them. A handler waits at the barrier, calls the queue in a
loop, timing each call, and at the end takes the mutex `lock` to append its
samples to the global arrays. The queues are shared memory: the ring's only
synchronisation are three atomic instructions (`squeue.c:99`, `:123`, `:135`).
The MPI program passes messages; no component persists anything, so there is
no recovery to model, and nothing in the repository times out.

### 1.3 What is hard

* Tickets are given out in one order and threads reach their slots in another.
* A Dequeue spins for its own Enqueue: if that never comes it spins for ever.
* Nothing keeps an Enqueue from running a whole ring ahead (the check at
  `squeue.c:95` is commented out).
* The slot is read and freed by two separate accesses (`squeue.c:132`, `:135`).
* `isEmpty` is stale when used, and is true only when `tail > MAX_SIZE`.
* The barrier count and the number of threads come from different expressions.
* Rounds reuse queues, counters and arrays.
* Between `sem_wait` and `sem_post` the semaphores of the blocking queue and its
  indices disagree, and threads post in another order than they stored.
* The semi-blocking queue compares a head it has read earlier, while nodes are
  popped, freed, allocated at the same address and pushed again.

`PROJECT.json` lists the hazards at their lines with the properties that cover
them; those without one have a note saying why.

## 2. Modules

| Module | What it is |
|---|---|
| `TicketFifo` | abstract: one global order of items, one of calls; the n-th call gets the n-th item |
| `SQueue` | the ring of `squeue.c` and the handler loops that drive it |
| `MCSQueue` | instances of `SQueue` for TLC |
| `SQueue_proofs` | theorems about `SQueue` and their proofs |
| `SQueueMultiple` | the rings of `squeuemultiple.c` under cases 4 and 8 of the benchmark |
| `SQueueMultiple_proofs` | no value taken twice; each queue whose share fits is a ticket queue, proved |
| `SQueueRounds` | `SQueue/sqmain.c` over its own ring: two series of rounds, nothing reset in between |
| `SQueueRounds_proofs` | complete sums in its lines and drained rounds, proved |
| `BenchmarkReport` | abstract: one complete line per thread count |
| `Benchmark` | rounds, barrier, handlers, merge and summary of `QueueBenchmarks/sqmain.c` |
| `MCBenchmark` | command lines for TLC |
| `Benchmark_proofs` | theorems about `Benchmark`: start, merge, report and drained queues, proved; also `LockFreeQueue` at its pace |
| `Fifo` | abstract: a bounded FIFO queue; a get on the empty queue waits or misses |
| `BlockingQueue` | `blockingqueue.c`: two semaphores, a mutex, an array |
| `BlockingQueue_proofs` | its inductive invariant and refinement, proved; also the lines and the counter of `LockBench` |
| `SemiBlockingQueue` | `semiblockingqueue.c`: compare-and-swap list and mutex list |
| `SemiBlockingQueue_proofs` | every node in one place, and the two lists are one FIFO queue, proved |
| `LockFreeQueue` | `lockfreequeue.c`: pushes and pops by compare-and-swap, with nodes that are freed |
| `BasicQueue` | `basicqueue.c`: the links of the `CIRCLEQ` list behind a mutex |
| `BasicQueue_proofs` | its links, its order and when it cannot be found empty, proved |
| `LockBench` | `locks.c`: rounds of threads that add to one counter under a lock |
| `MPIQueue` | `mpi_queue/main.c`: server, workers, messages, rings |
| `MPIQueue_proofs` | requests and answers belong together; every task reaches its worker once, proved |

`BlockingQueue`, `SemiBlockingQueue`, `LockFreeQueue` and `BasicQueue` are shown
to implement `Fifo`; `SQueue` and each ring of `SQueueMultiple` implement
`TicketFifo`; `Benchmark` implements `BenchmarkReport`. `Benchmark` takes the
queues as counts of elements, which is what the queue modules establish.

Definitions whose comment begins with "Faulty variant" belong to no
specification: each is one definition with a plausible slip in it, and shows
that the property it is paired with in `PROJECT.json` can fail.

Undefined behaviour (a freed or NULL address followed, a division by zero) is a
state of its own, in which everything stops: `"undefined"` in `LockFreeQueue`,
`"crashed"` in `Benchmark`.

### 2.1 SQueue

Each access to shared memory is an action of its own. Enqueue is `EnqClaim`
(the atomic add on `tail`) and `EnqStore`. Dequeue is `DeqReadTail`, then
`DeqFail` or `DeqNotEmpty` (the two loads of `isEmpty`), `DeqClaim` (the atomic
add on `head`), `DeqSpin` (the exit of the while loop), `DeqRead` (the second
load of the slot) and `DeqClear` (the atomic and). A spinning dequeuer takes no
step, which is the same as looping without effect.

An element is a pair of a thread and its loop index plus one: the code stores
the index only, the thread tells equal values apart for the properties. `puts`,
`takes` and `got` are history variables: nothing reads them but properties (and
`CallNo`, which stands for the dequeuer's loop index).

`isEmpty` reads `tail` once: `tail` is not volatile and the compiler, at the
Makefile's `-O2`, uses one load for both uses; `head` is read afterwards. On the
x86 machines the program is written for (`rdtscp`), the atomic instructions are
full barriers, and a plain store of a slot is seen by others in program order,
so interleaving semantics is what the code gets: a delayed store only delays
`EnqStore`.

`ChecksEmpty` is TRUE for `QueueBenchmarks/squeue.c` and FALSE for
`SQueue/squeue.c`, whose Dequeue has no `isEmpty` call.

Two restrictions of `Spec` matter:

* `WorkloadFits`: no more than `MaxSize` calls of each kind. This is the
  latency benchmark, where `NUM_SAMPLES` calls are divided among the threads
  and `MAX_SIZE` is `NUM_SAMPLES` (`squeue.h:13-14`).
* `PacedSpec`: no step takes an index a whole ring beyond a ticket in use
  (`Paced`). The code does not enforce it; it is what a caller must ensure.
  `SQueueWrap.cfg` shows what happens otherwise.

### 2.2 Benchmark

The twelve handlers repeat the same text around a different queue call, and
so do the cases of `main`. The module has the text once (`Barrier`, `Lock`,
`Copy`, `Count` in `Handler`; `Round`, `Create`, `Join`, `ComputeSummary`) and
an operator per handler and case that says what differs: queue type, which
queue, whether the call waits for an element (`Take`) or not (`TryTake`), the
barrier's count. A queue is reduced to two counters; that the ring hands its
elements out one to one is what `SQueue` shows.

A sample is the record of its round, thread and pass, not a number of ticks.
The arrays are functions; after `free` their domain is empty, so that a late
access is out of bounds. A summary line (`afp`) is the set of samples it was
computed from. Case 5 returns inside the loop over the thread counts
(`sqmain.c:2122`), and so does the model. `lock` is one mutex for both roles.

Left out: the THROUGHPUT build, the cases that run on OpenMP (6, 7), calibration and
the statistics themselves.

### 2.3 BlockingQueue

A call is five actions, in the order of the code: `EnqWait` or `DeqWait`
(`sem_wait`), `Lock`, `EnqAccess` or `DeqAccess` (the index and the slot, both
touched under the mutex only), `Unlock`, `EnqPost` or `DeqPost` (`sem_post` and the
return). Semaphores are counters, the mutex names its holder. The code takes the
remainder by `QUEUE_SIZE` and not by `capacity`; every caller creates the queue
with `QUEUE_SIZE`, so that one constant stands for both.

The drivers of `main.c` have one enqueuing thread, which finishes before the
workers start. The module allows any number of enqueuers and any order, which is
what the mutex in `enqueue_blocking` is for; the drivers' executions are among
them. `dispose_queue_blocking` is never called.

### 2.4 SemiBlockingQueue

`PutLink` is the read of `in_queue` with the store into the new node, which no one
else sees yet; `PutPush` is the compare-and-swap, which goes back to `PutLink`
when it fails. `GetLock` takes the mutex and looks at `out_queue`, `GetLoad` and
`GetTake` are the loop around the compare-and-swap, `GetReverse` is one turn of
the reversal, and `GetPop` pops, unlocks and returns.

The client is that of `main.c` (`malloc_aligned`, then `queue_put`) with more
threads, and it frees what it gets, so that `malloc` may return the same address
while another thread still holds it in `seen`. The item of a node is in the
structure around it, which the putter fills in before the call.

The head of a list is a node or `Null` and the lists themselves are derived
(`Fifo`'s queue is `out_queue` followed by `in_queue` backwards), so that a node
linked twice or left out is a state the model can be in.

### 2.5 LockFreeQueue

A push allocates a node and a pointer cell; both are named by the item of the
push, those of `q_initialize` by `Entry`. `queue->head` never changes after
`q_initialize`, only the node its cell points to (`entry`). The Makefile builds
this program without optimisation, so each access to shared memory in the source
is one in the program: `PushTail` to `PushHelp` and `PopTail` to `PopFreeBoth` are
these accesses in the code's order. `lockfreequeue.c:110` stores a node where a
cell belongs; `tail` is then a misdirected `<<item>>`.

Freed nodes and cells are kept in two sets. Following one of them, NULL or a
misdirected tail, or freeing twice, is undefined and stops the model; addresses
are not used again, since a use of an old address is undefined before the new
contents could matter.

The queue is not correct for arbitrary overlap (see *Known counterexamples*).
What it does promise is checked for clients that keep a *pace*, chosen in `Init`
by `paced`: one push and one pop at a time, and side by side only while two items
or more lie between them. Without the pace, what is checked is that no push that
has returned is lost as long as nothing undefined has happened. The drivers of
`main.c` do not keep the pace. The branch for `count == 0` in `qpop` is never taken, as
counts start at 1 and only grow; `queue_free` runs after all threads have ended.

### 2.6 BasicQueue

The circular list is modelled by its links, the head being a node of its own
(`Hd`); `InsertTail` and `Unlink` are the macros of `sys/queue.h`. That the removal
of the head from the empty list changes nothing follows from the macro's text;
the call then returns what lies behind the head in memory (`Behind`), since the
code reads `elem` of the head itself. `fillFirst` chooses the program: `main` of
`SimpleQueueImpl` fills the list before it creates the workers, case 3 of the benchmark
lets both kinds of threads loose at once. There a dequeue of the empty list is a
miss, as in `Fifo`.

### 2.7 SQueueMultiple

`NUM_QUEUES` rings share the slots. Case 4 gives each queue a producer and a
worker of its own; in case 8 one producer deals its values out in turn (`Target`).
The ring operations are those of `SQueue`, again access by access: what is new is
whether the share of the values fits the share of the slots, which in case 8
needs `NUM_SAMPLES` to be a multiple of the number of queues (`Fits`). The barrier
is `Benchmark`'s business: the threads here have passed it.

### 2.8 SQueueRounds

The first version of the program. In the first series of rounds `main` enqueues
everything itself (`Fill`), in the second the enqueuers are joined before the
workers are created, so that the two ends of the ring are never used at once
there. The ring with both ends in use and without the empty check is `SQueue` with
`ChecksEmpty` FALSE. The ring's indices, the tick sums and the ring itself go on
from round to round; a sum is modelled as the set of what was added to it, a
printed line as the sum it was printed from.

### 2.9 LockBench

`Round`, `Create`, `Join` and `End` are `main`; `Acquire`, `Load`, `Store`, `Release`,
`SinglePass` and `Finish` are `worker_handler`. `counter++` is a read and a write.
The semaphore, the mutex and the spin lock of runs 1 to 3 are locals of the
handler, so that no thread ever waits for one: for `counter` those runs are the same as
run 4, which takes none. `main` asks for run 6 only. In run 5 a pass adds to a counter
of the thread's own. The sum of the averages, `dequeue_ticks`, is the set of what
was added to it.

### 2.10 MPIQueue

Messages between two ranks are sequences (MPI keeps their order); which sender the
server receives from is its choice (`MPI_ANY_SOURCE`). Whether `MPI_Send` returns
before the message is received is up to the MPI library: `eager` chooses, and
`Sent` and `Answered` are the returns from the send. Each rank fills its own ring, one
step per task (`Fill`, `Filled`), but only the server's is used; all else a rank does
to its own rings between two MPI calls is one step. `Take` includes
`DequeueFromQ`'s answer -1 for an empty ring and its wait for the slot.

## 3. Runs

| Run | Instance | Shows |
|---|---|---|
| `SQueueLatency` | 2 enqueuers, 2 dequeuers, 5 slots, 5 samples (so 2 calls each: the division leaves one over) | all safety properties, termination, refinement of `TicketFifo` with fairness |
| `SQueuePaced` | 2 + 2 threads, 2 slots, 6 elements, 8 dequeues | tickets keep exactly one owner; slots are reused up to three times, and the inductive invariant `IndInv` holds until an index is a whole ring ahead |
| `BenchmarkLatency` | each queue type with two thread counts, up to 6 threads, 7 samples | barrier, merge, arrays, complete report |
| `BenchmarkOdd` | queue type 1, thread count 3 | *violation*: the program hangs at the barrier |
| `BlockingUnbalanced` | 2 + 2 threads, 8 enqueues, 4 dequeues, 2 slots | semaphores, indices and slots agree; threads block on the full or empty queue only; refinement of `Fifo` with fairness |
| `SemiBlocking` | 3 putters, 2 getters with 2 calls each, 3 addresses | no node lost, refinement of `Fifo` with fairness, every call returns |
| `BasicQueue` | 2 + 2 threads, 4 calls of each kind, both programs | links agree, no miss when the list is filled first, refinement of `Fifo`, all calls return |
| `LockFree` | 2 + 2 threads; 2 calls each at the pace, 1 each without | at the pace: nothing undefined, no leak, refinement of `Fifo`, every call returns; always: no returned push is lost |
| `SQueueMultiple` | 3 queues, 6 and 7 values, cases 4 and 8 | each queue whose share fits is a ticket queue; no value twice; the round ends |
| `SQueueRounds` | thread counts 1 and 2 in both series, 6 samples, 7 slots | every round leaves the ring empty, wherever it stands; lines are complete; the program ends |
| `LockBench` | rounds of 1, 2, 4 threads with 2 passes each; runs 0, 5, 6 | no addition is lost; lines are about their own round |
| `MPIQueue` | 3 workers, 2 requests each, a ring of exactly 6 slots, both kinds of send | requests and answers belong together, the server's total, all tasks handed out in order, all ranks stop |

Bounds. Two threads of each kind are enough for every race between two calls
of either kind, and between one of each; tickets of the same slot need more
calls than slots, which `SQueuePaced` has three times over. There TLC expands only
states that satisfy `Paced` (a CONSTRAINT) and still checks the invariants in the
first states that do not: `TicketsOwned` holds in those too, `SafeWhilePaced`
claims nothing for them. `isEmpty` gets to
its comparison only when `tail > MAX_SIZE`, which happens there too. In
`BenchmarkLatency` the sample count is not a multiple of the thread counts, the
counts go up and down between the rounds, and type 8 has more queues than
samples per worker differ by.
`BlockingUnbalanced` goes round its two slots twice and more, sees each semaphore
at 0 and at its maximum, and ends with the enqueuers blocked, which is why deadlock
is not checked there; `BlocksOnlyWhenUnbalanced` says that nothing else blocks.
In `SemiBlocking` three putters are the fewest for a
stale compare-and-swap: one has read a head, the second's node is that head, is
popped and freed, and the third puts a node at the same address. Two getters race for the
mutex, and with four gets for three items some come back with nothing.
`LockFree` reaches its helping branches, which need a push between another's two
compare-and-swaps, without the pace. `SQueueMultiple` has a sample count with and one
without a remainder; with the latter one queue of case 8 gets a value more than
it has slots. `SQueueRounds` has a ring that is no multiple of a round, so that
each round starts at another slot. `LockBench` has
three rounds, the last with more threads than any race over one counter needs. In
`MPIQueue` three workers let two compete for the server while a third is being
answered; the tasks fill the ring to its last slot.

Fairness. Weak fairness of each thread and of main: the operating system runs
every runnable thread. No fairness is assumed inside a call, so a thread may be
preempted between any two accesses. The mutex of the merge is taken once by
each thread of a round, so weak fairness is enough for each to get it. In the
blocking, semi-blocking, basic and lock-free queue every thread makes a fixed
number of calls: weak
fairness of each is enough, because a thread can be overtaken, or fail its
compare-and-swap, only as often as the others make calls. In `MPIQueue` every
rank is a process of its own and MPI delivers what has been sent; a worker has at
most one message under way, so that the server cannot pass over one for ever.
`LockBench` has safety properties only and no fairness.

Symmetry is used in the safety run `SQueuePaced` only.

## 4. Findings and known counterexamples

The finding: `sqmain.c:1902`, an odd thread count makes the program hang
(`BenchmarkOdd`). The comment above it says that the barrier's count is the
number of enqueue and dequeue threads, and the usage text at `:1703` lists 57.

Known counterexamples. The following instances are kept beside the runs; TLC
finds each of the properties violated, by what the code does. They mark the
limits of what the runs above show, and the bounds of legal use.

| Command | Property | Source | What happens |
|---|---|---|---|
| `tlc -config SQueueWrap.cfg MCSQueue.tla` | `StoredUntilTaken` | `QueueBenchmarks/squeue.c:102` | nothing keeps an Enqueue from storing over an element a whole ring behind |
| `tlc -config SQueueHang.cfg MCSQueue.tla` | `DequeueReturns` | `QueueBenchmarks/squeue.c:127` | a Dequeue past the stale empty check waits for an element that never comes; the comment at `:113-114` promises a failure |
| `tlc -config BenchmarkOne.cfg MCBenchmark.tla` | `NeverCrashes` | `QueueBenchmarks/sqmain.c:1612` | thread count 1 creates no thread and the summary divides by zero |
| `tlc -config LockFreeRace.cfg LockFreeQueue.tla` | `NeverUndefined` | `SimpleQueueImpl/lockfreequeue.c:165` | a push and a pop over the last item: a freed node is used |
| `tlc -config MPISummary.cfg MPIQueue.tla` | `SummaryOfSamples` | `mpi_queue/main.c:61` | the summary reads timestamps that were never taken |
| `tlc -config SpmcOverwrite.cfg SQueueMultiple.tla` | `InOrder` | `QueueBenchmarks/squeuemultiple.c:98` | the value left over by the division is stored over another |
| `tlc -config SQueueRoundsHang.cfg SQueueRounds.tla` | `Termination` | `SQueue/sqmain.c:146` | more elements in a round than slots: workers wait for overwritten ones |
| `tlc -config SQueueRoundsTicks.cfg SQueueRounds.tla` | `OwnTicks` | `SQueue/sqmain.c:173` | the tick sums are never set back: a line includes earlier rounds |
| `tlc -config BasicEmpty.cfg BasicQueue.tla` | `ReturnsNumbers` | `QueueBenchmarks/basicqueue.c:27` | a dequeue of the empty list returns what lies behind its head |

## 5. Proofs

### 5.1 SQueue

`SQueue_proofs` proves, for any finite sets of threads, any number of slots and
any number of calls:

* `TypeCorrect`: `Spec => []TypeOK`.
* `TicketsAlwaysOwned`: `Spec => []TicketsOwned`: also in a ring that is
  overrun, every ticket belongs to one call. This is what the two atomic adds
  give by themselves.
* `PacedSafety`: `PacedSpec => [](StoredUntilTaken /\ FifoMatch)`.
* `PacedSlotDiscipline`: `PacedSpec => SlotDiscipline`.
* `PacedInvariant`: `PacedSpec => [](Paced /\ SafeWhilePaced)`: slots may be used again
  and again, and the workload may be any.
* `LatencyPaced`: with `WorkloadFits`, `Spec => PacedSpec`; hence
  `LatencySafety`, the safety properties for the latency benchmark.
* `LatencyAccounted`: with `WorkloadFits` and `Balanced` (as many calls of each kind),
  `Spec => []AllAccountedFor`: when all calls have returned, every element has been
  returned once and the ring is empty.
* `LatencyRefines`: with `WorkloadFits`, `Spec => Fifo!Spec`: every step of the
  ring is a step of the ticket queue or stutters.

The only assumption is `SQueueAssumption` (finite thread sets, at least one
slot, markers distinct from elements).

The invariant is in two layers. `BaseInv` (types, `EnqLocal`, `DeqLocal`,
`PutTickets`, `TakeTickets`) holds in every behaviour: every ticket belongs to
exactly one call, and a call under way knows its ticket. `SlotInv` and
`MatchInv` need the pacing: two tickets in use are less than a ring apart, so by
`ModInjective` they have different slots (`SlotsApart`), and a slot holds the
element of the one ticket stored and not yet cleared. `StoredUntilTaken` alone is not
inductive: that the store hits a free slot follows only from knowing that every
occupied slot has an uncleared ticket. `LatencyPaced` counts: the tickets are
distinct members of a set of at most `MaxSize` calls.

### 5.2 Benchmark

`Benchmark_proofs` proves, for any set of command lines of the modelled cases and
any `NUM_SAMPLES`:

* `TypeCorrect`: `Spec => []TypeOK`.
* `AllStartTogether`: `Spec => []StartsTogether`.
* `MergesFit`: `Spec => []CopyInBounds`.
* `EachMergedOnce`: `Spec => []MergedOnce`.
* `ReportsAll`: `Spec => Report!Spec`: the only step that writes is
  `ComputeSummary`, and what it writes is the line that is due.
* `AllDrained`: `Spec => []QueuesDrained`: at the end of a round nothing is left in a
  queue.

The invariant is in layers. `RoundInv` says where main is in its round,
who is in the barrier (`BarrierInv`) and that whoever copies or counts holds the
mutex (`LockInv`). `StartsTogether` needs main's part of it: a barrier opens only
when its count is reached, and the count is at least the number of threads of the
round (`CasesKeepInv`; for an odd thread count it is more, the barrier never opens,
and the theorem still holds). `MergeInv` says, role by role, that the entries counted are
the samples of the threads that have returned, as many of each as its share and each once
(`Booked`), and that a thread between its copy and its count has its samples right behind
them. That a copy stays inside the array is then a matter of counting (`RoomForAll`):
a thread that copies has a number of its own below `CUR_NUM_THREADS`, so that fewer than that
many have merged before, and the shares fit into `NUM_SAMPLES` (`SharesFit`). `LinesInv` ties
the lines written to the round. `CollectedIsAll` joins the three: when all threads
have been joined, the arrays hold all samples of the round and no other. `DrainInv` says that
the two counts of a queue are the calls made on it so far, role by role and queue by queue
(`Counting`; `OneMoreCall` is the step of one call), and `DoneInv` that a thread past its loop has
made all its calls; when all threads are done, both counts are the shares of both roles
added up, which are the same. The only assumption is `BenchmarkAssumption`.

### 5.3 BlockingQueue

`BlockingQueue_proofs` proves, for any finite sets of threads, any number of
slots and any number of calls:

* `SemaphoresCount`: `Spec => []IndInv`. Every slot is free, reserved by an
  enqueuer that has yet to store, occupied, or kept by a dequeuer that has yet
  to give it back, and the two semaphores count accordingly.
* `BlockingRefines`: `Spec => Buffer!Spec`: each access to a slot is a step of
  `Fifo`, all other steps stutter.

`IndInv` has four parts: types, the loop counters of calls under way, the mutex
(`HoldsLock`), and the count (`SlotsAccounted`). From the count follows that
an enqueuer about to store finds fewer than `QueueSize` items and a dequeuer
about to read finds one (`Window`); from that and `SlotsDiffer` that a
store hits no slot of the window, so that the sequence between the indices
changes at its end only. The count itself is kept because a step moves one
thread between two of the sets counted (`OneMoves`, `Counting`). The only
assumption is `BlockingAssumption`: finite, disjoint sets of threads, at least
one slot, markers distinct from tasks and threads.

### 5.4 LockBench

The second half of `BlockingQueue_proofs` is about the other program built on locks. The two
modules share no state; the names of `LockBench` (`BenchInit`, `BenchSpec` and so on) differ
from those of `BlockingQueue` so that one module can extend both. It proves, for any number of
threads and passes and every value of `run`:

* `LinesAreOwn`: `Spec => []LinesOwn`.
* `CounterIsExact`: `Spec => []CounterExact`: with the OpenMP lock or the atomic
  add the counter is the number of additions made.

`RoundInv` says where main is in its round, which threads exist, and that the
members of `dequeueTicks` are the threads that have returned; `LinesOwn` follows
because main prints when all have been joined. `LockInv` says that whoever is
between `omp_set_lock` and `omp_unset_lock` holds `olock`, so that nobody
changes the counter between its read and its write. `CounterInv` is the count
itself, kept because an addition puts one pair into `Additions`. `CounterExact`
alone is not inductive: a store adds one to what was read, and only `LockInv` says
that this is still the counter. The only assumption is `LockBenchAssumption`.

### 5.5 MPIQueue

`MPIQueue_proofs` proves, for any number of ranks and samples and for sends that block
or do not:

* `EveryAnswerBelongs`: `Spec => []OneMessage`, the part of `Exchange` beyond the
  types.
* `ServerCountsAnswers`: `Spec => []ServerCounts`.
* `ServerStopsLast`: the server, which stops by its total, does not stop before
  every worker has been answered `NUM_SAMPLES` times.
* `ExchangeHolds`: `Spec => []Exchange`: `OneMessage` together with the types of all
  variables, the rings included.
* `AllComplete`: `Spec => []Complete`: when all ranks have stopped, every task handed out has
  reached the worker that asked for it, once and in the order of the ring, and no message
  is left over.

`MsgInv` joins `OneMessage` with the ranges of the loop counters. `OneMessage` names
the place of a worker's message (request, server, answer, nowhere) and is
inductive with it, since the server answers the source it has heard from. For
`ServerCounts`, an answer puts one pair into `AllAnswered`. When
the counter reaches its total, `AllAnswered` has as many members as
`Workers \X (1 .. NumSamples)` and is therefore all of it. `RingInv` says what the rings
hold: from its first step to its last the server's is the interval of the tasks between those answered and
those filled in (`Holding`), and what it has handed out is the tasks in order. `ServedInv` bounds the
server's counter by its place, so that it never takes from an empty ring; `BarrierInv` says that only
who has made all requests gets to the second barrier and nobody passes it alone;
`ReportInv` has the types of the timestamps. `AllComplete` joins them with `MsgInv` at
the end of the program. The only assumption is `MPIAssumption`.

### 5.6 SQueueMultiple

`SQueueMultiple_proofs` proves, for any number of queues, samples and both cases:

* `TypeCorrect`: `Spec => []TypeOK`, also where a value may be stored over another.
* `EachTakenOnce`: `Spec => []TakenOnce`, also there: a worker gets values of its own queue
  and none of them twice.
* `InOrderIfFits`: `Spec => [](Fits => InOrder)`: if the shares fit, every worker
  gets the values of its queue in the order in which they were put there, and is never
  told that the queue is empty.
* `TicketsImplemented`: `Spec => ImplementsTickets`: if the shares fit, every step is a step of
  `TicketFifo` for each queue, or none. It assumes `HasMax`, that the numbers of samples
  to choose from have a largest one; the ticket queue wants one bound for its calls.

`BaseInv` are the types. `ShareInv` counts the values of a queue: in case 4 they are the
calls its thread has begun, in case 8 queue q has got its n-th value when the producer
has passed `q + (n - 1) * NUM_QUEUES` (`Dealt`, kept by `DealNext`). From that follows
that a queue gets at most one value more than it has slots, and none with `Fits`
(`RoomForShare`), so that a ticket is the number of its slot but for the last one
(`SlotOfTicket`). `QueueInv` then says of each queue where its tail and its head are, and of
each slot yet to be read which values it may hold: the one of its own ticket, or the one too
many (`MayHold`). The values of a queue ascend (`OrderInv`), so that even when one
is stored over another none is taken twice. `TakenOnce` and `InOrder` alone are not inductive: that a
worker reads a value of its own queue needs all of that. With `Fits` the sequence of
values got is the beginning of the one put, which is what the refinement rests on.
The only other assumption is `SQueueMultipleAssumption`.

### 5.7 SQueueRounds

`SQueueRounds_proofs` proves, for any number of threads, samples and slots:

* `TypeCorrect`: `Spec => []TypeOK`, also in a ring that is overrun.
* `SumsAreComplete`: `Spec => []LinesComplete`.
* `RoundsDrain`: if `NumSamples` is a multiple of every thread count (`EvenShares`) and at most
  `MaxSize`, `Spec => []RoundDrained`: every round takes out all that it put in and leaves
  the ring empty for the next, wherever it started.

`TicksInv` says that a thread that has returned has added its ticks, and that in the second
series the enqueuers' sum is complete when the workers are created; `ThreadInv` that
main has joined returned threads only. When the last one is joined the sum that is printed
holds the ticks of all.

`RoundsDrain` needs both hypotheses. The constants of the program satisfy the first
(128000000 samples, `SQueue/sqmain.c:22`, and thread counts that are powers of two); with a
remainder the workers would leave values behind. They do not satisfy the second
(32 * 1024 * 1024 slots, `SQueue/squeue.h:13`), and `SQueueRoundsHang` shows what happens
then; a build with fewer samples does. `DrainInv` counts the tickets drawn in a round (`CountInv`) by the calls begun,
gives every ticket in use one owner (`HeldInv`), says that the slots of the tickets in use and no
others are occupied (`SlotInv`), and that what was put has either been taken or is in a slot,
once (`ElemInv`). No more than `MaxSize` tickets are in use at a time, so that their
slots differ although the ring goes on from round to round.
The only other assumption is `SQueueRoundsAssumption`.

### 5.8 BasicQueue

`BasicQueue_proofs` proves, for any finite set of enqueuers, any dequeuers, any number of
calls and both programs:

* `ListStaysLinked`: `Spec => []WellLinked`.
* `CallsAreFifo`: `Spec => Queue!Spec`: inserting and removing are steps of `Fifo`, all other
  steps stutter.
* `ListNeverMisses`: `Spec => []NeverMisses`, if the dequeuers are finitely many and make no more
  calls together than main puts entries, as in `SimpleQueueImpl`, where the workers
  divide `NUM_TASKS` calls among them.

The invariant `ListInv` says that there is a sequence of entries, all different, which the
links of both directions join to a circle through the head (`Chain`), and that it holds what
has been put and not been taken. The macros are treated as operations on links:
`InsertTailAppends`, `UnlinkTakesFirst` and `UnlinkNothing` (the head of an empty list) say what
each makes of the sequence. The model's `Entries` walks along the links by a recursive function.
No induction is needed for it: the function that goes round the sequence satisfies the
recursive definition, hence `Walk` does, and a least place at which the two differ
cannot be (`WalkGoesRound`, with `LeastElement` from the well-foundedness of the naturals). So
`Entries` is the sequence (`EntriesAre`), before and after a step. The mutex (`LockInv`) is what makes
the entry read by `DequeueFirst` still the first when it is removed (`PlaceInv`). For
`ListNeverMisses`, a dequeuer with a call left means that fewer values have been returned than
main has put (`FewAreTaken`, by counting calls), so that an entry is left. The only other assumption is
`BasicQueueAssumption`.

### 5.9 SemiBlockingQueue

`SemiBlockingQueue_proofs` proves, for any finite sets of putters, getters and nodes and any
number of calls:

* `NodesAreInOnePlace`: `Spec => []EachNodeOnce`.
* `SemiBlockingRefines`: `Spec => Buffer!Spec`: a put takes effect with its compare-and-swap, a
  get with its pop or, when it misses, when it reads an empty `in_queue`; all other steps stutter.

The invariant has two parts. `CallsInv` is about the calls: a putter owns its node from
`malloc_aligned` to the push, the node's next field is what it has seen in `in_queue`
(`PutterInv`), and who is in `queue_get` holds the mutex and looks at `in_queue` only while
`out_queue` is empty (`GetterInv`). `Whole` says that there are three sequences of nodes, all
different, which the next fields lead through from `in_queue`, from `out_queue` and from the part
in hand (`Laid`), and that these, the allocator and the putters share out the nodes
(`Placed`). `EachNodeOnce` alone is not inductive: that a successful compare-and-swap
puts the node in front of the list, whatever has happened since its next field was written, is
what `PutterInv` adds. The value compared is enough: an address that was popped, freed, allocated
and pushed again in between is again the head of the list, and the node put
in front of it leads there.

One lemma for each step says what it makes of the three sequences (`PushAddsNode`,
`TakeMovesList`, `ReverseMovesNode`, `PopTakesNode`). `ListIs` shows that the model's `List`, which
goes along the next fields by a recursive function, returns the sequence of the invariant;
`OrderWith` and `ItemFacts` then turn those lemmas into steps of `Fifo`. That there is room
for what is put follows from counting the nodes (`NodesAddUp`). The only assumption is
`SemiBlockingAssumption`.

### 5.10 LockFreeQueue

`Benchmark_proofs` also proves, for any finite sets of pushers and poppers and any number
of calls:

* `LockFreeConsistent`: `QueueSpec => []Consistent`.
* `LockFreeRefines`: `QueueSpec => ImplementsFifo`: at the pace a push takes effect with the
  compare-and-swap that links its node (`PushLink`), a pop with the one that takes the node out
  (`PopUnlink`) or makes the last node the entry (`PopMoveEntry`), and a pop misses when it finds
  `tail` at the entry's cell (`PopTail`); all other steps stutter.
* `PushesStayAtThePace`: `QueueSpec => [](paced => PushesStay)`.

`LockFreeInv` has a part that holds for all clients (`TypesInv`: types, where a thread of
each kind can be, and that a thread inside a call has a call left) and one for clients at the pace:
there is a sequence `C` of items, all different, that the next fields lead through from the
entry node (`ChainInv`), nothing in it freed. The properties alone are not inductive; what is
added is

* what has been linked so far and where it went (`PushedInv`): in `C`, the entry, freed, or
  in the hands of the pop that will free it;
* that `tail` is the last cell of `C` except between the two compare-and-swaps of a
  push or of a pop that took the last item (`TailInv`);
* that what a call has read is still so (`PushFacts`, `PopFacts`, `GoneFacts`): the tail,
  node and next that a push compares, and the first and second node a pop works on;
* that while both kinds are in a call `C` has two items or more (`ApartInv`), except that a pop that
  has only its two frees left may meet any push.

With these no compare-and-swap fails at the pace and no helping branch is entered
(`PushNeverHelps`, `PopNeverHelps`), and every address followed belongs to the entry or
to `C`. `ChainIs` shows that the model's `Chain`, cut at the first NULL of `Path`, is `C`; one lemma
for each step says what it makes of `C`. `PushesStayAtThePace` follows from the refinement:
what is put and not yet got is in the queue. The only assumption is `LockFreeAssumption`.

### 5.11 Model-checked only

Everything about liveness (`Termination`, `DequeueReturns`, `Completes`, the
fairness parts of the refinements and the `<>[]` part of `ImplementsFifo`) and
`BlocksOnlyWhenUnbalanced` (it speaks of ENABLED) are beyond the prover. The
part of `PushesStay` that speaks of clients without the pace is checked by TLC only: there
several calls work on the same nodes, and the invariant of a proof would have to follow
every overlap up to the first undefined step.

## 6. Not modelled

* The THROUGHPUT build of the benchmark: its loops run on a clock, read `ret` before it is written
  (`sqmain.c:270`) and take the indices past 2^31; the tickets of the models do not wrap around.
* Cases 6 and 7 (`XTaskQueue` under OpenMP tasks): who runs which task is OpenMP's.
  The operations of the ring are those of `MPIQueue`.
* The statistics: `cmpfunc` (which subtracts the low halves of two tick counts),
  `rand_interval`, the median, calibration. They follow the last action of a round and
  change no other state.
* `stlqueue.cpp`: the queues are Boost's; the driver is that of `Benchmark` with one queue type.
* The atomic queue: `main.c` only initialises it. The sequential queue: one thread,
  one array.
* The CK handlers (`ck_worker_handler`, `ck_enqueue_handler`), which nothing
  calls; `ClearQueue`, `PrintQueue`, `isFull` and their likes, which nothing calls or
  which run when all threads have ended.
* Scripts, project files and disassemblies.

What would come next: the lock-free queue without the pace, up to the first undefined step; the
atomic queue as a library of its own; the THROUGHPUT loops with indices of fixed width.
