--------------------------- MODULE SQueueMultiple ---------------------------
(***************************************************************************)
(* QueueBenchmarks/squeuemultiple.c: NUM_QUEUES ticket rings that share    *)
(* the NUM_SAMPLES slots, driven as cases 4 and 8 of sqmain.c do once the  *)
(* barrier has opened.                                                     *)
(*                                                                         *)
(* Case 4 pairs enqueue thread q with worker q on queue q; in case 8 one   *)
(* thread deals NUM_SAMPLES values out to the queues in turn, and worker q *)
(* takes NUM_SAMPLES / CUR_NUM_THREADS of them from queue q.  The ring is  *)
(* that of SQueue, of QUEUE_SIZE = NUM_SAMPLES / NUM_QUEUES slots: what is *)
(* new is whether a queue's share of the values fits its share of slots.   *)
(*                                                                         *)
(* The values are the numbers i + 1 the program enqueues, 0 a free slot.   *)
(***************************************************************************)
EXTENDS Integers, Sequences, SequencesExt

CONSTANTS
  QueueTypes,   \* the cases of main to choose from: 4, 8
  SampleCounts, \* the values of NUM_SAMPLES to choose from
  NumThreads    \* CUR_NUM_THREADS = NUM_QUEUES

ASSUME SQueueMultipleAssumption ==
  /\ QueueTypes \subseteq {4, 8}
  /\ SampleCounts \subseteq Nat
  /\ NumThreads \in Nat \ {0}

Free == 0
Fail == -1

VARIABLES
  queueType, numSamples, \* arguments of the program
  head, tail,          \* of each queue: last tickets given out
  data,                \* of each queue: the slots
  epc, i, curTail,     \* enqueue threads: next step, loop index, cur_tail
  dpc, curHead, elem,  \* workers: next step, cur_head, elem
  puts,                \* history of each queue: value of every tail ticket
  got                  \* history of each worker: what its calls returned

args  == <<queueType, numSamples>>
queuevars == <<head, tail, data>>
evars == <<epc, i, curTail, puts, args>>
dvars == <<dpc, curHead, elem, got, args>>
vars  == <<queuevars, evars, dvars>>

\* Queues, their workers, and the enqueue threads.
Queues == 0 .. NumThreads - 1

\* QUEUE_SIZE, with MAX_SIZE = NUM_SAMPLES
QueueSize == numSamples \div NumThreads

\* Calls of enqueue thread e, of which case 8 creates one only, and of a worker.
EnqCalls(e) == CASE queueType = 4             -> numSamples \div NumThreads
                 [] queueType = 8 /\ e = 0    -> numSamples
                 [] queueType = 8 /\ e # 0    -> 0
DeqCalls == numSamples \div NumThreads

Slot(ticket) == ticket % QueueSize

\* InitQueues has run and every thread has passed the barrier.
Init ==
  /\ queueType \in QueueTypes /\ numSamples \in SampleCounts
  /\ head = [q \in Queues |-> -1]
  /\ tail = [q \in Queues |-> -1]
  /\ data = [q \in Queues |-> [s \in 0 .. QueueSize - 1 |-> Free]]
  /\ epc = [e \in Queues |-> "claim"]
  /\ i = [e \in Queues |-> 0]
  /\ curTail = [e \in Queues |-> -1]
  /\ puts = [q \in Queues |-> <<>>]
  /\ dpc = [q \in Queues |-> "test"]
  /\ curHead = [q \in Queues |-> -1]
  /\ elem = [q \in Queues |-> Free]
  /\ got = [q \in Queues |-> <<>>]

\* The queue an enqueue thread puts its value into: queues[my_cpu] in case 4,
\* queues[i % NUM_QUEUES] in case 8.
Target(e) == IF queueType = 8 THEN i[e] % NumThreads ELSE e

-----------------------------------------------------------------------------
(* EnqueueMultiple(i + 1, queues[Target], Target)                          *)

\* cur_tail = __sync_add_and_fetch(&q->tail, 1)
Claim(e) ==
  LET q == Target(e) IN
  /\ epc[e] = "claim"
  /\ i[e] < EnqCalls(e)
  /\ tail' = [tail EXCEPT ![q] = @ + 1]
  /\ curTail' = [curTail EXCEPT ![e] = tail'[q]]
  /\ puts' = [puts EXCEPT ![q] = Append(@, i[e] + 1)]
  /\ epc' = [epc EXCEPT ![e] = "store"]
  /\ UNCHANGED <<i, head, data>> /\ UNCHANGED dvars

\* q->data[cur_tail % QUEUE_SIZE] = elem; return TRUE
Store(e) ==
  /\ epc[e] = "store"
  /\ data' = [data EXCEPT ![Target(e)][Slot(curTail[e])] = i[e] + 1]
  /\ i' = [i EXCEPT ![e] = @ + 1]
  /\ epc' = [epc EXCEPT ![e] = "claim"]
  /\ UNCHANGED <<curTail, puts, head, tail>> /\ UNCHANGED dvars

-----------------------------------------------------------------------------
(* DequeueMultiple(queues[q], q), by worker q.                             *)

Return(q, result) ==
  /\ got' = [got EXCEPT ![q] = Append(@, result)]
  /\ dpc' = [dpc EXCEPT ![q] = "test"]

\* Faulty variant: the test for empty does not ask whether the queue has been
\* filled once.
TestUngated(q) ==
  /\ dpc[q] = "test"
  /\ Len(got[q]) < DeqCalls
  /\ IF head[q] = tail[q]
       THEN Return(q, Fail)
       ELSE dpc' = [dpc EXCEPT ![q] = "claim"] /\ UNCHANGED got
  /\ UNCHANGED <<curHead, elem>> /\ UNCHANGED queuevars /\ UNCHANGED evars

\* if ((q->tail - QUEUE_SIZE) > 0 && q->head == q->tail) return -1.  Nobody but
\* worker q moves q->head: the test is as good as atomic with the read of
\* q->tail.
Test(q) ==
  /\ dpc[q] = "test"
  /\ Len(got[q]) < DeqCalls
  /\ IF tail[q] - QueueSize > 0 /\ head[q] = tail[q]
       THEN Return(q, Fail)
       ELSE dpc' = [dpc EXCEPT ![q] = "claim"] /\ UNCHANGED got
  /\ UNCHANGED <<curHead, elem>> /\ UNCHANGED queuevars /\ UNCHANGED evars

\* cur_head = __sync_add_and_fetch(&q->head, 1)
Line(q) ==
  /\ dpc[q] = "claim"
  /\ head' = [head EXCEPT ![q] = @ + 1]
  /\ curHead' = [curHead EXCEPT ![q] = head'[q]]
  /\ dpc' = [dpc EXCEPT ![q] = "spin"]
  /\ UNCHANGED <<elem, got, tail, data>> /\ UNCHANGED evars

\* Faulty variant: no waiting for the element.
SpinOnce(q) ==
  /\ dpc[q] = "spin"
  /\ dpc' = [dpc EXCEPT ![q] = "read"]
  /\ UNCHANGED <<curHead, elem, got>>
  /\ UNCHANGED queuevars /\ UNCHANGED evars

\* Faulty variant: the loop watches the slot behind its own.
SpinNext(q) ==
  /\ dpc[q] = "spin"
  /\ dpc' = [dpc EXCEPT ![q] =
               IF data[q][Slot(curHead[q] + 1)] # Free THEN "read" ELSE @]
  /\ UNCHANGED <<curHead, elem, got>>
  /\ UNCHANGED queuevars /\ UNCHANGED evars

\* while (!*target) {}
Spin(q) ==
  /\ dpc[q] = "spin"
  /\ data[q][Slot(curHead[q])] # Free
  /\ dpc' = [dpc EXCEPT ![q] = "read"]
  /\ UNCHANGED <<curHead, elem, got>>
  /\ UNCHANGED queuevars /\ UNCHANGED evars

\* elem = *target
Read(q) ==
  /\ dpc[q] = "read"
  /\ elem' = [elem EXCEPT ![q] = data[q][Slot(curHead[q])]]
  /\ dpc' = [dpc EXCEPT ![q] = "clear"]
  /\ UNCHANGED <<curHead, got>>
  /\ UNCHANGED queuevars /\ UNCHANGED evars

\* __sync_fetch_and_and(target, 0); return elem
Clear(q) ==
  /\ dpc[q] = "clear"
  /\ data' = [data EXCEPT ![q][Slot(curHead[q])] = Free]
  /\ Return(q, elem[q])
  /\ UNCHANGED <<curHead, elem, head, tail>> /\ UNCHANGED evars

-----------------------------------------------------------------------------
Enqueue(e) == Claim(e) \/ Store(e)
Dequeue(q) == Test(q) \/ Line(q) \/ Spin(q) \/ Read(q) \/ Clear(q)

\* Every handler has left its loop.
Finished ==
  /\ \A e \in Queues : epc[e] = "claim" /\ i[e] = EnqCalls(e)
  /\ \A q \in Queues : dpc[q] = "test" /\ Len(got[q]) = DeqCalls

Terminated == Finished /\ UNCHANGED vars

Next ==
  \/ \E e \in Queues : Enqueue(e)
  \/ \E q \in Queues : Dequeue(q)
  \/ Terminated

Spec == Init /\ [][Next]_vars

\* The operating system runs every thread.
FairSpec ==
  /\ Spec
  /\ \A e \in Queues : WF_vars(Enqueue(e))
  /\ \A q \in Queues : WF_vars(Dequeue(q))
-----------------------------------------------------------------------------
(* Properties                                                              *)

TypeOK ==
  /\ queueType \in QueueTypes /\ numSamples \in SampleCounts
  /\ head \in [Queues -> Int] /\ tail \in [Queues -> Int]
  /\ data \in [Queues -> [0 .. QueueSize - 1 -> 0 .. numSamples]]
  /\ epc \in [Queues -> {"claim", "store"}]
  /\ \A e \in Queues : i[e] \in 0 .. EnqCalls(e)
  /\ curTail \in [Queues -> Int]
  /\ puts \in [Queues -> Seq(1 .. numSamples)]
  /\ dpc \in [Queues -> {"test", "claim", "spin", "read", "clear"}]
  /\ curHead \in [Queues -> Int]
  /\ elem \in [Queues -> 0 .. numSamples]
  /\ got \in [Queues -> Seq(-1 .. numSamples)]

\* Do the shares of the queues fit their slots?  In case 8 only if NUM_SAMPLES is
\* a multiple of the number of queues.
Fits == queueType = 4 \/ numSamples % NumThreads = 0

\* "This automatically handles wrap-around when the end of the array is
\* reached": a worker gets the values of its queue in the order they were put.
\* Not so where the shares do not fit.
InOrder == \A q \in Queues : IsPrefix(got[q], puts[q])

\* Even where one value may be stored over another a worker gets values of its
\* own queue, each of them at most once, and is never told that it is empty.
TakenOnce ==
  /\ TypeOK
  /\ \A q \in Queues : /\ Range(got[q]) \subseteq Range(puts[q])
                        /\ IsInjective(got[q])

\* ... and the round ends: main joins every thread.
Termination == <>[]Finished

\* Where the shares fit, each queue is a ticket queue of its own: its k-th
\* value is the k-th that the thread puts there.
Value(v) == IF queueType = 8 THEN (v - 1) \div NumThreads + 1 ELSE v
Home(q, v) == IF queueType = 8 THEN (v - 1) % NumThreads ELSE q
Ring(q) == INSTANCE TicketFifo WITH
  Producers <- {q}, Consumers <- {q},
  PutLimit <- Max(SampleCounts), TakeLimit <- Max(SampleCounts),
  puts  <- [n \in 1 .. Len(puts[q]) |-> <<Home(q, puts[q][n]), Value(puts[q][n])>>],
  takes <- [n \in 1 .. head[q] + 1 |-> <<q, n>>],
  got   <- [c \in {q} |->
             [n \in 1 .. Len(got[q]) |-> <<Home(q, got[q][n]), Value(got[q][n])>>]]
ImplementsTickets ==
  /\ Fits => \A q \in Queues : Ring(q)!Init
  /\ [][Fits => \A q \in Queues : [Ring(q)!Next]_(Ring(q)!vars)]_vars
=============================================================================
