------------------------------- MODULE SQueue -------------------------------
(***************************************************************************)
(* The ticket ring of QueueBenchmarks/squeue.c (and, with ChecksEmpty      *)
(* FALSE, of SQueue/squeue.c), driven by enqueue_handler and               *)
(* worker_handler threads.                                                 *)
(*                                                                         *)
(* Enqueue and Dequeue each take a ticket with one atomic add, on tail or  *)
(* on head, and go to the slot ticket % MAX_SIZE.  An enqueuer stores      *)
(* without looking; a dequeuer spins until the slot is not 0, reads it and *)
(* writes 0 back.  Every access to shared memory is a step of its own.     *)
(*                                                                         *)
(* An element is <<e, k>>: the value k that thread e enqueues in its k-th  *)
(* iteration (k >= 1, so never the 0 that marks a free slot), tagged with  *)
(* its thread so that equal values of two threads can be told apart.       *)
(***************************************************************************)
EXTENDS Integers, Sequences, FiniteSets

CONSTANTS
  Enqueuers,    \* threads in enqueue_handler
  Dequeuers,    \* threads in worker_handler
  MaxSize,      \* MAX_SIZE, the number of slots
  EnqSamples,   \* Enqueue calls per enqueuer
  DeqSamples,   \* Dequeue calls per dequeuer
  ChecksEmpty,  \* does Dequeue begin with "if(isEmpty()) return -1" ?
  Null,         \* the 0 of a free slot
  Fail          \* the -1 of a Dequeue that found the queue empty

Atom == Enqueuers \X (1 .. EnqSamples)
Call == Dequeuers \X (1 .. DeqSamples)

ASSUME SQueueAssumption ==
  /\ IsFiniteSet(Enqueuers)
  /\ IsFiniteSet(Dequeuers)
  /\ MaxSize \in Nat \ {0}
  /\ EnqSamples \in Nat
  /\ DeqSamples \in Nat
  /\ ChecksEmpty \in BOOLEAN
  /\ Null \notin Atom
  /\ Fail \notin Atom \cup {Null}

VARIABLES
  head, tail,   \* last ticket given to a dequeuer, to an enqueuer
  theQueue,     \* the slots
  epc, i, curTail,              \* enqueuer: next step, loop index, cur_tail
  dpc, seenTail, curHead, elem, \* dequeuer: next step, tail as isEmpty read
                                \* it, cur_head, elem
  puts,         \* history: element of every tail ticket, in ticket order
  takes,        \* history: Dequeue call of every head ticket
  got           \* history: what the calls of each dequeuer returned

evars == <<epc, i, curTail, tail, puts>>
dvars == <<dpc, seenTail, curHead, elem, head, takes, got>>
vars  == <<head, tail, theQueue, epc, i, curTail, dpc, seenTail, curHead, elem,
           puts, takes, got>>

Slot(ticket) == ticket % MaxSize

\* InitQueue has run and no thread has entered its loop.
Init ==
  /\ head = -1
  /\ tail = -1
  /\ theQueue = [s \in 0 .. MaxSize - 1 |-> Null]
  /\ epc = [e \in Enqueuers |-> "claim"]
  /\ i = [e \in Enqueuers |-> 0]
  /\ curTail = [e \in Enqueuers |-> -1]
  /\ dpc = [d \in Dequeuers |-> "isEmpty"]
  /\ seenTail = [d \in Dequeuers |-> -1]
  /\ curHead = [d \in Dequeuers |-> -1]
  /\ elem = [d \in Dequeuers |-> Null]
  /\ puts = <<>>
  /\ takes = <<>>
  /\ got = [d \in Dequeuers |-> <<>>]

-----------------------------------------------------------------------------
(* Faulty variants of the steps below, one slip each.  No behaviour of the *)
(* specification uses them: they show that the properties can fail.        *)

\* One iteration too many.
EnqClaimOffByOne(e) ==
  /\ epc[e] = "claim"
  /\ i[e] <= EnqSamples
  /\ tail' = tail + 1
  /\ curTail' = [curTail EXCEPT ![e] = tail + 1]
  /\ puts' = Append(puts, <<e, i[e] + 1>>)
  /\ epc' = [epc EXCEPT ![e] = "store"]
  /\ UNCHANGED <<i, theQueue>> /\ UNCHANGED dvars

\* fetch_and_add instead of add_and_fetch: the ticket before one's own.
EnqClaimStale(e) ==
  /\ epc[e] = "claim"
  /\ i[e] < EnqSamples
  /\ tail' = tail + 1
  /\ curTail' = [curTail EXCEPT ![e] = tail]
  /\ puts' = Append(puts, <<e, i[e] + 1>>)
  /\ epc' = [epc EXCEPT ![e] = "store"]
  /\ UNCHANGED <<i, theQueue>> /\ UNCHANGED dvars

\* The shared tail is read again instead of the ticket.
EnqStoreAtTail(e) ==
  /\ epc[e] = "store"
  /\ theQueue' = [theQueue EXCEPT ![Slot(tail)] = <<e, i[e] + 1>>]
  /\ i' = [i EXCEPT ![e] = @ + 1]
  /\ epc' = [epc EXCEPT ![e] = "claim"]
  /\ UNCHANGED <<tail, curTail, puts>> /\ UNCHANGED dvars

\* isEmpty compares head and tail whatever tail is.
DeqReadTailUngated(d) ==
  /\ dpc[d] = "isEmpty"
  /\ Len(got[d]) < DeqSamples
  /\ seenTail' = [seenTail EXCEPT ![d] = tail]
  /\ dpc' = [dpc EXCEPT ![d] = IF ChecksEmpty THEN "compare" ELSE "claim"]
  /\ UNCHANGED <<curHead, elem, head, takes, got, theQueue>>
  /\ UNCHANGED evars

\* No waiting for the element.
DeqSpinUnguarded(d) ==
  /\ dpc[d] = "spin"
  /\ dpc' = [dpc EXCEPT ![d] = "read"]
  /\ UNCHANGED <<seenTail, curHead, elem, head, takes, got, theQueue>>
  /\ UNCHANGED evars

\* The shared head is read again instead of the ticket.
DeqReadAtHead(d) ==
  /\ dpc[d] = "read"
  /\ elem' = [elem EXCEPT ![d] = theQueue[Slot(head)]]
  /\ dpc' = [dpc EXCEPT ![d] = "clear"]
  /\ UNCHANGED <<seenTail, curHead, head, takes, got, theQueue>>
  /\ UNCHANGED evars

\* The same, for the slot that is set back to 0.
DeqClearAtHead(d) ==
  /\ dpc[d] = "clear"
  /\ theQueue' = [theQueue EXCEPT ![Slot(head)] = Null]
  /\ got' = [got EXCEPT ![d] = Append(@, elem[d])]
  /\ dpc' = [dpc EXCEPT ![d] = "isEmpty"]
  /\ UNCHANGED <<seenTail, curHead, elem, head, takes>> /\ UNCHANGED evars

\* The slot is not set back to 0.
DeqWithoutClear(d) ==
  /\ dpc[d] = "clear"
  /\ got' = [got EXCEPT ![d] = Append(@, elem[d])]
  /\ dpc' = [dpc EXCEPT ![d] = "isEmpty"]
  /\ UNCHANGED <<seenTail, curHead, elem, head, takes, theQueue>>
  /\ UNCHANGED evars

-----------------------------------------------------------------------------
(* Enqueue(i + 1), called for i = 0 .. EnqSamples - 1.                     *)

\* cur_tail = __sync_add_and_fetch(&tail, 1)
EnqClaim(e) ==
  /\ epc[e] = "claim"
  /\ i[e] < EnqSamples
  /\ tail' = tail + 1
  /\ curTail' = [curTail EXCEPT ![e] = tail + 1]
  /\ puts' = Append(puts, <<e, i[e] + 1>>)
  /\ epc' = [epc EXCEPT ![e] = "store"]
  /\ UNCHANGED <<i, theQueue>> /\ UNCHANGED dvars

\* theQueue[cur_tail % MAX_SIZE] = elem; return TRUE
EnqStore(e) ==
  /\ epc[e] = "store"
  /\ theQueue' = [theQueue EXCEPT ![Slot(curTail[e])] = <<e, i[e] + 1>>]
  /\ i' = [i EXCEPT ![e] = @ + 1]
  /\ epc' = [epc EXCEPT ![e] = "claim"]
  /\ UNCHANGED <<tail, curTail, puts>> /\ UNCHANGED dvars

-----------------------------------------------------------------------------
(* Dequeue(), called DeqSamples times.                                     *)

\* The call a dequeuer is in: got has one entry per call that returned.
CallNo(d) == Len(got[d]) + 1

\* isEmpty reads tail, once: the queue is not empty while tail <= MAX_SIZE.
DeqReadTail(d) ==
  /\ dpc[d] = "isEmpty"
  /\ CallNo(d) <= DeqSamples
  /\ seenTail' = [seenTail EXCEPT ![d] = tail]
  /\ dpc' = [dpc EXCEPT ![d] = IF ChecksEmpty /\ tail - MaxSize > 0
                               THEN "compare" ELSE "claim"]
  /\ UNCHANGED <<curHead, elem, head, takes, got, theQueue>>
  /\ UNCHANGED evars

\* isEmpty compares head with the tail it read, and says empty: return -1.
DeqFail(d) ==
  /\ dpc[d] = "compare"
  /\ head = seenTail[d]
  /\ got' = [got EXCEPT ![d] = Append(@, Fail)]
  /\ dpc' = [dpc EXCEPT ![d] = "isEmpty"]
  /\ UNCHANGED <<seenTail, curHead, elem, head, takes, theQueue>>
  /\ UNCHANGED evars

\* isEmpty says not empty.
DeqNotEmpty(d) ==
  /\ dpc[d] = "compare"
  /\ head # seenTail[d]
  /\ dpc' = [dpc EXCEPT ![d] = "claim"]
  /\ UNCHANGED <<seenTail, curHead, elem, head, takes, got, theQueue>>
  /\ UNCHANGED evars

\* cur_head = __sync_add_and_fetch(&head, 1)
DeqClaim(d) ==
  /\ dpc[d] = "claim"
  /\ head' = head + 1
  /\ curHead' = [curHead EXCEPT ![d] = head + 1]
  /\ takes' = Append(takes, <<d, CallNo(d)>>)
  /\ dpc' = [dpc EXCEPT ![d] = "spin"]
  /\ UNCHANGED <<seenTail, elem, got, theQueue>> /\ UNCHANGED evars

\* while (!*target) {} is left when the slot is seen to hold an element.
DeqSpin(d) ==
  /\ dpc[d] = "spin"
  /\ theQueue[Slot(curHead[d])] # Null
  /\ dpc' = [dpc EXCEPT ![d] = "read"]
  /\ UNCHANGED <<seenTail, curHead, elem, head, takes, got, theQueue>>
  /\ UNCHANGED evars

\* elem = *target, a second read of the slot
DeqRead(d) ==
  /\ dpc[d] = "read"
  /\ elem' = [elem EXCEPT ![d] = theQueue[Slot(curHead[d])]]
  /\ dpc' = [dpc EXCEPT ![d] = "clear"]
  /\ UNCHANGED <<seenTail, curHead, head, takes, got, theQueue>>
  /\ UNCHANGED evars

\* __sync_fetch_and_and(target, 0); return elem
DeqClear(d) ==
  /\ dpc[d] = "clear"
  /\ theQueue' = [theQueue EXCEPT ![Slot(curHead[d])] = Null]
  /\ got' = [got EXCEPT ![d] = Append(@, elem[d])]
  /\ dpc' = [dpc EXCEPT ![d] = "isEmpty"]
  /\ UNCHANGED <<seenTail, curHead, elem, head, takes>> /\ UNCHANGED evars

-----------------------------------------------------------------------------
Enqueue(e) == EnqClaim(e) \/ EnqStore(e)

isEmpty(d) == DeqReadTail(d) \/ DeqFail(d) \/ DeqNotEmpty(d)

Dequeue(d) ==
  isEmpty(d) \/ DeqClaim(d) \/ DeqSpin(d) \/ DeqRead(d) \/ DeqClear(d)

Finished ==
  /\ \A e \in Enqueuers : i[e] = EnqSamples
  /\ \A d \in Dequeuers : Len(got[d]) = DeqSamples

\* Every loop has ended: the threads go on to merge their timestamps.
Terminated == Finished /\ UNCHANGED vars

Next ==
  \/ \E e \in Enqueuers : Enqueue(e)
  \/ \E d \in Dequeuers : Dequeue(d)
  \/ Terminated

Spec == Init /\ [][Next]_vars

\* The scheduler runs every thread; a dequeuer in its spin loop that never
\* sees an element takes no step of the model.
Fairness ==
  /\ \A e \in Enqueuers : WF_vars(Enqueue(e))
  /\ \A d \in Dequeuers : WF_vars(Dequeue(d))

FairSpec == Spec /\ Fairness

-----------------------------------------------------------------------------
(* Workloads.                                                              *)

\* The latency benchmark: NUM_SAMPLES = MAX_SIZE calls of each kind are
\* divided among the threads, so neither index ever passes the last slot.
WorkloadFits ==
  /\ Cardinality(Enqueuers) * EnqSamples <= MaxSize
  /\ Cardinality(Dequeuers) * DeqSamples <= MaxSize

\* Ticket t has been through the whole cycle of its slot.
Cleared(t) ==
  /\ t <= head
  /\ LET c == takes[t + 1] IN c[2] <= Len(got[c[1]])

\* Nobody has run a whole ring ahead of a ticket still in use.  The code does
\* not enforce this (the full check of Enqueue is commented out): it is what
\* its callers must ensure.
Paced ==
  \A t \in 0 .. tail \cup 0 .. head :
    Cleared(t) \/ (tail - t < MaxSize /\ head - t < MaxSize)

PacedSpec == Init /\ [][Next /\ Paced']_vars

PacedFairSpec == PacedSpec /\ Fairness
-----------------------------------------------------------------------------
(* Properties.                                                             *)

\* Every index, slot and local variable of squeue.c and of its two handler
\* loops stays in its range; the histories hold one entry per ticket.
TypeOK ==
  /\ head \in Int /\ head = Len(takes) - 1
  /\ tail \in Int /\ tail = Len(puts) - 1
  /\ theQueue \in [0 .. MaxSize - 1 -> Atom \cup {Null}]
  /\ epc \in [Enqueuers -> {"claim", "store"}]
  /\ i \in [Enqueuers -> 0 .. EnqSamples]
  /\ curTail \in [Enqueuers -> Int]
  /\ dpc \in [Dequeuers ->
                {"isEmpty", "compare", "claim", "spin", "read", "clear"}]
  /\ seenTail \in [Dequeuers -> Int]
  /\ curHead \in [Dequeuers -> Int]
  /\ elem \in [Dequeuers -> Atom \cup {Null}]
  /\ puts \in Seq(Atom)
  /\ takes \in Seq(Call)
  /\ got \in [Dequeuers -> Seq(Atom \cup {Null, Fail})]

\* The Enqueue that holds ticket t has returned TRUE.
Stored(t) == LET a == puts[t + 1] IN a[2] <= i[a[1]]

\* The Dequeue that holds ticket t has copied the slot into its elem.
ReadBy(t) ==
  /\ t <= head
  /\ LET c == takes[t + 1]
     IN c[2] <= Len(got[c[1]]) \/ dpc[c[1]] = "clear"

\* "Returns: TRUE if enqueue was successful": an element whose Enqueue has
\* returned TRUE stays in its slot until the Dequeue with its ticket has read
\* it.  Nothing in Enqueue or Dequeue looks at the ticket of what a slot
\* holds, so this is up to how far the two indices can run apart.
StoredUntilTaken ==
  \A t \in 0 .. tail :
    Stored(t) => theQueue[Slot(t)] = puts[t + 1] \/ ReadBy(t)

\* First in, first out, by ticket: the Dequeue that holds ticket t returns
\* the element of the Enqueue that holds ticket t, whatever the order in
\* which the threads reach the slots.
FifoMatch ==
  \A t \in 0 .. head :
    Cleared(t) => /\ t <= tail
                  /\ LET c == takes[t + 1]
                     IN got[c[1]][c[2]] = puts[t + 1]

\* When all loops have ended, what the dequeuers got is what the enqueuers
\* put, each element exactly once, and the ring is clean for ClearQueue-less
\* reuse: every slot is 0 again.
AllAccountedFor ==
  Finished =>
    /\ \A a \in Atom : \E c \in Call : got[c[1]][c[2]] = a
    /\ \A c1, c2 \in Call : got[c1[1]][c1[2]] = got[c2[1]][c2[2]] => c1 = c2
    /\ \A s \in 0 .. MaxSize - 1 : theQueue[s] = Null

\* What a step may do to a slot: put an element into a free slot, or free it
\* after that very element has been read.  An element is never replaced by
\* another, and the 0 a dequeuer writes back (a fetch_and_and of its own,
\* long after the read) never erases a newer element.
SlotStep(s) ==
  \/ theQueue[s] = Null
  \/ \E d \in Dequeuers : DeqClear(d) /\ Slot(curHead[d]) = s
                                      /\ elem[d] = theQueue[s]

SlotDiscipline ==
  [][\A s \in 0 .. MaxSize - 1 : theQueue'[s] = theQueue[s] \/ SlotStep(s)]_vars

\* The benchmark ends: no dequeuer is left spinning in Dequeue for an element
\* that never comes, so that main's pthread_join calls return.
Termination == <>Finished

\* "Returns: TRUE if dequeue was successful or FALSE if the dequeue failed":
\* a Dequeue that has started returns.
DequeueReturns ==
  \A d \in Dequeuers : dpc[d] = "spin" ~> dpc[d] = "isEmpty"

\* The ring implements the ticket queue: the add on tail is Put, the add on
\* head is Take, the return of Dequeue is Give; every other step stutters.
Fifo == INSTANCE TicketFifo WITH
          Producers <- Enqueuers, Consumers <- Dequeuers,
          PutLimit <- EnqSamples, TakeLimit <- DeqSamples
ImplementsTicketFifo == Fifo!FairSpec
-----------------------------------------------------------------------------
(* The inductive invariant behind the safety properties, for paced use.    *)

\* Dequeuer d is between its add on head and its return.
Holding(d) == dpc[d] \in {"spin", "read", "clear"}

\* An enqueuer about to store owns the last ticket it took.
EnqLocal ==
  \A e \in Enqueuers : epc[e] = "store" =>
    /\ i[e] < EnqSamples
    /\ curTail[e] \in 0 .. tail
    /\ puts[curTail[e] + 1] = <<e, i[e] + 1>>

\* A dequeuer past its isEmpty check still has a call to make, and once past
\* its add on head it owns that ticket.
DeqLocal ==
  \A d \in Dequeuers :
    /\ dpc[d] # "isEmpty" => CallNo(d) <= DeqSamples
    /\ Holding(d) => /\ curHead[d] \in 0 .. head
                     /\ takes[curHead[d] + 1] = <<d, CallNo(d)>>

\* Every ticket belongs to one call, which has returned or is under way.
PutTickets ==
  /\ \A t \in 0 .. tail, e \in Enqueuers :
       puts[t + 1][1] = e /\ ~Stored(t) => epc[e] = "store" /\ curTail[e] = t
  /\ \A t, u \in 0 .. tail : puts[t + 1] = puts[u + 1] => t = u

TakeTickets ==
  /\ \A t \in 0 .. head, d \in Dequeuers :
       takes[t + 1][1] = d /\ ~Cleared(t) => Holding(d) /\ curHead[d] = t
  /\ \A t, u \in 0 .. head : takes[t + 1] = takes[u + 1] => t = u

\* "Should be thread safe, with no locks, just one atomic operation": even when
\* the ring is overrun, no two calls ever share a ticket, no ticket is lost,
\* and a call works on the slot of its own ticket until it returns.
TicketsOwned == EnqLocal /\ DeqLocal /\ PutTickets /\ TakeTickets

\* A slot holds the element of the ticket that is stored and not yet cleared,
\* and is free when there is none.
SlotInv ==
  /\ \A t \in 0 .. tail :
       Stored(t) /\ ~Cleared(t) => theQueue[Slot(t)] = puts[t + 1]
  /\ \A s \in 0 .. MaxSize - 1 : theQueue[s] # Null =>
       \E t \in 0 .. tail : Slot(t) = s /\ Stored(t) /\ ~Cleared(t)

\* What a dequeuer has seen in its slot is the element of its ticket; what a
\* call has returned was the element of its ticket.
MatchInv ==
  /\ \A d \in Dequeuers :
       /\ dpc[d] \in {"read", "clear"} =>
            curHead[d] <= tail /\ Stored(curHead[d])
       /\ dpc[d] = "clear" => elem[d] = puts[curHead[d] + 1]
  /\ \A t \in 0 .. head : Cleared(t) => t <= tail /\ Stored(t)
  /\ FifoMatch

\* The first line is inductive for every behaviour, the second needs the
\* pacing.
IndInv ==
  /\ TypeOK /\ TicketsOwned
  /\ Paced /\ SlotInv /\ MatchInv

\* Slots that are used again: up to the first index that is a whole ring ahead
\* (a run of TLC goes no further), the invariant holds with all it implies.
SafeWhilePaced == Paced => IndInv /\ StoredUntilTaken
=============================================================================
