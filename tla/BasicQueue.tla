----------------------------- MODULE BasicQueue -----------------------------
(***************************************************************************)
(* basicqueue.c, the same in QueueBenchmarks and in SimpleQueueImpl but    *)
(* for messages: a CIRCLEQ list of sys/queue.h behind a mutex.             *)
(*                                                                         *)
(* The list is circular and doubly linked through its head, which has the  *)
(* layout of an entry: here it is the node Hd, whose next and prev are     *)
(* cqh_first and cqh_last.  BasicDequeue does not ask whether the list is  *)
(* empty.  If it is, it takes the head itself for its first entry, and     *)
(* returns what lies behind the head in memory.                            *)
(*                                                                         *)
(* Two programs use the queue.  main of SimpleQueueImpl puts NUM_TASKS     *)
(* numbers into it and then creates the workers (fillFirst); case 3 of     *)
(* QueueBenchmarks/sqmain.c lets both sides loose at once.                 *)
(*                                                                         *)
(* An entry is named after the call that allocates it, <<e, k>> for the    *)
(* k-th call of e; nobody frees an entry.                                  *)
(***************************************************************************)
EXTENDS Integers, Sequences, FiniteSets, Functions

CONSTANTS
  Enqueuers,   \* who calls BasicEnqueue
  Main,        \* the only one of them in SimpleQueueImpl
  Dequeuers,   \* who calls BasicDequeue
  PutLimit,    \* calls per enqueuer; SimpleQueueImpl has main make them all
  GetLimit,    \* calls per dequeuer
  Hd,          \* the head of the list
  Null,        \* an uninitialised pointer
  Behind,      \* the number behind the head
  Nobody       \* the owner of a free mutex

Threads == Enqueuers \cup Dequeuers
Tasks   == PutLimit * Cardinality(Enqueuers)
Entry   == Enqueuers \X (1 .. Tasks)
Node    == Entry \cup {Hd}

ASSUME BasicQueueAssumption ==
  /\ IsFiniteSet(Enqueuers) /\ Main \in Enqueuers
  /\ Enqueuers \cap Dequeuers = {}
  /\ PutLimit \in Nat /\ GetLimit \in Nat
  /\ Hd \notin Entry
  /\ Null \notin Node
  /\ Behind \notin Node
  /\ Nobody \notin Threads

VARIABLES
  fillFirst,    \* the program: are the enqueuers done before a dequeuer starts?
  next, prev,   \* the links of the nodes
  lock,         \* who holds the mutex
  pc,           \* next step of each thread
  puts,         \* BasicEnqueue calls that have inserted their entry
  n,            \* local n of a dequeuer
  got           \* history: what the calls of each dequeuer return

list == <<next, prev>>
vars == <<fillFirst, next, prev, lock, pc, puts, n, got>>

\* InitBasicQueue: CIRCLEQ_INIT makes head its own neighbour.
Init ==
  /\ fillFirst \in BOOLEAN
  /\ next = [x \in Node |-> IF x = Hd THEN Hd ELSE Null]
  /\ prev = [x \in Node |-> IF x = Hd THEN Hd ELSE Null]
  /\ lock = Nobody
  /\ pc = [t \in Threads |-> "call"]
  /\ puts = [e \in Enqueuers |-> 0]
  /\ n = [d \in Dequeuers |-> Null]
  /\ got = [d \in Dequeuers |-> <<>>]

Goto(t, place) == pc' = [pc EXCEPT ![t] = place]

-----------------------------------------------------------------------------
(* The macros of sys/queue.h                                               *)

\* CIRCLEQ_INSERT_TAIL
InsertTail(x) ==
  /\ next' = [next EXCEPT
       ![x] = Hd, ![IF next[Hd] = Hd THEN Hd ELSE prev[Hd]] = x]
  /\ prev' = [prev EXCEPT ![x] = prev[Hd], ![Hd] = x]

\* Faulty variant: only the forward links are mended.
UnlinkForward(x) ==
  /\ next' = [next EXCEPT ![prev[x]] = next[x]]
  /\ UNCHANGED prev

\* CIRCLEQ_REMOVE.  For the head of an empty list it changes nothing.
Unlink(x) ==
  /\ prev' = [prev EXCEPT ![next[x]] = prev[x]]
  /\ next' = [next EXCEPT ![prev[x]] = next[x]]

-----------------------------------------------------------------------------
(* The mutex                                                               *)

\* Faulty variant: the mutex is not taken.
LockNotTaken(t, place) ==
  /\ pc[t] = "call"
  /\ Goto(t, place)
  /\ UNCHANGED lock

\* pthread_mutex_lock
Lock(t, place) ==
  /\ pc[t] = "call"
  /\ lock = Nobody
  /\ lock' = t
  /\ Goto(t, place)

\* pthread_mutex_unlock; the call returns
Unlock(t) ==
  /\ pc[t] = "unlock"
  /\ lock' = Nobody
  /\ Goto(t, "call")
  /\ UNCHANGED <<fillFirst, list, puts, n, got>>

-----------------------------------------------------------------------------
\* The calls of e, by program.
Puts(e) ==
  IF ~fillFirst THEN PutLimit ELSE IF e = Main THEN Tasks ELSE 0

\* BasicEnqueue(k): the entry is allocated and filled, the mutex taken.
EnqueueLock(e) ==
  /\ puts[e] < Puts(e)
  /\ Lock(e, "insert")
  /\ UNCHANGED <<fillFirst, list, puts, n, got>>

EnqueueInsert(e) ==
  /\ pc[e] = "insert"
  /\ InsertTail(<<e, puts[e] + 1>>)
  /\ puts' = [puts EXCEPT ![e] = @ + 1]
  /\ Goto(e, "unlock")
  /\ UNCHANGED <<fillFirst, lock, n, got>>

BasicEnqueue(e) == EnqueueLock(e) \/ EnqueueInsert(e) \/ Unlock(e)

Filled == \A e \in Enqueuers : puts[e] = Puts(e) /\ pc[e] = "call"

\* Faulty variant: the workers do not wait to be created.
DequeueLockEarly(d) ==
  /\ Len(got[d]) < GetLimit
  /\ Lock(d, "first")
  /\ UNCHANGED <<fillFirst, list, puts, n, got>>

\* BasicDequeue: the workers may only exist once the list is filled.
DequeueLock(d) ==
  /\ Len(got[d]) < GetLimit
  /\ fillFirst => Filled
  /\ Lock(d, "first")
  /\ UNCHANGED <<fillFirst, list, puts, n, got>>

\* n = CIRCLEQ_FIRST(&head)
DequeueFirst(d) ==
  /\ pc[d] = "first"
  /\ n' = [n EXCEPT ![d] = next[Hd]]
  /\ Goto(d, "remove")
  /\ UNCHANGED <<fillFirst, list, lock, puts, got>>

\* CIRCLEQ_REMOVE(&head, head.cqh_first, entries), which reads the first entry
\* again.  n->elem is returned after the mutex is released: nothing changes
\* it once it is written.
DequeueRemove(d) ==
  /\ pc[d] = "remove"
  /\ Unlink(next[Hd])
  /\ got' = [got EXCEPT ![d] = Append(@, IF n[d] = Hd THEN Behind ELSE n[d])]
  /\ Goto(d, "unlock")
  /\ UNCHANGED <<fillFirst, lock, puts, n>>

BasicDequeue(d) ==
  \/ DequeueLock(d) \/ DequeueFirst(d) \/ DequeueRemove(d) \/ Unlock(d)

-----------------------------------------------------------------------------
\* Every thread has made its calls and been joined.
Finished ==
  /\ Filled
  /\ \A d \in Dequeuers : Len(got[d]) = GetLimit /\ pc[d] = "call"

Terminated == Finished /\ UNCHANGED vars

Next ==
  \/ \E e \in Enqueuers : BasicEnqueue(e)
  \/ \E d \in Dequeuers : BasicDequeue(d)
  \/ Terminated

Spec == Init /\ [][Next]_vars

\* Every thread takes the mutex a limited number of times, so that weak
\* fairness lets each of them have it.
FairSpec ==
  /\ Spec
  /\ \A e \in Enqueuers : WF_vars(BasicEnqueue(e))
  /\ \A d \in Dequeuers : WF_vars(BasicDequeue(d))
-----------------------------------------------------------------------------
(* Properties                                                              *)

TypeOK ==
  /\ fillFirst \in BOOLEAN
  /\ next \in [Node -> Node \cup {Null}]
  /\ prev \in [Node -> Node \cup {Null}]
  /\ lock \in Threads \cup {Nobody}
  /\ pc \in [Threads -> {"call", "insert", "first", "remove", "unlock"}]
  /\ puts \in [Enqueuers -> 0 .. Tasks]
  /\ n \in [Dequeuers -> Node \cup {Null}]
  /\ got \in [Dequeuers -> Seq(Entry \cup {Behind})]

\* The nodes on the way from the head, and the entries in the list.
Steps == 0 .. Cardinality(Entry) + 1
Walk == LET at[s \in Steps] == IF s = 0 THEN Hd ELSE next[at[s - 1]] IN at
Entries ==
  LET len == CHOOSE s \in Steps : Walk[s + 1] = Hd /\ \A r \in 1 .. s : Walk[r] # Hd
  IN  [s \in 1 .. len |-> Walk[s]]

\* The links are entries, and whatever the interleaving, the two directions of
\* the list agree and it holds the entries that were put and not yet taken.
WellLinked ==
  LET taken == UNION {Range(got[d]) : d \in Dequeuers}
      inside == {x \in Entry : x[2] <= puts[x[1]]} \ taken
  IN
  /\ TypeOK
  /\ \A x \in inside \cup {Hd} :
       /\ next[x] \in inside \cup {Hd} /\ prev[x] \in inside \cup {Hd}
       /\ prev[next[x]] = x /\ next[prev[x]] = x
  /\ Range(Entries) = inside

\* "Remove a number from the queue" (basicqueue.c:23): the number a call
\* returns has been put.
ReturnsNumbers == \A d \in Dequeuers : Behind \notin Range(got[d])

\* In SimpleQueueImpl, where the list is filled first and the workers have no
\* more calls than there are entries, no call of BasicDequeue finds it empty,
\* which it does not ask for.
NeverMisses == fillFirst => ReturnsNumbers

\* The queue is a first-in first-out queue without a bound, in which a call
\* on the empty queue returns at once, and all calls return.
Queue == INSTANCE Fifo WITH
  Putters <- Enqueuers, Getters <- Dequeuers, PutLimit <- Tasks,
  Capacity <- Cardinality(Entry) + 1,
  MayMiss <- TRUE, Nothing <- Behind, queue <- Entries
ImplementsFifo == Queue!Spec /\ <>[]Finished
=============================================================================
