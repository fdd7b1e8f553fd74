---------------------------- MODULE BlockingQueue ----------------------------
(***************************************************************************)
(* The bounded buffer of SimpleQueueImpl/blockingqueue.c: two counting     *)
(* semaphores, a mutex, and an array of QUEUE_SIZE slots.                  *)
(*                                                                         *)
(* Each call of enqueue_blocking and dequeue_blocking is five steps: wait  *)
(* for a semaphore, lock, move the index and access the slot, unlock, post *)
(* the other semaphore.  The slot is accessed under the mutex only, so     *)
(* that the increment and the access are one step.  Every caller creates   *)
(* the queue with size = QUEUE_SIZE: one constant stands for both.         *)
(*                                                                         *)
(* The clients are enqueuing threads (in the drivers of main.c there is    *)
(* one: the main thread) and worker_handler threads, each in a loop of a   *)
(* fixed number of calls, started in any order.                            *)
(***************************************************************************)
EXTENDS Integers, Sequences, FiniteSets

CONSTANTS
  Enqueuers,   \* threads that call enqueue_blocking
  Dequeuers,   \* threads that call dequeue_blocking
  QueueSize,   \* QUEUE_SIZE, the number of slots
  EnqTasks,    \* calls per enqueuer
  DeqTasks,    \* calls per dequeuer
  Unset,       \* what malloc left in a slot
  Nobody       \* holder of a free mutex

Threads == Enqueuers \cup Dequeuers

\* A task is told apart by its enqueuer and its number.
Task == Enqueuers \X (1 .. EnqTasks)

ASSUME BlockingAssumption ==
  /\ IsFiniteSet(Enqueuers)
  /\ IsFiniteSet(Dequeuers)
  /\ Enqueuers \cap Dequeuers = {}
  /\ QueueSize \in Nat \ {0}
  /\ EnqTasks \in Nat
  /\ DeqTasks \in Nat
  /\ Unset \notin Task
  /\ Nobody \notin Threads

VARIABLES
  tasks,        \* the slots
  rear, front,  \* index of the last item, index before the first
  lock,         \* who holds the mutex
  task_sem,     \* counts available tasks
  spaces_sem,   \* counts available slots
  pc,           \* next step of each thread
  task,         \* local of dequeue_blocking
  puts,         \* loop counter of an enqueuer: calls that have returned
  got           \* history: what the calls of each dequeuer returned

vars == <<tasks, rear, front, lock, task_sem, spaces_sem, pc, task, puts, got>>

Slot(index) == index % QueueSize

\* create_queue_blocking has returned, no thread is in a call.
Init ==
  /\ tasks = [s \in 0 .. QueueSize - 1 |-> Unset]
  /\ rear = 0
  /\ front = 0
  /\ lock = Nobody
  /\ task_sem = 0
  /\ spaces_sem = QueueSize
  /\ pc = [t \in Threads |-> "wait"]
  /\ task = [d \in Dequeuers |-> Unset]
  /\ puts = [e \in Enqueuers |-> 0]
  /\ got = [d \in Dequeuers |-> <<>>]

Goto(t, step) == pc' = [pc EXCEPT ![t] = step]

-----------------------------------------------------------------------------
(* The mutex, the same in both functions.                                  *)

Lock(t) ==
  /\ pc[t] = "lock"
  /\ lock = Nobody
  /\ lock' = t
  /\ Goto(t, "access")
  /\ UNCHANGED <<tasks, rear, front, task_sem, spaces_sem, task, puts, got>>

Unlock(t) ==
  /\ pc[t] = "unlock"
  /\ lock' = Nobody
  /\ Goto(t, "post")
  /\ UNCHANGED <<tasks, rear, front, task_sem, spaces_sem, task, puts, got>>

-----------------------------------------------------------------------------
(* enqueue_blocking                                                        *)

EnqWait(e) ==
  /\ pc[e] = "wait"
  /\ puts[e] < EnqTasks
  /\ spaces_sem > 0
  /\ spaces_sem' = spaces_sem - 1
  /\ Goto(e, "lock")
  /\ UNCHANGED <<tasks, rear, front, lock, task_sem, task, puts, got>>

\* Faulty variant: the store at the old value of rear, as with rear++.
EnqAccessPostfix(e) ==
  /\ pc[e] = "access"
  /\ rear' = rear + 1
  /\ tasks' = [tasks EXCEPT ![Slot(rear)] = <<e, puts[e] + 1>>]
  /\ Goto(e, "unlock")
  /\ UNCHANGED <<front, lock, task_sem, spaces_sem, task, puts, got>>

EnqAccess(e) ==
  /\ pc[e] = "access"
  /\ rear' = rear + 1
  /\ tasks' = [tasks EXCEPT ![Slot(rear + 1)] = <<e, puts[e] + 1>>]
  /\ Goto(e, "unlock")
  /\ UNCHANGED <<front, lock, task_sem, spaces_sem, task, puts, got>>

EnqPost(e) ==
  /\ pc[e] = "post"
  /\ task_sem' = task_sem + 1
  /\ puts' = [puts EXCEPT ![e] = @ + 1]
  /\ Goto(e, "wait")
  /\ UNCHANGED <<tasks, rear, front, lock, spaces_sem, task, got>>

\* Faulty variant: the mutex first and the semaphore inside it.
EnqueueLockedWait(e) ==
  \/ /\ pc[e] = "wait"
     /\ puts[e] < EnqTasks
     /\ lock = Nobody
     /\ lock' = e
     /\ Goto(e, "lock")
     /\ UNCHANGED <<tasks, rear, front, task_sem, spaces_sem, task, puts, got>>
  \/ /\ pc[e] = "lock"
     /\ spaces_sem > 0
     /\ spaces_sem' = spaces_sem - 1
     /\ Goto(e, "access")
     /\ UNCHANGED <<tasks, rear, front, lock, task_sem, task, puts, got>>
  \/ EnqAccess(e) \/ Unlock(e) \/ EnqPost(e)

enqueue_blocking(e) ==
  EnqWait(e) \/ Lock(e) \/ EnqAccess(e) \/ Unlock(e) \/ EnqPost(e)

-----------------------------------------------------------------------------
(* dequeue_blocking                                                        *)

\* Faulty variant: the slot is given back before it has been read.
DeqWaitGivesBack(d) ==
  /\ pc[d] = "wait"
  /\ Len(got[d]) < DeqTasks
  /\ task_sem > 0
  /\ task_sem' = task_sem - 1
  /\ spaces_sem' = spaces_sem + 1
  /\ Goto(d, "lock")
  /\ UNCHANGED <<tasks, rear, front, lock, task, puts, got>>

DeqWait(d) ==
  /\ pc[d] = "wait"
  /\ Len(got[d]) < DeqTasks
  /\ task_sem > 0
  /\ task_sem' = task_sem - 1
  /\ Goto(d, "lock")
  /\ UNCHANGED <<tasks, rear, front, lock, spaces_sem, task, puts, got>>

DeqAccess(d) ==
  /\ pc[d] = "access"
  /\ front' = front + 1
  /\ task' = [task EXCEPT ![d] = tasks[Slot(front + 1)]]
  /\ Goto(d, "unlock")
  /\ UNCHANGED <<tasks, rear, lock, task_sem, spaces_sem, puts, got>>

DeqPost(d) ==
  /\ pc[d] = "post"
  /\ spaces_sem' = spaces_sem + 1
  /\ got' = [got EXCEPT ![d] = Append(@, task[d])]
  /\ Goto(d, "wait")
  /\ UNCHANGED <<tasks, rear, front, lock, task_sem, task, puts>>

dequeue_blocking(d) ==
  DeqWait(d) \/ Lock(d) \/ DeqAccess(d) \/ Unlock(d) \/ DeqPost(d)

-----------------------------------------------------------------------------
Returned(t) == pc[t] = "wait"

Next ==
  \/ \E e \in Enqueuers : enqueue_blocking(e)
  \/ \E d \in Dequeuers : dequeue_blocking(d)

Spec == Init /\ [][Next]_vars

\* The scheduler runs every thread that is not blocked.
FairSpec ==
  /\ Spec
  /\ \A e \in Enqueuers : WF_vars(enqueue_blocking(e))
  /\ \A d \in Dequeuers : WF_vars(dequeue_blocking(d))

-----------------------------------------------------------------------------
\* The indices, semaphores, slots and locals have the types of queue.h, and no
\* loop makes more calls than it should.
TypeOK ==
  /\ tasks \in [0 .. QueueSize - 1 -> Task \cup {Unset}]
  /\ rear \in Nat /\ front \in Nat
  /\ lock \in Threads \cup {Nobody}
  /\ task_sem \in Nat /\ spaces_sem \in Nat
  /\ pc \in [Threads -> {"wait", "lock", "access", "unlock", "post"}]
  /\ task \in [Dequeuers -> Task \cup {Unset}]
  /\ puts \in [Enqueuers -> 0 .. EnqTasks]
  /\ got \in [Dequeuers -> Seq(Task \cup {Unset})]
  /\ \A d \in Dequeuers : Len(got[d]) <= DeqTasks

At(S, steps) == {t \in S : pc[t] \in steps}

\* A call under way is one of the calls of the loop.
CallsCounted ==
  /\ \A e \in Enqueuers : pc[e] # "wait" => puts[e] < EnqTasks
  /\ \A d \in Dequeuers : pc[d] # "wait" => Len(got[d]) < DeqTasks

\* A thread between pthread_mutex_lock and pthread_mutex_unlock holds the mutex.
HoldsLock == \A t \in Threads : pc[t] \in {"access", "unlock"} <=> lock = t

\* Slots reserved by an enqueuer that has yet to store, items stored and not yet
\* announced, items claimed and not yet read, slots read and not yet given back.
Reserved  == Cardinality(At(Enqueuers, {"lock", "access"}))
Unposted  == Cardinality(At(Enqueuers, {"unlock", "post"}))
Claimed   == Cardinality(At(Dequeuers, {"lock", "access"}))
Kept      == Cardinality(At(Dequeuers, {"unlock", "post"}))

\* The semaphores and the threads between their wait and their post account for
\* every slot: it is free, reserved, occupied or kept by exactly one of them.
SlotsAccounted ==
  /\ spaces_sem + Reserved + (rear - front) + Kept = QueueSize
  /\ task_sem + Unposted + Claimed = rear - front

\* What the next-state relation keeps.
IndInv == TypeOK /\ CallsCounted /\ HoldsLock /\ SlotsAccounted

\* No thread is blocked for ever unless the calls themselves are unbalanced: when
\* nothing can move, all threads are between calls, those that still want to
\* enqueue face a full queue and those that still want to dequeue an empty one.
BlocksOnlyWhenUnbalanced ==
  ~ENABLED Next =>
    /\ \A t \in Threads : Returned(t)
    /\ (\E e \in Enqueuers : puts[e] < EnqTasks) => rear - front = QueueSize
    /\ (\E d \in Dequeuers : Len(got[d]) < DeqTasks) => rear = front

\* The queue between its indices, what has been put and what has been got: a call
\* takes effect when it accesses the slot.
Effective(t) == pc[t] \in {"unlock", "post"}

Buffer == INSTANCE Fifo WITH
  Putters <- Enqueuers, Getters <- Dequeuers,
  PutLimit <- EnqTasks, GetLimit <- DeqTasks,
  Capacity <- QueueSize, MayMiss <- FALSE, Nothing <- Unset,
  queue <- [n \in 1 .. rear - front |-> tasks[Slot(front + n)]],
  puts  <- [e \in Enqueuers |-> IF Effective(e) THEN puts[e] + 1 ELSE puts[e]],
  got   <- [d \in Dequeuers |-> IF Effective(d) THEN Append(got[d], task[d])
                                                ELSE got[d]]

\* The array, the indices and the semaphores are a bounded FIFO queue: nothing is
\* overwritten, lost, read twice or out of order.
ImplementsFifo == Buffer!FairSpec
=============================================================================
