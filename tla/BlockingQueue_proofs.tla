------------------------ MODULE BlockingQueue_proofs ------------------------
(***************************************************************************)
(* Proofs about the two programs whose threads wait for a lock.            *)
(* BlockingQueue, for any number of threads, slots and calls: the          *)
(* semaphores account for every slot, and the queue is a bounded FIFO      *)
(* queue.  LockBench, for any number of threads and passes: olock          *)
(* excludes, no addition to the counter is lost under it, and every line   *)
(* is the average over the threads of its own round.                       *)
(***************************************************************************)
EXTENDS BlockingQueue, LockBench, FiniteSetTheorems, SequenceTheorems, TLAPS

Steps == {"wait", "lock", "access", "unlock", "post"}

One(condition) == IF condition THEN 1 ELSE 0

-----------------------------------------------------------------------------
(* Counting threads                                                        *)

\* When one thread changes its step, the number of threads in a set of steps
\* changes by that thread.
LEMMA OneMoves ==
  ASSUME NEW T, NEW S \in SUBSET T, IsFiniteSet(S), NEW f \in [T -> Steps],
         NEW t \in T, NEW s \in Steps, NEW M
  PROVE  LET A == {u \in S : f[u] \in M}
             B == {u \in S : [f EXCEPT ![t] = s][u] \in M}
         IN  /\ Cardinality(A) \in Nat
             /\ Cardinality(B) \in Nat
             /\ Cardinality(B) + One(t \in S /\ f[t] \in M)
                  = Cardinality(A) + One(t \in S /\ s \in M)
<1> DEFINE A == {u \in S : f[u] \in M}
           B == {u \in S : [f EXCEPT ![t] = s][u] \in M}
           C == A \ {t}
<1>1. IsFiniteSet(A) /\ IsFiniteSet(B)
  BY FS_Subset
<1>2. Cardinality(A) \in Nat /\ Cardinality(B) \in Nat
  BY <1>1, FS_CardinalityType
<1>3. IsFiniteSet(C) /\ Cardinality(C) \in Nat
  BY <1>1, FS_Subset, FS_CardinalityType
<1>4. Cardinality(A) = Cardinality(C) + One(t \in S /\ f[t] \in M)
  <2>1. CASE t \in S /\ f[t] \in M
    <3>1. A = C \cup {t} /\ t \notin C
      BY <2>1
    <3> QED  BY <3>1, <2>1, <1>3, FS_AddElement DEF One
  <2>2. CASE ~(t \in S /\ f[t] \in M)
    <3>1. A = C
      BY <2>2
    <3> QED  BY <3>1, <2>2, <1>3 DEF One
  <2> QED  BY <2>1, <2>2
<1>5. Cardinality(B) = Cardinality(C) + One(t \in S /\ s \in M)
  <2>1. CASE t \in S /\ s \in M
    <3>1. B = C \cup {t} /\ t \notin C
      BY <2>1
    <3> QED  BY <3>1, <2>1, <1>3, FS_AddElement DEF One
  <2>2. CASE ~(t \in S /\ s \in M)
    <3>1. B = C
      BY <2>2
    <3> QED  BY <3>1, <2>2, <1>3 DEF One
  <2> QED  BY <2>1, <2>2
<1>6. /\ One(t \in S /\ f[t] \in M) \in {0, 1}
      /\ One(t \in S /\ s \in M) \in {0, 1}
  BY DEF One
<1> QED  BY <1>2, <1>3, <1>4, <1>5, <1>6

\* A set of threads in a step where some thread is has at least that one.
LEMMA SomeThere ==
  ASSUME NEW S, IsFiniteSet(S), NEW M, NEW t \in S, pc[t] \in M
  PROVE  Cardinality(At(S, M)) >= 1
<1>1. IsFiniteSet(At(S, M)) /\ At(S, M) # {}
  BY FS_Subset DEF At
<1>2. Cardinality(At(S, M)) \in Nat /\ Cardinality(At(S, M)) # 0
  BY <1>1, FS_EmptySet, FS_CardinalityType
<1> QED  BY <1>2

\* OneMoves for the steps of the model.
LEMMA AtMoves ==
  ASSUME TypeOK, NEW t \in Threads, NEW s \in Steps, Goto(t, s),
         NEW S \in SUBSET Threads, IsFiniteSet(S), NEW M
  PROVE  /\ Cardinality(At(S, M)) \in Nat
         /\ Cardinality(At(S, M)') \in Nat
         /\ Cardinality(At(S, M)') + One(t \in S /\ pc[t] \in M)
              = Cardinality(At(S, M)) + One(t \in S /\ s \in M)
<1>1. pc \in [Threads -> Steps] /\ pc' = [pc EXCEPT ![t] = s]
  BY DEF TypeOK, Steps, Goto
<1>2. At(S, M) = {u \in S : pc[u] \in M}
  BY DEF At
<1>3. At(S, M)' = {u \in S : [pc EXCEPT ![t] = s][u] \in M}
  BY <1>1 DEF At
<1> HIDE DEF At
<1> QED  BY <1>1, <1>2, <1>3, OneMoves

\* How a step of one thread changes the four counts.
LEMMA Counting ==
  ASSUME TypeOK, NEW t \in Threads, NEW s \in Steps, Goto(t, s)
  PROVE  /\ Reserved \in Nat /\ Reserved' \in Nat
         /\ Unposted \in Nat /\ Unposted' \in Nat
         /\ Claimed \in Nat /\ Claimed' \in Nat
         /\ Kept \in Nat /\ Kept' \in Nat
         /\ Reserved' + One(t \in Enqueuers /\ pc[t] \in {"lock", "access"})
              = Reserved + One(t \in Enqueuers /\ s \in {"lock", "access"})
         /\ Unposted' + One(t \in Enqueuers /\ pc[t] \in {"unlock", "post"})
              = Unposted + One(t \in Enqueuers /\ s \in {"unlock", "post"})
         /\ Claimed' + One(t \in Dequeuers /\ pc[t] \in {"lock", "access"})
              = Claimed + One(t \in Dequeuers /\ s \in {"lock", "access"})
         /\ Kept' + One(t \in Dequeuers /\ pc[t] \in {"unlock", "post"})
              = Kept + One(t \in Dequeuers /\ s \in {"unlock", "post"})
<1>1. /\ Enqueuers \in SUBSET Threads /\ Dequeuers \in SUBSET Threads
      /\ IsFiniteSet(Enqueuers) /\ IsFiniteSet(Dequeuers)
  BY BlockingAssumption DEF Threads
<1>2. /\ Reserved \in Nat /\ Reserved' \in Nat
      /\ Reserved' + One(t \in Enqueuers /\ pc[t] \in {"lock", "access"})
           = Reserved + One(t \in Enqueuers /\ s \in {"lock", "access"})
  BY <1>1, AtMoves DEF Reserved
<1>3. /\ Unposted \in Nat /\ Unposted' \in Nat
      /\ Unposted' + One(t \in Enqueuers /\ pc[t] \in {"unlock", "post"})
           = Unposted + One(t \in Enqueuers /\ s \in {"unlock", "post"})
  BY <1>1, AtMoves DEF Unposted
<1>4. /\ Claimed \in Nat /\ Claimed' \in Nat
      /\ Claimed' + One(t \in Dequeuers /\ pc[t] \in {"lock", "access"})
           = Claimed + One(t \in Dequeuers /\ s \in {"lock", "access"})
  BY <1>1, AtMoves DEF Claimed
<1>5. /\ Kept \in Nat /\ Kept' \in Nat
      /\ Kept' + One(t \in Dequeuers /\ pc[t] \in {"unlock", "post"})
           = Kept + One(t \in Dequeuers /\ s \in {"unlock", "post"})
  BY <1>1, AtMoves DEF Kept
<1> QED  BY <1>2, <1>3, <1>4, <1>5
-----------------------------------------------------------------------------
(* The inductive invariant                                                 *)

LEMMA InitInv == Init => IndInv
<1> SUFFICES ASSUME Init PROVE IndInv
  OBVIOUS
<1> USE BlockingAssumption DEF Init
<1>1. TypeOK
  BY DEF TypeOK, Threads
<1>2. CallsCounted /\ HoldsLock
  BY DEF CallsCounted, HoldsLock, Threads
<1>3. /\ At(Enqueuers, {"lock", "access"}) = {}
      /\ At(Enqueuers, {"unlock", "post"}) = {}
      /\ At(Dequeuers, {"lock", "access"}) = {}
      /\ At(Dequeuers, {"unlock", "post"}) = {}
  BY DEF At, Threads
<1>4. Reserved = 0 /\ Unposted = 0 /\ Claimed = 0 /\ Kept = 0
  BY <1>3, FS_EmptySet DEF Reserved, Unposted, Claimed, Kept
<1>5. SlotsAccounted
  BY <1>4 DEF SlotsAccounted
<1> QED  BY <1>1, <1>2, <1>5 DEF IndInv

LEMMA LockInv ==
  ASSUME IndInv, NEW t \in Threads, Lock(t)
  PROVE  IndInv'
<1> USE BlockingAssumption DEF IndInv, Lock
<1>1. t \in Threads /\ Goto(t, "access") /\ pc[t] \in Steps /\ "access" \in Steps
  BY DEF Threads, TypeOK, Steps
<1>2. TypeOK'
  BY <1>1 DEF TypeOK, CallsCounted, Goto, Slot, Task
<1>3. CallsCounted'
  BY <1>1 DEF CallsCounted, TypeOK, Goto
<1>4. HoldsLock'
  BY <1>1 DEF HoldsLock, TypeOK, Goto
<1>5. SlotsAccounted'
  <2>1. pc[t] = "lock"
    OBVIOUS
  <2>2. /\ Reserved \in Nat /\ Unposted \in Nat /\ Claimed \in Nat /\ Kept \in Nat
        /\ Reserved' = Reserved
        /\ Unposted' = Unposted
        /\ Claimed' = Claimed
        /\ Kept' = Kept
    BY <1>1, <2>1, Counting DEF One
  <2> QED  BY <2>2 DEF SlotsAccounted, TypeOK
<1> QED  BY <1>2, <1>3, <1>4, <1>5

LEMMA UnlockInv ==
  ASSUME IndInv, NEW t \in Threads, Unlock(t)
  PROVE  IndInv'
<1> USE BlockingAssumption DEF IndInv, Unlock
<1>1. t \in Threads /\ Goto(t, "post") /\ pc[t] \in Steps /\ "post" \in Steps
  BY DEF Threads, TypeOK, Steps
<1>2. TypeOK'
  BY <1>1 DEF TypeOK, CallsCounted, Goto, Slot, Task
<1>3. CallsCounted'
  BY <1>1 DEF CallsCounted, TypeOK, Goto
<1>4. HoldsLock'
  BY <1>1 DEF HoldsLock, TypeOK, Goto
<1>5. SlotsAccounted'
  <2>1. pc[t] = "unlock"
    OBVIOUS
  <2>2. /\ Reserved \in Nat /\ Unposted \in Nat /\ Claimed \in Nat /\ Kept \in Nat
        /\ Reserved' = Reserved
        /\ Unposted' = Unposted
        /\ Claimed' = Claimed
        /\ Kept' = Kept
    BY <1>1, <2>1, Counting DEF One
  <2> QED  BY <2>2 DEF SlotsAccounted, TypeOK
<1> QED  BY <1>2, <1>3, <1>4, <1>5

LEMMA EnqWaitInv ==
  ASSUME IndInv, NEW t \in Enqueuers, EnqWait(t)
  PROVE  IndInv'
<1> USE BlockingAssumption DEF IndInv, EnqWait
<1>1. t \in Threads /\ Goto(t, "lock") /\ pc[t] \in Steps /\ "lock" \in Steps
  BY DEF Threads, TypeOK, Steps
<1>2. TypeOK'
  BY <1>1 DEF TypeOK, CallsCounted, Goto, Slot, Task
<1>3. CallsCounted'
  BY <1>1 DEF CallsCounted, TypeOK, Goto
<1>4. HoldsLock'
  BY <1>1 DEF HoldsLock, TypeOK, Goto
<1>5. SlotsAccounted'
  <2>1. pc[t] = "wait"
    OBVIOUS
  <2>2. /\ Reserved \in Nat /\ Unposted \in Nat /\ Claimed \in Nat /\ Kept \in Nat
        /\ Reserved' = Reserved + 1
        /\ Unposted' = Unposted
        /\ Claimed' = Claimed
        /\ Kept' = Kept
    BY <1>1, <2>1, Counting DEF One
  <2> QED  BY <2>2 DEF SlotsAccounted, TypeOK
<1> QED  BY <1>2, <1>3, <1>4, <1>5

LEMMA EnqAccessInv ==
  ASSUME IndInv, NEW t \in Enqueuers, EnqAccess(t)
  PROVE  IndInv'
<1> USE BlockingAssumption DEF IndInv, EnqAccess
<1>1. t \in Threads /\ Goto(t, "unlock") /\ pc[t] \in Steps /\ "unlock" \in Steps
  BY DEF Threads, TypeOK, Steps
<1>2. TypeOK'
  <2>0. puts[t] \in 0 .. EnqTasks /\ puts[t] < EnqTasks
    BY DEF TypeOK, CallsCounted, Threads
  <2>1. <<t, puts[t] + 1>> \in Task
    BY <2>0 DEF Task
  <2>2. rear' \in Nat /\ pc' \in [Threads -> Steps]
    BY <1>1 DEF TypeOK, Goto, Steps
  <2>3. tasks' \in [0 .. QueueSize - 1 -> Task \cup {Unset}]
    BY <2>1 DEF TypeOK
  <2> QED  BY <2>2, <2>3 DEF TypeOK, Steps
<1>3. CallsCounted'
  BY <1>1 DEF CallsCounted, TypeOK, Goto
<1>4. HoldsLock'
  BY <1>1 DEF HoldsLock, TypeOK, Goto
<1>5. SlotsAccounted'
  <2>1. pc[t] = "access"
    OBVIOUS
  <2>2. /\ Reserved \in Nat /\ Unposted \in Nat /\ Claimed \in Nat /\ Kept \in Nat
        /\ Reserved' = Reserved - 1
        /\ Unposted' = Unposted + 1
        /\ Claimed' = Claimed
        /\ Kept' = Kept
    BY <1>1, <2>1, Counting DEF One
  <2>3. /\ rear' = rear + 1 /\ front' = front
        /\ spaces_sem' = spaces_sem /\ task_sem' = task_sem
        /\ rear \in Int /\ front \in Int
        /\ spaces_sem \in Int /\ task_sem \in Int
    BY DEF TypeOK
  <2> HIDE DEF IndInv, EnqAccess
  <2>4. SlotsAccounted
    BY DEF IndInv
  <2> QED  BY <2>2, <2>3, <2>4 DEF SlotsAccounted
<1> QED  BY <1>2, <1>3, <1>4, <1>5

LEMMA EnqPostInv ==
  ASSUME IndInv, NEW t \in Enqueuers, EnqPost(t)
  PROVE  IndInv'
<1> USE BlockingAssumption DEF IndInv, EnqPost
<1>1. t \in Threads /\ Goto(t, "wait") /\ pc[t] \in Steps /\ "wait" \in Steps
  BY DEF Threads, TypeOK, Steps
<1>2. TypeOK'
  BY <1>1 DEF TypeOK, CallsCounted, Goto, Slot, Task
<1>3. CallsCounted'
  BY <1>1 DEF CallsCounted, TypeOK, Goto
<1>4. HoldsLock'
  BY <1>1 DEF HoldsLock, TypeOK, Goto
<1>5. SlotsAccounted'
  <2>1. pc[t] = "post"
    OBVIOUS
  <2>2. /\ Reserved \in Nat /\ Unposted \in Nat /\ Claimed \in Nat /\ Kept \in Nat
        /\ Reserved' = Reserved
        /\ Unposted' = Unposted - 1
        /\ Claimed' = Claimed
        /\ Kept' = Kept
    BY <1>1, <2>1, Counting DEF One
  <2> QED  BY <2>2 DEF SlotsAccounted, TypeOK
<1> QED  BY <1>2, <1>3, <1>4, <1>5

LEMMA DeqWaitInv ==
  ASSUME IndInv, NEW t \in Dequeuers, DeqWait(t)
  PROVE  IndInv'
<1> USE BlockingAssumption DEF IndInv, DeqWait
<1>1. t \in Threads /\ Goto(t, "lock") /\ pc[t] \in Steps /\ "lock" \in Steps
  BY DEF Threads, TypeOK, Steps
<1>2. TypeOK'
  BY <1>1 DEF TypeOK, CallsCounted, Goto, Slot, Task
<1>3. CallsCounted'
  BY <1>1 DEF CallsCounted, TypeOK, Goto
<1>4. HoldsLock'
  BY <1>1 DEF HoldsLock, TypeOK, Goto
<1>5. SlotsAccounted'
  <2>1. pc[t] = "wait"
    OBVIOUS
  <2>2. /\ Reserved \in Nat /\ Unposted \in Nat /\ Claimed \in Nat /\ Kept \in Nat
        /\ Reserved' = Reserved
        /\ Unposted' = Unposted
        /\ Claimed' = Claimed + 1
        /\ Kept' = Kept
    BY <1>1, <2>1, Counting DEF One
  <2> QED  BY <2>2 DEF SlotsAccounted, TypeOK
<1> QED  BY <1>2, <1>3, <1>4, <1>5

LEMMA DeqAccessInv ==
  ASSUME IndInv, NEW t \in Dequeuers, DeqAccess(t)
  PROVE  IndInv'
<1> USE BlockingAssumption DEF IndInv, DeqAccess
<1>1. t \in Threads /\ Goto(t, "unlock") /\ pc[t] \in Steps /\ "unlock" \in Steps
  BY DEF Threads, TypeOK, Steps
<1>2. TypeOK'
  BY <1>1 DEF TypeOK, CallsCounted, Goto, Slot, Task
<1>3. CallsCounted'
  BY <1>1 DEF CallsCounted, TypeOK, Goto
<1>4. HoldsLock'
  BY <1>1 DEF HoldsLock, TypeOK, Goto
<1>5. SlotsAccounted'
  <2>1. pc[t] = "access"
    OBVIOUS
  <2>2. /\ Reserved \in Nat /\ Unposted \in Nat /\ Claimed \in Nat /\ Kept \in Nat
        /\ Reserved' = Reserved
        /\ Unposted' = Unposted
        /\ Claimed' = Claimed - 1
        /\ Kept' = Kept + 1
    BY <1>1, <2>1, Counting DEF One
  <2>3. /\ rear' = rear /\ front' = front + 1
        /\ spaces_sem' = spaces_sem /\ task_sem' = task_sem
        /\ rear \in Int /\ front \in Int
        /\ spaces_sem \in Int /\ task_sem \in Int
    BY DEF TypeOK
  <2> HIDE DEF IndInv, DeqAccess
  <2>4. SlotsAccounted
    BY DEF IndInv
  <2> QED  BY <2>2, <2>3, <2>4 DEF SlotsAccounted
<1> QED  BY <1>2, <1>3, <1>4, <1>5

LEMMA DeqPostInv ==
  ASSUME IndInv, NEW t \in Dequeuers, DeqPost(t)
  PROVE  IndInv'
<1> USE BlockingAssumption DEF IndInv, DeqPost
<1>1. t \in Threads /\ Goto(t, "wait") /\ pc[t] \in Steps /\ "wait" \in Steps
  BY DEF Threads, TypeOK, Steps
<1>2. TypeOK'
  <2>1. /\ got[t] \in Seq(Task \cup {Unset}) /\ task[t] \in Task \cup {Unset}
        /\ Len(got[t]) < DeqTasks
    BY DEF TypeOK, CallsCounted
  <2>2. /\ Append(got[t], task[t]) \in Seq(Task \cup {Unset})
        /\ Len(Append(got[t], task[t])) <= DeqTasks
    BY <2>1
  <2>3. spaces_sem' \in Nat /\ pc' \in [Threads -> Steps]
    BY <1>1 DEF TypeOK, Goto, Steps
  <2>4. /\ got' \in [Dequeuers -> Seq(Task \cup {Unset})]
        /\ \A d \in Dequeuers : Len(got'[d]) <= DeqTasks
    BY <2>2 DEF TypeOK
  <2> QED  BY <2>3, <2>4 DEF TypeOK, Steps
<1>3. CallsCounted'
  BY <1>1 DEF CallsCounted, TypeOK, Goto
<1>4. HoldsLock'
  BY <1>1 DEF HoldsLock, TypeOK, Goto
<1>5. SlotsAccounted'
  <2>1. pc[t] = "post"
    OBVIOUS
  <2>2. /\ Reserved \in Nat /\ Unposted \in Nat /\ Claimed \in Nat /\ Kept \in Nat
        /\ Reserved' = Reserved
        /\ Unposted' = Unposted
        /\ Claimed' = Claimed
        /\ Kept' = Kept - 1
    BY <1>1, <2>1, Counting DEF One
  <2> QED  BY <2>2 DEF SlotsAccounted, TypeOK
<1> QED  BY <1>2, <1>3, <1>4, <1>5

\* Every step keeps the invariant.
LEMMA NextInv == IndInv /\ [Next]_vars => IndInv'
<1> SUFFICES ASSUME IndInv, [Next]_vars PROVE IndInv'
  OBVIOUS
<1>1. CASE \E e \in Enqueuers : enqueue_blocking(e)
  BY <1>1, EnqWaitInv, LockInv, EnqAccessInv, UnlockInv, EnqPostInv
     DEF enqueue_blocking, Threads
<1>2. CASE \E d \in Dequeuers : dequeue_blocking(d)
  BY <1>2, DeqWaitInv, LockInv, DeqAccessInv, UnlockInv, DeqPostInv
     DEF dequeue_blocking, Threads
<1>3. CASE UNCHANGED vars
  <2> USE <1>3 DEF vars
  <2>1. TypeOK' /\ CallsCounted' /\ HoldsLock'
    BY DEF IndInv, TypeOK, CallsCounted, HoldsLock
  <2>2. SlotsAccounted'
    BY DEF IndInv, SlotsAccounted, Reserved, Unposted, Claimed, Kept, At
  <2> QED  BY <2>1, <2>2 DEF IndInv
<1> QED  BY <1>1, <1>2, <1>3 DEF Next

\* The semaphores, the indices and the threads in a call account for every slot,
\* in every behaviour.
THEOREM SemaphoresCount == Spec => []IndInv
<1> QED  BY InitInv, NextInv, PTL DEF Spec

-----------------------------------------------------------------------------
(* Refinement                                                              *)

\* Two indices less than a ring apart are in different slots.
LEMMA SlotsDiffer ==
  ASSUME NEW a \in Nat, NEW b \in Nat, a < b, b - a < QueueSize
  PROVE  Slot(a) # Slot(b)
<1> USE BlockingAssumption
<1> SUFFICES ASSUME Slot(a) = Slot(b) PROVE FALSE
  OBVIOUS
<1> DEFINE p == a \div QueueSize
           q == b \div QueueSize
<1>1. /\ p \in Int /\ q \in Int
      /\ a = QueueSize * p + Slot(a) /\ b = QueueSize * q + Slot(b)
      /\ Slot(a) \in Int
  BY DEF Slot
<1> HIDE DEF p, q
<1>2. b - a = QueueSize * (q - p)
  BY <1>1
<1>3. CASE q - p >= 1
  <2>1. QueueSize * (q - p) >= QueueSize
    BY <1>1, <1>3
  <2> QED  BY <1>2, <2>1
<1>4. CASE q - p <= 0
  <2>1. QueueSize * (q - p) <= 0
    BY <1>1, <1>4
  <2> QED  BY <1>2, <2>1
<1> QED  BY <1>1, <1>3, <1>4

\* The indices delimit at most the whole array, with room for one who has
\* waited for a space, and an item for one who has waited for a task.
LEMMA Window ==
  ASSUME IndInv
  PROVE  /\ rear \in Nat /\ front \in Nat
         /\ rear - front \in 0 .. QueueSize
         /\ \A e \in Enqueuers : pc[e] = "access" => rear - front < QueueSize
         /\ \A d \in Dequeuers : pc[d] = "access" => rear - front > 0
<1> USE BlockingAssumption
<1>1. /\ rear \in Nat /\ front \in Nat /\ spaces_sem \in Nat /\ task_sem \in Nat
      /\ spaces_sem + Reserved + (rear - front) + Kept = QueueSize
      /\ task_sem + Unposted + Claimed = rear - front
  BY DEF IndInv, TypeOK, SlotsAccounted
<1>2. \A S \in {Enqueuers, Dequeuers} :
        \A M : Cardinality(At(S, M)) \in Nat
  BY FS_Subset, FS_CardinalityType DEF At
<1>3. Reserved \in Nat /\ Unposted \in Nat /\ Claimed \in Nat /\ Kept \in Nat
  BY <1>2 DEF Reserved, Unposted, Claimed, Kept
<1>4. ASSUME NEW e \in Enqueuers, pc[e] = "access" PROVE Reserved >= 1
  BY <1>4, SomeThere DEF Reserved
<1>5. ASSUME NEW d \in Dequeuers, pc[d] = "access" PROVE Claimed >= 1
  BY <1>5, SomeThere DEF Claimed
<1> QED  BY <1>1, <1>3, <1>4, <1>5

Queue == [n \in 1 .. rear - front |-> tasks[Slot(front + n)]]

LEMMA QueueIsSeq ==
  ASSUME IndInv
  PROVE  Queue \in Seq(Task \cup {Unset}) /\ Len(Queue) = rear - front
<1>1. rear - front \in Nat /\ front \in Nat
  BY Window
<1>2. \A n \in Nat : Slot(n) \in 0 .. QueueSize - 1
  BY BlockingAssumption DEF Slot
<1>3. Queue \in [1 .. rear - front -> Task \cup {Unset}]
  BY <1>1, <1>2 DEF Queue, IndInv, TypeOK
<1> QED  BY <1>1, <1>3

\* The access of enqueue_blocking is a Put of the abstract queue.
LEMMA AccessPuts ==
  ASSUME IndInv, NEW e \in Enqueuers, EnqAccess(e)
  PROVE  Buffer!Put(e)
<1>1. /\ pc[e] = "access" /\ pc \in [Threads -> Steps]
      /\ pc' = [pc EXCEPT ![e] = "unlock"] /\ e \in Threads
      /\ rear' = rear + 1 /\ front' = front /\ puts' = puts
      /\ tasks' = [tasks EXCEPT ![Slot(rear + 1)] = <<e, puts[e] + 1>>]
      /\ UNCHANGED <<task, got>>
      /\ puts \in [Enqueuers -> 0 .. EnqTasks] /\ puts[e] < EnqTasks
      /\ tasks \in [0 .. QueueSize - 1 -> Task \cup {Unset}]
  BY DEF EnqAccess, Goto, IndInv, TypeOK, Steps, Threads, CallsCounted
<1>2. /\ rear \in Nat /\ front \in Nat
      /\ rear - front \in 0 .. QueueSize - 1
  BY <1>1, Window, BlockingAssumption
<1>3. Queue' = Append(Queue, <<e, puts[e] + 1>>)
  <2> DEFINE x == <<e, puts[e] + 1>>
  <2>1. Slot(rear + 1) \in 0 .. QueueSize - 1
    BY <1>2, BlockingAssumption DEF Slot
  <2>2. \A n \in 1 .. rear - front :
          tasks'[Slot(front + n)] = tasks[Slot(front + n)]
    <3> SUFFICES ASSUME NEW n \in 1 .. rear - front
                 PROVE  tasks'[Slot(front + n)] = tasks[Slot(front + n)]
      OBVIOUS
    <3>1. Slot(front + n) # Slot(rear + 1)
      BY <1>2, SlotsDiffer, BlockingAssumption
    <3> QED  BY <1>1, <3>1
  <2>3. tasks'[Slot(rear + 1)] = x
    BY <1>1, <2>1
  <2>4. front + (rear - front + 1) = rear + 1
    BY <1>2
  <2>5. Queue' = [n \in 1 .. rear - front + 1 |->
                    IF n = rear - front + 1 THEN x ELSE Queue[n]]
    <3>1. Queue' = [n \in 1 .. (rear + 1) - front |-> tasks'[Slot(front + n)]]
      BY <1>1 DEF Queue, Slot
    <3>2. (rear + 1) - front = rear - front + 1
      BY <1>2
    <3>3. \A n \in 1 .. rear - front : Queue[n] = tasks[Slot(front + n)]
      BY DEF Queue
    <3>4. \A n \in 1 .. rear - front + 1 :
            tasks'[Slot(front + n)] =
              IF n = rear - front + 1 THEN x ELSE Queue[n]
      BY <1>2, <2>2, <2>3, <2>4, <3>3
    <3> QED  BY <3>1, <3>2, <3>4
  <2> QED  BY <2>5, QueueIsSeq
<1>4. /\ ~Effective(e) /\ Effective(e)'
      /\ \A t \in Threads \ {e} : Effective(t)' <=> Effective(t)
  BY <1>1 DEF Effective
<1>5. \A d \in Dequeuers : d # e /\ d \in Threads
  BY BlockingAssumption DEF Threads
<1>6. Len(Queue) < QueueSize
  BY <1>2, QueueIsSeq, BlockingAssumption
<1>7. [u \in Enqueuers |-> IF Effective(u) THEN puts[u] + 1 ELSE puts[u]]'
        = [[u \in Enqueuers |-> IF Effective(u) THEN puts[u] + 1 ELSE puts[u]]
             EXCEPT ![e] = @ + 1]
  BY <1>1, <1>4 DEF Threads
<1>8. [d \in Dequeuers |-> IF Effective(d) THEN Append(got[d], task[d])
                                           ELSE got[d]]'
        = [d \in Dequeuers |-> IF Effective(d) THEN Append(got[d], task[d])
                                               ELSE got[d]]
  BY <1>1, <1>4, <1>5
<1> QED  BY <1>1, <1>3, <1>4, <1>6, <1>7, <1>8 DEF Buffer!Put, Queue

\* The access of dequeue_blocking is a Get of the abstract queue.
LEMMA AccessGets ==
  ASSUME IndInv, NEW d \in Dequeuers, DeqAccess(d)
  PROVE  Buffer!Get(d)
<1>1. /\ pc[d] = "access" /\ pc \in [Threads -> Steps]
      /\ pc' = [pc EXCEPT ![d] = "unlock"] /\ d \in Threads
      /\ rear' = rear /\ front' = front + 1 /\ puts' = puts /\ tasks' = tasks
      /\ task' = [task EXCEPT ![d] = tasks[Slot(front + 1)]]
      /\ task \in [Dequeuers -> Task \cup {Unset}] /\ got' = got
      /\ Len(got[d]) < DeqTasks
  BY DEF DeqAccess, Goto, IndInv, TypeOK, Steps, Threads, CallsCounted
<1>2. /\ rear \in Nat /\ front \in Nat
      /\ rear - front \in 1 .. QueueSize
  BY <1>1, Window
<1>3. /\ Queue # <<>>
      /\ Head(Queue) = tasks[Slot(front + 1)]
  <2>1. Queue[1] = tasks[Slot(front + 1)]
    BY <1>2 DEF Queue
  <2> QED  BY <1>2, <2>1, QueueIsSeq
<1>4. Queue' = Tail(Queue)
  <2>1. Tail(Queue) = [n \in 1 .. rear - front - 1 |-> Queue[n + 1]]
    <3> DEFINE Q == Queue
    <3>1. /\ Q \in Seq(Task \cup {Unset}) /\ Q # <<>> /\ Len(Q) = rear - front
          /\ rear - front \in Nat \ {0}
      BY <1>2, <1>3, QueueIsSeq
    <3> HIDE DEF Q
    <3>2. /\ Tail(Q) \in Seq(Task \cup {Unset}) /\ Len(Tail(Q)) = Len(Q) - 1
          /\ \A n \in 1 .. Len(Tail(Q)) : Tail(Q)[n] = Q[n + 1]
      BY <3>1, HeadTailProperties
    <3>3. Tail(Q) = [n \in 1 .. Len(Tail(Q)) |-> Tail(Q)[n]]
      BY <3>2, LenProperties
    <3>4. Len(Tail(Q)) = rear - front - 1
      BY <3>1, <3>2
    <3>5. Tail(Q) = [n \in 1 .. rear - front - 1 |-> Q[n + 1]]
      BY <3>2, <3>3, <3>4
    <3> QED  BY <3>5 DEF Q
  <2>2. Queue' = [n \in 1 .. rear - (front + 1) |-> tasks[Slot(front + 1 + n)]]
    BY <1>1 DEF Queue, Slot
  <2>3. \A n \in 1 .. rear - front - 1 :
          Queue[n + 1] = tasks[Slot(front + 1 + n)]
    <3> SUFFICES ASSUME NEW n \in 1 .. rear - front - 1
                 PROVE  Queue[n + 1] = tasks[Slot(front + 1 + n)]
      OBVIOUS
    <3>1. n + 1 \in 1 .. rear - front /\ front + (n + 1) = front + 1 + n
      BY <1>2
    <3> QED  BY <3>1 DEF Queue
  <2>4. rear - (front + 1) = rear - front - 1
    BY <1>2
  <2> QED  BY <2>1, <2>2, <2>3, <2>4
<1>5. /\ ~Effective(d) /\ Effective(d)'
      /\ \A t \in Threads \ {d} : Effective(t)' <=> Effective(t)
  BY <1>1 DEF Effective
<1>6. \A e \in Enqueuers : e # d /\ e \in Threads
  BY BlockingAssumption DEF Threads
<1>7. [e \in Enqueuers |-> IF Effective(e) THEN puts[e] + 1 ELSE puts[e]]'
        = [e \in Enqueuers |-> IF Effective(e) THEN puts[e] + 1 ELSE puts[e]]
  BY <1>1, <1>5, <1>6
<1>8. [u \in Dequeuers |-> IF Effective(u) THEN Append(got[u], task[u])
                                           ELSE got[u]]'
        = [[u \in Dequeuers |-> IF Effective(u) THEN Append(got[u], task[u])
                                                ELSE got[u]]
             EXCEPT ![d] = Append(@, tasks[Slot(front + 1)])]
  BY <1>1, <1>5 DEF Threads
<1> QED  BY <1>1, <1>3, <1>4, <1>5, <1>7, <1>8 DEF Buffer!Get, Queue

\* A step that accesses no slot changes nothing the abstract queue knows of.
LEMMA OthersStutter ==
  ASSUME IndInv, NEW t \in Threads,
         \/ Lock(t) \/ Unlock(t)
         \/ t \in Enqueuers /\ (EnqWait(t) \/ EnqPost(t))
         \/ t \in Dequeuers /\ (DeqWait(t) \/ DeqPost(t))
  PROVE  UNCHANGED Buffer!vars
<1>1. /\ UNCHANGED <<tasks, rear, front, task>>
      /\ pc \in [Threads -> Steps]
      /\ puts \in [Enqueuers -> 0 .. EnqTasks]
      /\ got \in [Dequeuers -> Seq(Task \cup {Unset})]
      /\ Enqueuers \cap Dequeuers = {}
  BY BlockingAssumption
     DEF IndInv, TypeOK, Steps, Lock, Unlock, EnqWait, EnqPost, DeqWait, DeqPost
<1>2. UNCHANGED Queue
  BY <1>1 DEF Queue, Slot
<1>3. ASSUME NEW e \in Enqueuers
      PROVE  (IF Effective(e) THEN puts[e] + 1 ELSE puts[e])'
               = IF Effective(e) THEN puts[e] + 1 ELSE puts[e]
  BY <1>1 DEF Effective, Threads, Goto, Lock, Unlock, EnqWait, EnqPost, DeqWait,
              DeqPost
<1>4. ASSUME NEW d \in Dequeuers
      PROVE  (IF Effective(d) THEN Append(got[d], task[d]) ELSE got[d])'
               = IF Effective(d) THEN Append(got[d], task[d]) ELSE got[d]
  BY <1>1 DEF Effective, Threads, Goto, Lock, Unlock, EnqWait, EnqPost, DeqWait,
              DeqPost
<1> QED  BY <1>2, <1>3, <1>4 DEF Buffer!vars, Queue

\* The two semaphores, the mutex and the array implement a bounded FIFO queue,
\* for any number of threads, slots and calls: nothing is overwritten before it
\* has been dequeued, dequeued twice or dequeued out of order.
THEOREM BlockingRefines == Spec => Buffer!Spec
<1>1. Init => Buffer!Init
  <2> SUFFICES ASSUME Init PROVE Buffer!Init
    OBVIOUS
  <2>1. Queue = <<>>
    BY InitInv, QueueIsSeq DEF Init
  <2>2. \A t \in Threads : ~Effective(t)
    BY DEF Init, Effective
  <2> QED  BY <2>1, <2>2 DEF Buffer!Init, Queue, Init, Threads
<1>2. IndInv /\ [Next]_vars => [Buffer!Next]_(Buffer!vars)
  <2> SUFFICES ASSUME IndInv, [Next]_vars
               PROVE  Buffer!Next \/ UNCHANGED Buffer!vars
    OBVIOUS
  <2>1. CASE \E e \in Enqueuers : enqueue_blocking(e)
    BY <2>1, AccessPuts, OthersStutter DEF enqueue_blocking, Buffer!Next, Threads
  <2>2. CASE \E d \in Dequeuers : dequeue_blocking(d)
    BY <2>2, AccessGets, OthersStutter DEF dequeue_blocking, Buffer!Next, Threads
  <2>3. CASE UNCHANGED vars
    BY <2>3 DEF vars, Buffer!vars, Effective, Slot
  <2> QED  BY <2>1, <2>2, <2>3 DEF Next
<1> QED  BY <1>1, <1>2, SemaphoresCount, PTL DEF Spec, Buffer!Spec

-----------------------------------------------------------------------------
(* The lock benchmark: its inductive invariant                             *)

Places == {"none", "pass", "load", "store", "release", "returned"}
Line == [threads : Nat, ticks : SUBSET (Nat \X Nat)]

\* The types, and what main has printed.
BenchTypes ==
  /\ BenchTypeOK
  /\ lines \in Seq(Line)

\* Where main is in its round.
MainInv ==
  /\ k >= 1
  /\ mpc \in {"create", "join"} => k <= TotalThreads
  /\ mpc \in {"round", "end"} => created = 0 /\ joined = 0
  /\ mpc = "create" => created < k /\ joined = 0
  /\ mpc = "join" => created = k /\ joined < k

\* Only threads of this round run, and those joined have returned.
ThreadInv ==
  \A t \in Workers :
    /\ tpc[t] \notin {"none", "returned"} => t < created
    /\ t < joined => tpc[t] = "returned"
    /\ tpc[t] = "returned" => i[t] = NumSamples
    /\ tpc[t] \in {"load", "store", "release"} =>
         i[t] < NumSamples /\ run \notin {0, 5}

\* The threads of this round that have returned are those that have added to
\* dequeue_ticks.
TicksInv ==
  mpc \in {"create", "join"} =>
    dequeueTicks = {<<k, t>> : t \in {u \in Workers : u < created /\ tpc[u] = "returned"}}

\* Whoever is between omp_set_lock and omp_unset_lock holds olock, and nobody
\* changes the counter between its read and its write.
OlockInv ==
  run = 6 =>
    \A t \in Workers :
      /\ tpc[t] \in {"load", "store", "release"} <=> olock = t
      /\ tpc[t] = "store" => load[t] = counter

\* The counter, in a round and between two.
CounterInv ==
  run \in {0, 6} =>
    /\ mpc = "round" => counter = NumSamples * (k - 1)
    /\ mpc \in {"create", "join"} =>
         counter = NumSamples * (k - 1) + Cardinality(Additions)

RoundInv == BenchTypes /\ MainInv /\ ThreadInv /\ TicksInv
BenchInv == RoundInv /\ OlockInv /\ CounterInv

-----------------------------------------------------------------------------
(* The rounds                                                              *)

LEMMA InitRoundInv == BenchInit => RoundInv /\ LinesOwn
<1> SUFFICES ASSUME BenchInit PROVE RoundInv /\ LinesOwn
  OBVIOUS
<1>1. BenchTypes
  BY LockBenchAssumption DEF BenchInit, BenchTypes, BenchTypeOK, Workers
<1>2. MainInv /\ ThreadInv /\ TicksInv /\ LinesOwn
  BY LockBenchAssumption DEF BenchInit, MainInv, ThreadInv, TicksInv, LinesOwn, Workers
<1> QED  BY <1>1, <1>2 DEF RoundInv

\* A step of a thread of this round keeps what is known of the round.
LEMMA ThreadsKeepRounds ==
  ASSUME RoundInv, NEW t \in Workers, worker_handler(t)
  PROVE  RoundInv' /\ lines' = lines
<1> USE LockBenchAssumption DEF RoundInv
<1>1. /\ tpc \in [Workers -> Places] /\ i \in [Workers -> 0 .. NumSamples]
      /\ t \in Nat /\ created \in Nat /\ k \in Nat /\ counter \in Nat
      /\ load \in [Workers -> Nat]
  BY DEF BenchTypes, BenchTypeOK, Workers, Places
<1>2. /\ UNCHANGED mainvars
      /\ tpc[t] \in {"pass", "load", "store", "release"}
      /\ t < created
  <2>1. UNCHANGED mainvars /\ tpc[t] \in {"pass", "load", "store", "release"}
    BY DEF worker_handler, Acquire, Load, Store, Release, SinglePass, Finish
  <2> QED  BY <2>1 DEF ThreadInv
<1>3. BenchTypes'
  <2>1. UNCHANGED <<run, k, mpc, created, joined, lines>>
    BY <1>2 DEF mainvars
  <2>2. olock' \in Workers \cup {NoOwner} /\ counter' \in Nat
    BY <1>1 DEF worker_handler, Acquire, Load, Store, Release, SinglePass, Finish,
                BenchTypes, BenchTypeOK
  <2>3. tpc' \in [Workers -> Places]
    BY <1>1 DEF worker_handler, Acquire, Load, Store, Release, SinglePass, Finish,
                Move, Places
  <2>4. i' \in [Workers -> 0 .. NumSamples]
    <3>1. tpc[t] = "release" => i[t] < NumSamples
      BY DEF ThreadInv
    <3>2. UNCHANGED i \/ (i[t] < NumSamples /\ i' = [i EXCEPT ![t] = @ + 1])
      BY <3>1 DEF worker_handler, Acquire, Load, Store, Release, SinglePass, Finish
    <3> QED  BY <3>2, <1>1
  <2>5. load' \in [Workers -> Nat]
    BY <1>1 DEF worker_handler, Acquire, Load, Store, Release, SinglePass, Finish
  <2> QED  BY <2>1, <2>2, <2>3, <2>4, <2>5 DEF BenchTypes, BenchTypeOK, Places
<1>4. MainInv'
  BY <1>2 DEF MainInv, mainvars
<1>5. ThreadInv'
  BY <1>1, <1>2 DEF worker_handler, Acquire, Load, Store, Release, SinglePass, Finish,
              ThreadInv, mainvars, Move, BenchTypes, BenchTypeOK
<1>6. TicksInv'
  <2>1. CASE Finish(t)
    <3> SUFFICES ASSUME mpc \in {"create", "join"}
                 PROVE  dequeueTicks' = {<<k, u>> : u \in {v \in Workers :
                                           v < created /\ tpc'[v] = "returned"}}
      BY <1>2 DEF TicksInv, mainvars
    <3>1. {v \in Workers : v < created /\ tpc'[v] = "returned"}
            = {v \in Workers : v < created /\ tpc[v] = "returned"} \cup {t}
      BY <2>1, <1>1, <1>2 DEF Finish, Move
    <3> QED  BY <2>1, <3>1, <1>2 DEF TicksInv, Finish
  <2>2. CASE ~Finish(t)
    <3>1. /\ dequeueTicks' = dequeueTicks
          /\ \A u \in Workers : tpc'[u] = "returned" <=> tpc[u] = "returned"
      BY <2>2, <1>1 DEF worker_handler, Acquire, Load, Store, Release, SinglePass, Move
    <3> QED  BY <3>1, <1>2 DEF TicksInv, mainvars
  <2> QED  BY <2>1, <2>2
<1> QED  BY <1>2, <1>3, <1>4, <1>5, <1>6 DEF mainvars

LEMMA RoundKeepsRounds == RoundInv /\ Round => RoundInv'
<1> SUFFICES ASSUME RoundInv, Round PROVE RoundInv'
  OBVIOUS
<1> USE LockBenchAssumption DEF RoundInv, Round
<1>1. BenchTypes' /\ MainInv' /\ ThreadInv'
  BY DEF BenchTypes, BenchTypeOK, MainInv, ThreadInv
<1>2. TicksInv'
  BY DEF TicksInv, MainInv, Workers
<1> QED  BY <1>1, <1>2

LEMMA CreateKeepsRounds == RoundInv /\ Create => RoundInv'
<1> SUFFICES ASSUME RoundInv, Create PROVE RoundInv'
  OBVIOUS
<1> USE LockBenchAssumption DEF RoundInv
<1>1. /\ created \in Workers /\ created \in Nat /\ created < k /\ k <= TotalThreads
      /\ k \in Nat /\ mpc = "create" /\ mpc' \in {"create", "join"}
      /\ created' = created + 1 /\ k' = k /\ joined = 0
  BY DEF Create, MainInv, BenchTypes, BenchTypeOK, Workers
<1>2. BenchTypes'
  BY <1>1 DEF BenchTypes, BenchTypeOK, Create
<1>3. MainInv'
  BY <1>1 DEF Create, MainInv
<1>4. ThreadInv'
  BY <1>1 DEF Create, ThreadInv, Workers, BenchTypes, BenchTypeOK
<1>5. TicksInv'
  <2>1. {v \in Workers : v < created' /\ tpc'[v] = "returned"}
          = {v \in Workers : v < created /\ tpc[v] = "returned"}
    <3>1. tpc' = [tpc EXCEPT ![created] = "pass"] /\ DOMAIN tpc = Workers
      BY DEF Create, BenchTypes, BenchTypeOK
    <3>2. ASSUME NEW v \in Workers
          PROVE  v < created + 1 /\ tpc'[v] = "returned"
                   <=> v < created /\ tpc[v] = "returned"
      <4>1. v \in Nat
        BY DEF Workers
      <4>2. CASE v = created
        BY <1>1, <3>1, <4>2
      <4>3. CASE v # created
        BY <1>1, <3>1, <4>1, <4>3
      <4> QED  BY <4>2, <4>3
    <3> QED  BY <1>1, <3>2
  <2> QED  BY <2>1, <1>1 DEF TicksInv, Create
<1> QED  BY <1>2, <1>3, <1>4, <1>5

\* When main joins the last thread of a round all its threads have returned.
LEMMA LastJoin ==
  ASSUME RoundInv, Join, joined + 1 >= k
  PROVE  /\ joined = k - 1 /\ created = k
         /\ \A t \in Workers : t < k => tpc[t] = "returned"
         /\ 0 .. k - 1 = {t \in Workers : t < k}
         /\ dequeueTicks = {k} \X (0 .. k - 1)
<1> USE LockBenchAssumption DEF RoundInv
<1>1. /\ k \in Nat /\ joined = k - 1 /\ created = k /\ k <= TotalThreads /\ k >= 1
      /\ tpc[joined] = "returned" /\ mpc = "join"
  BY DEF Join, MainInv, BenchTypes, BenchTypeOK
<1>2. \A t \in Workers : t < k => tpc[t] = "returned"
  BY <1>1 DEF ThreadInv, Workers
<1>3. 0 .. k - 1 = {t \in Workers : t < k}
  BY <1>1 DEF Workers
<1>4. dequeueTicks = {<<k, t>> : t \in {u \in Workers : u < k /\ tpc[u] = "returned"}}
  BY <1>1 DEF TicksInv
<1>5. dequeueTicks = {k} \X (0 .. k - 1)
  BY <1>2, <1>3, <1>4
<1> QED  BY <1>1, <1>2, <1>3, <1>5

LEMMA JoinKeepsRounds ==
  ASSUME RoundInv, LinesOwn, Join
  PROVE  RoundInv' /\ LinesOwn'
<1> USE LockBenchAssumption DEF RoundInv
<1>1. /\ k \in Nat /\ joined \in Nat /\ created \in Nat /\ mpc = "join"
      /\ created = k /\ joined < k /\ lines \in Seq(Line)
      /\ tpc[joined] = "returned"
      /\ UNCHANGED <<run, dequeueTicks, olock, counter, tpc, i, load>>
  BY DEF Join, MainInv, BenchTypes, BenchTypeOK
<1>2. CASE joined + 1 < k
  <2>1. joined' = joined + 1 /\ UNCHANGED <<k, mpc, created, lines>>
    BY <1>2 DEF Join, Joined
  <2>2. BenchTypes' /\ MainInv' /\ TicksInv' /\ LinesOwn'
    BY <1>1, <1>2, <2>1 DEF BenchTypes, BenchTypeOK, MainInv, TicksInv, LinesOwn
  <2>3. ThreadInv'
    BY <1>1, <2>1 DEF ThreadInv, Workers
  <2> QED  BY <2>2, <2>3
<1>3. CASE ~(joined + 1 < k)
  <2> DEFINE line == [threads |-> k, ticks |-> dequeueTicks]
  <2>1. /\ joined' = 0 /\ created' = 0 /\ lines' = Append(lines, line)
        /\ k' = 2 * k /\ mpc' = "round"
    BY <1>3 DEF Join, Joined
  <2>2. /\ \A t \in Workers : t < k => tpc[t] = "returned"
        /\ dequeueTicks = {k} \X (0 .. k - 1)
    BY <1>1, <1>3, LastJoin
  <2>3. line \in Line
    BY <1>1, <2>2 DEF Line
  <2>4. BenchTypes' /\ MainInv' /\ TicksInv'
    <3>1. BenchTypes'
      <4>1. lines' \in Seq(Line)
        BY <1>1, <2>1, <2>3
      <4>2. k' \in Nat /\ created' \in 0 .. k' /\ joined' \in 0 .. k'
        BY <1>1, <2>1
      <4>3. BenchTypeOK
        BY DEF BenchTypes
      <4> QED  BY ONLY <1>1, <2>1, <4>1, <4>2, <4>3 DEF BenchTypes, BenchTypeOK
    <3>2. MainInv'
      BY <1>1, <2>1 DEF MainInv
    <3>3. TicksInv'
      BY <2>1 DEF TicksInv
    <3> QED  BY <3>1, <3>2, <3>3
  <2>5. ThreadInv'
    BY <1>1, <2>1, <2>2 DEF ThreadInv, Workers
  <2>6. LinesOwn'
    <3>1. /\ Len(lines) \in Nat /\ Len(lines') = Len(lines) + 1
          /\ \A n \in 1 .. Len(lines) : lines'[n] = lines[n]
          /\ lines'[Len(lines) + 1] = line
      BY <1>1, <2>1, <2>3
    <3>2. line.ticks = {line.threads} \X (0 .. line.threads - 1)
      BY <2>2
    <3> HIDE DEF line
    <3>3. ASSUME NEW n \in 1 .. Len(lines')
          PROVE  lines'[n].ticks = {lines'[n].threads} \X (0 .. lines'[n].threads - 1)
      <4>1. CASE n = Len(lines) + 1
        BY <3>1, <3>2, <4>1
      <4>2. CASE n # Len(lines) + 1
        <5>1. n \in 1 .. Len(lines)
          BY <3>1, <4>2
        <5> QED  BY <3>1, <5>1 DEF LinesOwn
      <4> QED  BY <4>1, <4>2
    <3> QED  BY <3>3 DEF LinesOwn
  <2> QED  BY <2>4, <2>5, <2>6
<1> QED  BY <1>2, <1>3

LEMMA EndKeepsRounds == RoundInv /\ End => RoundInv'
BY LockBenchAssumption
   DEF RoundInv, End, BenchTypes, BenchTypeOK, MainInv, ThreadInv, TicksInv

LEMMA StepKeepsRounds ==
  RoundInv /\ LinesOwn /\ [BenchNext]_benchvars => RoundInv' /\ LinesOwn'
<1> SUFFICES ASSUME RoundInv, LinesOwn, [BenchNext]_benchvars PROVE RoundInv' /\ LinesOwn'
  OBVIOUS
<1>1. CASE Round
  BY <1>1, RoundKeepsRounds DEF Round, LinesOwn
<1>2. CASE Create
  BY <1>2, CreateKeepsRounds DEF Create, LinesOwn
<1>3. CASE Join
  BY <1>3, JoinKeepsRounds
<1>4. CASE End
  BY <1>4, EndKeepsRounds DEF End, LinesOwn
<1>5. CASE \E t \in Workers : worker_handler(t)
  BY <1>5, ThreadsKeepRounds DEF LinesOwn
<1>6. CASE UNCHANGED benchvars
  BY <1>6 DEF benchvars, RoundInv, BenchTypes, BenchTypeOK, MainInv, ThreadInv,
              TicksInv, LinesOwn
<1> QED  BY <1>1, <1>2, <1>3, <1>4, <1>5, <1>6 DEF BenchNext, main, Ended

\* Every line of locks.c is the sum over the threads of its own round, all of
\* them, in every build: dequeue_ticks is set back before the first of them can
\* add to it, and printed after the last.
THEOREM LinesAreOwn == BenchSpec => []LinesOwn
<1>1. BenchInit => RoundInv /\ LinesOwn
  BY InitRoundInv
<1>2. RoundInv /\ LinesOwn /\ [BenchNext]_benchvars => (RoundInv /\ LinesOwn)'
  BY StepKeepsRounds
<1> QED  BY <1>1, <1>2, PTL DEF BenchSpec

-----------------------------------------------------------------------------
(* The lock                                                                *)

\* main does not touch the lock, and creates threads outside it.
LEMMA MainKeepsLock ==
  ASSUME RoundInv, OlockInv, main
  PROVE  OlockInv'
<1>1. UNCHANGED <<run, olock, counter, load>>
  BY DEF main, Round, Create, Join, End
<1>2. ASSUME NEW t \in Workers
      PROVE  /\ tpc'[t] \in {"load", "store", "release"}
                  <=> tpc[t] \in {"load", "store", "release"}
             /\ tpc'[t] = "store" => tpc[t] = "store"
  <2>1. CASE Create
    <3>1. created = t => tpc[t] \notin {"load", "store", "release"}
      BY LockBenchAssumption DEF RoundInv, ThreadInv, Workers
    <3>2. tpc \in [Workers -> Places] /\ tpc' = [tpc EXCEPT ![created] = "pass"]
      BY <2>1 DEF RoundInv, BenchTypes, BenchTypeOK, Places, Create
    <3> QED  BY <3>1, <3>2
  <2>2. CASE ~Create
    BY <2>2 DEF main, Round, Join, End
  <2> QED  BY <2>1, <2>2
<1> QED  BY <1>1, <1>2 DEF OlockInv

\* olock excludes: who has it is alone between the read and the write.
LEMMA ThreadsKeepLock ==
  ASSUME RoundInv, OlockInv, NEW t \in Workers, worker_handler(t)
  PROVE  OlockInv'
<1>1. /\ tpc \in [Workers -> Places] /\ load \in [Workers -> Nat]
      /\ run' = run /\ NoOwner \notin Workers
  BY LockBenchAssumption
     DEF RoundInv, BenchTypes, BenchTypeOK, Places, worker_handler, Acquire, Load, Store,
         Release, SinglePass, Finish, mainvars
<1> SUFFICES ASSUME run = 6, NEW u \in Workers
             PROVE  /\ tpc'[u] \in {"load", "store", "release"} <=> olock' = u
                    /\ tpc'[u] = "store" => load'[u] = counter'
  BY <1>1 DEF OlockInv
<1>2. \A v \in Workers : /\ tpc[v] \in {"load", "store", "release"} <=> olock = v
                         /\ tpc[v] = "store" => load[v] = counter
  BY DEF OlockInv
<1>3. CASE Acquire(t)
  BY <1>1, <1>2, <1>3 DEF Acquire, Move
<1>4. CASE Load(t)
  BY <1>1, <1>2, <1>4 DEF Load, Move
<1>5. CASE Store(t)
  BY <1>1, <1>2, <1>5 DEF Store, Move
<1>6. CASE Release(t)
  BY <1>1, <1>2, <1>6 DEF Release, Move
<1>7. CASE Finish(t)
  BY <1>1, <1>2, <1>7 DEF Finish, Move
<1>8. ~SinglePass(t)
  BY DEF SinglePass
<1> QED  BY <1>3, <1>4, <1>5, <1>6, <1>7, <1>8 DEF worker_handler

-----------------------------------------------------------------------------
(* The counter                                                             *)

\* The set of additions is finite, whatever the threads have done.
LEMMA AdditionsFinite ==
  ASSUME BenchTypes
  PROVE  IsFiniteSet(Additions) /\ Cardinality(Additions) \in Nat
<1> DEFINE A == (0 .. created - 1) \X (1 .. NumSamples)
<1>1. created \in Nat /\ NumSamples \in Nat /\ created - 1 \in Int
  BY LockBenchAssumption DEF BenchTypes, BenchTypeOK
<1>2. IsFiniteSet(A)
  <2>1. IsFiniteSet(0 .. created - 1) /\ IsFiniteSet(1 .. NumSamples)
    BY <1>1, FS_Interval
  <2> QED  BY <2>1, FS_Product
<1>3. Additions \in SUBSET A
  BY DEF Additions
<1> QED  BY <1>2, <1>3, FS_Subset, FS_CardinalityType

\* One more addition of one thread is one more element.
LEMMA OneAddition ==
  ASSUME BenchTypes, NEW t \in Workers, t < created, i[t] < NumSamples,
         Added(t) = i[t], Added(t)' = i[t] + 1, created' = created,
         \A u \in Workers \ {t} : Added(u)' = Added(u), created <= TotalThreads
  PROVE  Cardinality(Additions') = Cardinality(Additions) + 1
<1>1. /\ i[t] \in Nat /\ NumSamples \in Nat /\ created \in Nat
      /\ \A u \in 0 .. created - 1 : u \in Workers
      /\ t \in 0 .. created - 1
  BY LockBenchAssumption DEF BenchTypes, BenchTypeOK, Workers
<1>2. Additions' = Additions \cup {<<t, i[t] + 1>>}
  <2>1. ASSUME NEW u \in 0 .. created - 1, NEW n \in 1 .. NumSamples
        PROVE  n <= Added(u)' <=> n <= Added(u) \/ (u = t /\ n = i[t] + 1)
    BY <1>1
  <2>2. i[t] + 1 \in 1 .. NumSamples
    BY <1>1
  <2> QED  BY <1>1, <2>1, <2>2 DEF Additions
<1>3. <<t, i[t] + 1>> \notin Additions
  BY <1>1 DEF Additions
<1> QED  BY <1>2, <1>3, AdditionsFinite, FS_AddElement

LEMMA ThreadsKeepCounter ==
  ASSUME RoundInv, OlockInv, CounterInv, NEW t \in Workers, worker_handler(t)
  PROVE  CounterInv'
<1> SUFFICES ASSUME run \in {0, 6}
             PROVE  /\ mpc = "round" => counter' = NumSamples * (k - 1)
                    /\ mpc \in {"create", "join"} =>
                         counter' = NumSamples * (k - 1) + Cardinality(Additions')
  BY DEF CounterInv, worker_handler, Acquire, Load, Store, Release, SinglePass,
         Finish, mainvars
<1>1. /\ tpc \in [Workers -> Places] /\ i \in [Workers -> 0 .. NumSamples]
      /\ NumSamples \in Nat /\ created \in Nat /\ t \in Nat /\ k \in Nat
      /\ created' = created /\ k >= 1 /\ BenchTypes
      /\ Cardinality(Additions) \in Nat /\ counter \in Nat
  <2>1. BenchTypes /\ k >= 1
    BY DEF RoundInv, MainInv
  <2>2. created' = created
    BY DEF worker_handler, Acquire, Load, Store, Release, SinglePass, Finish, mainvars
  <2>3. Cardinality(Additions) \in Nat
    BY <2>1, AdditionsFinite
  <2> QED  BY <2>1, <2>2, <2>3, LockBenchAssumption
              DEF BenchTypes, BenchTypeOK, Places, Workers
<1>2. t < created /\ mpc \in {"create", "join"} /\ created <= TotalThreads
  <2>1. t < created
    BY DEF RoundInv, ThreadInv, worker_handler, Acquire, Load, Store, Release,
           SinglePass, Finish
  <2> QED  BY <1>1, <2>1, LockBenchAssumption
              DEF RoundInv, MainInv, BenchTypes, BenchTypeOK
<1>3. counter = NumSamples * (k - 1) + Cardinality(Additions)
  BY <1>2 DEF CounterInv
<1>4. ASSUME counter' = counter, \A u \in Workers : Added(u)' = Added(u)
      PROVE  Additions' = Additions
  <2>1. \A u \in 0 .. created - 1 : u \in Workers
    BY <1>1, <1>2, LockBenchAssumption DEF Workers
  <2> QED  BY <1>1, <1>4, <2>1 DEF Additions
<1>5. ASSUME counter' = counter + 1, i[t] < NumSamples,
             Added(t) = i[t], Added(t)' = i[t] + 1,
             \A u \in Workers \ {t} : Added(u)' = Added(u)
      PROVE  Cardinality(Additions') = Cardinality(Additions) + 1
  BY <1>1, <1>2, <1>5, OneAddition
<1> DEFINE base == NumSamples * (k - 1)
<1>6. base \in Int
  BY <1>1
<1>7. \/ counter' = counter /\ \A u \in Workers : Added(u)' = Added(u)
      \/ /\ counter' = counter + 1 /\ i[t] < NumSamples
         /\ Added(t) = i[t] /\ Added(t)' = i[t] + 1
         /\ \A u \in Workers \ {t} : Added(u)' = Added(u)
  <2>1. CASE Acquire(t)
    BY <2>1, <1>1 DEF Acquire, Move, Added
  <2>2. CASE Load(t)
    BY <2>2, <1>1 DEF Load, Move, Added
  <2>3. CASE Store(t)
    <3>1. run = 6 /\ i[t] < NumSamples
      BY <2>3 DEF Store, RoundInv, ThreadInv
    <3>2. load[t] = counter
      BY <2>3, <3>1 DEF Store, OlockInv
    <3> QED  BY <2>3, <3>1, <3>2, <1>1 DEF Store, Move, Added
  <2>4. CASE Release(t)
    BY <2>4, <1>1 DEF Release, Move, Added
  <2>5. CASE SinglePass(t)
    BY <2>5, <1>1 DEF SinglePass, Added
  <2>6. CASE Finish(t)
    BY <2>6, <1>1 DEF Finish, Move, Added
  <2> QED  BY <2>1, <2>2, <2>3, <2>4, <2>5, <2>6 DEF worker_handler
<1> HIDE DEF base
<1>8. counter' = base + Cardinality(Additions')
  BY <1>1, <1>3, <1>4, <1>5, <1>6, <1>7 DEF base
<1> QED  BY <1>2, <1>8 DEF base

LEMMA MainKeepsCounter ==
  ASSUME RoundInv, CounterInv, main
  PROVE  CounterInv'
<1>1. /\ NumSamples \in Nat /\ created \in Nat /\ k \in Nat /\ counter \in Nat
      /\ k >= 1 /\ tpc \in [Workers -> Places]
      /\ i \in [Workers -> 0 .. NumSamples]
      /\ run' = run /\ counter' = counter
  BY LockBenchAssumption
     DEF RoundInv, BenchTypes, BenchTypeOK, Places, MainInv, main, Round, Create,
         Join, End
<1> SUFFICES ASSUME run \in {0, 6}
             PROVE  /\ mpc' = "round" => counter = NumSamples * (k' - 1)
                    /\ mpc' \in {"create", "join"} =>
                         counter = NumSamples * (k' - 1) + Cardinality(Additions')
  BY <1>1 DEF CounterInv
<1>2. CASE Round
  <2>1. Additions' = {}
    BY <1>2, <1>1 DEF Round, RoundInv, MainInv, Additions
  <2> QED  BY <1>1, <1>2, <2>1, FS_EmptySet DEF Round, CounterInv
<1>3. CASE Create
  <2>1. /\ created' = created + 1 /\ k' = k /\ mpc' \in {"create", "join"}
        /\ mpc = "create" /\ created \in Workers
        /\ \A u \in 0 .. created : u \in Workers
    BY <1>1, <1>3, LockBenchAssumption DEF Create, RoundInv, MainInv, Workers
  <2>2. /\ \A u \in {created} : Added(u)' = 0
        /\ \A u \in 0 .. created - 1 : Added(u)' = Added(u)
    <3>1. /\ tpc' = [tpc EXCEPT ![created] = "pass"]
          /\ i' = [i EXCEPT ![created] = 0]
      BY <1>3 DEF Create
    <3>2. tpc'[created] = "pass" /\ i'[created] = 0
      BY <1>1, <2>1, <3>1
    <3>3. \A u \in 0 .. created - 1 : tpc'[u] = tpc[u] /\ i'[u] = i[u]
      BY <1>1, <2>1, <3>1
    <3>4. ASSUME NEW u \in {created} PROVE Added(u)' = 0
      BY <3>2 DEF Added
    <3>5. ASSUME NEW u \in 0 .. created - 1
          PROVE  Added(u)' = Added(u)
      BY <3>3 DEF Added
    <3> QED  BY <3>4, <3>5
  <2>3. Additions' = Additions
    <3>1. 0 .. created' - 1 = (0 .. created - 1) \cup {created}
      BY <1>1, <2>1
    <3>2. ASSUME NEW u \in {created}, NEW n \in 1 .. NumSamples
          PROVE  ~(n <= Added(u)')
      BY <2>2
    <3>3. ASSUME NEW u \in 0 .. created - 1, NEW n \in 1 .. NumSamples
          PROVE  n <= Added(u)' <=> n <= Added(u)
      BY <2>2
    <3> QED  BY <3>1, <3>2, <3>3 DEF Additions
  <2> QED  BY <2>1, <2>3 DEF CounterInv
<1>4. CASE Join
  <2>1. CASE joined + 1 < k
    BY <1>4, <2>1 DEF Join, Joined, CounterInv, Additions, Added
  <2>2. CASE ~(joined + 1 < k)
    <3>1. /\ created = k /\ \A t \in Workers : t < k => tpc[t] = "returned"
          /\ 0 .. k - 1 = {t \in Workers : t < k}
      BY <1>1, <1>4, <2>2, LastJoin DEF RoundInv, BenchTypes, BenchTypeOK
    <3>2. \A t \in 0 .. k - 1 : Added(t) = NumSamples
      BY <1>1, <3>1 DEF Added, RoundInv, ThreadInv
    <3>3. Additions = (0 .. k - 1) \X (1 .. NumSamples)
      BY <1>1, <3>1, <3>2 DEF Additions
    <3>4. Cardinality(Additions) = k * NumSamples
      <4>1. IsFiniteSet(0 .. k - 1) /\ Cardinality(0 .. k - 1) = k
        BY <1>1, FS_Interval
      <4>2. IsFiniteSet(1 .. NumSamples) /\ Cardinality(1 .. NumSamples) = NumSamples
        BY <1>1, FS_Interval
      <4> DEFINE S == 0 .. k - 1
                 T == 1 .. NumSamples
      <4> HIDE DEF S, T
      <4>3. Cardinality(S \X T) = Cardinality(S) * Cardinality(T)
        BY <4>1, <4>2, FS_Product DEF S, T
      <4> QED  BY <3>3, <4>1, <4>2, <4>3 DEF S, T
    <3>5. counter = NumSamples * (k - 1) + k * NumSamples
      BY <1>4, <3>4 DEF Join, CounterInv
    <3>6. k' = 2 * k /\ mpc' = "round"
      BY <2>2, <1>4 DEF Join, Joined
    <3>7. NumSamples * (k - 1) + k * NumSamples = NumSamples * (2 * k - 1)
      BY <1>1
    <3> QED  BY <3>5, <3>6, <3>7
  <2> QED  BY <2>1, <2>2
<1>5. CASE End
  BY <1>5 DEF End
<1> QED  BY <1>2, <1>3, <1>4, <1>5 DEF main

\* With the OpenMP lock, which main asks for, and with the atomic add, the
\* counter is exact at every moment of every round: no addition of locks.c is
\* lost, for any number of threads and passes.
THEOREM CounterIsExact == BenchSpec => []CounterExact
<1>1. BenchInit => BenchInv /\ LinesOwn
  BY InitRoundInv, LockBenchAssumption
     DEF BenchInit, BenchInv, OlockInv, CounterInv, Workers
<1>2. BenchInv /\ LinesOwn /\ [BenchNext]_benchvars => (BenchInv /\ LinesOwn)'
  <2> SUFFICES ASSUME BenchInv, LinesOwn, [BenchNext]_benchvars
               PROVE  (OlockInv /\ CounterInv)'
    BY StepKeepsRounds DEF BenchInv
  <2>1. CASE main
    BY <2>1, MainKeepsLock, MainKeepsCounter DEF BenchInv
  <2>2. CASE \E t \in Workers : worker_handler(t)
    BY <2>2, ThreadsKeepLock, ThreadsKeepCounter DEF BenchInv
  <2>3. CASE UNCHANGED benchvars
    BY <2>3 DEF benchvars, BenchInv, OlockInv, CounterInv, Additions, Added
  <2> QED  BY <2>1, <2>2, <2>3 DEF BenchNext, Ended
<1>3. BenchInv => CounterExact
  BY DEF BenchInv, RoundInv, BenchTypes, CounterInv, CounterExact
<1> QED  BY <1>1, <1>2, <1>3, PTL DEF BenchSpec

=============================================================================
