-------------------------------- MODULE Fifo --------------------------------
(***************************************************************************)
(* What the queues of SimpleQueueImpl promise: a first-in first-out queue  *)
(* of bounded capacity.  A put waits while the queue is full; a get waits  *)
(* while it is empty or, where the queue says so, comes back with nothing. *)
(***************************************************************************)
EXTENDS Naturals, Sequences

CONSTANTS
  Putters,    \* threads that put items
  Getters,    \* threads that get items
  PutLimit,   \* items each putter puts
  GetLimit,   \* calls each getter makes
  Capacity,   \* most items the queue holds
  MayMiss,    \* does a get on the empty queue return?
  Nothing     \* what it returns then

VARIABLES
  queue,      \* the items put and not yet got, oldest first
  puts,       \* how many items each putter has put
  got         \* what the calls of each getter returned, in call order

vars == <<queue, puts, got>>

Init ==
  /\ queue = <<>>
  /\ puts = [p \in Putters |-> 0]
  /\ got = [g \in Getters |-> <<>>]

\* The k-th item of putter p is <<p, k>>.
Put(p) ==
  /\ puts[p] < PutLimit
  /\ Len(queue) < Capacity
  /\ queue' = Append(queue, <<p, puts[p] + 1>>)
  /\ puts' = [puts EXCEPT ![p] = @ + 1]
  /\ UNCHANGED got

Get(g) ==
  /\ Len(got[g]) < GetLimit
  /\ queue # <<>>
  /\ queue' = Tail(queue)
  /\ got' = [got EXCEPT ![g] = Append(@, Head(queue))]
  /\ UNCHANGED puts

Miss(g) ==
  /\ MayMiss
  /\ Len(got[g]) < GetLimit
  /\ queue = <<>>
  /\ got' = [got EXCEPT ![g] = Append(@, Nothing)]
  /\ UNCHANGED <<queue, puts>>

Next ==
  \/ \E p \in Putters : Put(p)
  \/ \E g \in Getters : Get(g) \/ Miss(g)

Spec == Init /\ [][Next]_vars

\* A call that can be served is served.
FairSpec ==
  /\ Spec
  /\ \A p \in Putters : WF_vars(Put(p))
  /\ \A g \in Getters : WF_vars(Get(g) \/ Miss(g))
=============================================================================
