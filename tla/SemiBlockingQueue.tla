-------------------------- MODULE SemiBlockingQueue --------------------------
(***************************************************************************)
(* The linked queue of SimpleQueueImpl/semiblockingqueue.c.                *)
(*                                                                         *)
(* queue_put pushes its node on the in_queue list with a compare-and-swap  *)
(* and takes no lock.  queue_get pops from the out_queue list under the    *)
(* mutex; when that list is empty it first takes the whole in_queue list   *)
(* with a compare-and-swap and reverses it node by node.  Every access to  *)
(* in_queue is a step of its own; what only the holder of the mutex can    *)
(* reach is stepped by the code's loop.                                    *)
(*                                                                         *)
(* The clients: a putter gets a zeroed node from malloc_aligned, writes    *)
(* its item and puts it; a getter reads the item of the node it is given   *)
(* and frees it.  malloc may return an address again once it is freed.     *)
(***************************************************************************)
EXTENDS Naturals, SequencesExt

CONSTANTS
  Putters,    \* threads that call queue_put
  Getters,    \* threads that call queue_get
  PutLimit,   \* calls per putter
  GetLimit,   \* calls per getter
  Node,       \* addresses of nodes
  Null,       \* NULL
  Nobody      \* holder of a free mutex

Item == Putters \X (1 .. PutLimit)

ASSUME SemiBlockingAssumption ==
  /\ IsFiniteSet(Putters) /\ IsFiniteSet(Getters) /\ IsFiniteSet(Node)
  /\ Putters \cap Getters = {}
  /\ PutLimit \in Nat /\ GetLimit \in Nat
  /\ Null \notin Node \cup Item
  /\ Nobody \notin Getters

VARIABLES
  in_queue, out_queue,  \* the heads of the two lists
  next,                 \* the next field of each node
  lock,                 \* who holds the mutex
  free,                 \* the addresses malloc may return
  item,                 \* what the putter wrote into the node it put
  pc,                   \* next step of each thread
  new,                  \* putter: its node
  seen,                 \* putter: in_queue as it read it
  head,                 \* getter: the head of its while loops
  puts,                 \* putter: calls that have returned
  got                   \* history: what the calls of each getter returned

shared == <<in_queue, out_queue, lock>>
client == <<free, item, puts, got>>
vars   == <<in_queue, out_queue, next, lock, free, item, pc, new, seen, head,
            puts, got>>

Init ==
  /\ in_queue = Null
  /\ out_queue = Null
  /\ next = [n \in Node |-> Null]
  /\ lock = Nobody
  /\ free = Node
  /\ item = [n \in Node |-> Null]
  /\ pc = [t \in Putters \cup Getters |-> IF t \in Putters THEN "alloc" ELSE "lock"]
  /\ new = [p \in Putters |-> Null]
  /\ seen = [p \in Putters |-> Null]
  /\ head = [g \in Getters |-> Null]
  /\ puts = [p \in Putters |-> 0]
  /\ got = [g \in Getters |-> <<>>]

Goto(t, step) == pc' = [pc EXCEPT ![t] = step]

-----------------------------------------------------------------------------
(* queue_put                                                               *)

malloc_aligned(p) ==
  /\ pc[p] = "alloc"
  /\ puts[p] < PutLimit
  /\ \E n \in free :
       /\ new' = [new EXCEPT ![p] = n]
       /\ free' = free \ {n}
       /\ next' = [next EXCEPT ![n] = Null]
       /\ item' = [item EXCEPT ![n] = <<p, puts[p] + 1>>]
  /\ Goto(p, "link")
  /\ UNCHANGED <<shared, seen, head, puts, got>>

PutLink(p) ==
  /\ pc[p] = "link"
  /\ seen' = [seen EXCEPT ![p] = in_queue]
  /\ next' = [next EXCEPT ![new[p]] = in_queue]
  /\ Goto(p, "push")
  /\ UNCHANGED <<shared, client, new, head>>

\* Faulty variant: a plain store instead of the compare-and-swap.
PutStore(p) ==
  /\ pc[p] = "push"
  /\ in_queue' = new[p]
  /\ new' = [new EXCEPT ![p] = Null]
  /\ puts' = [puts EXCEPT ![p] = @ + 1]
  /\ Goto(p, "alloc")
  /\ UNCHANGED <<out_queue, lock, free, item, got, next, seen, head>>

\* Faulty variant: a failed compare-and-swap is tried again as it is.
PutRetryStale(p) ==
  /\ pc[p] = "push"
  /\ IF in_queue = seen[p]
       THEN /\ in_queue' = new[p]
            /\ new' = [new EXCEPT ![p] = Null]
            /\ puts' = [puts EXCEPT ![p] = @ + 1]
            /\ Goto(p, "alloc")
       ELSE UNCHANGED <<in_queue, new, puts, pc>>
  /\ UNCHANGED <<out_queue, lock, free, item, got, next, seen, head>>

PutPush(p) ==
  /\ pc[p] = "push"
  /\ IF in_queue = seen[p]
       THEN /\ in_queue' = new[p]
            /\ new' = [new EXCEPT ![p] = Null]
            /\ puts' = [puts EXCEPT ![p] = @ + 1]
            /\ Goto(p, "alloc")
       ELSE /\ Goto(p, "link")
            /\ UNCHANGED <<in_queue, new, puts>>
  /\ UNCHANGED <<out_queue, lock, free, item, got, next, seen, head>>

queue_put(p) == malloc_aligned(p) \/ PutLink(p) \/ PutPush(p)

-----------------------------------------------------------------------------
(* queue_get                                                               *)

\* pthread_mutex_lock and the look at out_queue, which only its holder changes.
GetLock(g) ==
  /\ pc[g] = "lock"
  /\ Len(got[g]) < GetLimit
  /\ lock = Nobody
  /\ lock' = g
  /\ Goto(g, IF out_queue = Null THEN "load" ELSE "pop")
  /\ UNCHANGED <<in_queue, out_queue, client, next, new, seen, head>>

GetLoad(g) ==
  /\ pc[g] = "load"
  /\ head' = [head EXCEPT ![g] = in_queue]
  /\ Goto(g, IF in_queue = Null THEN "pop" ELSE "take")
  /\ UNCHANGED <<shared, client, next, new, seen>>

GetTake(g) ==
  /\ pc[g] = "take"
  /\ IF in_queue = head[g]
       THEN in_queue' = Null /\ Goto(g, "reverse")
       ELSE Goto(g, "load") /\ UNCHANGED in_queue
  /\ UNCHANGED <<out_queue, lock, client, next, new, seen, head>>

\* Faulty variant: the list is handed on as it is.
GetNoReverse(g) ==
  /\ pc[g] = "reverse"
  /\ out_queue' = head[g]
  /\ head' = [head EXCEPT ![g] = Null]
  /\ Goto(g, "pop")
  /\ UNCHANGED <<in_queue, lock, client, next, new, seen>>

GetReverse(g) ==
  /\ pc[g] = "reverse"
  /\ IF head[g] # Null
       THEN /\ next' = [next EXCEPT ![head[g]] = out_queue]
            /\ out_queue' = head[g]
            /\ head' = [head EXCEPT ![g] = next[head[g]]]
            /\ UNCHANGED pc
       ELSE /\ Goto(g, "pop")
            /\ UNCHANGED <<next, out_queue, head>>
  /\ UNCHANGED <<in_queue, lock, client, new, seen>>

\* The pop, the unlock and the return; the client reads the item and frees the
\* node.
GetPop(g) ==
  /\ pc[g] = "pop"
  /\ LET first == out_queue
     IN  /\ out_queue' = IF first = Null THEN Null ELSE next[first]
         /\ got' = [got EXCEPT ![g] =
                      Append(@, IF first = Null THEN Null ELSE item[first])]
         /\ free' = free \cup ({first} \ {Null})
  /\ lock' = Nobody
  /\ Goto(g, "lock")
  /\ UNCHANGED <<in_queue, item, puts, next, new, seen, head>>

queue_get(g) ==
  GetLock(g) \/ GetLoad(g) \/ GetTake(g) \/ GetReverse(g) \/ GetPop(g)

-----------------------------------------------------------------------------
Finished ==
  /\ \A p \in Putters : pc[p] = "alloc" /\ puts[p] = PutLimit
  /\ \A g \in Getters : pc[g] = "lock" /\ Len(got[g]) = GetLimit

Terminated == Finished /\ UNCHANGED vars

Next ==
  \/ \E p \in Putters : queue_put(p)
  \/ \E g \in Getters : queue_get(g)
  \/ Terminated

Spec == Init /\ [][Next]_vars

\* The scheduler runs every thread that is not blocked.
FairSpec ==
  /\ Spec
  /\ \A p \in Putters : WF_vars(queue_put(p))
  /\ \A g \in Getters : WF_vars(queue_get(g))

-----------------------------------------------------------------------------
\* The way along the next fields, and the list that starts at a node, as the
\* sequence of its nodes.
Path(first) ==
  LET at[j \in 1 .. Cardinality(Node)] ==
        IF j = 1 THEN first ELSE IF at[j - 1] = Null THEN Null ELSE next[at[j - 1]]
  IN  at
List(first) ==
  LET path == Path(first)
  IN  [j \in 1 .. Cardinality({k \in DOMAIN path : path[k] # Null}) |-> path[j]]

\* The part of the in_queue list that the holder of the mutex has taken and has
\* not reversed yet.
InHand == IF lock # Nobody /\ pc[lock] = "reverse" THEN List(head[lock]) ELSE <<>>

\* The heads, next fields and locals are nodes or NULL, and no loop makes more
\* calls than it should.
TypeOK ==
  /\ {in_queue, out_queue} \subseteq Node \cup {Null}
  /\ next \in [Node -> Node \cup {Null}]
  /\ lock \in Getters \cup {Nobody}
  /\ free \subseteq Node
  /\ item \in [Node -> Item \cup {Null}]
  /\ new \in [Putters -> Node \cup {Null}]
  /\ seen \in [Putters -> Node \cup {Null}]
  /\ head \in [Getters -> Node \cup {Null}]
  /\ puts \in [Putters -> 0 .. PutLimit]
  /\ got \in [Getters -> Seq(Item \cup {Null})]
  /\ \A g \in Getters : Len(got[g]) <= GetLimit

\* Variables keep their types, and every node is in exactly one place: with the
\* allocator, in one list, or in the hand of the one putter that has not pushed it.
EachNodeOnce ==
  LET lists == List(in_queue) \o List(out_queue) \o InHand
      held  == {p \in Putters : new[p] # Null}
  IN  /\ TypeOK
      /\ Node = free \cup ToSet(lists) \cup {new[p] : p \in held}
      /\ Cardinality(Node) =
           Cardinality(free) + Len(lists) + Cardinality(held)

\* Every call returns: no putter or getter retries for ever.
Termination == <>Finished

\* The queue is what can be popped, then what is being reversed, then what has
\* been pushed, each with its oldest node first.  A get takes effect when it pops,
\* or when it finds in_queue empty as well.
Items(nodes) == [k \in DOMAIN nodes |-> item[nodes[k]]]
Missed(g)    == pc[g] = "pop" /\ out_queue = Null

Buffer == INSTANCE Fifo WITH
  Capacity <- Cardinality(Node), MayMiss <- TRUE, Nothing <- Null,
  queue <- Items(Reverse(InHand) \o List(out_queue) \o Reverse(List(in_queue))),
  got   <- [g \in Getters |-> IF Missed(g) THEN Append(got[g], Null) ELSE got[g]]

\* The two lists are one FIFO queue: nothing is lost, returned twice or returned
\* out of order, and a get comes back with NULL only when the queue was empty.
ImplementsFifo == Buffer!FairSpec
=============================================================================
