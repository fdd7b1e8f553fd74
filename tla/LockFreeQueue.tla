---------------------------- MODULE LockFreeQueue ----------------------------
(***************************************************************************)
(* The linked queue of SimpleQueueImpl/lockfreequeue.c.                    *)
(*                                                                         *)
(* A push allocates a node and a pointer cell that points to the node; the *)
(* next field of a node names the pointer cell of the node behind it.      *)
(* Node and cell of a push are both named by its item here; those of       *)
(* q_initialize are named Entry.  queue->head always is the cell of Entry  *)
(* and only its nptr field moves: `entry` is the node it points to.  The   *)
(* nptr fields of all other cells never change.                            *)
(*                                                                         *)
(* The Makefile builds without optimisation, so that every access to       *)
(* shared memory in the source is one in the program; accesses through one *)
(* local that nothing else separates are one step.                         *)
(* qpush stores a node where a cell belongs (lockfreequeue.c:110): tail    *)
(* then is the misdirected <<item>>.  Following that, a NULL or a freed    *)
(* address, or freeing twice, is undefined: the model stops there.         *)
(* malloc returns fresh addresses only: a use of an old one is undefined   *)
(* before it could meet new contents.                                      *)
(***************************************************************************)
EXTENDS Naturals, SequencesExt, FiniteSets

CONSTANTS
  Pushers,    \* threads that call qpush
  Poppers,    \* threads that call qpop
  Limit,      \* calls per thread, when the clients keep the pace
  FreeLimit,  \* calls per thread, when they do not
  Entry,      \* names the node and the cell of q_initialize
  Null        \* NULL

Threads == Pushers \cup Poppers
Item == Pushers \X (1 .. Limit)
Cell == Item \cup {Entry}

ASSUME LockFreeAssumption ==
  /\ IsFiniteSet(Pushers) /\ IsFiniteSet(Poppers)
  /\ Pushers \cap Poppers = {}
  /\ FreeLimit \in Nat /\ Limit \in Nat /\ FreeLimit <= Limit
  /\ Entry \notin Item \cup {Null} /\ Null \notin Item

VARIABLES
  paced,      \* do the clients keep out of each other's way?
  entry,      \* queue->head->nptr
  tail,       \* queue->tail
  next,       \* the next field of each node
  freedNodes, \* nodes that have been freed
  freedCells, \* pointer cells that have been freed
  pc,         \* next step of each thread
  seenTail,   \* local tail
  node,       \* a node address loaded for the next access
  seenNext,   \* local next of qpush, _next of qpop
  tmp,        \* local tmp of qpop; the new next field at its last CAS
  succ,
  puts,       \* pusher: calls that have returned
  got         \* history: what the calls of each popper returned

queue  == <<entry, tail, next>>
heap   == <<paced, freedNodes, freedCells>>
locals == <<paced, seenTail, node, seenNext, tmp, succ>>
calls  == <<puts, got>>
listvars == <<queue, heap, pc, locals, calls>>

QueueInit ==
  /\ paced \in BOOLEAN
  /\ entry = Entry
  /\ tail = Entry
  /\ next = [c \in Cell |-> Null]
  /\ freedNodes = {} /\ freedCells = {}
  /\ pc = [t \in Threads |-> "idle"]
  /\ seenTail = [t \in Threads |-> Null]
  /\ node = [t \in Threads |-> Null]
  /\ seenNext = [t \in Threads |-> Null]
  /\ tmp = [g \in Poppers |-> Null]
  /\ succ = [g \in Poppers |-> Null]
  /\ puts = [p \in Pushers |-> 0]
  /\ got = [g \in Poppers |-> <<>>]

\* Calls each thread makes.
MyLimit == IF paced THEN Limit ELSE FreeLimit

Goto(t, step) == pc' = [pc EXCEPT ![t] = step]

LiveCell(c) == c \in Cell \ freedCells
LiveNode(n) == n \in Cell \ freedNodes

\* Following an address that does not name a live object stops the program.
Undefined ==
  /\ pc' = [t \in Threads |-> "undefined"]
  /\ UNCHANGED <<queue, heap, locals, calls>>

\* What a cell points to.
Target(c) == IF c = Entry THEN entry ELSE c

\* The items linked behind the entry node, in order (a cycle is cut off): the way
\* along the next fields, up to the first NULL.
Path ==
  LET at[j \in 1 .. Cardinality(Item)] ==
        IF j = 1 THEN next[entry] ELSE IF at[j - 1] = Null THEN Null ELSE next[at[j - 1]]
  IN  at
Chain == [j \in 1 .. Cardinality({k \in DOMAIN Path : Path[k] # Null}) |-> Path[j]]

-----------------------------------------------------------------------------
(* qpush                                                                   *)

New(p) == <<p, puts[p] + 1>>

InCall(S) == {t \in S : pc[t] # "idle"}

\* The pace: one push and one pop at a time, and both only while the popper
\* cannot reach the last node.
PushAllowed ==
  /\ InCall(Pushers) = {}
  /\ InCall(Poppers) = {} \/ Len(Chain) >= 2

PopAllowed ==
  /\ InCall(Poppers) = {}
  /\ InCall(Pushers) = {} \/ Len(Chain) >= 2

PushCall(p) ==
  /\ pc[p] = "idle"
  /\ puts[p] < MyLimit
  /\ paced => PushAllowed
  /\ Goto(p, "tail")
  /\ UNCHANGED <<queue, heap, locals, calls>>

\* tail = queue->tail
PushTail(p) ==
  /\ pc[p] = "tail"
  /\ seenTail' = [seenTail EXCEPT ![p] = tail]
  /\ Goto(p, "node")
  /\ UNCHANGED <<queue, heap, node, seenNext, tmp, succ, calls>>

\* tail->nptr, once for the load of its next field and once for the CAS on it
PushNode(p) ==
  /\ pc[p] \in {"node", "node_again"}
  /\ IF LiveCell(seenTail[p])
     THEN /\ node' = [node EXCEPT ![p] = Target(seenTail[p])]
          /\ Goto(p, IF pc[p] = "node" THEN "next" ELSE "link")
          /\ UNCHANGED <<queue, heap, seenTail, seenNext, tmp, succ, calls>>
     ELSE Undefined

\* next = tail->nptr->next
PushNext(p) ==
  /\ pc[p] = "next"
  /\ IF LiveNode(node[p])
     THEN /\ seenNext' = [seenNext EXCEPT ![p] = next[node[p]]]
          /\ Goto(p, "check")
          /\ UNCHANGED <<queue, heap, seenTail, node, tmp, succ, calls>>
     ELSE Undefined

\* if (tail == queue->tail), and if (next == NULL)
PushCheck(p) ==
  /\ pc[p] = "check"
  /\ Goto(p, CASE seenTail[p] # tail   -> "tail"
               [] seenNext[p] = Null   -> "node_again"
               [] OTHER                -> "help")
  /\ UNCHANGED <<queue, heap, locals, calls>>

\* Faulty variant: a store where the code compares and swaps.
PushLinkStore(p) ==
  /\ pc[p] = "link"
  /\ IF LiveNode(node[p])
     THEN /\ next' = [next EXCEPT ![node[p]] = New(p)]
          /\ Goto(p, "swing")
          /\ UNCHANGED <<entry, tail, heap, locals, calls>>
     ELSE Undefined

\* The CAS on tail->nptr->next: NULL becomes the new cell.
PushLink(p) ==
  /\ pc[p] = "link"
  /\ IF LiveNode(node[p])
     THEN /\ IF next[node[p]] = Null
             THEN next' = [next EXCEPT ![node[p]] = New(p)] /\ Goto(p, "swing")
             ELSE next' = next /\ Goto(p, "tail")
          /\ UNCHANGED <<entry, tail, heap, locals, calls>>
     ELSE Undefined

\* The CAS on queue->tail: when it fails the loop starts again, with the node
\* already linked.
PushSwing(p) ==
  /\ pc[p] = "swing"
  /\ IF tail = seenTail[p]
     THEN /\ tail' = New(p)
          /\ puts' = [puts EXCEPT ![p] = @ + 1]
          /\ Goto(p, "idle")
     ELSE Goto(p, "tail") /\ UNCHANGED <<tail, puts>>
  /\ UNCHANGED <<entry, next, heap, locals, got>>

\* next->count is moved, and queue->tail set to next->nptr: a node, not a cell.
PushHelp(p) ==
  /\ pc[p] = "help"
  /\ IF LiveCell(seenNext[p])
     THEN /\ tail' = IF tail = seenTail[p] THEN <<seenNext[p]>> ELSE tail
          /\ Goto(p, "tail")
          /\ UNCHANGED <<entry, next, heap, locals, calls>>
     ELSE Undefined

qpush(p) ==
  \/ PushCall(p) \/ PushTail(p) \/ PushNode(p) \/ PushNext(p)
  \/ PushCheck(p) \/ PushLink(p) \/ PushSwing(p) \/ PushHelp(p)

-----------------------------------------------------------------------------
(* qpop.  The branch for queue->head->count == 0 is never taken: counts    *)
(* start at 1 and are only added to.                                       *)

Return(g, value) ==
  /\ got' = [got EXCEPT ![g] = Append(@, value)]
  /\ Goto(g, "idle")

PopCall(g) ==
  /\ pc[g] = "idle"
  /\ Len(got[g]) < MyLimit
  /\ paced => PopAllowed
  /\ Goto(g, "tail")
  /\ UNCHANGED <<queue, heap, locals, calls>>

\* Faulty variant: waits for an item.
PopTailWaits(g) ==
  /\ pc[g] = "tail"
  /\ seenTail' = [seenTail EXCEPT ![g] = tail]
  /\ Goto(g, IF tail = Entry THEN "tail" ELSE "tmp_node")
  /\ UNCHANGED <<queue, heap, node, seenNext, tmp, succ, calls>>

\* head = queue->head; tail = queue->tail; if (head == tail) return NULL
PopTail(g) ==
  /\ pc[g] = "tail"
  /\ seenTail' = [seenTail EXCEPT ![g] = tail]
  /\ IF tail = Entry
     THEN Return(g, Null)
     ELSE Goto(g, "tmp_node") /\ UNCHANGED got
  /\ UNCHANGED <<queue, heap, node, seenNext, tmp, succ, puts>>

\* queue->head->nptr, for the load of tmp, of _next, and for the free and the
\* CAS of either branch
PopNode(g) ==
  /\ pc[g] \in {"tmp_node", "next_node", "last_node", "swing_node"}
  /\ node' = [node EXCEPT ![g] = entry]
  /\ Goto(g, CASE pc[g] = "tmp_node"   -> "tmp"
               [] pc[g] = "next_node"  -> "next"
               [] pc[g] = "last_node"  -> "move_entry"
               [] pc[g] = "swing_node" -> "succ")
  /\ UNCHANGED <<queue, heap, seenTail, seenNext, tmp, succ, calls>>

\* tmp = queue->head->nptr->next
PopTmp(g) ==
  /\ pc[g] = "tmp"
  /\ IF LiveNode(node[g])
     THEN /\ tmp' = [tmp EXCEPT ![g] = next[node[g]]]
          /\ Goto(g, "next_node")
          /\ UNCHANGED <<queue, heap, seenTail, node, seenNext, succ, calls>>
     ELSE Undefined

\* _next = queue->head->nptr->next; if (_next == NULL) return NULL
PopNext(g) ==
  /\ pc[g] = "next"
  /\ IF LiveNode(node[g])
     THEN /\ seenNext' = [seenNext EXCEPT ![g] = next[node[g]]]
          /\ IF next[node[g]] = Null
             THEN Return(g, Null)
             ELSE Goto(g, "compare") /\ UNCHANGED got
          /\ UNCHANGED <<queue, heap, seenTail, node, tmp, succ, puts>>
     ELSE Undefined

\* if (head->nptr == tail->nptr)
PopCompare(g) ==
  /\ pc[g] = "compare"
  /\ IF LiveCell(seenTail[g])
     THEN /\ Goto(g, IF entry = Target(seenTail[g]) THEN "help" ELSE "value")
          /\ UNCHANGED <<queue, heap, locals, calls>>
     ELSE Undefined

\* _next->count is moved, and queue->tail set to _next; the loop starts again.
PopHelp(g) ==
  /\ pc[g] = "help"
  /\ IF LiveCell(seenNext[g])
     THEN /\ tail' = IF tail = seenTail[g] THEN seenNext[g] ELSE tail
          /\ Goto(g, "tail")
          /\ UNCHANGED <<entry, next, heap, locals, calls>>
     ELSE Undefined

\* val = _next->nptr->value; if (_next->nptr->next == NULL).  val is never
\* written again: it is the item that seenNext names.
PopValue(g) ==
  /\ pc[g] = "value"
  /\ IF LiveCell(seenNext[g]) /\ LiveNode(seenNext[g])
     THEN /\ Goto(g, IF next[seenNext[g]] = Null THEN "free_entry"
                                                 ELSE "swing_node")
          /\ UNCHANGED <<queue, heap, locals, calls>>
     ELSE Undefined

\* free(queue->head->nptr), while queue->head->nptr still points there
PopFreeEntry(g) ==
  /\ pc[g] = "free_entry"
  /\ IF LiveNode(entry)
     THEN /\ freedNodes' = freedNodes \cup {entry}
          /\ Goto(g, "last_node")
          /\ UNCHANGED <<queue, freedCells, locals, calls>>
     ELSE Undefined

\* The CAS on queue->head->nptr: _next->nptr takes the place of the node.
PopMoveEntry(g) ==
  /\ pc[g] = "move_entry"
  /\ IF LiveCell(seenNext[g])
     THEN /\ IF entry = node[g]
             THEN entry' = seenNext[g] /\ Goto(g, "old_tail") /\ UNCHANGED got
             ELSE Return(g, seenNext[g]) /\ UNCHANGED entry
          /\ UNCHANGED <<tail, next, heap, locals, puts>>
     ELSE Undefined

\* The CAS on queue->tail compares it with what it has just loaded.
PopOldTail(g) ==
  /\ pc[g] = "old_tail"
  /\ seenTail' = [seenTail EXCEPT ![g] = tail]
  /\ Goto(g, "move_tail")
  /\ UNCHANGED <<queue, heap, node, seenNext, tmp, succ, calls>>

\* Faulty variant: tail stays where it was.
PopKeepTail(g) ==
  /\ pc[g] = "move_tail"
  /\ Goto(g, "free_cell")
  /\ UNCHANGED <<queue, heap, locals, calls>>

PopMoveTail(g) ==
  /\ pc[g] = "move_tail"
  /\ tail' = IF tail = seenTail[g] THEN Entry ELSE tail
  /\ Goto(g, "free_cell")
  /\ UNCHANGED <<entry, next, heap, locals, calls>>

PopFreeCell(g) ==
  /\ pc[g] = "free_cell"
  /\ IF LiveCell(seenNext[g])
     THEN /\ freedCells' = freedCells \cup {seenNext[g]}
          /\ Return(g, seenNext[g])
          /\ UNCHANGED <<queue, freedNodes, locals, puts>>
     ELSE Undefined

\* _next->nptr->next is loaded for the CAS on queue->head->nptr->next.
PopSucc(g) ==
  /\ pc[g] = "succ"
  /\ IF LiveCell(seenNext[g]) /\ LiveNode(seenNext[g])
     THEN /\ succ' = [succ EXCEPT ![g] = next[seenNext[g]]]
          /\ Goto(g, "unlink")
          /\ UNCHANGED <<queue, heap, seenTail, node, seenNext, tmp, calls>>
     ELSE Undefined

\* Faulty variant: the value is returned and nothing unlinked.
PopPeek(g) ==
  /\ pc[g] = "unlink"
  /\ Return(g, seenNext[g])
  /\ UNCHANGED <<queue, heap, locals, puts>>

PopUnlink(g) ==
  /\ pc[g] = "unlink"
  /\ IF LiveNode(node[g])
     THEN /\ IF next[node[g]] = tmp[g]
             THEN /\ next' = [next EXCEPT ![node[g]] = succ[g]]
                  /\ Goto(g, "free_both")
             ELSE Goto(g, "tail") /\ UNCHANGED next
          /\ UNCHANGED <<entry, tail, heap, locals, calls>>
     ELSE Undefined

\* free(_next->nptr); free(_next); return val
PopFreeBoth(g) ==
  /\ pc[g] = "free_both"
  /\ IF LiveCell(seenNext[g]) /\ LiveNode(seenNext[g])
     THEN /\ freedNodes' = freedNodes \cup {seenNext[g]}
          /\ freedCells' = freedCells \cup {seenNext[g]}
          /\ Return(g, seenNext[g])
          /\ UNCHANGED <<queue, locals, puts>>
     ELSE Undefined

qpop(g) ==
  \/ PopCall(g) \/ PopTail(g) \/ PopNode(g) \/ PopTmp(g) \/ PopNext(g)
  \/ PopCompare(g) \/ PopHelp(g) \/ PopValue(g)
  \/ PopFreeEntry(g) \/ PopMoveEntry(g) \/ PopOldTail(g) \/ PopMoveTail(g)
  \/ PopFreeCell(g) \/ PopSucc(g) \/ PopUnlink(g) \/ PopFreeBoth(g)

-----------------------------------------------------------------------------
Finished ==
  /\ \A p \in Pushers : pc[p] = "idle" /\ puts[p] = MyLimit
  /\ \A g \in Poppers : pc[g] = "idle" /\ Len(got[g]) = MyLimit

Stopped == \A t \in Threads : pc[t] = "undefined"

Terminated == (Finished \/ Stopped) /\ UNCHANGED listvars

QueueNext ==
  \/ \E p \in Pushers : qpush(p)
  \/ \E g \in Poppers : qpop(g)
  \/ Terminated

QueueSpec == QueueInit /\ [][QueueNext]_listvars

\* The scheduler runs every thread.
FairQueueSpec ==
  /\ QueueSpec
  /\ \A p \in Pushers : WF_listvars(qpush(p))
  /\ \A g \in Poppers : WF_listvars(qpop(g))

-----------------------------------------------------------------------------
\* The fields and locals hold addresses of their kind; only tail may be
\* misdirected.
QueueTypeOK ==
  /\ paced \in BOOLEAN
  /\ entry \in Cell
  /\ tail \in Cell \cup {<<i>> : i \in Item}
  /\ next \in [Cell -> Item \cup {Null}]
  /\ freedNodes \subseteq Cell /\ freedCells \subseteq Item
  /\ seenTail \in [Threads -> Cell \cup {<<i>> : i \in Item} \cup {Null}]
  /\ node \in [Threads -> Cell \cup {Null}]
  /\ seenNext \in [Threads -> Item \cup {Null}]
  /\ tmp \in [Poppers -> Item \cup {Null}]
  /\ succ \in [Poppers -> Item \cup {Null}]
  /\ puts \in [Pushers -> 0 .. Limit]
  /\ got \in [Poppers -> Seq(Item \cup {Null})]

\* No thread follows NULL, a freed address or a node taken for a cell, and none
\* frees twice.
NeverUndefined == \A t \in Threads : pc[t] # "undefined"

\* At the pace nothing undefined happens, and between two calls the chain is what
\* tail says it is, and exactly what is in it or is the entry has not been freed.
Consistent ==
  /\ QueueTypeOK
  /\ paced => NeverUndefined
  /\ paced /\ InCall(Threads) = {} =>
       /\ IF Chain = <<>> THEN tail = Entry ELSE tail = Last(Chain)
       /\ freedNodes \cap ({entry} \cup Range(Chain)) = {}
       /\ freedCells \cap Range(Chain) = {}
       /\ \A p \in Pushers : \A k \in 1 .. puts[p] :
            <<p, k>> \in freedNodes \cup {entry} \cup Range(Chain)

\* A push takes effect when it links its node, a pop when it unlinks one or makes
\* it the entry.
Linked(p)  == pc[p] = "swing"
Taken(g)   == pc[g] \in {"old_tail", "move_tail", "free_cell", "free_both"}

\* What pops have taken out of the chain.
Gone ==
  (UNION {Range(got[g]) : g \in Poppers})
    \cup {seenNext[g] : g \in {h \in Poppers : Taken(h)}}

\* A push that has returned is in the chain until it is taken, however the calls
\* overlap, up to the point where something undefined happens.
PushesStay ==
  ~Stopped =>
    \A p \in Pushers : \A k \in 1 .. puts[p] : <<p, k>> \in Gone \cup Range(Chain)

\* At the pace every call returns.
Termination == <>(paced => Finished)

List == INSTANCE Fifo WITH
  Putters <- Pushers, Getters <- Poppers,
  PutLimit <- Limit, GetLimit <- Limit,
  Capacity <- Cardinality(Item), MayMiss <- TRUE, Nothing <- Null,
  queue <- Chain,
  puts <- [p \in Pushers |-> IF Linked(p) THEN puts[p] + 1 ELSE puts[p]],
  got  <- [g \in Poppers |-> IF Taken(g) THEN Append(got[g], seenNext[g])
                                         ELSE got[g]]

\* As long as the clients keep the pace the queue is first-in first-out and loses
\* nothing.
ImplementsFifo == List!Init /\ [][paced => [List!Next]_(List!vars)]_listvars
=============================================================================
