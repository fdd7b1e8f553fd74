----------------------------- MODULE TicketFifo -----------------------------
(***************************************************************************)
(* What a ticket queue promises, without the ring that implements it.      *)
(*                                                                         *)
(* Producers place items in one global order, consumers line up for        *)
(* positions of that order, and the call in line at position n gets the    *)
(* item at position n, once it has been placed: a consumer may line up     *)
(* before the producer it waits for.  No call ever comes back empty        *)
(* handed, nothing is lost and nothing is handed out twice.                *)
(***************************************************************************)
EXTENDS Integers, Sequences

CONSTANTS
  Producers,   \* threads that put items
  Consumers,   \* threads that take items
  PutLimit,    \* items each producer puts
  TakeLimit    \* items each consumer takes

VARIABLES
  puts,        \* items in the order of their positions: Seq(Item)
  takes,       \* calls in the order of their positions: Seq(Call)
  got          \* what the calls of each consumer returned, in call order

vars == <<puts, takes, got>>

\* The k-th item of a producer, the k-th call of a consumer.
Item == Producers \X (1 .. PutLimit)
Call == Consumers \X (1 .. TakeLimit)

Placed(x)  == \E n \in 1 .. Len(puts) : puts[n] = x
InLine(c)  == \E n \in 1 .. Len(takes) : takes[n] = c
Pending(c) == <<c, Len(got[c]) + 1>>

Init ==
  /\ puts = <<>>
  /\ takes = <<>>
  /\ got = [c \in Consumers |-> <<>>]

\* A producer places its items one by one, in their order.
Put(p) ==
  \E k \in 1 .. PutLimit :
    /\ ~Placed(<<p, k>>)
    /\ \A j \in 1 .. k - 1 : Placed(<<p, j>>)
    /\ puts' = Append(puts, <<p, k>>)
    /\ UNCHANGED <<takes, got>>

\* A consumer lines up for its next call.
Take(c) ==
  /\ Len(got[c]) < TakeLimit
  /\ ~InLine(Pending(c))
  /\ takes' = Append(takes, Pending(c))
  /\ UNCHANGED <<puts, got>>

\* The call in line at a position gets the item of that position.
Give(c) ==
  \E n \in 1 .. Len(takes) :
    /\ n <= Len(puts)
    /\ takes[n] = Pending(c)
    /\ got' = [got EXCEPT ![c] = Append(@, puts[n])]
    /\ UNCHANGED <<puts, takes>>

Next ==
  \/ \E p \in Producers : Put(p)
  \/ \E c \in Consumers : Take(c) \/ Give(c)

Spec == Init /\ [][Next]_vars

\* Every thread keeps going as long as it can.
FairSpec ==
  /\ Spec
  /\ \A p \in Producers : WF_vars(Put(p))
  /\ \A c \in Consumers : WF_vars(Take(c)) /\ WF_vars(Give(c))
=============================================================================
