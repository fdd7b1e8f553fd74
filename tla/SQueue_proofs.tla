---------------------------- MODULE SQueue_proofs ----------------------------
(***************************************************************************)
(* Proofs about SQueue, for every number of threads, slots and calls.      *)
(***************************************************************************)
EXTENDS SQueue, FiniteSetTheorems, TLAPS

\* Elements and calls are pairs.
LEMMA Pairs ==
  /\ \A e \in Enqueuers, k \in 1 .. EnqSamples : <<e, k>> \in Atom
  /\ \A d \in Dequeuers, k \in 1 .. DeqSamples : <<d, k>> \in Call
  /\ \A a \in Atom : a[1] \in Enqueuers /\ a[2] \in 1 .. EnqSamples
  /\ \A c \in Call : c[1] \in Dequeuers /\ c[2] \in 1 .. DeqSamples
  BY DEF Atom, Call

\* The part of IndInv that needs no pacing.
EnqBase == EnqLocal /\ PutTickets
DeqBase == DeqLocal /\ TakeTickets
BaseInv == TypeOK /\ EnqBase /\ DeqBase

\* The entries of the two ticket histories.
LEMMA HistoryTypes ==
  ASSUME TypeOK
  PROVE  /\ \A t \in 0 .. tail : /\ puts[t + 1] \in Atom
                               /\ puts[t + 1][1] \in Enqueuers
                               /\ puts[t + 1][2] \in 1 .. EnqSamples
         /\ \A t \in 0 .. head : /\ takes[t + 1] \in Call
                               /\ takes[t + 1][1] \in Dequeuers
                               /\ takes[t + 1][2] \in 1 .. DeqSamples
  <1>1. \A t \in 0 .. tail : puts[t + 1] \in Atom
    BY DEF TypeOK
  <1>2. \A t \in 0 .. head : takes[t + 1] \in Call
    BY DEF TypeOK
  <1>3. QED
    BY <1>1, <1>2, Pairs

\* What follows of an Append to one of the histories.
LEMMA AppendFacts ==
  ASSUME NEW S, NEW s \in Seq(S), NEW x \in S
  PROVE  /\ Append(s, x) \in Seq(S)
         /\ Len(Append(s, x)) = Len(s) + 1
         /\ \A n \in 1 .. Len(s) : Append(s, x)[n] = s[n]
         /\ Append(s, x)[Len(s) + 1] = x
  OBVIOUS

LEMMA BaseInit == Init => BaseInv
  <1> SUFFICES ASSUME Init PROVE BaseInv
    OBVIOUS
  <1> USE SQueueAssumption DEF Init
  <1>1. TypeOK
    BY DEF TypeOK
  <1>2. EnqBase
    BY DEF EnqBase, EnqLocal, PutTickets
  <1>3. DeqBase
    BY DEF DeqBase, DeqLocal, TakeTickets, Holding
  <1>4. QED
    BY <1>1, <1>2, <1>3 DEF BaseInv

\* The steps of one side leave what is said of the other side alone.
LEMMA EnqFrame ==
  ASSUME UNCHANGED evars, EnqBase
  PROVE  EnqBase'
  BY DEF evars, EnqBase, EnqLocal, PutTickets, Stored

LEMMA DeqFrame ==
  ASSUME UNCHANGED dvars, DeqBase
  PROVE  DeqBase'
  BY DEF dvars, DeqBase, DeqLocal, TakeTickets, Cleared, Holding, CallNo

LEMMA EnqClaimBase ==
  ASSUME BaseInv, NEW e \in Enqueuers, EnqClaim(e)
  PROVE  /\ BaseInv'
         /\ \A t \in 0 .. tail : /\ puts'[t + 1] = puts[t + 1]
                                 /\ Stored(t)' <=> Stored(t)
         /\ ~Stored(tail)'
  <1> USE SQueueAssumption
  <1> USE DEF EnqClaim, BaseInv
  <1>1. /\ <<e, i[e] + 1>> \in Atom
        /\ puts \in Seq(Atom) /\ Len(puts) = tail + 1 /\ tail \in Int
    BY Pairs DEF TypeOK
  <1>2. /\ puts' \in Seq(Atom)
        /\ Len(puts') = tail + 2
        /\ \A t \in 0 .. tail : puts'[t + 1] = puts[t + 1]
        /\ puts'[tail + 2] = <<e, i[e] + 1>>
    BY <1>1, AppendFacts
  <1>3. TypeOK'
    <2>1. UNCHANGED <<dpc, seenTail, curHead, elem, head, takes, got, i, theQueue>>
      BY DEF dvars
    <2>2. /\ epc' \in [Enqueuers -> {"claim", "store"}]
          /\ curTail' \in [Enqueuers -> Int]
      BY <1>1 DEF TypeOK
    <2>3. tail' \in Int /\ tail' = Len(puts') - 1
      BY <1>1, <1>2
    <2>4. TypeOK
      OBVIOUS
    <2>5. QED
      BY ONLY <1>2, <2>1, <2>2, <2>3, <2>4 DEF TypeOK
  <1>4. EnqLocal'
    <2>1. /\ epc \in [Enqueuers -> {"claim", "store"}]
          /\ curTail \in [Enqueuers -> Int]
          /\ tail' = tail + 1 /\ i' = i
      BY DEF TypeOK
    <2>2. ASSUME NEW f \in Enqueuers, epc'[f] = "store"
          PROVE  /\ i'[f] < EnqSamples
                 /\ curTail'[f] \in 0 .. tail'
                 /\ puts'[curTail'[f] + 1] = <<f, i'[f] + 1>>
      <3>1. CASE f = e
        <4>1. curTail'[e] = tail + 1 /\ i[e] < EnqSamples /\ tail + 1 >= 0
          BY <1>1, <1>2, <2>1
        <4>2. curTail'[e] + 1 = tail + 2
          BY <1>1, <4>1
        <4>3. QED
          BY <1>1, <1>2, <2>1, <3>1, <4>1, <4>2
      <3>2. CASE f # e
        <4>1. epc[f] = "store" /\ curTail'[f] = curTail[f]
          BY <2>1, <2>2, <3>2
        <4>2. /\ i[f] < EnqSamples /\ curTail[f] \in 0 .. tail
              /\ puts[curTail[f] + 1] = <<f, i[f] + 1>>
          BY <4>1 DEF EnqBase, EnqLocal
        <4>3. QED
          BY <1>1, <1>2, <2>1, <4>1, <4>2
      <3>3. QED
        BY <3>1, <3>2
    <2>3. QED
      BY <2>2 DEF EnqLocal
  <1>5. PutTickets'
    <2>1. ASSUME NEW t \in 0 .. tail', NEW f \in Enqueuers,
                 puts'[t + 1][1] = f, ~Stored(t)'
          PROVE  epc'[f] = "store" /\ curTail'[f] = t
      <3>1. CASE t = tail + 1
        BY <1>1, <1>2, <2>1, <3>1 DEF TypeOK
      <3>2. CASE t \in 0 .. tail
        <4>1. puts'[t + 1] = puts[t + 1] /\ puts[t + 1][1] \in Enqueuers
          BY <1>2, <3>2, HistoryTypes
        <4>2. Stored(t)' <=> Stored(t)
          BY <4>1 DEF Stored
        <4>3. QED
          BY <2>1, <3>2, <4>1, <4>2 DEF TypeOK, EnqBase, PutTickets
      <3>3. QED
        BY <1>1, <3>1, <3>2
    <2>2. ASSUME NEW t \in 0 .. tail PROVE puts[t + 1] # <<e, i[e] + 1>>
      <3>1. SUFFICES ASSUME puts[t + 1] = <<e, i[e] + 1>> PROVE FALSE
        OBVIOUS
      <3>2. puts[t + 1][1] = e /\ puts[t + 1][2] = i[e] + 1
        BY <3>1
      <3>3. ~Stored(t)
        BY <3>2 DEF Stored, TypeOK
      <3>4. QED
        BY <3>2, <3>3 DEF EnqBase, PutTickets
    <2>3. ASSUME NEW t \in 0 .. tail', NEW u \in 0 .. tail',
                 puts'[t + 1] = puts'[u + 1]
          PROVE  t = u
      <3>1. CASE t \in 0 .. tail /\ u \in 0 .. tail
        BY <1>2, <2>3, <3>1 DEF EnqBase, PutTickets
      <3>2. CASE t = tail + 1 /\ u \in 0 .. tail
        BY <1>1, <1>2, <2>2, <2>3, <3>2
      <3>3. CASE t \in 0 .. tail /\ u = tail + 1
        BY <1>1, <1>2, <2>2, <2>3, <3>3
      <3>4. QED
        BY <1>1, <3>1, <3>2, <3>3
    <2>4. QED
      BY <2>1, <2>3 DEF PutTickets
  <1>6. \A t \in 0 .. tail : Stored(t)' <=> Stored(t)
    BY <1>2 DEF Stored
  <1>7. ~Stored(tail)'
    <2>1. tail' + 1 = tail + 2
      BY <1>1
    <2>2. /\ puts'[tail' + 1] = <<e, i[e] + 1>>
          /\ i' = i /\ i[e] \in Int /\ ~(i[e] + 1 <= i[e])
      BY <1>2, <2>1 DEF TypeOK
    <2>3. QED
      BY ONLY <2>2 DEF Stored
  <1>8. QED
    BY <1>2, <1>3, <1>4, <1>5, <1>6, <1>7, DeqFrame DEF EnqBase

\* A ticket's slot is one of the ring.
LEMMA SlotRange == \A t \in Int : Slot(t) \in 0 .. MaxSize - 1
  <1>1. \A n \in Nat \ {0} : \A t \in Int : t % n \in 0 .. n - 1
    OBVIOUS
  <1>2. QED
    BY ONLY <1>1, SQueueAssumption DEF Slot

LEMMA EnqStoreBase ==
  ASSUME BaseInv, NEW e \in Enqueuers, EnqStore(e)
  PROVE  /\ BaseInv'
         /\ \A t \in 0 .. tail : Stored(t)' <=> Stored(t) \/ t = curTail[e]
  <1> USE SQueueAssumption
  <1> USE DEF EnqStore, BaseInv
  <1>1. /\ curTail[e] \in 0 .. tail /\ i[e] < EnqSamples
        /\ puts[curTail[e] + 1] = <<e, i[e] + 1>>
    BY DEF EnqBase, EnqLocal
  <1>2. TypeOK'
    <2>1. Slot(curTail[e]) \in 0 .. MaxSize - 1
      BY <1>1, SlotRange DEF TypeOK
    <2>2. <<e, i[e] + 1>> \in Atom
      BY <1>1, Pairs DEF TypeOK
    <2>3. /\ theQueue' \in [0 .. MaxSize - 1 -> Atom \cup {Null}]
          /\ epc' \in [Enqueuers -> {"claim", "store"}]
      BY <2>1, <2>2 DEF TypeOK
    <2>4. i' \in [Enqueuers -> 0 .. EnqSamples]
      <3>1. i \in [Enqueuers -> 0 .. EnqSamples] /\ i' = [i EXCEPT ![e] = @ + 1]
        BY DEF TypeOK
      <3>2. i[e] + 1 \in 0 .. EnqSamples
        BY <1>1, <3>1
      <3>3. QED
        BY <3>1, <3>2
    <2>5. UNCHANGED <<dpc, seenTail, curHead, elem, head, takes, got, tail,
                      curTail, puts>>
      BY DEF dvars
    <2>6. TypeOK
      OBVIOUS
    <2>7. QED
      BY ONLY <2>3, <2>4, <2>5, <2>6 DEF TypeOK
  <1>3. EnqLocal'
    <2>1. \A f \in Enqueuers :
            epc'[f] = "store" => epc[f] = "store" /\ i'[f] = i[f]
      BY DEF TypeOK
    <2>2. UNCHANGED <<curTail, tail, puts>>
      OBVIOUS
    <2>3. EnqLocal
      BY DEF EnqBase
    <2>4. ASSUME NEW f \in Enqueuers, epc'[f] = "store"
          PROVE  /\ i'[f] < EnqSamples
                 /\ curTail'[f] \in 0 .. tail'
                 /\ puts'[curTail'[f] + 1] = <<f, i'[f] + 1>>
      <3>1. epc[f] = "store" /\ i'[f] = i[f]
        BY <2>1, <2>4
      <3>2. /\ i[f] < EnqSamples /\ curTail[f] \in 0 .. tail
            /\ puts[curTail[f] + 1] = <<f, i[f] + 1>>
        BY ONLY <2>3, <3>1 DEF EnqLocal
      <3>3. QED
        BY ONLY <2>2, <3>1, <3>2
    <2>5. QED
      BY ONLY <2>4 DEF EnqLocal
  <1>4. ASSUME NEW t \in 0 .. tail
        PROVE  Stored(t)' <=> Stored(t) \/ t = curTail[e]
    <2> DEFINE a == puts[t + 1]
    <2>1. a[1] \in Enqueuers /\ a[2] \in Int /\ i[a[1]] \in Int
      <3>1. a[1] \in Enqueuers /\ a[2] \in 1 .. EnqSamples
        BY HistoryTypes
      <3>2. i \in [Enqueuers -> 0 .. EnqSamples]
        BY DEF TypeOK
      <3>3. QED
        BY <3>1, <3>2
    <2>2. CASE a[1] = e /\ t # curTail[e]
      <3>1. Stored(t)
        BY <2>2 DEF EnqBase, PutTickets
      <3>2. QED
        BY <2>1, <2>2, <3>1 DEF Stored, TypeOK
    <2>3. CASE a[1] # e
      <3>1. t # curTail[e]
        BY <1>1, <2>3
      <3>2. QED
        BY <2>1, <2>3, <3>1 DEF Stored, TypeOK
    <2>4. CASE t = curTail[e]
      BY <1>1, <2>4 DEF Stored, TypeOK
    <2>5. QED
      BY <2>2, <2>3, <2>4
  <1>5. PutTickets'
    <2>1. ASSUME NEW t \in 0 .. tail, NEW f \in Enqueuers,
                 puts[t + 1][1] = f, ~Stored(t)'
          PROVE  epc'[f] = "store" /\ curTail[f] = t
      <3>1. ~Stored(t) /\ t # curTail[e]
        BY <1>4, <2>1
      <3>2. f # e
        BY <2>1, <3>1 DEF EnqBase, PutTickets
      <3>3. QED
        BY <2>1, <3>1, <3>2 DEF EnqBase, PutTickets, TypeOK
    <2>2. QED
      BY <2>1 DEF EnqBase, PutTickets
  <1>6. QED
    BY <1>2, <1>3, <1>4, <1>5, DeqFrame DEF EnqBase

\* The steps of a dequeuer that touch neither the histories nor its ticket.
LocalStep(d) == DeqReadTail(d) \/ DeqNotEmpty(d) \/ DeqSpin(d) \/ DeqRead(d)

LEMMA DeqLocalStepBase ==
  ASSUME BaseInv, NEW d \in Dequeuers, LocalStep(d)
  PROVE  /\ BaseInv'
         /\ \A t \in 0 .. head : Cleared(t)' <=> Cleared(t)
  <1> USE SQueueAssumption
  <1> USE DEF LocalStep, DeqReadTail, DeqNotEmpty, DeqSpin, DeqRead, BaseInv
  <1>1. TypeOK'
    <2>1. CASE DeqRead(d)
      <3>1. dpc[d] = "read" /\ Holding(d) /\ curHead[d] \in Int
        BY <2>1 DEF Holding, TypeOK
      <3>2. Slot(curHead[d]) \in 0 .. MaxSize - 1
        BY <3>1 DEF Slot, TypeOK
      <3>3. QED
        BY <2>1, <3>2 DEF TypeOK, evars
    <2>2. CASE DeqReadTail(d)
      BY <2>2 DEF TypeOK, evars
    <2>3. CASE DeqNotEmpty(d)
      BY <2>3 DEF TypeOK, evars
    <2>4. CASE DeqSpin(d)
      BY <2>4 DEF TypeOK, evars
    <2>5. QED
      BY <2>1, <2>2, <2>3, <2>4
  <1>2. UNCHANGED <<curHead, head, takes, got>>
    OBVIOUS
  <1>3. \A f \in Dequeuers : Holding(f)' <=> Holding(f)
    BY DEF Holding, TypeOK
  <1>4. \A t \in 0 .. head : Cleared(t)' <=> Cleared(t)
    BY <1>2 DEF Cleared
  <1>5. DeqLocal'
    BY <1>2, <1>3 DEF DeqBase, DeqLocal, CallNo, TypeOK
  <1>6. TakeTickets'
    BY <1>2, <1>3, <1>4, HistoryTypes DEF DeqBase, TakeTickets
  <1>7. UNCHANGED evars
    OBVIOUS
  <1>8. QED
    BY <1>1, <1>4, <1>5, <1>6, <1>7, EnqFrame DEF DeqBase

LEMMA DeqClaimBase ==
  ASSUME BaseInv, NEW d \in Dequeuers, DeqClaim(d)
  PROVE  /\ BaseInv'
         /\ \A t \in 0 .. head : /\ takes'[t + 1] = takes[t + 1]
                                 /\ Cleared(t)' <=> Cleared(t)
         /\ ~Cleared(head)'
  <1> USE SQueueAssumption
  <1> USE DEF DeqClaim, BaseInv
  <1>1. /\ CallNo(d) \in 1 .. DeqSamples
        /\ <<d, CallNo(d)>> \in Call
        /\ takes \in Seq(Call) /\ Len(takes) = head + 1 /\ head \in Int
    BY Pairs DEF TypeOK, CallNo, DeqBase, DeqLocal
  <1>2. /\ takes' \in Seq(Call)
        /\ Len(takes') = head + 2
        /\ \A t \in 0 .. head : takes'[t + 1] = takes[t + 1]
        /\ takes'[head + 2] = <<d, CallNo(d)>>
    BY <1>1, AppendFacts
  <1>3. TypeOK'
    <2>1. UNCHANGED <<epc, i, curTail, tail, puts, seenTail, elem, got, theQueue>>
      BY DEF evars
    <2>2. /\ dpc' \in [Dequeuers ->
                         {"isEmpty", "compare", "claim", "spin", "read", "clear"}]
          /\ curHead' \in [Dequeuers -> Int]
      BY <1>1 DEF TypeOK
    <2>3. head' \in Int /\ head' = Len(takes') - 1
      BY <1>1, <1>2
    <2>4. TypeOK
      OBVIOUS
    <2>5. QED
      BY ONLY <1>2, <2>1, <2>2, <2>3, <2>4 DEF TypeOK
  <1>4. /\ \A t \in 0 .. head : Cleared(t)' <=> Cleared(t)
        /\ ~Cleared(head)'
    BY <1>1, <1>2 DEF Cleared, CallNo
  <1>5. \A f \in Dequeuers :
          /\ Holding(f)' <=> Holding(f) \/ f = d
          /\ curHead'[f] = IF f = d THEN head + 1 ELSE curHead[f]
          /\ CallNo(f)' = CallNo(f)
    BY DEF TypeOK, Holding, CallNo
  <1>6. DeqLocal'
    <2>1. ASSUME NEW f \in Dequeuers
          PROVE  /\ dpc'[f] # "isEmpty" => CallNo(f)' <= DeqSamples
                 /\ Holding(f)' => /\ curHead'[f] \in 0 .. head'
                                   /\ takes'[curHead'[f] + 1] = <<f, CallNo(f)'>>
      <3>1. CASE f = d
        BY <1>1, <1>2, <1>5, <3>1 DEF CallNo
      <3>2. CASE f # d
        BY <1>1, <1>2, <1>5, <3>2 DEF DeqBase, DeqLocal, TypeOK
      <3>3. QED
        BY <3>1, <3>2
    <2>2. QED
      BY <2>1 DEF DeqLocal
  <1>7. TakeTickets'
    <2>1. ASSUME NEW t \in 0 .. head', NEW f \in Dequeuers,
                 takes'[t + 1][1] = f, ~Cleared(t)'
          PROVE  Holding(f)' /\ curHead'[f] = t
      <3>1. CASE t = head + 1
        BY <1>1, <1>2, <1>5, <2>1, <3>1
      <3>2. CASE t \in 0 .. head
        <4>1. takes[t + 1][1] = f /\ ~Cleared(t)
          BY <1>2, <1>4, <2>1, <3>2
        <4>2. Holding(f) /\ curHead[f] = t /\ f # d
          BY <3>2, <4>1 DEF DeqBase, TakeTickets, Holding
        <4>3. QED
          BY <1>5, <4>2
      <3>3. QED
        BY <1>1, <3>1, <3>2
    <2>2. ASSUME NEW t \in 0 .. head PROVE takes[t + 1] # <<d, CallNo(d)>>
      <3>1. SUFFICES ASSUME takes[t + 1] = <<d, CallNo(d)>> PROVE FALSE
        OBVIOUS
      <3>2. takes[t + 1][1] = d /\ takes[t + 1][2] = CallNo(d)
        BY <3>1
      <3>3. ~Cleared(t) /\ ~Holding(d)
        BY <1>1, <3>2 DEF Cleared, CallNo, Holding
      <3>4. QED
        BY <3>2, <3>3 DEF DeqBase, TakeTickets
    <2>3. ASSUME NEW t \in 0 .. head', NEW u \in 0 .. head',
                 takes'[t + 1] = takes'[u + 1]
          PROVE  t = u
      <3>1. CASE t \in 0 .. head /\ u \in 0 .. head
        BY <1>2, <2>3, <3>1 DEF DeqBase, TakeTickets
      <3>2. CASE t = head + 1 /\ u \in 0 .. head
        BY <1>1, <1>2, <2>2, <2>3, <3>2
      <3>3. CASE t \in 0 .. head /\ u = head + 1
        BY <1>1, <1>2, <2>2, <2>3, <3>3
      <3>4. QED
        BY <1>1, <3>1, <3>2, <3>3
    <2>4. QED
      BY <2>1, <2>3 DEF TakeTickets
  <1>8. QED
    BY <1>2, <1>3, <1>4, <1>6, <1>7, EnqFrame DEF DeqBase

\* A call of d returns x: what the other calls returned stays as it is.
LEMMA GotFacts ==
  ASSUME TypeOK, NEW d \in Dequeuers, NEW x \in Atom \cup {Null, Fail},
         got' = [got EXCEPT ![d] = Append(@, x)]
  PROVE  /\ got' \in [Dequeuers -> Seq(Atom \cup {Null, Fail})]
         /\ \A f \in Dequeuers :
              /\ Len(got[f]) \in Nat
              /\ Len(got'[f]) = IF f = d THEN Len(got[f]) + 1 ELSE Len(got[f])
              /\ \A k \in 1 .. Len(got[f]) : got'[f][k] = got[f][k]
         /\ got'[d][CallNo(d)] = x
  <1>1. got[d] \in Seq(Atom \cup {Null, Fail})
    BY DEF TypeOK
  <1>2. got'[d] = Append(got[d], x)
    BY DEF TypeOK
  <1>3. /\ Append(got[d], x) \in Seq(Atom \cup {Null, Fail})
        /\ Len(Append(got[d], x)) = Len(got[d]) + 1
        /\ \A k \in 1 .. Len(got[d]) : Append(got[d], x)[k] = got[d][k]
        /\ Append(got[d], x)[Len(got[d]) + 1] = x
    BY <1>1, AppendFacts
  <1>4. \A f \in Dequeuers : got[f] \in Seq(Atom \cup {Null, Fail})
    BY DEF TypeOK
  <1>5. \A f \in Dequeuers \ {d} : got'[f] = got[f]
    BY DEF TypeOK
  <1>6. ASSUME NEW f \in Dequeuers
        PROVE  /\ Len(got[f]) \in Nat
               /\ Len(got'[f]) = IF f = d THEN Len(got[f]) + 1 ELSE Len(got[f])
               /\ \A k \in 1 .. Len(got[f]) : got'[f][k] = got[f][k]
    BY <1>2, <1>3, <1>4, <1>5
  <1>7. got' \in [Dequeuers -> Seq(Atom \cup {Null, Fail})]
    BY <1>3 DEF TypeOK
  <1>8. QED
    BY <1>2, <1>3, <1>6, <1>7 DEF CallNo

LEMMA DeqFailBase ==
  ASSUME BaseInv, NEW d \in Dequeuers, DeqFail(d)
  PROVE  /\ BaseInv'
         /\ \A t \in 0 .. head : Cleared(t)' <=> Cleared(t)
  <1> USE SQueueAssumption
  <1> USE DEF DeqFail, BaseInv
  <1>1. /\ got' \in [Dequeuers -> Seq(Atom \cup {Null, Fail})]
        /\ \A f \in Dequeuers :
             /\ Len(got[f]) \in Nat
             /\ Len(got'[f]) = IF f = d THEN Len(got[f]) + 1 ELSE Len(got[f])
    BY GotFacts
  <1>2. TypeOK'
    BY <1>1 DEF TypeOK, evars
  <1>3. ASSUME NEW t \in 0 .. head
        PROVE  Cleared(t)' <=> Cleared(t)
    <2>1. takes[t + 1][1] \in Dequeuers /\ takes[t + 1][2] \in Int
      BY HistoryTypes
    <2>2. CASE takes[t + 1][1] = d
      <3>1. Cleared(t)
        BY <2>2 DEF DeqBase, TakeTickets, Holding
      <3>2. QED
        BY <1>1, <2>1, <2>2, <3>1 DEF Cleared
    <2>3. CASE takes[t + 1][1] # d
      BY <1>1, <2>1, <2>3 DEF Cleared
    <2>4. QED
      BY <2>2, <2>3
  <1>4. \A f \in Dequeuers :
          /\ Holding(f)' <=> Holding(f)
          /\ f # d => CallNo(f)' = CallNo(f) /\ dpc'[f] = dpc[f]
          /\ dpc'[d] = "isEmpty" /\ ~Holding(d)
    BY <1>1 DEF Holding, TypeOK, CallNo
  <1>5. DeqLocal'
    BY <1>4 DEF DeqBase, DeqLocal
  <1>6. TakeTickets'
    BY <1>3, <1>4 DEF DeqBase, TakeTickets
  <1>7. QED
    BY <1>2, <1>3, <1>5, <1>6, EnqFrame DEF DeqBase

LEMMA DeqClearBase ==
  ASSUME BaseInv, NEW d \in Dequeuers, DeqClear(d)
  PROVE  /\ BaseInv'
         /\ \A t \in 0 .. head : Cleared(t)' <=> Cleared(t) \/ t = curHead[d]
  <1> USE SQueueAssumption
  <1> USE DEF DeqClear, BaseInv
  <1>1. elem[d] \in Atom \cup {Null, Fail}
    BY DEF TypeOK
  <1>2. /\ got' \in [Dequeuers -> Seq(Atom \cup {Null, Fail})]
        /\ \A f \in Dequeuers :
             /\ Len(got[f]) \in Nat
             /\ Len(got'[f]) = IF f = d THEN Len(got[f]) + 1 ELSE Len(got[f])
    BY <1>1, GotFacts
  <1>3. /\ Holding(d) /\ curHead[d] \in 0 .. head
        /\ takes[curHead[d] + 1] = <<d, CallNo(d)>>
        /\ takes[curHead[d] + 1][1] = d
        /\ takes[curHead[d] + 1][2] = Len(got[d]) + 1
    <2>1. /\ Holding(d) /\ curHead[d] \in 0 .. head
          /\ takes[curHead[d] + 1] = <<d, CallNo(d)>>
      BY DEF DeqBase, DeqLocal, Holding
    <2>2. QED
      BY <2>1 DEF CallNo
  <1>4. TypeOK'
    <2>1. Slot(curHead[d]) \in 0 .. MaxSize - 1
      BY <1>3 DEF Slot, TypeOK
    <2>2. QED
      BY <1>2, <2>1 DEF TypeOK, evars
  <1>5. ASSUME NEW t \in 0 .. head
        PROVE  Cleared(t)' <=> Cleared(t) \/ t = curHead[d]
    <2>1. takes[t + 1][1] \in Dequeuers /\ takes[t + 1][2] \in Int
      BY HistoryTypes
    <2>2. CASE t = curHead[d]
      <3>1. t <= head' /\ takes' = takes /\ Len(got'[d]) = Len(got[d]) + 1
        BY <1>2 DEF TypeOK
      <3>2. takes'[t + 1][1] = d /\ takes'[t + 1][2] = Len(got'[d])
        BY <1>3, <2>2, <3>1
      <3>3. takes'[t + 1][2] <= Len(got'[takes'[t + 1][1]])
        BY <1>2, <3>2
      <3>4. Cleared(t)'
        BY <3>1, <3>3 DEF Cleared
      <3>5. QED
        BY <2>2, <3>4
    <2>3. CASE takes[t + 1][1] = d /\ t # curHead[d]
      <3>1. Cleared(t)
        BY <2>3 DEF DeqBase, TakeTickets
      <3>2. takes[t + 1][2] <= Len(got[d])
        BY <2>3, <3>1 DEF Cleared
      <3>3. takes[t + 1][2] <= Len(got'[d])
        BY <1>2, <2>1, <3>2
      <3>4. Cleared(t)'
        BY <2>3, <3>3 DEF Cleared
      <3>5. QED
        BY <3>1, <3>4
    <2>4. CASE takes[t + 1][1] # d
      BY <1>2, <1>3, <2>1, <2>4 DEF Cleared
    <2>5. QED
      BY <2>2, <2>3, <2>4
  <1>6. \A f \in Dequeuers :
          /\ Holding(f)' <=> Holding(f) /\ f # d
          /\ f # d => CallNo(f)' = CallNo(f) /\ dpc'[f] = dpc[f]
          /\ dpc'[d] = "isEmpty"
    BY <1>2 DEF Holding, TypeOK, CallNo
  <1>7. DeqLocal'
    BY <1>6 DEF DeqBase, DeqLocal
  <1>8. TakeTickets'
    <2>1. ASSUME NEW t \in 0 .. head, NEW f \in Dequeuers,
                 takes[t + 1][1] = f, ~Cleared(t)'
          PROVE  Holding(f)' /\ curHead[f] = t
      BY <1>5, <1>6, <2>1 DEF DeqBase, TakeTickets
    <2>2. QED
      BY <2>1 DEF DeqBase, TakeTickets
  <1>9. QED
    BY <1>4, <1>5, <1>7, <1>8, EnqFrame DEF DeqBase

LEMMA BaseStep == BaseInv /\ [Next]_vars => BaseInv'
  <1> SUFFICES ASSUME BaseInv, [Next]_vars PROVE BaseInv'
    OBVIOUS
  <1>1. ASSUME NEW e \in Enqueuers, Enqueue(e) PROVE BaseInv'
    BY <1>1, EnqClaimBase, EnqStoreBase DEF Enqueue
  <1>2. ASSUME NEW d \in Dequeuers, Dequeue(d) PROVE BaseInv'
    BY <1>2, DeqLocalStepBase, DeqClaimBase, DeqFailBase, DeqClearBase
       DEF Dequeue, isEmpty, LocalStep
  <1>3. CASE UNCHANGED vars
    <2>1. UNCHANGED evars /\ UNCHANGED dvars /\ UNCHANGED theQueue
      BY <1>3 DEF vars, evars, dvars
    <2>2. TypeOK'
      BY <2>1 DEF BaseInv, TypeOK, evars, dvars
    <2>3. QED
      BY <2>1, <2>2, EnqFrame, DeqFrame DEF BaseInv
  <1>4. QED
    BY <1>1, <1>2, <1>3 DEF Next, Terminated

\* Whatever the workload, indices, slots and locals of squeue.c keep their
\* types, and every ticket belongs to exactly one call.
THEOREM TypeCorrect == Spec => []TypeOK
  <1>1. BaseInv => TypeOK
    BY DEF BaseInv
  <1>2. QED
    BY <1>1, BaseInit, BaseStep, PTL DEF Spec

\* Even in a ring that is overrun every ticket has exactly one owner, which
\* works on the slot of that ticket: this is all the two atomic adds give.
THEOREM TicketsAlwaysOwned == Spec => []TicketsOwned
  <1>1. BaseInv => TicketsOwned
    BY DEF BaseInv, EnqBase, DeqBase, TicketsOwned
  <1>2. QED
    BY <1>1, BaseInit, BaseStep, PTL DEF Spec

-----------------------------------------------------------------------------
(* Paced use: two tickets in use never share a slot.                       *)

LEMMA ModInjective ==
  ASSUME NEW n \in Nat \ {0}, NEW a \in Nat, NEW b \in Nat,
         a % n = b % n, a <= b, b - a < n
  PROVE  a = b
  <1>1. PICK q \in Int, p \in Int, r \in Int : a = n * q + r /\ b = n * p + r
    <2>1. /\ a = n * (a \div n) + (a % n) /\ a \div n \in Int /\ a % n \in Int
          /\ b = n * (b \div n) + (b % n) /\ b \div n \in Int /\ b % n \in Int
      OBVIOUS
    <2>2. QED
      BY <2>1
  <1>2. b - a = n * (p - q)
    BY <1>1
  <1>3. p - q < 1
    <2>1. ASSUME p - q >= 1 PROVE n * (p - q) >= n
      BY <2>1
    <2>2. QED
      BY <1>1, <1>2, <2>1
  <1>4. p - q > -1
    <2>1. ASSUME p - q <= -1 PROVE n * (p - q) <= -n
      BY <2>1
    <2>2. QED
      BY <1>1, <1>2, <2>1
  <1>5. p = q
    BY <1>1, <1>3, <1>4
  <1>6. QED
    BY <1>1, <1>5

LEMMA SlotsApart ==
  ASSUME TypeOK, Paced,
         NEW t \in 0 .. tail \cup 0 .. head, ~Cleared(t),
         NEW u \in 0 .. tail \cup 0 .. head, ~Cleared(u),
         Slot(t) = Slot(u)
  PROVE  t = u
  <1> USE SQueueAssumption
  <1>1. /\ tail - t < MaxSize /\ head - t < MaxSize
        /\ tail - u < MaxSize /\ head - u < MaxSize
        /\ t \in Nat /\ u \in Nat /\ tail \in Int /\ head \in Int
    BY DEF Paced, TypeOK
  <1>2. t - u < MaxSize /\ u - t < MaxSize
    BY <1>1
  <1>3. t % MaxSize = u % MaxSize
    BY DEF Slot
  <1>4. CASE t <= u
    BY <1>1, <1>2, <1>3, <1>4, ModInjective
  <1>5. CASE u <= t
    BY <1>1, <1>2, <1>3, <1>5, ModInjective
  <1>6. QED
    BY <1>1, <1>4, <1>5

\* The inductive invariant, in the form in which the proofs below use it.
LEMMA IndInvBase == IndInv <=> BaseInv /\ Paced /\ SlotInv /\ MatchInv
  BY DEF IndInv, TicketsOwned, BaseInv, EnqBase, DeqBase

LEMMA EnqClaimPaced ==
  ASSUME IndInv, NEW e \in Enqueuers, EnqClaim(e)
  PROVE  SlotInv' /\ MatchInv'
  <1> USE IndInvBase, SQueueAssumption
  <1>1. /\ \A t \in 0 .. tail : /\ puts'[t + 1] = puts[t + 1]
                                /\ Stored(t)' <=> Stored(t)
        /\ ~Stored(tail)'
        /\ tail' = tail + 1 /\ tail \in Int /\ head \in Int
        /\ UNCHANGED <<dpc, curHead, elem, head, takes, got, theQueue>>
    BY EnqClaimBase DEF EnqClaim, dvars, BaseInv, TypeOK
  <1>2. \A t \in Int : Cleared(t)' <=> Cleared(t)
    BY <1>1 DEF Cleared
  <1>3. SlotInv'
    <2>1. ASSUME NEW t \in 0 .. tail', Stored(t)', ~Cleared(t)
          PROVE  theQueue[Slot(t)] = puts'[t + 1]
      <3>1. t \in 0 .. tail /\ Stored(t)
        BY <1>1, <2>1
      <3>2. QED
        BY <1>1, <2>1, <3>1 DEF SlotInv
    <2>2. ASSUME NEW s \in 0 .. MaxSize - 1, theQueue[s] # Null
          PROVE  \E t \in 0 .. tail' : Slot(t) = s /\ Stored(t)' /\ ~Cleared(t)
      BY <1>1, <2>2 DEF SlotInv
    <2>3. QED
      BY <1>1, <1>2, <2>1, <2>2 DEF SlotInv, Slot
  <1>4. MatchInv'
    <2>1. \A d \in Dequeuers : dpc[d] \in {"read", "clear"} => curHead[d] \in 0 .. tail
      BY <1>1 DEF MatchInv, BaseInv, DeqBase, DeqLocal, Holding
    <2>2. FifoMatch'
      BY <1>1, <1>2 DEF MatchInv, FifoMatch
    <2>3. QED
      BY <1>1, <1>2, <2>1, <2>2 DEF MatchInv
  <1>5. QED
    BY <1>3, <1>4

LEMMA EnqStorePaced ==
  ASSUME IndInv, NEW e \in Enqueuers, EnqStore(e)
  PROVE  SlotInv' /\ MatchInv'
  <1> USE IndInvBase, SQueueAssumption
  <1> DEFINE w == curTail[e]
  <1>1. /\ \A t \in 0 .. tail : Stored(t)' <=> Stored(t) \/ t = w
        /\ tail \in Int /\ head \in Int
        /\ UNCHANGED <<tail, puts, dpc, curHead, elem, head, takes, got>>
    BY EnqStoreBase DEF EnqStore, dvars, BaseInv, TypeOK
  <1>2. \A t \in Int : Cleared(t)' <=> Cleared(t)
    BY <1>1 DEF Cleared
  <1>3. /\ w \in 0 .. tail /\ puts[w + 1] = <<e, i[e] + 1>> /\ ~Stored(w)
    BY DEF EnqStore, BaseInv, EnqBase, EnqLocal, Stored, TypeOK
  <1>4. ~Cleared(w)
    BY <1>1, <1>3 DEF MatchInv, Cleared
  <1>5. /\ theQueue'[Slot(w)] = puts[w + 1]
        /\ \A s \in (0 .. MaxSize - 1) \ {Slot(w)} : theQueue'[s] = theQueue[s]
        /\ Slot(w) \in 0 .. MaxSize - 1
    BY <1>3 DEF EnqStore, BaseInv, TypeOK, Slot
  <1>6. ASSUME NEW t \in 0 .. tail, ~Cleared(t), t # w
        PROVE  Slot(t) \in (0 .. MaxSize - 1) \ {Slot(w)}
    <2>1. Slot(t) \in 0 .. MaxSize - 1
      BY DEF Slot
    <2>2. Slot(t) # Slot(w)
      BY <1>3, <1>4, <1>6, SlotsApart DEF BaseInv
    <2>3. QED
      BY <2>1, <2>2
  <1>7. SlotInv'
    <2>1. ASSUME NEW t \in 0 .. tail, Stored(t)', ~Cleared(t)
          PROVE  theQueue'[Slot(t)] = puts[t + 1]
      <3>1. CASE t = w
        BY <1>5, <3>1
      <3>2. CASE t # w
        BY <1>1, <1>5, <1>6, <2>1, <3>2 DEF SlotInv
      <3>3. QED
        BY <3>1, <3>2
    <2>2. ASSUME NEW s \in 0 .. MaxSize - 1, theQueue'[s] # Null
          PROVE  \E t \in 0 .. tail : Slot(t) = s /\ Stored(t)' /\ ~Cleared(t)
      <3>1. CASE s = Slot(w)
        BY <1>1, <1>3, <1>4, <3>1
      <3>2. CASE s # Slot(w)
        BY <1>1, <1>5, <2>2, <3>2 DEF SlotInv
      <3>3. QED
        BY <3>1, <3>2
    <2>3. QED
      BY <1>1, <1>2, <2>1, <2>2 DEF SlotInv, Slot
  <1>8. MatchInv'
    <2>1. \A d \in Dequeuers : dpc[d] \in {"read", "clear"} => curHead[d] \in 0 .. tail
      BY <1>1 DEF MatchInv, BaseInv, DeqBase, DeqLocal, Holding
    <2>2. FifoMatch'
      BY <1>1, <1>2 DEF MatchInv, FifoMatch
    <2>3. QED
      BY <1>1, <1>2, <2>1, <2>2 DEF MatchInv
  <1>9. QED
    BY <1>7, <1>8

\* Steps of a dequeuer leave the tail tickets and their elements alone.
LEMMA StoredFrame ==
  ASSUME UNCHANGED evars
  PROVE  /\ tail' = tail /\ puts' = puts
         /\ \A t \in Int : Stored(t)' <=> Stored(t)
  BY DEF evars, Stored

LEMMA HeldUncleared ==
  ASSUME BaseInv, NEW d \in Dequeuers, Holding(d)
  PROVE  /\ curHead[d] \in 0 .. head
         /\ takes[curHead[d] + 1] = <<d, CallNo(d)>>
         /\ ~Cleared(curHead[d])
  <1>1. /\ curHead[d] \in 0 .. head
        /\ takes[curHead[d] + 1] = <<d, CallNo(d)>>
    BY DEF BaseInv, DeqBase, DeqLocal
  <1>2. Len(got[d]) \in Nat
    BY DEF BaseInv, TypeOK
  <1>3. ~Cleared(curHead[d])
    BY <1>1, <1>2 DEF Cleared, CallNo
  <1>4. QED
    BY <1>1, <1>3

LEMMA DeqLocalStepPaced ==
  ASSUME IndInv, NEW d \in Dequeuers, LocalStep(d)
  PROVE  SlotInv' /\ MatchInv'
  <1> USE IndInvBase, SQueueAssumption
  <1>1. UNCHANGED <<tail, puts, curHead, head, takes, got, theQueue>>
        /\ UNCHANGED evars /\ tail \in Int /\ head \in Int
    BY DEF LocalStep, DeqReadTail, DeqNotEmpty, DeqSpin, DeqRead, evars,
           BaseInv, TypeOK
  <1>2. \A t \in Int : (Cleared(t)' <=> Cleared(t)) /\ (Stored(t)' <=> Stored(t))
    BY <1>1, StoredFrame DEF Cleared
  <1>3. SlotInv'
    BY <1>1, <1>2 DEF SlotInv, Slot
  <1>4. FifoMatch'
    BY <1>1, <1>2 DEF MatchInv, FifoMatch
  <1>5. ASSUME NEW f \in Dequeuers, dpc'[f] \in {"read", "clear"}
        PROVE  /\ curHead[f] \in 0 .. tail /\ Stored(curHead[f])
               /\ dpc'[f] = "clear" => elem'[f] = puts[curHead[f] + 1]
    <2>1. CASE f # d
      <3>1. dpc'[f] = dpc[f] /\ elem'[f] = elem[f]
        BY <2>1 DEF LocalStep, DeqReadTail, DeqNotEmpty, DeqSpin, DeqRead,
                    BaseInv, TypeOK
      <3>2. QED
        BY <1>5, <3>1, HeldUncleared DEF MatchInv, Holding
    <2>2. CASE f = d /\ DeqSpin(d)
      <3>1. /\ curHead[d] \in 0 .. head /\ ~Cleared(curHead[d])
            /\ dpc'[d] = "read"
        BY <2>2, HeldUncleared DEF DeqSpin, Holding, BaseInv, TypeOK
      <3>2. PICK t \in 0 .. tail :
              Slot(t) = Slot(curHead[d]) /\ Stored(t) /\ ~Cleared(t)
        <4>1. Slot(curHead[d]) \in 0 .. MaxSize - 1
          BY <3>1 DEF Slot
        <4>2. theQueue[Slot(curHead[d])] # Null
          BY <2>2 DEF DeqSpin
        <4>3. QED
          BY <4>1, <4>2 DEF SlotInv
      <3>3. t = curHead[d]
        BY <3>1, <3>2, SlotsApart DEF BaseInv
      <3>4. QED
        BY <2>2, <3>1, <3>2, <3>3
    <2>3. CASE f = d /\ DeqRead(d)
      <3>1. /\ curHead[d] \in 0 .. tail /\ Stored(curHead[d])
            /\ ~Cleared(curHead[d])
        BY <2>3, HeldUncleared DEF DeqRead, Holding, MatchInv
      <3>2. theQueue[Slot(curHead[d])] = puts[curHead[d] + 1]
        BY <3>1 DEF SlotInv
      <3>3. elem'[d] = puts[curHead[d] + 1]
        BY <2>3, <3>2 DEF DeqRead, BaseInv, TypeOK
      <3>4. QED
        BY <2>3, <3>1, <3>3
    <2>4. CASE f = d /\ (DeqReadTail(d) \/ DeqNotEmpty(d))
      BY <1>5, <2>4 DEF DeqReadTail, DeqNotEmpty, BaseInv, TypeOK
    <2>5. QED
      BY <2>1, <2>2, <2>3, <2>4 DEF LocalStep
  <1>6. MatchInv'
    BY <1>1, <1>2, <1>4, <1>5 DEF MatchInv
  <1>7. QED
    BY <1>3, <1>6

LEMMA DeqClaimPaced ==
  ASSUME IndInv, NEW d \in Dequeuers, DeqClaim(d)
  PROVE  SlotInv' /\ MatchInv'
  <1> USE IndInvBase, SQueueAssumption
  <1>1. /\ \A t \in 0 .. head : takes'[t + 1] = takes[t + 1]
        /\ head' = head + 1 /\ tail \in Int /\ head \in Int
        /\ UNCHANGED <<tail, puts, got, theQueue, elem>>
        /\ \A t \in Int : Stored(t)' <=> Stored(t)
        /\ \A f \in Dequeuers : dpc'[f] \in {"read", "clear"} =>
             dpc'[f] = dpc[f] /\ curHead'[f] = curHead[f]
    BY DeqClaimBase, StoredFrame DEF DeqClaim, evars, BaseInv, TypeOK
  <1>2. \A t \in 0 .. head' : Cleared(t)' <=> t \in 0 .. head /\ Cleared(t)
    <2>1. ASSUME NEW t \in 0 .. head PROVE Cleared(t)' <=> Cleared(t)
      BY DeqClaimBase
    <2>2. ASSUME NEW t \in Int, t = head' PROVE ~Cleared(t)'
      <3>1. ~Cleared(head)'
        BY DeqClaimBase
      <3>2. QED
        BY <2>2, <3>1 DEF Cleared
    <2>3. QED
      BY <1>1, <2>1, <2>2
  <1>3. \A t \in 0 .. tail : Cleared(t)' <=> Cleared(t)
    <2>1. ASSUME NEW t \in 0 .. tail, t > head' PROVE ~Cleared(t)' /\ ~Cleared(t)
      BY <1>1, <2>1 DEF Cleared
    <2>2. ASSUME NEW t \in 0 .. tail, t = head' PROVE ~Cleared(t)
      BY <1>1, <2>2 DEF Cleared
    <2>3. QED
      BY <1>1, <1>2, <2>1, <2>2
  <1>4. SlotInv'
    BY <1>1, <1>3 DEF SlotInv, Slot
  <1>5. FifoMatch'
    BY <1>1, <1>2 DEF MatchInv, FifoMatch
  <1>6. MatchInv'
    <2>1. ASSUME NEW f \in Dequeuers, dpc'[f] \in {"read", "clear"}
          PROVE  /\ curHead'[f] <= tail' /\ Stored(curHead[f])'
                 /\ dpc'[f] = "clear" => elem'[f] = puts'[curHead'[f] + 1]
      <3>1. /\ curHead'[f] = curHead[f] /\ dpc'[f] = dpc[f] /\ elem' = elem
            /\ UNCHANGED evars
        BY <1>1, <2>1 DEF DeqClaim
      <3>2. Stored(curHead[f])' <=> Stored(curHead[f])
        BY <3>1 DEF Stored, evars
      <3>3. QED
        BY <1>1, <2>1, <3>1, <3>2 DEF MatchInv
    <2>2. QED
      BY <1>1, <1>2, <1>5, <2>1 DEF MatchInv
  <1>7. QED
    BY <1>4, <1>6

\* A return of d with x, seen from the calls that had returned before.
LEMMA ReturnFrame ==
  ASSUME IndInv, NEW d \in Dequeuers, NEW x \in Atom \cup {Null, Fail},
         got' = [got EXCEPT ![d] = Append(@, x)],
         NEW t \in 0 .. head, Cleared(t), takes' = takes
  PROVE  got'[takes[t + 1][1]][takes[t + 1][2]] = puts[t + 1]
  <1>1. /\ takes[t + 1][1] \in Dequeuers
        /\ takes[t + 1][2] \in 1 .. Len(got[takes[t + 1][1]])
    BY IndInvBase, HistoryTypes, GotFacts DEF BaseInv, Cleared
  <1>2. got'[takes[t + 1][1]][takes[t + 1][2]]
          = got[takes[t + 1][1]][takes[t + 1][2]]
    BY <1>1, IndInvBase, GotFacts DEF BaseInv
  <1>3. QED
    BY <1>2, IndInvBase DEF MatchInv, FifoMatch

LEMMA DeqFailPaced ==
  ASSUME IndInv, NEW d \in Dequeuers, DeqFail(d)
  PROVE  SlotInv' /\ MatchInv'
  <1> USE IndInvBase, SQueueAssumption
  <1>1. /\ UNCHANGED <<tail, puts, head, takes, curHead, theQueue, elem>>
        /\ tail \in Int /\ head \in Int
        /\ got' = [got EXCEPT ![d] = Append(@, Fail)]
        /\ \A t \in Int : Stored(t)' <=> Stored(t)
        /\ \A f \in Dequeuers :
             dpc'[f] \in {"read", "clear"} => dpc'[f] = dpc[f]
    BY StoredFrame DEF DeqFail, evars, BaseInv, TypeOK
  <1>2. /\ \A t \in 0 .. head : Cleared(t)' <=> Cleared(t)
        /\ \A t \in 0 .. tail : Cleared(t)' <=> Cleared(t)
    <2>1. \A t \in 0 .. head : Cleared(t)' <=> Cleared(t)
      BY DeqFailBase
    <2>2. ASSUME NEW t \in 0 .. tail, t > head PROVE ~Cleared(t)' /\ ~Cleared(t)
      BY <1>1, <2>2 DEF Cleared
    <2>3. QED
      BY <1>1, <2>1, <2>2
  <1>3. SlotInv'
    BY <1>1, <1>2 DEF SlotInv, Slot
  <1>4. FifoMatch'
    <2>1. ASSUME NEW t \in 0 .. head, Cleared(t)
          PROVE  /\ t <= tail
                 /\ got'[takes[t + 1][1]][takes[t + 1][2]] = puts[t + 1]
      BY <1>1, <2>1, ReturnFrame DEF MatchInv
    <2>2. QED
      BY <1>1, <1>2, <2>1 DEF FifoMatch
  <1>5. MatchInv'
    <2>1. ASSUME NEW f \in Dequeuers, dpc'[f] \in {"read", "clear"}
          PROVE  /\ curHead'[f] <= tail' /\ Stored(curHead[f])'
                 /\ dpc'[f] = "clear" => elem'[f] = puts'[curHead'[f] + 1]
      <3>1. /\ curHead'[f] = curHead[f] /\ dpc'[f] = dpc[f] /\ elem' = elem
            /\ UNCHANGED evars
        BY <1>1, <2>1 DEF DeqFail
      <3>2. Stored(curHead[f])' <=> Stored(curHead[f])
        BY <3>1 DEF Stored, evars
      <3>3. QED
        BY <1>1, <2>1, <3>1, <3>2 DEF MatchInv
    <2>2. QED
      BY <1>1, <1>2, <1>4, <2>1 DEF MatchInv
  <1>6. QED
    BY <1>3, <1>5

LEMMA DeqClearPaced ==
  ASSUME IndInv, NEW d \in Dequeuers, DeqClear(d)
  PROVE  /\ SlotInv' /\ MatchInv'
         /\ elem[d] = theQueue[Slot(curHead[d])]
  <1> USE IndInvBase, SQueueAssumption
  <1> DEFINE w == curHead[d]
  <1>1. /\ UNCHANGED <<tail, puts, head, takes, curHead, elem>>
        /\ tail \in Int /\ head \in Int
        /\ elem[d] \in Atom \cup {Null, Fail}
        /\ got' = [got EXCEPT ![d] = Append(@, elem[d])]
        /\ \A t \in Int : Stored(t)' <=> Stored(t)
        /\ \A f \in Dequeuers :
             dpc'[f] \in {"read", "clear"} => dpc'[f] = dpc[f]
    BY StoredFrame DEF DeqClear, evars, BaseInv, TypeOK
  <1>2. /\ w \in 0 .. head /\ takes[w + 1] = <<d, CallNo(d)>> /\ ~Cleared(w)
        /\ w \in 0 .. tail /\ Stored(w) /\ elem[d] = puts[w + 1]
    <2>1. dpc[d] = "clear" /\ Holding(d)
      BY DEF DeqClear, Holding
    <2>2. /\ w \in 0 .. head /\ takes[w + 1] = <<d, CallNo(d)>> /\ ~Cleared(w)
      BY <2>1, HeldUncleared
    <2>3. w <= tail /\ Stored(w) /\ elem[d] = puts[w + 1]
      BY <2>1 DEF MatchInv
    <2>4. QED
      BY <1>1, <2>2, <2>3
  <1>3. /\ \A t \in 0 .. head : Cleared(t)' <=> Cleared(t) \/ t = w
        /\ \A t \in 0 .. tail : Cleared(t)' <=> Cleared(t) \/ t = w
    <2>1. \A t \in 0 .. head : Cleared(t)' <=> Cleared(t) \/ t = w
      BY DeqClearBase
    <2>2. ASSUME NEW t \in 0 .. tail, t > head
          PROVE ~Cleared(t)' /\ ~Cleared(t) /\ t # w
      BY <1>1, <1>2, <2>2 DEF Cleared
    <2>3. QED
      BY <1>1, <2>1, <2>2
  <1>4. /\ theQueue'[Slot(w)] = Null
        /\ \A s \in (0 .. MaxSize - 1) \ {Slot(w)} : theQueue'[s] = theQueue[s]
    BY <1>2 DEF DeqClear, BaseInv, TypeOK, Slot
  <1>5. ASSUME NEW t \in 0 .. tail, ~Cleared(t), t # w
        PROVE  Slot(t) \in (0 .. MaxSize - 1) \ {Slot(w)}
    <2>1. Slot(t) \in 0 .. MaxSize - 1
      BY DEF Slot
    <2>2. Slot(t) # Slot(w)
      BY <1>2, <1>5, SlotsApart DEF BaseInv
    <2>3. QED
      BY <2>1, <2>2
  <1>6. SlotInv'
    <2>1. ASSUME NEW t \in 0 .. tail, Stored(t), ~Cleared(t)'
          PROVE  theQueue'[Slot(t)] = puts[t + 1]
      BY <1>3, <1>4, <1>5, <2>1 DEF SlotInv
    <2>2. ASSUME NEW s \in 0 .. MaxSize - 1, theQueue'[s] # Null
          PROVE  \E t \in 0 .. tail : Slot(t) = s /\ Stored(t) /\ ~Cleared(t)'
      <3>1. s # Slot(w)
        BY <1>4, <2>2
      <3>2. PICK t \in 0 .. tail : Slot(t) = s /\ Stored(t) /\ ~Cleared(t)
        BY <1>4, <2>2, <3>1 DEF SlotInv
      <3>3. QED
        BY <1>3, <3>1, <3>2
    <2>3. \A t \in 0 .. tail : (Stored(t)' <=> Stored(t)) /\ Slot(t)' = Slot(t)
      BY <1>1 DEF Slot
    <2>4. SlotInv' <=>
            /\ \A t \in 0 .. tail' :
                 Stored(t)' /\ ~Cleared(t)' => theQueue'[Slot(t)'] = puts'[t + 1]
            /\ \A s \in 0 .. MaxSize - 1 : theQueue'[s] # Null =>
                 \E t \in 0 .. tail' : Slot(t)' = s /\ Stored(t)' /\ ~Cleared(t)'
      BY DEF SlotInv
    <2>5. tail' = tail /\ puts' = puts
      BY <1>1
    <2>6. QED
      BY ONLY <2>1, <2>2, <2>3, <2>4, <2>5
  <1>7. FifoMatch'
    <2>1. ASSUME NEW t \in 0 .. head, Cleared(t)
          PROVE  /\ t <= tail
                 /\ got'[takes[t + 1][1]][takes[t + 1][2]] = puts[t + 1]
      BY <1>1, <2>1, ReturnFrame DEF MatchInv
    <2>2. /\ w <= tail
          /\ got'[takes[w + 1][1]][takes[w + 1][2]] = puts[w + 1]
      <3>1. got'[d][CallNo(d)] = elem[d]
        BY <1>1, GotFacts DEF BaseInv
      <3>2. QED
        BY <1>2, <3>1
    <2>3. QED
      BY <1>1, <1>3, <2>1, <2>2 DEF FifoMatch
  <1>8. MatchInv'
    <2>1. ASSUME NEW f \in Dequeuers, dpc'[f] \in {"read", "clear"}
          PROVE  /\ curHead'[f] <= tail' /\ Stored(curHead[f])'
                 /\ dpc'[f] = "clear" => elem'[f] = puts'[curHead'[f] + 1]
      <3>1. /\ curHead'[f] = curHead[f] /\ dpc'[f] = dpc[f] /\ elem' = elem
            /\ UNCHANGED evars
        BY <1>1, <2>1 DEF DeqClear
      <3>2. Stored(curHead[f])' <=> Stored(curHead[f])
        BY <3>1 DEF Stored, evars
      <3>3. QED
        BY <1>1, <2>1, <3>1, <3>2 DEF MatchInv
    <2>2. QED
      BY <1>1, <1>2, <1>3, <1>7, <2>1 DEF MatchInv
  <1>9. elem[d] = theQueue[Slot(w)]
    BY <1>2 DEF SlotInv
  <1>10. QED
    BY <1>6, <1>8, <1>9

LEMMA IndInit == Init => IndInv
  <1> SUFFICES ASSUME Init PROVE IndInv
    OBVIOUS
  <1>1. BaseInv
    BY BaseInit
  <1>2. Paced /\ SlotInv /\ MatchInv
    BY DEF Init, Paced, SlotInv, MatchInv, FifoMatch
  <1>3. QED
    BY <1>1, <1>2, IndInvBase

LEMMA IndStep == IndInv /\ [Next /\ Paced']_vars => IndInv'
  <1> SUFFICES ASSUME IndInv, [Next /\ Paced']_vars PROVE IndInv'
    OBVIOUS
  <1>1. BaseInv'
    BY BaseStep, IndInvBase
  <1>2. CASE UNCHANGED vars
    <2>1. UNCHANGED <<tail, head, puts, takes, got, i, dpc, curHead, elem, theQueue>>
      BY <1>2 DEF vars
    <2>2. Paced' /\ SlotInv' /\ MatchInv'
      BY <2>1, IndInvBase DEF Paced, SlotInv, MatchInv, FifoMatch, Cleared,
         Stored, Slot
    <2>3. QED
      BY <1>1, <2>2 DEF IndInv, TicketsOwned, BaseInv, EnqBase, DeqBase
  <1>3. CASE Next /\ Paced'
    <2>1. ASSUME NEW e \in Enqueuers, Enqueue(e) PROVE SlotInv' /\ MatchInv'
      BY <2>1, EnqClaimPaced, EnqStorePaced DEF Enqueue
    <2>2. ASSUME NEW d \in Dequeuers, Dequeue(d) PROVE SlotInv' /\ MatchInv'
      BY <2>2, DeqLocalStepPaced, DeqClaimPaced, DeqFailPaced, DeqClearPaced
         DEF Dequeue, isEmpty, LocalStep
    <2>3. CASE SlotInv' /\ MatchInv'
      BY <1>1, <1>3, <2>3 DEF IndInv, TicketsOwned, BaseInv, EnqBase, DeqBase
    <2>4. QED
      BY <1>2, <1>3, <2>1, <2>2, <2>3 DEF Next, Terminated
  <1>4. QED
    BY <1>2, <1>3

\* As long as nobody outruns the ring, an element stays in its slot until the
\* Dequeue with its ticket has read it, and that Dequeue returns it.
THEOREM PacedSafety == PacedSpec => [](StoredUntilTaken /\ FifoMatch)
  <1>1. ASSUME IndInv PROVE StoredUntilTaken /\ FifoMatch
    <2>1. ASSUME NEW t \in 0 .. tail, Stored(t), Cleared(t) PROVE ReadBy(t)
      BY <2>1 DEF Cleared, ReadBy
    <2>2. StoredUntilTaken
      BY <1>1, <2>1, IndInvBase DEF StoredUntilTaken, SlotInv
    <2>3. QED
      BY <1>1, <2>2, IndInvBase DEF MatchInv
  <1>2. QED
    BY <1>1, IndInit, IndStep, PTL DEF PacedSpec

\* Up to the first index that is a whole ring ahead, the invariant holds in full:
\* slots may be used again and again, and the workload may be any.
THEOREM PacedInvariant == PacedSpec => [](Paced /\ SafeWhilePaced)
  <1>1. ASSUME IndInv PROVE Paced /\ SafeWhilePaced
    <2>1. ASSUME NEW t \in 0 .. tail, Stored(t), Cleared(t) PROVE ReadBy(t)
      BY <2>1 DEF Cleared, ReadBy
    <2>2. StoredUntilTaken
      BY <1>1, <2>1, IndInvBase DEF StoredUntilTaken, SlotInv
    <2>3. QED
      BY <1>1, <2>2, IndInvBase DEF SafeWhilePaced
  <1>2. QED
    BY <1>1, IndInit, IndStep, PTL DEF PacedSpec

\* The step condition of SlotDiscipline.
SlotsHandedOver ==
  \A s \in 0 .. MaxSize - 1 : theQueue'[s] = theQueue[s] \/ SlotStep(s)

LEMMA HandOver == IndInv /\ [Next]_vars => [SlotsHandedOver]_vars
  <1> SUFFICES ASSUME IndInv, Next PROVE SlotsHandedOver
    BY DEF vars
  <1> USE IndInvBase, SQueueAssumption
  <1>1. ASSUME NEW e \in Enqueuers, EnqStore(e) PROVE SlotsHandedOver
    <2> DEFINE w == curTail[e]
    <2>1. /\ w \in 0 .. tail /\ puts[w + 1] = <<e, i[e] + 1>>
          /\ ~Stored(w) /\ Slot(w) \in 0 .. MaxSize - 1
          /\ tail \in Int /\ head \in Int
      <3>1. /\ tail \in Int /\ head \in Int /\ i[e] \in 0 .. EnqSamples
            /\ epc[e] = "store"
        BY <1>1 DEF EnqStore, BaseInv, TypeOK
      <3>2. w \in 0 .. tail /\ puts[w + 1] = <<e, i[e] + 1>>
        BY <3>1 DEF BaseInv, EnqBase, EnqLocal
      <3>3. ~Stored(w)
        BY <3>1, <3>2 DEF Stored
      <3>4. Slot(w) \in 0 .. MaxSize - 1
        BY <3>1, <3>2 DEF Slot
      <3>5. QED
        BY <3>1, <3>2, <3>3, <3>4
    <2>2. ~Cleared(w)
      BY <2>1 DEF MatchInv, Cleared
    <2>3. ASSUME theQueue[Slot(w)] # Null PROVE FALSE
      <3>1. PICK t \in 0 .. tail : Slot(t) = Slot(w) /\ Stored(t) /\ ~Cleared(t)
        BY <2>1, <2>3 DEF SlotInv
      <3>2. t = w
        BY <2>1, <2>2, <3>1, SlotsApart DEF BaseInv
      <3>3. QED
        BY <2>1, <3>1, <3>2
    <2>4. \A s \in 0 .. MaxSize - 1 : s # Slot(w) => theQueue'[s] = theQueue[s]
      BY <1>1 DEF EnqStore, BaseInv, TypeOK
    <2>5. QED
      BY <2>3, <2>4 DEF SlotsHandedOver, SlotStep
  <1>2. ASSUME NEW d \in Dequeuers, DeqClear(d) PROVE SlotsHandedOver
    <2>1. elem[d] = theQueue[Slot(curHead[d])]
      BY <1>2, DeqClearPaced
    <2>2. \A s \in 0 .. MaxSize - 1 :
            s # Slot(curHead[d]) => theQueue'[s] = theQueue[s]
      BY <1>2 DEF DeqClear, BaseInv, TypeOK
    <2>3. QED
      BY <1>2, <2>1, <2>2 DEF SlotsHandedOver, SlotStep
  <1>3. CASE UNCHANGED theQueue
    BY <1>3 DEF SlotsHandedOver
  <1>4. QED
    BY <1>1, <1>2, <1>3 DEF Next, Enqueue, Dequeue, isEmpty, Terminated, vars,
       EnqClaim, DeqReadTail, DeqFail, DeqNotEmpty, DeqClaim, DeqSpin, DeqRead

\* As long as nobody outruns the ring, no store of Enqueue hits an occupied
\* slot and no write-back of Dequeue erases anything but what it has read.
THEOREM PacedSlotDiscipline == PacedSpec => SlotDiscipline
  <1>1. IndInv /\ [Next /\ Paced']_vars => [SlotsHandedOver]_vars
    BY HandOver
  <1>2. PacedSpec => [][SlotsHandedOver]_vars
    BY <1>1, IndInit, IndStep, PTL DEF PacedSpec
  <1>3. QED
    BY <1>2 DEF SlotDiscipline, SlotsHandedOver

-----------------------------------------------------------------------------
(* The latency benchmark never outruns the ring.                           *)

LEMMA IntervalCardinality ==
  ASSUME NEW n \in Nat
  PROVE  IsFiniteSet(1 .. n) /\ Cardinality(1 .. n) = n
  <1>1. /\ IsFiniteSet(1 .. n)
        /\ Cardinality(1 .. n) = IF 1 > n THEN 0 ELSE n - 1 + 1
    BY FS_Interval
  <1>2. QED
    BY <1>1

LEMMA FitsBounds ==
  ASSUME WorkloadFits, BaseInv
  PROVE  tail < MaxSize /\ head < MaxSize
  <1> USE SQueueAssumption DEF BaseInv
  <1>1. /\ IsFiniteSet(Atom) /\ Cardinality(Atom) <= MaxSize
        /\ IsFiniteSet(Call) /\ Cardinality(Call) <= MaxSize
        /\ Cardinality(Atom) \in Nat /\ Cardinality(Call) \in Nat
    <2>1. /\ IsFiniteSet(1 .. EnqSamples) /\ Cardinality(1 .. EnqSamples) = EnqSamples
          /\ IsFiniteSet(1 .. DeqSamples) /\ Cardinality(1 .. DeqSamples) = DeqSamples
      <3>1. \A n \in Nat : IsFiniteSet(1 .. n) /\ Cardinality(1 .. n) = n
        BY IntervalCardinality
      <3>2. QED
        BY <3>1
    <2>2. /\ IsFiniteSet(Atom) /\ Cardinality(Atom) = Cardinality(Enqueuers) * EnqSamples
          /\ IsFiniteSet(Call) /\ Cardinality(Call) = Cardinality(Dequeuers) * DeqSamples
      BY <2>1, FS_Product DEF Atom, Call
    <2>3. QED
      BY <2>2, FS_CardinalityType DEF WorkloadFits
  <1>2. tail < MaxSize
    <2>1. puts \in Injection(1 .. tail + 1, Atom)
      <3>1. puts \in [1 .. tail + 1 -> Atom]
        BY DEF TypeOK
      <3>2. ASSUME NEW m \in 1 .. tail + 1, NEW n \in 1 .. tail + 1, puts[m] = puts[n]
            PROVE  m = n
        <4>1. /\ m - 1 \in 0 .. tail /\ n - 1 \in 0 .. tail
              /\ (m - 1) + 1 = m /\ (n - 1) + 1 = n
          BY DEF TypeOK
        <4>2. m - 1 = n - 1
          BY <3>2, <4>1 DEF EnqBase, PutTickets
        <4>3. QED
          BY <4>1, <4>2
      <3>3. QED
        BY <3>1, <3>2 DEF Injection, IsInjective
    <2>2. Cardinality(1 .. tail + 1) <= Cardinality(Atom)
      BY <1>1, <2>1, FS_Injection
    <2>3. tail + 1 \in Nat /\ tail \in Int
      BY DEF TypeOK
    <2>4. Cardinality(1 .. tail + 1) = tail + 1
      BY <2>3, IntervalCardinality
    <2>5. QED
      BY <1>1, <2>2, <2>3, <2>4
  <1>3. head < MaxSize
    <2>1. takes \in Injection(1 .. head + 1, Call)
      <3>1. takes \in [1 .. head + 1 -> Call]
        BY DEF TypeOK
      <3>2. ASSUME NEW m \in 1 .. head + 1, NEW n \in 1 .. head + 1, takes[m] = takes[n]
            PROVE  m = n
        <4>1. /\ m - 1 \in 0 .. head /\ n - 1 \in 0 .. head
              /\ (m - 1) + 1 = m /\ (n - 1) + 1 = n
          BY DEF TypeOK
        <4>2. m - 1 = n - 1
          BY <3>2, <4>1 DEF DeqBase, TakeTickets
        <4>3. QED
          BY <4>1, <4>2
      <3>3. QED
        BY <3>1, <3>2 DEF Injection, IsInjective
    <2>2. Cardinality(1 .. head + 1) <= Cardinality(Call)
      BY <1>1, <2>1, FS_Injection
    <2>3. head + 1 \in Nat /\ head \in Int
      BY DEF TypeOK
    <2>4. Cardinality(1 .. head + 1) = head + 1
      BY <2>3, IntervalCardinality
    <2>5. QED
      BY <1>1, <2>2, <2>3, <2>4
  <1>4. QED
    BY <1>2, <1>3

LEMMA FitsPaced == WorkloadFits /\ BaseInv => Paced
  <1> SUFFICES ASSUME WorkloadFits, BaseInv PROVE Paced
    OBVIOUS
  <1>1. tail < MaxSize /\ head < MaxSize /\ tail \in Int /\ head \in Int
    BY FitsBounds DEF BaseInv, TypeOK
  <1>2. QED
    BY <1>1, SQueueAssumption DEF Paced

\* The workload of the latency benchmark is paced, so what holds of paced use
\* holds of it.
THEOREM LatencyPaced ==
  ASSUME WorkloadFits
  PROVE  Spec => PacedSpec
  <1>1. BaseInv => Paced
    BY FitsPaced
  <1>2. [Next]_vars /\ Paced' => [Next /\ Paced']_vars
    OBVIOUS
  <1>3. QED
    BY <1>1, <1>2, BaseInit, BaseStep, PTL DEF Spec, PacedSpec

\* In the latency benchmark every enqueued element stays in its slot until
\* the Dequeue with its ticket has read it, and that Dequeue returns it.
THEOREM LatencySafety ==
  ASSUME WorkloadFits
  PROVE  Spec => [](StoredUntilTaken /\ FifoMatch)
  BY LatencyPaced, PacedSafety, PTL

-----------------------------------------------------------------------------
(* The latency benchmark implements the ticket queue.                      *)

\* The next item of an enqueuer, the next call of a dequeuer, have no ticket.
LEMMA FreshItem ==
  ASSUME BaseInv, NEW e \in Enqueuers, epc[e] = "claim", NEW t \in 0 .. tail
  PROVE  puts[t + 1] # <<e, i[e] + 1>>
  <1>1. SUFFICES ASSUME puts[t + 1] = <<e, i[e] + 1>> PROVE FALSE
    OBVIOUS
  <1>2. puts[t + 1][1] = e /\ puts[t + 1][2] = i[e] + 1
    BY <1>1
  <1>3. ~Stored(t)
    BY <1>2 DEF Stored, BaseInv, TypeOK
  <1>4. QED
    BY <1>2, <1>3 DEF BaseInv, EnqBase, PutTickets

LEMMA FreshCall ==
  ASSUME BaseInv, NEW d \in Dequeuers, ~Holding(d), NEW t \in 0 .. head
  PROVE  takes[t + 1] # <<d, CallNo(d)>>
  <1>1. SUFFICES ASSUME takes[t + 1] = <<d, CallNo(d)>> PROVE FALSE
    OBVIOUS
  <1>2. takes[t + 1][1] = d /\ takes[t + 1][2] = Len(got[d]) + 1
    BY <1>1 DEF CallNo
  <1>3. ~Cleared(t)
    BY <1>2 DEF Cleared, BaseInv, TypeOK
  <1>4. QED
    BY <1>2, <1>3 DEF BaseInv, DeqBase, TakeTickets

\* What the refinement needs beyond IndInv: an enqueuer has put all the items
\* its loop index has passed, and isEmpty never gets as far as head == tail.
Issued ==
  \A e \in Enqueuers : \A j \in 1 .. i[e] :
    \E t \in 0 .. tail : puts[t + 1] = <<e, j>>
NeverCompares == \A d \in Dequeuers : dpc[d] # "compare"
RefInv == BaseInv /\ Paced /\ SlotInv /\ MatchInv /\ Issued /\ NeverCompares

LEMMA IssuedStep ==
  ASSUME BaseInv, Issued, [Next]_vars
  PROVE  Issued'
  <1> USE SQueueAssumption DEF BaseInv
  <1>1. ASSUME NEW e \in Enqueuers, EnqClaim(e) PROVE Issued'
    <2>1. /\ \A t \in 0 .. tail : puts'[t + 1] = puts[t + 1]
          /\ tail' = tail + 1 /\ tail \in Int /\ i' = i
      BY <1>1, EnqClaimBase DEF EnqClaim, TypeOK
    <2>2. ASSUME NEW f \in Enqueuers, NEW j \in 1 .. i[f]
          PROVE  \E t \in 0 .. tail' : puts'[t + 1] = <<f, j>>
      <3>1. PICK t \in 0 .. tail : puts[t + 1] = <<f, j>>
        BY DEF Issued
      <3>2. t \in 0 .. tail' /\ puts'[t + 1] = <<f, j>>
        BY <2>1, <3>1
      <3>3. QED
        BY <3>2
    <2>3. QED
      BY <2>1, <2>2 DEF Issued
  <1>2. ASSUME NEW e \in Enqueuers, EnqStore(e) PROVE Issued'
    <2>1. /\ curTail[e] \in 0 .. tail /\ puts[curTail[e] + 1] = <<e, i[e] + 1>>
          /\ puts' = puts /\ tail' = tail /\ i[e] \in Nat
          /\ \A f \in Enqueuers : i'[f] = IF f = e THEN i[e] + 1 ELSE i[f]
      BY <1>2 DEF EnqStore, EnqBase, EnqLocal, TypeOK
    <2>2. ASSUME NEW f \in Enqueuers, NEW j \in 1 .. i'[f]
          PROVE  \E t \in 0 .. tail : puts[t + 1] = <<f, j>>
      <3>1. CASE f = e /\ j = i[e] + 1
        BY <2>1, <3>1
      <3>2. CASE ~(f = e /\ j = i[e] + 1)
        <4>1. j \in 1 .. i[f]
          BY <2>1, <3>2
        <4>2. QED
          BY <4>1 DEF Issued
      <3>3. QED
        BY <3>1, <3>2
    <2>3. QED
      BY <2>1, <2>2 DEF Issued
  <1>3. CASE UNCHANGED <<puts, tail, i>>
    BY <1>3 DEF Issued
  <1>4. QED
    BY <1>1, <1>2, <1>3 DEF Next, Enqueue, Dequeue, isEmpty, Terminated, vars,
       evars, DeqReadTail, DeqFail, DeqNotEmpty, DeqClaim, DeqSpin, DeqRead,
       DeqClear

LEMMA NeverComparesStep ==
  ASSUME WorkloadFits, BaseInv, NeverCompares, [Next]_vars
  PROVE  NeverCompares'
  <1>1. tail < MaxSize /\ tail \in Int /\ MaxSize \in Int
    BY FitsBounds, SQueueAssumption DEF BaseInv, TypeOK
  <1>2. ASSUME NEW d \in Dequeuers, Dequeue(d) PROVE NeverCompares'
    BY <1>1, <1>2 DEF Dequeue, isEmpty, DeqReadTail, DeqFail, DeqNotEmpty,
       DeqClaim, DeqSpin, DeqRead, DeqClear, NeverCompares, BaseInv, TypeOK
  <1>3. CASE dpc' = dpc
    BY <1>3 DEF NeverCompares
  <1>4. QED
    BY <1>2, <1>3 DEF Next, Enqueue, EnqClaim, EnqStore, dvars, Terminated, vars

LEMMA RefStep == RefInv /\ [Next]_vars => [Fifo!Next]_(Fifo!vars)
  <1> SUFFICES ASSUME RefInv, Next PROVE [Fifo!Next]_(Fifo!vars)
    BY DEF Fifo!vars, vars
  <1> USE SQueueAssumption DEF RefInv
  <1>1. ASSUME NEW e \in Enqueuers, EnqClaim(e) PROVE Fifo!Put(e)
    <2>1. i[e] + 1 \in 1 .. EnqSamples /\ Len(puts) = tail + 1 /\ tail \in Int
      BY <1>1 DEF EnqClaim, BaseInv, TypeOK
    <2>2. ~Fifo!Placed(<<e, i[e] + 1>>)
      <3>1. ASSUME NEW n \in 1 .. Len(puts) PROVE puts[n] # <<e, i[e] + 1>>
        <4>1. n - 1 \in 0 .. tail /\ (n - 1) + 1 = n
          BY <2>1
        <4>2. puts[(n - 1) + 1] # <<e, i[e] + 1>>
          BY <1>1, <4>1, FreshItem DEF EnqClaim
        <4>3. QED
          BY <4>1, <4>2
      <3>2. QED
        BY <3>1 DEF Fifo!Placed
    <2>3. ASSUME NEW j \in 1 .. (i[e] + 1) - 1 PROVE Fifo!Placed(<<e, j>>)
      <3>1. j \in 1 .. i[e]
        BY DEF BaseInv, TypeOK
      <3>2. PICK t \in 0 .. tail : puts[t + 1] = <<e, j>>
        BY <3>1 DEF Issued
      <3>3. QED
        BY <2>1, <3>2 DEF Fifo!Placed
    <2>4. puts' = Append(puts, <<e, i[e] + 1>>) /\ UNCHANGED <<takes, got>>
      BY <1>1 DEF EnqClaim, dvars
    <2>5. QED
      BY <2>1, <2>2, <2>3, <2>4 DEF Fifo!Put
  <1>2. ASSUME NEW d \in Dequeuers, DeqClaim(d) PROVE Fifo!Take(d)
    <2>1. Len(got[d]) < DeqSamples /\ Len(takes) = head + 1 /\ head \in Int
      <3>1. CallNo(d) <= DeqSamples
        BY <1>2 DEF DeqClaim, BaseInv, DeqBase, DeqLocal
      <3>2. Len(got[d]) \in Nat
        BY DEF BaseInv, TypeOK
      <3>3. Len(takes) = head + 1 /\ head \in Int
        BY DEF BaseInv, TypeOK
      <3>4. QED
        BY <3>1, <3>2, <3>3 DEF CallNo
    <2>2. ~Fifo!InLine(<<d, Len(got[d]) + 1>>)
      <3>1. ASSUME NEW n \in 1 .. Len(takes) PROVE takes[n] # <<d, Len(got[d]) + 1>>
        <4>1. n - 1 \in 0 .. head /\ (n - 1) + 1 = n
          BY <2>1
        <4>2. takes[(n - 1) + 1] # <<d, CallNo(d)>>
          BY <1>2, <4>1, FreshCall DEF DeqClaim, Holding
        <4>3. QED
          BY <4>1, <4>2 DEF CallNo
      <3>2. QED
        BY <3>1 DEF Fifo!InLine
    <2>3. takes' = Append(takes, <<d, Len(got[d]) + 1>>) /\ UNCHANGED <<puts, got>>
      BY <1>2 DEF DeqClaim, CallNo, evars
    <2>4. QED
      BY <2>1, <2>2, <2>3 DEF Fifo!Take, Fifo!Pending
  <1>3. ASSUME NEW d \in Dequeuers, DeqClear(d) PROVE Fifo!Give(d)
    <2>1. /\ curHead[d] \in 0 .. head /\ takes[curHead[d] + 1] = <<d, CallNo(d)>>
          /\ curHead[d] <= tail /\ elem[d] = puts[curHead[d] + 1]
      BY <1>3, HeldUncleared DEF DeqClear, Holding, MatchInv
    <2>2. /\ curHead[d] + 1 \in 1 .. Len(takes) /\ curHead[d] + 1 <= Len(puts)
      BY <2>1 DEF BaseInv, TypeOK
    <2>3. /\ got' = [got EXCEPT ![d] = Append(@, puts[curHead[d] + 1])]
          /\ UNCHANGED <<puts, takes>>
      BY <1>3, <2>1 DEF DeqClear, evars
    <2>4. QED
      BY <2>1, <2>2, <2>3 DEF Fifo!Give, Fifo!Pending, CallNo
  <1>4. CASE UNCHANGED <<puts, takes, got>>
    BY <1>4 DEF Fifo!vars
  <1>5. ASSUME NEW d \in Dequeuers PROVE ~DeqFail(d)
    BY DEF DeqFail, NeverCompares
  <1>6. QED
    BY <1>1, <1>2, <1>3, <1>4, <1>5 DEF Next, Enqueue, Dequeue, isEmpty,
       Terminated, vars, evars, dvars, EnqStore, DeqReadTail, DeqNotEmpty,
       DeqSpin, DeqRead, Fifo!Next

LEMMA RefInvStep ==
  ASSUME WorkloadFits, RefInv, [Next]_vars
  PROVE  RefInv'
  <1>1. IndInv /\ BaseInv
    BY IndInvBase DEF RefInv
  <1>2. BaseInv'
    BY <1>1, BaseStep
  <1>3. Paced'
    <2>1. (WorkloadFits /\ BaseInv)' => Paced'
      BY FitsPaced, PTL
    <2>2. QED
      BY <1>2, <2>1 DEF WorkloadFits
  <1>4. IndInv'
    BY <1>1, <1>3, IndStep
  <1>5. Issued' /\ NeverCompares'
    BY <1>1, IssuedStep, NeverComparesStep DEF RefInv
  <1>6. QED
    BY <1>4, <1>5 DEF RefInv, IndInv, TicketsOwned, BaseInv, EnqBase, DeqBase

\* In the latency benchmark the ring is a ticket queue: nothing is lost,
\* duplicated or reordered, and no Dequeue comes back empty handed.
THEOREM LatencyRefines ==
  ASSUME WorkloadFits
  PROVE  Spec => Fifo!Spec
  <1>1. Init => RefInv /\ Fifo!Init
    <2>1. Init => IndInv
      BY IndInit
    <2>2. Init => Issued /\ NeverCompares /\ Fifo!Init
      BY DEF Init, Issued, NeverCompares, Fifo!Init
    <2>3. QED
      BY <2>1, <2>2, IndInvBase DEF RefInv
  <1>2. RefInv /\ [Next]_vars => RefInv'
    BY RefInvStep
  <1>3. QED
    BY <1>1, <1>2, RefStep, PTL DEF Spec, Fifo!Spec

-----------------------------------------------------------------------------
(* The end of the latency benchmark.                                       *)

\* Every call that has returned held a ticket.
Served ==
  \A d \in Dequeuers : \A j \in 1 .. Len(got[d]) :
    \E t \in 0 .. head : takes[t + 1] = <<d, j>>

LEMMA ServedStep ==
  ASSUME BaseInv, Served, NeverCompares, [Next]_vars
  PROVE  Served'
  <1> USE SQueueAssumption DEF BaseInv
  <1>1. ASSUME NEW d \in Dequeuers, DeqClaim(d) PROVE Served'
    <2>1. /\ \A t \in 0 .. head : takes'[t + 1] = takes[t + 1]
          /\ head' = head + 1 /\ head \in Int /\ got' = got
      BY <1>1, DeqClaimBase DEF DeqClaim, TypeOK
    <2>2. ASSUME NEW f \in Dequeuers, NEW j \in 1 .. Len(got[f])
          PROVE  \E t \in 0 .. head' : takes'[t + 1] = <<f, j>>
      <3>1. PICK t \in 0 .. head : takes[t + 1] = <<f, j>>
        BY DEF Served
      <3>2. t \in 0 .. head' /\ takes'[t + 1] = <<f, j>>
        BY <2>1, <3>1
      <3>3. QED
        BY <3>2
    <2>3. QED
      BY <2>1, <2>2 DEF Served
  <1>2. ASSUME NEW d \in Dequeuers, DeqClear(d) PROVE Served'
    <2>1. /\ curHead[d] \in 0 .. head
          /\ takes[curHead[d] + 1] = <<d, Len(got[d]) + 1>>
          /\ takes' = takes /\ head' = head
      BY <1>2, HeldUncleared DEF DeqClear, Holding, CallNo
    <2>2. \A f \in Dequeuers :
            /\ Len(got[f]) \in Nat
            /\ Len(got'[f]) = IF f = d THEN Len(got[f]) + 1 ELSE Len(got[f])
      <3>1. elem[d] \in Atom \cup {Null, Fail}
        BY DEF TypeOK
      <3>2. got' = [got EXCEPT ![d] = Append(@, elem[d])]
        BY <1>2 DEF DeqClear
      <3>3. QED
        BY <3>1, <3>2, GotFacts
    <2>3. ASSUME NEW f \in Dequeuers, NEW j \in 1 .. Len(got'[f])
          PROVE  \E t \in 0 .. head : takes[t + 1] = <<f, j>>
      <3>1. CASE f = d /\ j = Len(got[d]) + 1
        BY <2>1, <3>1
      <3>2. CASE ~(f = d /\ j = Len(got[d]) + 1)
        <4>1. j \in 1 .. Len(got[f])
          BY <2>2, <3>2
        <4>2. QED
          BY <4>1 DEF Served
      <3>3. QED
        BY <3>1, <3>2
    <2>4. QED
      BY <2>1, <2>3 DEF Served
  <1>3. CASE UNCHANGED <<takes, head, got>>
    BY <1>3 DEF Served
  <1>4. ASSUME NEW d \in Dequeuers PROVE ~DeqFail(d)
    BY DEF DeqFail, NeverCompares
  <1>5. QED
    BY <1>1, <1>2, <1>3, <1>4 DEF Next, Enqueue, Dequeue, isEmpty, Terminated,
       vars, dvars, EnqClaim, EnqStore, DeqReadTail, DeqNotEmpty, DeqSpin, DeqRead

\* As many calls of Dequeue as of Enqueue: main divides NUM_SAMPLES among the
\* same number of threads on both sides.
Balanced ==
  Cardinality(Enqueuers) * EnqSamples = Cardinality(Dequeuers) * DeqSamples

\* A history without repetitions that names everything is as long as there are
\* things to name.
LEMMA FullHistory ==
  ASSUME NEW S, NEW n \in Nat, NEW s \in [1 .. n -> S], IsFiniteSet(S),
         \A j, h \in 1 .. n : s[j] = s[h] => j = h,
         \A x \in S : \E j \in 1 .. n : s[j] = x
  PROVE  n = Cardinality(S)
  <1>1. ExistsBijection(1 .. n, S)
    <2>1. s \in Bijection(1 .. n, S)
      BY DEF Bijection, Injection, IsInjective, Surjection
    <2>2. QED
      BY <2>1 DEF ExistsBijection
  <1>2. IsFiniteSet(1 .. n) /\ Cardinality(1 .. n) = n
    BY IntervalCardinality
  <1>3. QED
    BY <1>1, <1>2, FS_Bijection

\* When all loops have ended every item and every call has had its ticket.
LEMMA AllTicketsOut ==
  ASSUME BaseInv, Issued, Served, Balanced, Finished
  PROVE  /\ tail = head
         /\ \A a \in Atom : \E t \in 0 .. tail : puts[t + 1] = a
         /\ \A c \in Call : \E t \in 0 .. head : takes[t + 1] = c
         /\ \A t \in 0 .. head : Cleared(t)
  <1> USE SQueueAssumption DEF BaseInv
  <1>1. ASSUME NEW a \in Atom PROVE \E t \in 0 .. tail : puts[t + 1] = a
    <2>1. /\ a[1] \in Enqueuers /\ a[2] \in 1 .. EnqSamples
          /\ a = <<a[1], a[2]>> /\ i[a[1]] = EnqSamples
      BY DEF Atom, Finished
    <2>2. \E t \in 0 .. tail : puts[t + 1] = <<a[1], a[2]>>
      BY <2>1 DEF Issued
    <2>3. QED
      BY <2>1, <2>2
  <1>2. ASSUME NEW c \in Call PROVE \E t \in 0 .. head : takes[t + 1] = c
    <2>1. /\ c[1] \in Dequeuers /\ c[2] \in 1 .. DeqSamples
          /\ c = <<c[1], c[2]>> /\ Len(got[c[1]]) = DeqSamples
      BY DEF Call, Finished
    <2>2. \E t \in 0 .. head : takes[t + 1] = <<c[1], c[2]>>
      BY <2>1 DEF Served
    <2>3. QED
      BY <2>1, <2>2
  <1>3. /\ IsFiniteSet(Atom) /\ Cardinality(Atom) = Cardinality(Enqueuers) * EnqSamples
        /\ IsFiniteSet(Call) /\ Cardinality(Call) = Cardinality(Dequeuers) * DeqSamples
    <2>1. /\ IsFiniteSet(1 .. EnqSamples) /\ Cardinality(1 .. EnqSamples) = EnqSamples
          /\ IsFiniteSet(1 .. DeqSamples) /\ Cardinality(1 .. DeqSamples) = DeqSamples
      BY IntervalCardinality
    <2>2. QED
      BY <2>1, FS_Product DEF Atom, Call
  <1>4. tail \in Int /\ head \in Int /\ tail + 1 \in Nat /\ head + 1 \in Nat
    BY DEF TypeOK
  <1>5. tail + 1 = Cardinality(Atom)
    <2>1. puts \in [1 .. tail + 1 -> Atom]
      BY DEF TypeOK
    <2>2. ASSUME NEW m \in 1 .. tail + 1, NEW n \in 1 .. tail + 1, puts[m] = puts[n]
          PROVE  m = n
      <3>1. /\ m - 1 \in 0 .. tail /\ n - 1 \in 0 .. tail
            /\ (m - 1) + 1 = m /\ (n - 1) + 1 = n
        BY <1>4
      <3>2. m - 1 = n - 1
        BY <2>2, <3>1 DEF EnqBase, PutTickets
      <3>3. QED
        BY <3>1, <3>2
    <2>3. ASSUME NEW a \in Atom PROVE \E m \in 1 .. tail + 1 : puts[m] = a
      <3>1. PICK t \in 0 .. tail : puts[t + 1] = a
        BY <1>1
      <3>2. t + 1 \in 1 .. tail + 1
        BY <1>4
      <3>3. QED
        BY <3>1, <3>2
    <2>4. QED
      BY <1>3, <1>4, <2>1, <2>2, <2>3, FullHistory
  <1>6. head + 1 = Cardinality(Call)
    <2>1. takes \in [1 .. head + 1 -> Call]
      BY DEF TypeOK
    <2>2. ASSUME NEW m \in 1 .. head + 1, NEW n \in 1 .. head + 1, takes[m] = takes[n]
          PROVE  m = n
      <3>1. /\ m - 1 \in 0 .. head /\ n - 1 \in 0 .. head
            /\ (m - 1) + 1 = m /\ (n - 1) + 1 = n
        BY <1>4
      <3>2. m - 1 = n - 1
        BY <2>2, <3>1 DEF DeqBase, TakeTickets
      <3>3. QED
        BY <3>1, <3>2
    <2>3. ASSUME NEW c \in Call PROVE \E m \in 1 .. head + 1 : takes[m] = c
      <3>1. PICK t \in 0 .. head : takes[t + 1] = c
        BY <1>2
      <3>2. t + 1 \in 1 .. head + 1
        BY <1>4
      <3>3. QED
        BY <3>1, <3>2
    <2>4. QED
      BY <1>3, <1>4, <2>1, <2>2, <2>3, FullHistory
  <1>7. tail = head
    BY <1>3, <1>4, <1>5, <1>6 DEF Balanced
  <1>8. ASSUME NEW t \in 0 .. head PROVE Cleared(t)
    BY HistoryTypes DEF Cleared, Finished
  <1>9. QED
    BY <1>1, <1>2, <1>7, <1>8

\* When all loops of the latency benchmark have ended, the dequeuers have got
\* what the enqueuers have put, each element once, and the ring is clean.
THEOREM LatencyAccounted ==
  ASSUME WorkloadFits, Balanced
  PROVE  Spec => []AllAccountedFor
  <1>1. RefInv /\ Served => AllAccountedFor
    <2>1. SUFFICES ASSUME RefInv, Served, Finished
                   PROVE  /\ \A a \in Atom : \E c \in Call : got[c[1]][c[2]] = a
                          /\ \A c1, c2 \in Call :
                               got[c1[1]][c1[2]] = got[c2[1]][c2[2]] => c1 = c2
                          /\ \A s \in 0 .. MaxSize - 1 : theQueue[s] = Null
      BY DEF AllAccountedFor
    <2>2. /\ tail = head
          /\ \A a \in Atom : \E t \in 0 .. tail : puts[t + 1] = a
          /\ \A c \in Call : \E t \in 0 .. head : takes[t + 1] = c
          /\ \A t \in 0 .. head : Cleared(t)
      BY <2>1, AllTicketsOut DEF RefInv
    <2>3. \A t \in 0 .. head : got[takes[t + 1][1]][takes[t + 1][2]] = puts[t + 1]
      BY <2>1, <2>2 DEF RefInv, MatchInv, FifoMatch
    <2>4. ASSUME NEW a \in Atom PROVE \E c \in Call : got[c[1]][c[2]] = a
      <3>1. PICK t \in 0 .. head : puts[t + 1] = a
        BY <2>2
      <3>2. takes[t + 1] \in Call
        BY <2>1, HistoryTypes DEF RefInv, BaseInv
      <3>3. QED
        BY <2>3, <3>1, <3>2
    <2>5. ASSUME NEW c1 \in Call, NEW c2 \in Call,
                 got[c1[1]][c1[2]] = got[c2[1]][c2[2]]
          PROVE  c1 = c2
      <3>1. PICK t \in 0 .. head : takes[t + 1] = c1
        BY <2>2
      <3>2. PICK u \in 0 .. head : takes[u + 1] = c2
        BY <2>2
      <3>3. puts[t + 1] = puts[u + 1]
        BY <2>3, <2>5, <3>1, <3>2
      <3>4. t = u
        BY <2>1, <2>2, <3>3 DEF RefInv, BaseInv, EnqBase, PutTickets
      <3>5. QED
        BY <3>1, <3>2, <3>4
    <2>6. ASSUME NEW s \in 0 .. MaxSize - 1 PROVE theQueue[s] = Null
      BY <2>1, <2>2 DEF RefInv, SlotInv
    <2>7. QED
      BY <2>4, <2>5, <2>6
  <1>2. Init => RefInv /\ Served
    <2>1. Init => IndInv
      BY IndInit
    <2>2. Init => Issued /\ NeverCompares /\ Served
      BY DEF Init, Issued, NeverCompares, Served
    <2>3. QED
      BY <2>1, <2>2, IndInvBase DEF RefInv
  <1>3. RefInv /\ Served /\ [Next]_vars => (RefInv /\ Served)'
    <2>1. SUFFICES ASSUME RefInv, Served, [Next]_vars PROVE (RefInv /\ Served)'
      OBVIOUS
    <2>2. RefInv' /\ Served'
      BY <2>1, RefInvStep, ServedStep DEF RefInv
    <2>3. QED
      BY <2>2
  <1>4. QED
    BY <1>1, <1>2, <1>3, PTL DEF Spec

=============================================================================
