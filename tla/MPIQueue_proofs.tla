-------------------------- MODULE MPIQueue_proofs ---------------------------
(***************************************************************************)
(* Proofs about MPIQueue, for any number of workers and requests and for   *)
(* sends that block or do not: requests and answers belong together, the   *)
(* server stops after the last answer, and every task and every result     *)
(* goes through the rings once and in order.                               *)
(*                                                                         *)
(* The messages come first: they do not depend on the rings, which only    *)
(* decide which task a request gets.                                       *)
(***************************************************************************)
EXTENDS MPIQueue, FiniteSetTheorems, TLAPS

WorkerSteps == {"fill", "start", "send", "sending", "wait", "store",
                "finish", "summary", "done"}
Stopped     == {"finish", "summary", "done"}
ServerSteps == {"fill", "start", "receive", "take", "answer", "answering"} \cup Stopped
Steps       == WorkerSteps \cup ServerSteps

\* Each kind of rank stays in its own function, and the messages are numbers.
Types ==
  /\ eager \in BOOLEAN
  /\ pc \in [Ranks -> Steps]
  /\ \A w \in Workers : pc[w] \in WorkerSteps
  /\ pc[Server] \in ServerSteps
  /\ requests \in [Workers -> Seq(Nat)] /\ answers \in [Workers -> Seq(Nat)]
  /\ count \in [Ranks -> Nat]
  /\ counter \in Nat
  /\ source \in Ranks

\* The source of a request is a worker, a request under way is one of the
\* NUM_SAMPLES of its worker, and the server stops at its counter only.
LoopInv ==
  /\ pc[Server] \in {"take", "answer", "answering"} => source \in Workers
  /\ \A w \in Workers : /\ count[w] <= NumSamples
                        /\ pc[w] \in {"sending", "wait", "store"} =>
                             count[w] < NumSamples
  /\ pc[Server] \in Stopped => counter >= Tasks

MsgInv == Types /\ LoopInv /\ OneMessage

IInv == MsgInv /\ ServerCounts

LEMMA RankFacts ==
  /\ Server \in Ranks /\ Server \notin Workers /\ NumSamples \in Nat
  /\ \A w \in Workers : w \in Ranks /\ w # Server
  /\ \A r \in Ranks : r = Server \/ r \in Workers
BY MPIAssumption DEF Ranks

LEMMA InitMsgInv == Init => MsgInv
<1> SUFFICES ASSUME Init PROVE MsgInv
  OBVIOUS
<1>1. Types
  BY RankFacts DEF Init, Types, Steps, WorkerSteps, ServerSteps
<1>2. LoopInv
  BY RankFacts DEF Init, LoopInv, Stopped
<1>3. OneMessage
  BY RankFacts DEF Init, OneMessage, Nowhere, Serving
<1> QED  BY <1>1, <1>2, <1>3 DEF MsgInv

\* Outside the loops of worker and server nothing is sent or received.
LEMMA RanksKeepMsgInv ==
  ASSUME MsgInv, NEW r \in Ranks, Rank(r)
  PROVE  MsgInv' /\ UNCHANGED <<network, locals>>
         /\ \A w \in Workers : pc'[w] = "store" <=> pc[w] = "store"
<1> USE RankFacts DEF MsgInv, Rank, Fill, Filled, Start, Finish, ComputeSummary, Goto
<1>1. UNCHANGED <<eager, network, locals>>
  BY DEF Types
<1>2. /\ pc \in [Ranks -> Steps] /\ pc' \in [Ranks -> Steps]
      /\ \A q \in Ranks \ {r} : pc'[q] = pc[q]
      /\ pc[r] \in {"fill", "start", "finish", "summary"}
      /\ pc'[r] \in IF pc[r] = "fill" THEN {"fill", "start"}
                    ELSE IF pc[r] = "start"
                      THEN IF r = Server THEN {"receive"} ELSE {"send"}
                      ELSE Stopped
  BY DEF Types, Steps, WorkerSteps, ServerSteps, Stopped
<1>3. Types'
  BY <1>1, <1>2 DEF Types, network, locals, Steps, WorkerSteps, ServerSteps, Stopped
<1>4. LoopInv'
  BY <1>1, <1>2 DEF LoopInv, network, locals, Stopped
<1>5. \A w \in Workers : Serving(w)' <=> Serving(w)
  BY <1>1, <1>2 DEF Serving, locals, Stopped
<1>6. OneMessage'
  BY <1>1, <1>2, <1>5 DEF OneMessage, InRequest, InServer, InAnswer, Nowhere,
                          network, locals, Stopped
<1> QED  BY <1>1, <1>2, <1>3, <1>4, <1>6 DEF Stopped

LEMMA WorkersKeepMsgInv ==
  ASSUME MsgInv, NEW w \in Workers, worker(w)
  PROVE  MsgInv'
<1> USE RankFacts DEF MsgInv, Goto
<1>1. /\ UNCHANGED <<eager, counter, source>>
      /\ pc' \in [Ranks -> Steps]
      /\ \A r \in Ranks \ {w} : pc'[r] = pc[r] /\ count'[r] = count[r]
      /\ pc'[w] \in WorkerSteps
  BY DEF worker, Send, Sent, Wait, Store, Leave, Types, locals, Steps, WorkerSteps
<1>2. /\ pc'[Server] = pc[Server] /\ count'[Server] = count[Server]
      /\ \A u \in Workers \ {w} : /\ pc'[u] = pc[u] /\ count'[u] = count[u]
                                 /\ requests'[u] = requests[u]
                                 /\ answers'[u] = answers[u]
      /\ \A u \in Workers : Serving(u)' <=> Serving(u)
  BY <1>1 DEF worker, Send, Sent, Wait, Store, Leave, Types, network, locals, Serving
<1>3. OneMessage' /\ LoopInv'
  <2>1. SUFFICES /\ (IF pc[w] \in {"sending", "wait"}
                       THEN InRequest(w) \/ InServer(w) \/ InAnswer(w)
                       ELSE Nowhere(w))'
                 /\ count'[w] <= NumSamples
                 /\ pc'[w] \in {"sending", "wait", "store"} => count'[w] < NumSamples
    BY <1>1, <1>2 DEF OneMessage, LoopInv, InRequest, InServer, InAnswer, Nowhere
  <2>2. /\ IF pc[w] \in {"sending", "wait"}
             THEN InRequest(w) \/ InServer(w) \/ InAnswer(w)
             ELSE Nowhere(w)
        /\ count[w] <= NumSamples /\ count[w] \in Nat
        /\ pc[w] \in {"sending", "wait", "store"} => count[w] < NumSamples
    BY DEF OneMessage, LoopInv, Types
  <2>3. CASE Send(w)
    BY <1>1, <1>2, <2>2, <2>3 DEF Send, InRequest, Nowhere, Types, locals
  <2>4. CASE Sent(w)
    BY <1>1, <1>2, <2>2, <2>4 DEF Sent, InRequest, InServer, InAnswer, Types, locals,
                                  network
  <2>5. CASE Wait(w)
    <3>1. answers[w] = <<count[w]>> /\ requests[w] = <<>> /\ ~Serving(w)
      BY <2>2, <2>5 DEF Wait, InRequest, InServer, InAnswer
    <3>2. Head(answers[w]) = count[w] /\ Tail(answers[w]) = <<>>
      BY <3>1, <2>2
    <3> QED  BY <1>1, <1>2, <2>2, <2>5, <3>1, <3>2 DEF Wait, Nowhere, Types
  <2>6. CASE Store(w)
    BY <1>1, <1>2, <2>2, <2>6 DEF Store, Nowhere, Types, network
  <2>7. CASE Leave(w)
    BY <1>1, <1>2, <2>2, <2>7 DEF Leave, Nowhere, Types, network, locals
  <2> QED  BY <2>3, <2>4, <2>5, <2>6, <2>7 DEF worker
<1>4. Types'
  <2>1. requests' \in [Workers -> Seq(Nat)] /\ answers' \in [Workers -> Seq(Nat)]
    <3>1. requests[w] \in Seq(Nat) /\ answers[w] \in Seq(Nat) /\ count[w] \in Nat
      BY DEF Types
    <3>2. CASE Send(w)
      BY <3>1, <3>2 DEF Send, Types
    <3>3. CASE Wait(w)
      BY <3>1, <3>3 DEF Wait, Types
    <3>4. CASE Sent(w) \/ Store(w) \/ Leave(w)
      BY <3>4 DEF Sent, Store, Leave, network, Types
    <3> QED  BY <3>2, <3>3, <3>4 DEF worker
  <2>2. count' \in [Ranks -> Nat]
    <3>1. count'[w] \in Nat
      BY <1>1 DEF worker, Send, Sent, Wait, Store, Leave, Types, locals
    <3>2. count' = [count EXCEPT ![w] = count'[w]]
      BY DEF worker, Send, Sent, Wait, Store, Leave, Types, locals
    <3> QED  BY <3>1, <3>2 DEF Types
  <2> QED  BY <1>1, <1>2, <2>1, <2>2 DEF Types
<1> QED  BY <1>3, <1>4

LEMMA ServerKeepsMsgInv ==
  ASSUME MsgInv, server
  PROVE  MsgInv'
<1> USE RankFacts DEF MsgInv, Goto
<1>1. /\ pc \in [Ranks -> Steps] /\ count \in [Ranks -> Nat]
      /\ requests \in [Workers -> Seq(Nat)] /\ answers \in [Workers -> Seq(Nat)]
      /\ \A w \in Workers : pc'[w] = pc[w] /\ count'[w] = count[w]
      /\ pc'[Server] \in ServerSteps /\ pc' \in [Ranks -> Steps] /\ eager' = eager
  BY DEF server, Receive, Take, Answer, Answered, Stop, Types, Steps, ServerSteps,
         Stopped, locals
<1>2. CASE Receive
  <2>1. PICK w \in Workers :
          /\ requests[w] # <<>>
          /\ count' = [count EXCEPT ![Server] = Head(requests[w])]
          /\ requests' = [requests EXCEPT ![w] = Tail(@)]
          /\ source' = w
    BY <1>2 DEF Receive
  <2>2. /\ pc[Server] = "receive" /\ pc'[Server] = "take"
        /\ UNCHANGED <<eager, answers, counter>>
    BY <1>1, <1>2 DEF Receive
  <2>3. /\ requests[w] = <<count[w]>> /\ answers[w] = <<>>
        /\ pc[w] \in {"sending", "wait"}
    BY <2>1 DEF OneMessage, InRequest, InServer, InAnswer, Nowhere
  <2>4. Head(requests[w]) = count[w] /\ Tail(requests[w]) = <<>> /\ count[w] \in Nat
    BY <1>1, <2>3
  <2>5. /\ requests'[w] = <<>> /\ count'[Server] = count[w]
        /\ \A u \in Workers \ {w} : requests'[u] = requests[u]
        /\ \A u \in Workers : Serving(u)' <=> u = w
        /\ \A u \in Workers : ~Serving(u)
    BY <1>1, <2>1, <2>2, <2>4 DEF Serving
  <2>6. Types'
    BY <1>1, <2>1, <2>2, <2>4 DEF Types
  <2>7. LoopInv'
    BY <1>1, <2>1, <2>2 DEF LoopInv, Stopped
  <2>8. OneMessage'
    BY <1>1, <2>2, <2>3, <2>5 DEF OneMessage, InRequest, InServer, InAnswer, Nowhere
  <2> QED  BY <2>6, <2>7, <2>8
<1>3. CASE Take
  <2>1. /\ UNCHANGED <<eager, network, count, counter, source>>
        /\ pc[Server] = "take" /\ pc'[Server] = "answer"
    BY <1>1, <1>3 DEF Take
  <2>2. \A u \in Workers : Serving(u)' <=> Serving(u)
    BY <2>1 DEF Serving
  <2> QED  BY <1>1, <2>1, <2>2
           DEF Types, LoopInv, OneMessage, InRequest, InServer, InAnswer, Nowhere,
               network, Stopped
<1>4. CASE Answer
  <2>1. /\ UNCHANGED <<eager, requests, count, counter, source>>
        /\ answers' = [answers EXCEPT ![source] = Append(@, count[Server])]
        /\ pc[Server] = "answer" /\ pc'[Server] = "answering" /\ source \in Workers
    BY <1>1, <1>4 DEF Answer, locals, LoopInv
  <2>2. /\ pc[source] \in {"sending", "wait"}
        /\ InServer(source) /\ count[Server] = count[source]
    BY <2>1 DEF OneMessage, InRequest, InServer, InAnswer, Nowhere, Serving
  <2>3. /\ answers'[source] = <<count[source]>>
        /\ \A u \in Workers \ {source} : answers'[u] = answers[u]
        /\ \A u \in Workers : ~Serving(u)'
        /\ \A u \in Workers : Serving(u) <=> u = source
    BY <1>1, <2>1, <2>2 DEF InServer, Serving
  <2>4. Types' /\ LoopInv'
    BY <1>1, <2>1 DEF Types, LoopInv, Stopped
  <2>5. OneMessage'
    BY <1>1, <2>1, <2>2, <2>3 DEF OneMessage, InRequest, InServer, InAnswer, Nowhere
  <2> QED  BY <2>4, <2>5
<1>5. CASE Answered
  <2>1. /\ UNCHANGED <<eager, network, count, source>> /\ counter' = counter + 1
        /\ pc[Server] = "answering" /\ pc'[Server] = "receive"
    BY <1>1, <1>5 DEF Answered
  <2>2. \A u \in Workers : Serving(u)' <=> Serving(u)
    BY <2>1 DEF Serving
  <2> QED  BY <1>1, <2>1, <2>2
           DEF Types, LoopInv, OneMessage, InRequest, InServer, InAnswer, Nowhere,
               network, Stopped
<1>6. CASE Stop
  <2>1. /\ UNCHANGED <<eager, network, locals>> /\ counter >= Tasks
        /\ pc[Server] = "receive" /\ pc'[Server] = "finish"
    BY <1>1, <1>6 DEF Stop
  <2>2. \A u \in Workers : Serving(u)' <=> Serving(u)
    BY <2>1 DEF Serving, locals
  <2> QED  BY <1>1, <2>1, <2>2
           DEF Types, LoopInv, OneMessage, InRequest, InServer, InAnswer, Nowhere,
               network, locals
<1> QED  BY <1>2, <1>3, <1>4, <1>5, <1>6 DEF server

LEMMA StepKeepsMsgInv == MsgInv /\ [Next]_vars => MsgInv'
<1> SUFFICES ASSUME MsgInv, [Next]_vars PROVE MsgInv'
  OBVIOUS
<1>1. CASE UNCHANGED vars
  BY <1>1 DEF vars, network, locals, MsgInv, Types, LoopInv, OneMessage, InRequest,
              InServer, InAnswer, Nowhere, Serving
<1> QED  BY <1>1, RanksKeepMsgInv, WorkersKeepMsgInv, ServerKeepsMsgInv
         DEF Next, Terminated

\* A worker that waits has exactly one message, wherever it is, and the answer
\* it takes is the one to its own request.
THEOREM EveryAnswerBelongs == Spec => []OneMessage
BY InitMsgInv, StepKeepsMsgInv, PTL DEF Spec, MsgInv

-----------------------------------------------------------------------------
(* Counting answers                                                        *)

Answering == IF pc[Server] = "answering" THEN 1 ELSE 0

LEMMA AnsweredType ==
  ASSUME Types, NEW w \in Workers
  PROVE  AnsweredTo(w) \in Nat
BY RankFacts DEF Types, AnsweredTo

LEMMA AllAnsweredFinite ==
  /\ IsFiniteSet(Workers \X (1 .. NumSamples))
  /\ Cardinality(Workers \X (1 .. NumSamples)) = Tasks
  /\ Tasks \in Nat
  /\ IsFiniteSet(AllAnswered) /\ Cardinality(AllAnswered) \in Nat
  /\ Cardinality(AllAnswered) <= Tasks
  /\ Cardinality(AllAnswered) = Tasks => AllAnswered = Workers \X (1 .. NumSamples)
<1> DEFINE W == Workers \X (1 .. NumSamples)
<1>1. IsFiniteSet(Workers) /\ NumSamples \in Nat /\ Cardinality(Workers) \in Nat
  BY MPIAssumption, FS_CardinalityType
<1>2. IsFiniteSet(1 .. NumSamples) /\ Cardinality(1 .. NumSamples) = NumSamples
  BY <1>1, FS_Interval
<1>3. /\ IsFiniteSet(W)
      /\ Cardinality(W) = Cardinality(Workers) * Cardinality(1 .. NumSamples)
  BY <1>1, <1>2, FS_Product
<1>4. Cardinality(W) = Tasks /\ Tasks \in Nat
  BY <1>1, <1>2, <1>3 DEF Tasks
<1>5. AllAnswered \in SUBSET W
  BY DEF AllAnswered
<1> QED  BY <1>3, <1>4, <1>5, FS_Subset, FS_CardinalityType

LEMMA SameAnswered ==
  ASSUME \A w \in Workers : AnsweredTo(w)' = AnsweredTo(w)
  PROVE  AllAnswered' = AllAnswered
BY DEF AllAnswered

\* One more answer to one worker is one more element.
LEMMA OneMoreAnswered ==
  ASSUME NEW w \in Workers, Types, AnsweredTo(w) < NumSamples,
         \A u \in {w} : AnsweredTo(u)' = AnsweredTo(u) + 1,
         \A u \in Workers \ {w} : AnsweredTo(u)' = AnsweredTo(u)
  PROVE  Cardinality(AllAnswered') = Cardinality(AllAnswered) + 1
<1> DEFINE n == AnsweredTo(w) + 1
<1>1. AnsweredTo(w) \in Nat /\ NumSamples \in Nat /\ n \in 1 .. NumSamples
  BY AnsweredType, RankFacts
<1>2. ASSUME NEW u \in Workers, NEW j \in 1 .. NumSamples
      PROVE  j <= AnsweredTo(u)' <=> j <= AnsweredTo(u) \/ (u = w /\ j = n)
  <2>1. CASE u = w
    <3>1. AnsweredTo(u)' = AnsweredTo(u) + 1 /\ AnsweredTo(u) = AnsweredTo(w)
      BY <2>1
    <3> HIDE DEF n
    <3>2. n = AnsweredTo(u) + 1 /\ AnsweredTo(u) \in Nat
      BY <3>1, <1>1 DEF n
    <3> QED  BY <3>1, <3>2, <2>1
  <2>2. CASE u # w
    BY <2>2
  <2> QED  BY <2>1, <2>2
<1>3. AllAnswered' = AllAnswered \cup {<<w, n>>}
  BY <1>1, <1>2 DEF AllAnswered
<1>4. <<w, n>> \notin AllAnswered
  BY <1>1 DEF AllAnswered
<1> QED  BY <1>3, <1>4, AllAnsweredFinite, FS_AddElement

LEMMA WorkersKeepCount ==
  ASSUME MsgInv, NEW w \in Workers, worker(w), ServerCounts
  PROVE  ServerCounts'
<1> USE RankFacts DEF MsgInv
<1>1. /\ pc \in [Ranks -> Steps] /\ count \in [Ranks -> Nat]
      /\ answers \in [Workers -> Seq(Nat)]
      /\ pc'[Server] = pc[Server] /\ counter' = counter
      /\ \A u \in Workers \ {w} : /\ pc'[u] = pc[u] /\ count'[u] = count[u]
                                 /\ answers'[u] = answers[u]
  BY DEF worker, Send, Sent, Wait, Store, Leave, Types, network, locals, Goto
<1>2. ASSUME NEW u \in Workers \ {w} PROVE AnsweredTo(u)' = AnsweredTo(u)
  BY <1>1 DEF AnsweredTo
<1>3. /\ IF pc[w] \in {"sending", "wait"}
           THEN InRequest(w) \/ InServer(w) \/ InAnswer(w)
           ELSE Nowhere(w)
      /\ count[w] \in Nat
  BY <1>1 DEF OneMessage
<1>4. count'[w] + Len(answers'[w]) + (IF pc'[w] = "store" THEN 1 ELSE 0)
        = count[w] + Len(answers[w]) + (IF pc[w] = "store" THEN 1 ELSE 0)
  <2>1. CASE Send(w) \/ Sent(w) \/ Leave(w)
    BY <2>1, <1>1 DEF Send, Sent, Leave, Goto, locals, network
  <2>2. CASE Wait(w)
    <3>1. answers[w] = <<count[w]>>
      BY <2>2, <1>3 DEF Wait, InRequest, InServer, InAnswer
    <3>2. Head(answers[w]) = count[w] /\ Tail(answers[w]) = <<>> /\ Len(answers[w]) = 1
      BY <3>1, <1>3
    <3>3. /\ count'[w] = count[w] /\ answers'[w] = <<>>
          /\ pc[w] = "wait" /\ pc'[w] = "store"
      BY <2>2, <3>2, <1>1 DEF Wait, Goto
    <3> QED  BY <3>2, <3>3, <1>3
  <2>3. CASE Store(w)
    <3>1. /\ count'[w] = count[w] + 1 /\ answers' = answers
          /\ pc[w] = "store" /\ pc'[w] = "send"
      BY <2>3, <1>1 DEF Store, Goto, network
    <3>2. answers[w] = <<>>
      BY <3>1, <1>3 DEF Nowhere
    <3> QED  BY <3>1, <3>2, <1>3
  <2> QED  BY <2>1, <2>2, <2>3 DEF worker
<1>5. AnsweredTo(w)' = AnsweredTo(w)
  BY <1>4 DEF AnsweredTo
<1>6. AllAnswered' = AllAnswered
  BY <1>2, <1>5, SameAnswered
<1> QED  BY <1>1, <1>6 DEF ServerCounts

LEMMA ServerKeepsCount ==
  ASSUME MsgInv, server, ServerCounts
  PROVE  ServerCounts'
<1> USE RankFacts DEF MsgInv
<1>1. /\ pc \in [Ranks -> Steps] /\ count \in [Ranks -> Nat] /\ counter \in Nat
      /\ answers \in [Workers -> Seq(Nat)]
      /\ \A w \in Workers : pc'[w] = pc[w] /\ count'[w] = count[w]
      /\ Cardinality(AllAnswered) \in Nat
  BY AllAnsweredFinite
     DEF server, Receive, Take, Answer, Answered, Stop, Types, locals, Goto
<1>2. CASE Answer
  <2>1. /\ UNCHANGED <<count, counter, source>>
        /\ answers' = [answers EXCEPT ![source] = Append(@, count[Server])]
        /\ pc[Server] = "answer" /\ pc'[Server] = "answering" /\ source \in Workers
    BY <1>1, <1>2 DEF Answer, Goto, locals, LoopInv
  <2>2. /\ pc[source] \in {"sending", "wait"} /\ answers[source] = <<>>
        /\ count[source] < NumSamples
    BY <2>1 DEF OneMessage, InRequest, InServer, InAnswer, Nowhere, Serving, LoopInv
  <2>3. /\ Len(answers'[source]) = 1 /\ count[source] \in Nat
        /\ \A u \in Workers \ {source} : answers'[u] = answers[u]
    BY <1>1, <2>1, <2>2
  <2>4. AnsweredTo(source) = count[source]
    BY <2>2, <2>3 DEF AnsweredTo
  <2>5. ASSUME NEW u \in {source} PROVE AnsweredTo(u)' = AnsweredTo(u) + 1
    BY <1>1, <2>1, <2>2, <2>3, <2>4 DEF AnsweredTo
  <2>6. ASSUME NEW u \in Workers \ {source} PROVE AnsweredTo(u)' = AnsweredTo(u)
    BY <1>1, <2>3 DEF AnsweredTo
  <2>7. Cardinality(AllAnswered') = Cardinality(AllAnswered) + 1
    BY <2>1, <2>2, <2>4, <2>5, <2>6, OneMoreAnswered
  <2> QED  BY <1>1, <2>1, <2>7 DEF ServerCounts
<1>3. CASE ~Answer
  <2>1. answers' = answers
    BY <1>3 DEF server, Receive, Take, Answered, Stop, network
  <2>2. ASSUME NEW u \in Workers PROVE AnsweredTo(u)' = AnsweredTo(u)
    BY <1>1, <2>1 DEF AnsweredTo
  <2>3. AllAnswered' = AllAnswered
    BY <2>2, SameAnswered
  <2>4. counter' + Answering' = counter + Answering
    BY <1>1, <1>3 DEF server, Receive, Take, Answered, Stop, locals, Goto, Answering
  <2> QED  BY <2>3, <2>4 DEF ServerCounts, Answering
<1> QED  BY <1>2, <1>3

LEMMA RanksKeepCount ==
  ASSUME MsgInv, NEW r \in Ranks, Rank(r), ServerCounts
  PROVE  ServerCounts'
<1>1. /\ UNCHANGED <<network, locals>>
      /\ \A w \in Workers : pc'[w] = "store" <=> pc[w] = "store"
  BY RanksKeepMsgInv
<1>2. ASSUME NEW u \in Workers PROVE AnsweredTo(u)' = AnsweredTo(u)
  BY <1>1 DEF AnsweredTo, network, locals
<1>3. AllAnswered' = AllAnswered
  BY <1>2, SameAnswered
<1>4. pc'[Server] = "answering" <=> pc[Server] = "answering"
  BY RankFacts DEF MsgInv, Types, Rank, Fill, Filled, Start, Finish,
                            ComputeSummary, Goto
<1> QED  BY <1>1, <1>3, <1>4 DEF ServerCounts, locals

LEMMA InitCounts == Init => ServerCounts
<1> SUFFICES ASSUME Init PROVE ServerCounts
  OBVIOUS
<1>1. AllAnswered = {}
  BY RankFacts DEF Init, AllAnswered, AnsweredTo
<1> QED  BY <1>1, RankFacts, FS_EmptySet DEF Init, ServerCounts

LEMMA StepKeepsIInv == IInv /\ [Next]_vars => IInv'
<1> SUFFICES ASSUME IInv, [Next]_vars PROVE ServerCounts'
  BY StepKeepsMsgInv DEF IInv
<1>1. CASE UNCHANGED vars
  <2>1. UNCHANGED <<pc, count, answers, counter>>
    BY <1>1 DEF vars, network, locals
  <2>2. AllAnswered' = AllAnswered
    BY <2>1 DEF AllAnswered, AnsweredTo
  <2> QED  BY <2>1, <2>2 DEF ServerCounts, IInv
<1> QED  BY <1>1, RanksKeepCount, WorkersKeepCount, ServerKeepsCount
         DEF IInv, Next, Terminated

\* The server's counter is the number of answers given, to whomever.
THEOREM ServerCountsAnswers == Spec => []ServerCounts
BY InitMsgInv, InitCounts, StepKeepsIInv, PTL DEF Spec, IInv

\* When the server has left its loop every worker has got, or is about to take,
\* the answer to its last request: none waits for a message that never comes.
NobodyForgotten ==
  pc[Server] \in Stopped =>
    \A w \in Workers : /\ AnsweredTo(w) = NumSamples
                       /\ pc[w] \in {"sending", "wait"} => InAnswer(w)

LEMMA NobodyIsForgotten == IInv => NobodyForgotten
<1> SUFFICES ASSUME IInv, pc[Server] \in Stopped, NEW w \in Workers
             PROVE  /\ AnsweredTo(w) = NumSamples
                    /\ pc[w] \in {"sending", "wait"} => InAnswer(w)
  BY DEF NobodyForgotten
<1>1. /\ count[w] \in Nat /\ count[w] <= NumSamples
      /\ pc[w] \in {"sending", "wait", "store"} => count[w] < NumSamples
      /\ IF pc[w] \in {"sending", "wait"}
           THEN InRequest(w) \/ InServer(w) \/ InAnswer(w)
           ELSE Nowhere(w)
      /\ counter >= Tasks /\ counter \in Nat /\ NumSamples \in Nat \ {0}
      /\ pc[Server] # "answering"
  BY RankFacts, MPIAssumption
     DEF IInv, MsgInv, Types, LoopInv, OneMessage, Stopped
<1>2. Cardinality(AllAnswered) = Tasks
  BY <1>1, AllAnsweredFinite DEF IInv, ServerCounts
<1>3. <<w, NumSamples>> \in AllAnswered
  BY <1>1, <1>2, AllAnsweredFinite
<1>4. NumSamples <= AnsweredTo(w)
  BY <1>3 DEF AllAnswered
<1>5. /\ Nowhere(w) \/ InRequest(w) \/ InServer(w) => Len(answers[w]) = 0
      /\ InAnswer(w) => Len(answers[w]) = 1
  <2>1. Len(<<>>) = 0 /\ Len(<<count[w]>>) = 1
    BY <1>1
  <2> QED  BY <2>1 DEF Nowhere, InRequest, InServer, InAnswer
<1>6. CASE pc[w] \in {"sending", "wait"}
  <2>1. count[w] < NumSamples /\ pc[w] # "store"
    BY <1>1, <1>6
  <2>2. Len(answers[w]) \in {0, 1} /\ (Len(answers[w]) = 1 => InAnswer(w))
    BY <1>1, <1>5, <1>6
  <2>3. AnsweredTo(w) = count[w] + Len(answers[w])
    BY <2>1, <2>2, <1>1 DEF AnsweredTo
  <2>4. Len(answers[w]) = 1 /\ AnsweredTo(w) = NumSamples
    <3>1. count[w] \in Nat /\ NumSamples \in Nat
      BY <1>1
    <3>2. Len(answers[w]) = 0 \/ Len(answers[w]) = 1
      BY <2>2
    <3>3. count[w] + Len(answers[w]) >= NumSamples /\ count[w] + 1 <= NumSamples
      BY <3>1, <3>2, <1>4, <2>1, <2>3
    <3>4. Len(answers[w]) # 0
      <4> SUFFICES ASSUME Len(answers[w]) = 0 PROVE FALSE
        OBVIOUS
      <4>1. count[w] >= NumSamples
        BY <3>1, <3>3
      <4> QED  BY <4>1, <3>1, <2>1
    <3>5. Len(answers[w]) = 1
      BY <3>2, <3>4
    <3>6. AnsweredTo(w) = count[w] + 1
      BY <2>3, <3>5
    <3>7. AnsweredTo(w) = NumSamples
      BY <3>6, <3>1, <3>3, <1>4
    <3> QED  BY <3>5, <3>7
  <2> QED  BY <2>2, <2>4
<1>7. CASE pc[w] \notin {"sending", "wait"}
  <2>1. Len(answers[w]) = 0
    BY <1>1, <1>5, <1>7
  <2>2. /\ count[w] + (IF pc[w] = "store" THEN 1 ELSE 0) <= NumSamples
        /\ AnsweredTo(w) = count[w] + (IF pc[w] = "store" THEN 1 ELSE 0)
    BY <1>1, <2>1 DEF AnsweredTo
  <2> QED  BY <1>1, <1>4, <1>7, <2>2
<1> QED  BY <1>6, <1>7

\* The server, which stops by its total, never stops before the last answer to
\* any worker, whichever workers were faster.
THEOREM ServerStopsLast == Spec => []NobodyForgotten
BY InitMsgInv, InitCounts, StepKeepsIInv, NobodyIsForgotten, PTL DEF Spec, IInv

-----------------------------------------------------------------------------
(* The rings                                                               *)

\* The ring that holds h + 2 .. t + 1, in order, in its slots h + 1 .. t.
Holding(h, t) ==
  [head |-> h, tail |-> t,
   data |-> [s \in 0 .. MaxSize - 1 |-> IF h < s /\ s <= t THEN s + 1 ELSE 0]]

LEMMA RingFacts ==
  /\ Tasks \in Nat \ {0} /\ MaxSize \in Nat \ {0} /\ Tasks <= MaxSize
  /\ NumSamples \in Nat \ {0} /\ NumSamples <= Tasks
<1>1. /\ IsFiniteSet(Workers) /\ Workers # {} /\ NumSamples \in Nat \ {0}
      /\ MaxSize \in Nat /\ Tasks <= MaxSize
  BY MPIAssumption
<1>2. Cardinality(Workers) \in Nat \ {0}
  BY <1>1, FS_CardinalityType, FS_EmptySet
<1>3. ASSUME NEW a \in Nat \ {0}, NEW b \in Nat \ {0}
      PROVE  a * b \in Nat \ {0} /\ a <= a * b
  <2>1. PICK d \in Nat : b = d + 1
    <3>1. b - 1 \in Nat /\ b = (b - 1) + 1
      OBVIOUS
    <3> QED  BY <3>1
  <2>2. a * b = a * d + a /\ a * d \in Nat
    BY <2>1
  <2> QED  BY <2>2
<1>4. Tasks \in Nat \ {0} /\ NumSamples <= Tasks
  BY <1>1, <1>2, <1>3 DEF Tasks
<1> QED  BY <1>1, <1>4

\* The parts of a ring that an operation changes.
LEMMA RingParts ==
  ASSUME NEW h, NEW t, NEW d, NEW x, NEW y, NEW z, NEW q,
         q = [head |-> h, tail |-> t, data |-> d]
  PROVE  /\ [q EXCEPT !.tail = x, !.data[y] = z]
              = [head |-> h, tail |-> x, data |-> [d EXCEPT ![y] = z]]
         /\ [q EXCEPT !.head = x, !.data[y] = z]
              = [head |-> x, tail |-> t, data |-> [d EXCEPT ![y] = z]]
<1>1. PICK e : e = [d EXCEPT ![y] = z]
  OBVIOUS
<1>2. PICK f, g : f = [q EXCEPT !.tail = x, !.data = e]
                  /\ g = [q EXCEPT !.head = x, !.data = e]
  OBVIOUS
<1>3. /\ [q EXCEPT !.tail = x, !.data[y] = z] = f
      /\ [q EXCEPT !.head = x, !.data[y] = z] = g
  BY <1>1, <1>2
<1>4. f = [head |-> h, tail |-> x, data |-> e]
  BY <1>2
<1>5. g = [head |-> x, tail |-> t, data |-> e]
  BY <1>2
<1> QED  BY <1>1, <1>3, <1>4, <1>5

\* EnqueueToQ, as long as the ring has room.
LEMMA RingEnqueue ==
  ASSUME NEW h \in Int, NEW t \in Int, -1 <= h, h <= t, t + 1 < MaxSize
  PROVE  EnqueueToQ(Holding(h, t), t + 2) = Holding(h, t + 1)
<1>1. MaxSize \in Nat \ {0} /\ t + 1 \in 0 .. MaxSize - 1
  BY RingFacts
<1>2. (t + 1) % MaxSize = t + 1
  BY <1>1
<1> DEFINE d == [s \in 0 .. MaxSize - 1 |-> IF h < s /\ s <= t THEN s + 1 ELSE 0]
<1>3. EnqueueToQ(Holding(h, t), t + 2)
        = [head |-> h, tail |-> t + 1, data |-> [d EXCEPT ![t + 1] = t + 2]]
  <2>1. Holding(h, t).tail = t
    BY DEF Holding
  <2>2. EnqueueToQ(Holding(h, t), t + 2)
          = [Holding(h, t) EXCEPT !.tail = t + 1, !.data[t + 1] = t + 2]
    BY <1>2, <2>1 DEF EnqueueToQ
  <2> QED  BY <2>2, RingParts DEF Holding
<1>4. [d EXCEPT ![t + 1] = t + 2]
        = [s \in 0 .. MaxSize - 1 |-> IF h < s /\ s <= t + 1 THEN s + 1 ELSE 0]
  <2>1. ASSUME NEW s \in 0 .. MaxSize - 1
        PROVE  [d EXCEPT ![t + 1] = t + 2][s]
                 = IF h < s /\ s <= t + 1 THEN s + 1 ELSE 0
    <3>1. CASE s = t + 1
      BY <1>1, <3>1
    <3>2. CASE s # t + 1
      <4>1. s <= t + 1 <=> s <= t
        BY <1>1, <3>2
      <4> QED  BY <1>1, <3>2, <4>1
    <3> QED  BY <3>1, <3>2
  <2> QED  BY <2>1
<1> QED  BY <1>3, <1>4 DEF Holding

\* DequeueFromQ, as long as the ring holds something.
LEMMA RingDequeue ==
  ASSUME NEW h \in Int, NEW t \in Int, -1 <= h, h < t, t < MaxSize
  PROVE  /\ Target(Holding(h, t)) = h + 2
         /\ Dequeued(Holding(h, t)) = Holding(h + 1, t)
         /\ ~isQueueEmpty(Holding(h, t))
<1>1. MaxSize \in Nat \ {0} /\ h + 1 \in 0 .. MaxSize - 1 /\ h + 1 <= t
  BY RingFacts
<1>2. (h + 1) % MaxSize = h + 1
  BY <1>1
<1> DEFINE d == [s \in 0 .. MaxSize - 1 |-> IF h < s /\ s <= t THEN s + 1 ELSE 0]
<1>3. /\ Dequeued(Holding(h, t))
           = [head |-> h + 1, tail |-> t, data |-> [d EXCEPT ![h + 1] = 0]]
      /\ Target(Holding(h, t)) = d[h + 1]
      /\ ~isQueueEmpty(Holding(h, t))
  <2>1. /\ Holding(h, t).head = h /\ Holding(h, t).tail = t
        /\ Holding(h, t).data = d
    BY DEF Holding
  <2>2. Dequeued(Holding(h, t))
          = [Holding(h, t) EXCEPT !.head = h + 1, !.data[h + 1] = 0]
    BY <1>2, <2>1 DEF Dequeued
  <2>3. Dequeued(Holding(h, t))
          = [head |-> h + 1, tail |-> t, data |-> [d EXCEPT ![h + 1] = 0]]
    BY <2>2, RingParts DEF Holding
  <2> QED  BY <1>2, <2>1, <2>3 DEF Target, isQueueEmpty
<1>4. d[h + 1] = h + 2
  BY <1>1
<1>5. [d EXCEPT ![h + 1] = 0]
        = [s \in 0 .. MaxSize - 1 |-> IF h + 1 < s /\ s <= t THEN s + 1 ELSE 0]
  <2>1. ASSUME NEW s \in 0 .. MaxSize - 1
        PROVE  [d EXCEPT ![h + 1] = 0][s] = IF h + 1 < s /\ s <= t THEN s + 1 ELSE 0
    <3>1. CASE s = h + 1
      BY <1>1, <3>1
    <3>2. CASE s # h + 1
      <4>1. h + 1 < s <=> h < s
        BY <1>1, <3>2
      <4> QED  BY <1>1, <3>2, <4>1
    <3> QED  BY <3>1, <3>2
  <2> QED  BY <2>1
<1> QED  BY <1>3, <1>4, <1>5 DEF Holding

\* A ring within its bounds.
LEMMA RingType ==
  ASSUME NEW h \in -1 .. Tasks - 1, NEW t \in -1 .. Tasks - 1
  PROVE  Holding(h, t) \in Queue
<1>1. Tasks \in Nat \ {0} /\ MaxSize \in Nat \ {0}
  BY RingFacts
<1>2. ASSUME NEW s \in 0 .. MaxSize - 1
      PROVE  (IF h < s /\ s <= t THEN s + 1 ELSE 0) \in 0 .. Tasks
  BY <1>1
<1> QED  BY <1>2 DEF Holding, Queue

\* The requests the server has taken a task for.
Served == counter + (IF pc[Server] \in {"answer", "answering"} THEN 1 ELSE 0)

\* Every rank fills its ring up to the last task before it starts; the server
\* takes one task per request, and a worker keeps one result per answer.
RingInv ==
  /\ \A r \in Ranks : pc[r] = "fill" =>
       \E t \in -1 .. Tasks - 1 : incoming[r] = Holding(-1, t)
  /\ \A w \in Workers : pc[w] # "fill" => incoming[w] = Holding(-1, Tasks - 1)
  /\ pc[Server] # "fill" => incoming[Server] = Holding(Served - 1, Tasks - 1)
  /\ incoming \in [Ranks -> Queue] /\ results \in [Ranks -> Queue]
  /\ \A w \in Workers : results[w] = Holding(-1, count[w] - 1)
  /\ handed = [n \in 1 .. Served |-> n]

\* Where the server is, its counter tells how many requests it may still get.
ServedInv ==
  /\ Served <= Tasks
  /\ pc[Server] \in {"take", "answer", "answering"} => counter < Tasks
  /\ pc[Server] \in {"fill", "start"} => counter = 0
  /\ pc[Server] \in Stopped => counter = Tasks

\* Only who has made all its requests gets to the second barrier, and nobody
\* passes it alone.
BarrierInv ==
  /\ \A w \in Workers : pc[w] \in Stopped => count[w] = NumSamples
  /\ (\E r \in Ranks : pc[r] \in {"summary", "done"}) =>
       \A q \in Ranks : pc[q] \in Stopped

RingsInv == RingInv /\ ServedInv /\ BarrierInv

LEMMA InitRings == Init => RingsInv
<1> SUFFICES ASSUME Init PROVE RingsInv
  OBVIOUS
<1>1. EmptyQueue = Holding(-1, -1)
  <2>1. \A s \in 0 .. MaxSize - 1 : (IF -1 < s /\ s <= -1 THEN s + 1 ELSE 0) = 0
    BY RingFacts
  <2>2. [s \in 0 .. MaxSize - 1 |-> IF -1 < s /\ s <= -1 THEN s + 1 ELSE 0]
          = [s \in 0 .. MaxSize - 1 |-> 0]
    BY <2>1
  <2> QED  BY <2>2 DEF EmptyQueue, Holding
<1>2. -1 \in -1 .. Tasks - 1
  BY RingFacts
<1>3. Holding(-1, -1) \in Queue
  BY <1>2, RingType
<1>4. /\ \A r \in Ranks : /\ pc[r] = "fill" /\ count[r] = 0
                          /\ incoming[r] = Holding(-1, -1)
                          /\ results[r] = Holding(-1, -1)
      /\ counter = 0 /\ handed = <<>>
      /\ incoming = [r \in Ranks |-> Holding(-1, -1)]
      /\ results = [r \in Ranks |-> Holding(-1, -1)]
  BY <1>1 DEF Init
<1>5. Served = 0 /\ handed = [n \in 1 .. Served |-> n]
  BY <1>4, RankFacts DEF Served
<1>6. RingInv
  BY <1>2, <1>3, <1>4, <1>5, RankFacts DEF RingInv
<1>7. ServedInv /\ BarrierInv
  BY <1>4, <1>5, RankFacts, RingFacts DEF ServedInv, BarrierInv, Stopped
<1> QED  BY <1>6, <1>7 DEF RingsInv

\* Outside the loops the rings are filled, and the barriers passed together.
LEMMA RanksKeepRings ==
  ASSUME MsgInv, RingsInv, NEW r \in Ranks, Rank(r)
  PROVE  RingsInv'
<1> USE RankFacts DEF MsgInv, RingsInv, Goto
<1>1. /\ UNCHANGED <<count, counter, handed, results>>
      /\ pc \in [Ranks -> Steps] /\ \A q \in Ranks \ {r} : pc'[q] = pc[q]
      /\ counter \in Nat /\ count \in [Ranks -> Nat]
  BY DEF Rank, Fill, Filled, Start, Finish, ComputeSummary, Types, locals, rings
<1>2. \/ pc' = pc
      \/ pc[r] = "fill" /\ pc'[r] = "start"
      \/ pc[r] = "start" /\ pc'[r] = IF r = Server THEN "receive" ELSE "send"
      \/ /\ pc[r] = "finish" /\ pc'[r] = "summary"
         /\ \A q \in Ranks : pc[q] \in Stopped
      \/ pc[r] = "summary" /\ pc'[r] = "done"
  BY <1>1 DEF Rank, Fill, Filled, Start, Finish, ComputeSummary, Stopped
<1>3. Served' = Served
  BY <1>1, <1>2 DEF Served
<1>4. ServedInv'
  BY <1>1, <1>2, <1>3 DEF ServedInv, Stopped
<1>5. BarrierInv'
  BY <1>1, <1>2 DEF BarrierInv, Stopped
<1>6. RingInv'
  <2>1. CASE Fill(r)
    <3>1. PICK t \in -1 .. Tasks - 1 : incoming[r] = Holding(-1, t)
      BY <2>1 DEF Fill, RingInv
    <3>2. Holding(-1, t).tail = t
      BY DEF Holding
    <3>3. /\ t + 1 \in -1 .. Tasks - 1 /\ -1 <= t /\ t + 1 < MaxSize
          /\ (-1) \in -1 .. Tasks - 1
      BY <2>1, <3>1, <3>2, RingFacts DEF Fill
    <3>4. incoming' = [incoming EXCEPT ![r] = Holding(-1, t + 1)] /\ pc' = pc
      <4>1. EnqueueToQ(Holding(-1, t), t + 2) = Holding(-1, t + 1)
        BY <3>3, RingEnqueue
      <4>2. /\ incoming' = [incoming EXCEPT ![r] =
                               EnqueueToQ(incoming[r], incoming[r].tail + 2)]
            /\ pc' = pc
        BY <2>1 DEF Fill
      <4> QED  BY <3>1, <3>2, <4>1, <4>2
    <3>5. Holding(-1, t + 1) \in Queue
      BY <3>3, RingType
    <3>6. /\ incoming' \in [Ranks -> Queue] /\ incoming'[r] = Holding(-1, t + 1)
          /\ \A q \in Ranks \ {r} : incoming'[q] = incoming[q]
      BY <3>4, <3>5 DEF RingInv
    <3>7. pc[r] = "fill"
      BY <2>1 DEF Fill
    <3>8. \A q \in Ranks : pc'[q] = "fill" =>
            \E n \in -1 .. Tasks - 1 : incoming'[q] = Holding(-1, n)
      BY <3>3, <3>4, <3>6 DEF RingInv
    <3> QED  BY <1>1, <1>3, <3>4, <3>6, <3>7, <3>8 DEF RingInv
  <2>2. CASE Filled(r)
    <3>1. PICK t \in -1 .. Tasks - 1 : incoming[r] = Holding(-1, t)
      BY <2>2 DEF Filled, RingInv
    <3>2. Holding(-1, t).tail = t
      BY DEF Holding
    <3>3. t = Tasks - 1
      BY <2>2, <3>1, <3>2, RingFacts DEF Filled
    <3>4. incoming' = incoming /\ pc[r] = "fill" /\ pc'[r] = "start"
      BY <1>1, <2>2 DEF Filled, rings
    <3>5. r = Server => Served = 0
      BY <3>4 DEF ServedInv, Served
    <3> QED  BY <1>1, <1>3, <3>1, <3>3, <3>4, <3>5 DEF RingInv
  <2>3. CASE ~Fill(r) /\ ~Filled(r)
    <3>1. UNCHANGED incoming
      BY <2>3 DEF Rank, Start, Finish, ComputeSummary, rings
    <3>2. pc[r] # "fill" /\ pc'[r] # "fill"
      BY <1>1, <2>3 DEF Rank, Start, Finish, ComputeSummary
    <3> QED  BY <1>1, <1>3, <3>1, <3>2 DEF RingInv
  <2> QED  BY <2>1, <2>2, <2>3
<1> QED  BY <1>4, <1>5, <1>6

\* A worker keeps one result per answer, and leaves with all of them.
LEMMA WorkersKeepRings ==
  ASSUME MsgInv, RingsInv, NEW w \in Workers, worker(w)
  PROVE  RingsInv'
<1> USE RankFacts DEF MsgInv, RingsInv, Goto
<1>1. /\ UNCHANGED <<counter, handed, incoming>>
      /\ pc \in [Ranks -> Steps] /\ \A q \in Ranks \ {w} : pc'[q] = pc[q]
      /\ \A q \in Ranks \ {w} : count'[q] = count[q]
      /\ counter \in Nat /\ count \in [Ranks -> Nat] /\ count[w] <= NumSamples
  BY DEF worker, Send, Sent, Wait, Store, Leave, Types, LoopInv, locals, rings
<1>2. /\ pc[w] \in {"send", "sending", "wait", "store"}
      /\ pc'[w] \in {"send", "sending", "wait", "store", "finish"}
  BY <1>1 DEF worker, Send, Sent, Wait, Store, Leave
<1>3. pc'[Server] = pc[Server] /\ Served' = Served
  BY <1>1 DEF Served
<1>4. ServedInv'
  BY <1>1, <1>3 DEF ServedInv
<1>5. BarrierInv'
  <2>1. pc'[w] = "finish" => count'[w] = count[w] /\ count[w] >= NumSamples
    BY <1>1 DEF worker, Send, Sent, Wait, Store, Leave, locals
  <2>2. \A q \in Ranks : pc[q] \notin {"summary", "done"}
    BY <1>2 DEF BarrierInv, Stopped
  <2> QED  BY <1>1, <1>2, <2>1, <2>2 DEF BarrierInv, Stopped
<1>6. CASE Store(w)
  <2>1. PICK n \in Nat : n = count[w]
    BY <1>1
  <2>2. /\ count' = [count EXCEPT ![w] = n + 1]
        /\ results' = [results EXCEPT ![w] = EnqueueToQ(results[w], n + 1)]
        /\ results[w] = Holding(-1, n - 1) /\ n < NumSamples
    BY <1>6, <2>1 DEF Store, RingInv, LoopInv
  <2>3. /\ n - 1 \in Int /\ -1 <= n - 1 /\ (n - 1) + 1 < MaxSize
        /\ (n - 1) + 2 = n + 1 /\ (n - 1) + 1 = n /\ n \in -1 .. Tasks - 1
        /\ (-1) \in -1 .. Tasks - 1
    BY <2>2, RingFacts
  <2>4. EnqueueToQ(Holding(-1, n - 1), (n - 1) + 2) = Holding(-1, (n - 1) + 1)
    BY <2>3, RingEnqueue
  <2>5. Holding(-1, n) \in Queue
    BY <2>3, RingType
  <2>6. results' = [results EXCEPT ![w] = Holding(-1, n)]
    BY <2>2, <2>3, <2>4
  <2>7. /\ results' \in [Ranks -> Queue] /\ results'[w] = Holding(-1, n)
        /\ \A u \in Workers \ {w} : results'[u] = results[u]
    BY <2>5, <2>6 DEF RingInv
  <2>8. count'[w] - 1 = n
    BY <1>1, <2>1, <2>2
  <2> QED  BY <1>1, <1>2, <1>3, <1>4, <1>5, <2>7, <2>8 DEF RingInv
<1>7. CASE ~Store(w)
  <2>1. results' = results
    BY <1>7 DEF worker, Send, Sent, Wait, Leave, rings
  <2>2. count'[w] = count[w]
    <3>1. CASE Wait(w)
      <4>1. answers[w] = <<count[w]>>
        BY <3>1 DEF Wait, OneMessage, InRequest, InServer, InAnswer
      <4> QED  BY <1>1, <3>1, <4>1 DEF Wait
    <3>2. CASE ~Wait(w)
      BY <1>7, <3>2 DEF worker, Send, Sent, Leave, locals
    <3> QED  BY <3>1, <3>2
  <2> QED  BY <1>1, <1>2, <1>3, <1>4, <1>5, <2>1, <2>2 DEF RingInv
<1> QED  BY <1>6, <1>7

\* The server takes the next task for each request, and finds one.
LEMMA ServerKeepsRings ==
  ASSUME MsgInv, RingsInv, server
  PROVE  RingsInv'
<1> USE RankFacts DEF MsgInv, RingsInv, Goto
<1>1. /\ UNCHANGED results
      /\ pc \in [Ranks -> Steps] /\ \A w \in Workers : pc'[w] = pc[w]
      /\ \A w \in Workers : count'[w] = count[w]
      /\ counter \in Nat /\ Served \in Nat
  BY DEF server, Receive, Take, Answer, Answered, Stop, Types, locals, rings, Served
<1>2. /\ pc[Server] \in {"receive", "take", "answer", "answering"}
      /\ pc'[Server] \in {"receive", "take", "answer", "answering", "finish"}
  BY <1>1 DEF server, Receive, Take, Answer, Answered, Stop
<1>3. ServedInv'
  BY <1>1, RingFacts
     DEF server, Receive, Take, Answer, Answered, Stop, locals, ServedInv, Served,
         Stopped
<1>4. BarrierInv'
  <2>1. \A q \in Ranks : pc[q] \notin {"summary", "done"}
    BY <1>2 DEF BarrierInv, Stopped
  <2> QED  BY <1>1, <1>2, <2>1 DEF BarrierInv, Stopped
<1>5. CASE Take
  <2>1. PICK n \in Nat : n = Served
    BY <1>1
  <2>2. /\ pc[Server] = "take" /\ pc'[Server] = "answer" /\ counter' = counter
        /\ n = counter /\ n < Tasks /\ handed = [j \in 1 .. n |-> j]
        /\ incoming[Server] = Holding(n - 1, Tasks - 1)
    BY <1>1, <1>5, <2>1 DEF Take, Served, ServedInv, RingInv
  <2>3. /\ n - 1 \in Int /\ Tasks - 1 \in Int /\ -1 <= n - 1 /\ n - 1 < Tasks - 1
        /\ Tasks - 1 < MaxSize /\ (n - 1) + 1 = n /\ (n - 1) + 2 = n + 1
        /\ n \in -1 .. Tasks - 1 /\ Tasks - 1 \in -1 .. Tasks - 1
    BY <2>2, RingFacts
  <2>4. /\ Target(Holding(n - 1, Tasks - 1)) = n + 1
        /\ Dequeued(Holding(n - 1, Tasks - 1)) = Holding(n, Tasks - 1)
        /\ ~isQueueEmpty(Holding(n - 1, Tasks - 1))
    <3>1. /\ Target(Holding(n - 1, Tasks - 1)) = (n - 1) + 2
          /\ Dequeued(Holding(n - 1, Tasks - 1)) = Holding((n - 1) + 1, Tasks - 1)
          /\ ~isQueueEmpty(Holding(n - 1, Tasks - 1))
      BY <2>3, RingDequeue
    <3> QED  BY <2>3, <3>1
  <2>5. Holding(n, Tasks - 1) \in Queue
    BY <2>3, RingType
  <2>6. /\ handed' = Append(handed, n + 1)
        /\ incoming' = [incoming EXCEPT ![Server] = Holding(n, Tasks - 1)]
    BY <1>5, <2>2, <2>4 DEF Take
  <2>7. Served' = n + 1
    BY <2>2 DEF Served
  <2>8. handed' = [j \in 1 .. n + 1 |-> j]
    BY <2>2, <2>6
  <2>9. /\ incoming' \in [Ranks -> Queue] /\ incoming'[Server] = Holding(n, Tasks - 1)
        /\ \A w \in Workers : incoming'[w] = incoming[w]
    BY <2>5, <2>6 DEF RingInv
  <2>10. Served' - 1 = n
    BY <2>7
  <2>11. /\ \A r \in Ranks : pc'[r] = "fill" =>
              \E t \in -1 .. Tasks - 1 : incoming'[r] = Holding(-1, t)
         /\ \A w \in Workers : pc'[w] # "fill" =>
              incoming'[w] = Holding(-1, Tasks - 1)
    BY <1>1, <2>2, <2>9 DEF RingInv
  <2> QED  BY <1>1, <1>3, <1>4, <2>2, <2>7, <2>8, <2>9, <2>10, <2>11 DEF RingInv
<1>6. CASE ~Take
  <2>1. UNCHANGED <<incoming, handed>> /\ Served' = Served
    BY <1>1, <1>6 DEF server, Receive, Answer, Answered, Stop, locals, rings, Served
  <2> QED  BY <1>1, <1>2, <1>3, <1>4, <2>1 DEF RingInv
<1> QED  BY <1>5, <1>6

LEMMA StepKeepsRings == MsgInv /\ RingsInv /\ [Next]_vars => RingsInv'
<1> SUFFICES ASSUME MsgInv, RingsInv, [Next]_vars PROVE RingsInv'
  OBVIOUS
<1>1. CASE UNCHANGED vars
  BY <1>1 DEF vars, locals, rings, RingsInv, RingInv, ServedInv, BarrierInv, Served
<1> QED  BY <1>1, RanksKeepRings, WorkersKeepRings, ServerKeepsRings
         DEF Next, Terminated

\* The timestamps and the message the server works on keep to their types.
ReportInv ==
  /\ count[Server] <= NumSamples
  /\ samples \in [Ranks -> [0 .. NumSamples - 1 -> {"unset", "start", "both"}]]
  /\ summary \in [Ranks -> SUBSET {"unset", "start", "both"}]

LEMMA InitReport == Init => ReportInv
BY RankFacts DEF Init, ReportInv

\* One timestamp of one rank.
LEMMA StampTyped ==
  ASSUME NEW s \in [Ranks -> [0 .. NumSamples - 1 -> {"unset", "start", "both"}]],
         NEW r \in Ranks, NEW x \in {"unset", "start", "both"}
  PROVE  [s EXCEPT ![r][0] = x]
           \in [Ranks -> [0 .. NumSamples - 1 -> {"unset", "start", "both"}]]
<1>1. s[r] \in [0 .. NumSamples - 1 -> {"unset", "start", "both"}]
  OBVIOUS
<1>2. [s[r] EXCEPT ![0] = x] \in [0 .. NumSamples - 1 -> {"unset", "start", "both"}]
  BY <1>1
<1>3. [s EXCEPT ![r][0] = x] = [s EXCEPT ![r] = [s[r] EXCEPT ![0] = x]]
  OBVIOUS
<1> QED  BY <1>2, <1>3

LEMMA StepKeepsReport == MsgInv /\ ReportInv /\ [Next]_vars => ReportInv'
<1> SUFFICES ASSUME MsgInv, ReportInv, [Next]_vars PROVE ReportInv'
  OBVIOUS
<1> USE RankFacts DEF MsgInv, Goto
<1>1. count \in [Ranks -> Nat]
  BY DEF Types
<1>2. ASSUME NEW r \in Ranks, Rank(r) PROVE ReportInv'
  <2>1. count' = count
    BY <1>2, RanksKeepMsgInv DEF locals
  <2>2. CASE Start(r)
    <3>1. samples' = samples \/ samples' = [samples EXCEPT ![r][0] = "start"]
      BY <2>2 DEF Start
    <3>2. summary' = summary
      BY <2>2 DEF Start
    <3>3. /\ samples \in [Ranks -> [0 .. NumSamples - 1 -> {"unset", "start", "both"}]]
          /\ "start" \in {"unset", "start", "both"}
      BY DEF ReportInv
    <3>4. [samples EXCEPT ![r][0] = "start"]
            \in [Ranks -> [0 .. NumSamples - 1 -> {"unset", "start", "both"}]]
      BY <3>3, StampTyped
    <3> QED  BY <2>1, <3>1, <3>2, <3>4 DEF ReportInv
  <2>3. CASE ComputeSummary(r)
    <3>1. samples' = samples /\ summary' = [summary EXCEPT ![r] = Range(samples[r])]
      BY <2>3 DEF ComputeSummary
    <3>2. samples[r] \in [0 .. NumSamples - 1 -> {"unset", "start", "both"}]
      BY DEF ReportInv
    <3>3. Range(samples[r]) \in SUBSET {"unset", "start", "both"}
      BY <3>2 DEF Range
    <3>4. summary' \in [Ranks -> SUBSET {"unset", "start", "both"}]
      BY <3>1, <3>3 DEF ReportInv
    <3> QED  BY <2>1, <3>1, <3>4 DEF ReportInv
  <2>4. CASE Fill(r) \/ Filled(r) \/ Finish(r)
    BY <2>1, <2>4 DEF Fill, Filled, Finish, report, ReportInv
  <2> QED  BY <1>2, <2>2, <2>3, <2>4 DEF Rank
<1>3. ASSUME NEW w \in Workers, worker(w) PROVE ReportInv'
  <2>1. count'[Server] = count[Server] /\ summary' = summary
    BY <1>1, <1>3 DEF worker, Send, Sent, Wait, Store, Leave, locals, report
  <2>2. samples' = samples \/ samples' = [samples EXCEPT ![w][0] = "both"]
    BY <1>3 DEF worker, Send, Sent, Wait, Store, Leave, report
  <2>3. /\ samples \in [Ranks -> [0 .. NumSamples - 1 -> {"unset", "start", "both"}]]
        /\ "both" \in {"unset", "start", "both"} /\ w \in Ranks
    BY DEF ReportInv
  <2>4. [samples EXCEPT ![w][0] = "both"]
          \in [Ranks -> [0 .. NumSamples - 1 -> {"unset", "start", "both"}]]
    BY <2>3, StampTyped
  <2> QED  BY <2>1, <2>2, <2>4 DEF ReportInv
<1>4. ASSUME server PROVE ReportInv'
  <2>1. UNCHANGED <<samples, summary>>
    BY <1>4 DEF server, Receive, Take, Answer, Answered, Stop, report
  <2>2. CASE Receive
    <3>1. PICK w \in Workers :
            requests[w] # <<>> /\ count' = [count EXCEPT ![Server] = Head(requests[w])]
      BY <2>2 DEF Receive
    <3>2. requests[w] = <<count[w]>>
      BY <3>1 DEF OneMessage, InRequest, InServer, InAnswer, Nowhere
    <3>3. count'[Server] = count[w] /\ count[w] <= NumSamples
      BY <1>1, <3>1, <3>2 DEF LoopInv
    <3> QED  BY <2>1, <3>3 DEF ReportInv
  <2>3. CASE ~Receive
    <3>1. count' = count
      BY <1>4, <2>3 DEF server, Take, Answer, Answered, Stop, locals
    <3> QED  BY <2>1, <3>1 DEF ReportInv
  <2> QED  BY <2>2, <2>3
<1>5. CASE UNCHANGED vars
  BY <1>5 DEF vars, locals, report, ReportInv
<1> QED  BY <1>2, <1>3, <1>4, <1>5 DEF Next, Terminated

\* Within the bounds of the arrays and rings of main.c, and whether MPI_Send
\* blocks or not, every worker that waits has one message under way, which
\* carries what it sent.
THEOREM ExchangeHolds == Spec => []Exchange
<1>1. MsgInv /\ RingsInv /\ ReportInv => TypeOK
  <2> SUFFICES ASSUME MsgInv, RingsInv, ReportInv PROVE TypeOK
    OBVIOUS
  <2> USE RankFacts DEF MsgInv, RingsInv
  <2>1. /\ eager \in BOOLEAN /\ source \in Ranks
        /\ pc \in [Ranks -> {"fill", "start", "send", "sending", "wait", "store",
                             "receive", "take", "answer", "answering",
                             "finish", "summary", "done"}]
    BY DEF Types, Steps, WorkerSteps, ServerSteps, Stopped
  <2>2. ASSUME NEW w \in Workers
        PROVE  requests[w] \in Seq(0 .. NumSamples - 1)
               /\ answers[w] \in Seq(0 .. NumSamples - 1)
    <3>1. <<>> \in Seq(0 .. NumSamples - 1)
      OBVIOUS
    <3>2. ASSUME pc[w] \in {"sending", "wait"}
          PROVE  <<count[w]>> \in Seq(0 .. NumSamples - 1)
      <4>1. count[w] \in 0 .. NumSamples - 1
        BY <3>2 DEF Types, LoopInv
      <4> QED  BY <4>1
    <3> QED  BY <3>1, <3>2 DEF OneMessage, InRequest, InServer, InAnswer, Nowhere
  <2>3. /\ requests \in [Workers -> Seq(0 .. NumSamples - 1)]
        /\ answers \in [Workers -> Seq(0 .. NumSamples - 1)]
    BY <2>2 DEF Types
  <2>4. count \in [Ranks -> 0 .. NumSamples]
    <3>1. \A r \in Ranks : count[r] \in Nat /\ count[r] <= NumSamples
      BY DEF Types, LoopInv, ReportInv
    <3> QED  BY <3>1 DEF Types
  <2>5. Served \in Nat /\ Served <= Tasks /\ counter \in Nat /\ Tasks \in Nat
        /\ counter <= Served
    BY RingFacts DEF Types, Served, ServedInv
  <2>6. counter \in 0 .. Tasks
    BY <2>5
  <2>7. handed \in Seq(0 .. Tasks \cup {-1})
    <3>1. \A n \in 1 .. Served : n \in 0 .. Tasks \cup {-1}
      BY <2>5
    <3>2. handed = [n \in 1 .. Served |-> n]
      BY DEF RingInv
    <3> QED  BY <2>5, <3>1, <3>2
  <2>8. incoming \in [Ranks -> Queue] /\ results \in [Ranks -> Queue]
    BY DEF RingInv
  <2> QED  BY <2>1, <2>3, <2>4, <2>6, <2>7, <2>8 DEF TypeOK, ReportInv
<1>2. MsgInv => OneMessage
  BY DEF MsgInv
<1> QED  BY <1>1, <1>2, InitMsgInv, InitRings, InitReport, StepKeepsMsgInv,
            StepKeepsRings, StepKeepsReport, PTL DEF Spec, Exchange

\* Every task is handed out once, in order; and when a rank is through the second
\* barrier no message is left, the server's ring is empty, and every worker has
\* all its results, in order.
THEOREM AllComplete == Spec => []Complete
<1>1. MsgInv /\ RingsInv => Complete
  <2> SUFFICES ASSUME MsgInv, RingsInv PROVE Complete
    OBVIOUS
  <2> USE RankFacts DEF MsgInv, RingsInv
  <2>1. TasksOnce
    <3>1. Served \in Nat /\ handed = [n \in 1 .. Served |-> n]
      BY DEF Types, Served, RingInv
    <3>2. Len(handed) = Served
      BY <3>1
    <3> QED  BY <3>1, <3>2 DEF TasksOnce
  <2>2. ASSUME NEW r \in Ranks, pc[r] \in {"summary", "done"}
        PROVE  \A q \in Ranks : pc[q] \in Stopped
    BY <2>2 DEF BarrierInv
  <2>3. ASSUME \A q \in Ranks : pc[q] \in Stopped
        PROVE  isQueueEmpty(incoming[Server])
    <3>1. counter = Tasks /\ Served = Tasks
      BY <2>3, RingFacts DEF ServedInv, Served, Stopped
    <3>2. incoming[Server] = Holding(Tasks - 1, Tasks - 1)
      BY <2>3, <3>1 DEF RingInv, Stopped
    <3> QED  BY <3>2 DEF isQueueEmpty, Holding
  <2>4. ASSUME \A q \in Ranks : pc[q] \in Stopped, NEW w \in Workers
        PROVE  /\ requests[w] = <<>> /\ answers[w] = <<>>
               /\ results[w].tail = NumSamples - 1
               /\ \A i \in 1 .. NumSamples : results[w].data[i - 1] = i
    <3>1. pc[w] \in Stopped /\ count[w] = NumSamples
      BY <2>4 DEF BarrierInv
    <3>2. requests[w] = <<>> /\ answers[w] = <<>>
      BY <3>1 DEF OneMessage, Nowhere, Stopped
    <3>3. results[w] = Holding(-1, NumSamples - 1)
      BY <3>1 DEF RingInv
    <3>4. ASSUME NEW i \in 1 .. NumSamples PROVE results[w].data[i - 1] = i
      <4>1. /\ i - 1 \in 0 .. MaxSize - 1 /\ -1 < i - 1 /\ i - 1 <= NumSamples - 1
            /\ (i - 1) + 1 = i
        BY RingFacts
      <4> QED  BY <3>3, <4>1 DEF Holding
    <3>5. results[w].tail = NumSamples - 1
      BY <3>3 DEF Holding
    <3> QED  BY <3>2, <3>4, <3>5
  <2> QED  BY <2>1, <2>2, <2>3, <2>4 DEF Complete
<1> QED  BY <1>1, InitMsgInv, InitRings, StepKeepsMsgInv, StepKeepsRings, PTL
         DEF Spec

=============================================================================
