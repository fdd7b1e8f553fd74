------------------------------ MODULE MPIQueue ------------------------------
(***************************************************************************)
(* The program of mpi_queue: rank 0 is a server, every other rank a worker *)
(* that sends NUM_SAMPLES requests, one at a time, and waits for an answer *)
(* to each.  The server takes a task off its ring per request.             *)
(*                                                                         *)
(* Messages between two ranks arrive in order (MPI's guarantee).  Whether  *)
(* MPI_Send returns at once or only when the message has been received is  *)
(* up to the MPI library: Init chooses.  Nobody but a rank sees its rings: *)
(* what it does to them between two MPI calls is one step, but for the     *)
(* loop that fills a ring, where a pass is a step.                         *)
(***************************************************************************)
EXTENDS Integers, SequencesExt, FiniteSets

CONSTANTS
  Workers,     \* the ranks but 0
  Server,      \* rank 0
  NumSamples,  \* NUM_SAMPLES
  MaxSize      \* MAX_SIZE, slots of a ring

Ranks == Workers \cup {Server}

\* NUM_SAMPLES * (world_size - 1)
Tasks == NumSamples * Cardinality(Workers)

ASSUME MPIAssumption ==
  /\ IsFiniteSet(Workers) /\ Workers # {} /\ Server \notin Workers
  /\ NumSamples \in Nat \ {0}
  /\ MaxSize \in Nat /\ Tasks <= MaxSize

VARIABLES
  eager,      \* does MPI_Send return before the message is received?
  pc,         \* next step of each rank
  requests,   \* messages under way from each worker to the server
  answers,    \* messages under way from the server to each worker
  count,      \* local of worker and server: the last message
  counter,    \* local of server: requests served
  source,     \* local of server: status.MPI_SOURCE
  incoming,   \* the ring of tasks of each rank
  results,    \* the ring of results of each rank
  samples,    \* starttimestamp[i] and endtimestamp[i] of each rank
  summary,    \* what ComputeSummary of each rank read
  handed      \* history: what DequeueFromQ returned to the server

network == <<requests, answers>>
rings   == <<incoming, results>>
report  == <<samples, summary>>
locals  == <<count, counter, source, handed>>
vars    == <<eager, pc, network, locals, rings, report>>

-----------------------------------------------------------------------------
(* xtaskqueue.c                                                            *)

EmptyQueue == [head |-> -1, tail |-> -1, data |-> [s \in 0 .. MaxSize - 1 |-> 0]]

EnqueueToQ(q, elem) ==
  [q EXCEPT !.tail = @ + 1, !.data[(q.tail + 1) % MaxSize] = elem]

isQueueEmpty(q) == q.head = q.tail

\* The slot DequeueFromQ would wait for, and the ring once it has taken it.
Target(q) == q.data[(q.head + 1) % MaxSize]

Dequeued(q) == [q EXCEPT !.head = @ + 1, !.data[(q.head + 1) % MaxSize] = 0]

-----------------------------------------------------------------------------
(* main                                                                    *)

Goto(r, step) == pc' = [pc EXCEPT ![r] = step]

\* The timestamp arrays are fresh from malloc.
Init ==
  /\ eager \in BOOLEAN
  /\ pc = [r \in Ranks |-> "fill"]
  /\ requests = [w \in Workers |-> <<>>]
  /\ answers = [w \in Workers |-> <<>>]
  /\ count = [r \in Ranks |-> 0]
  /\ counter = 0
  /\ source = Server
  /\ incoming = [r \in Ranks |-> EmptyQueue]
  /\ results = [r \in Ranks |-> EmptyQueue]
  /\ samples = [r \in Ranks |-> [i \in 0 .. NumSamples - 1 |-> "unset"]]
  /\ summary = [r \in Ranks |-> {}]
  /\ handed = <<>>

\* for (i = 0; ...) EnqueueToQ(i + 1, &incoming): every rank fills its ring.  A
\* pass is a step; the loop index i is the ring's tail + 1.
Fill(r) ==
  /\ pc[r] = "fill"
  /\ incoming[r].tail + 1 < Tasks
  /\ incoming' = [incoming EXCEPT ![r] = EnqueueToQ(@, @.tail + 2)]
  /\ UNCHANGED <<eager, pc, network, locals, results, report>>

Filled(r) ==
  /\ pc[r] = "fill"
  /\ incoming[r].tail + 1 >= Tasks
  /\ Goto(r, "start")
  /\ UNCHANGED <<eager, network, locals, rings, report>>

\* The first MPI_Barrier; a worker then takes its start timestamp.
Start(r) ==
  /\ pc[r] = "start"
  /\ \A q \in Ranks : pc[q] # "fill"
  /\ IF r = Server
     THEN Goto(r, "receive") /\ UNCHANGED samples
     ELSE Goto(r, "send") /\ samples' = [samples EXCEPT ![r][0] = "start"]
  /\ UNCHANGED <<eager, network, locals, rings, summary>>

\* The second MPI_Barrier.
Finish(r) ==
  /\ pc[r] = "finish"
  /\ \A q \in Ranks : pc[q] \in {"finish", "summary", "done"}
  /\ Goto(r, "summary")
  /\ UNCHANGED <<eager, network, locals, rings, report>>

\* LATENCY: every rank sums up entries 0 .. NUM_SAMPLES - 1 of its arrays.
ComputeSummary(r) ==
  /\ pc[r] = "summary"
  /\ summary' = [summary EXCEPT ![r] = Range(samples[r])]
  /\ Goto(r, "done")
  /\ UNCHANGED <<eager, network, locals, rings, samples>>

-----------------------------------------------------------------------------
(* worker                                                                  *)

Send(w) ==
  /\ pc[w] = "send"
  /\ count[w] < NumSamples
  /\ requests' = [requests EXCEPT ![w] = Append(@, count[w])]
  /\ Goto(w, "sending")
  /\ UNCHANGED <<eager, answers, locals, rings, report>>

Sent(w) ==
  /\ pc[w] = "sending"
  /\ eager \/ requests[w] = <<>>
  /\ Goto(w, "wait")
  /\ UNCHANGED <<eager, network, locals, rings, report>>

\* Faulty variant: waits for a message from a rank that sends none.
WaitForOther(w) == pc[w] = "wait" /\ UNCHANGED vars

Wait(w) ==
  /\ pc[w] = "wait"
  /\ answers[w] # <<>>
  /\ count' = [count EXCEPT ![w] = Head(answers[w])]
  /\ answers' = [answers EXCEPT ![w] = Tail(@)]
  /\ Goto(w, "store")
  /\ UNCHANGED <<eager, requests, counter, source, handed, rings, report>>

\* Faulty variant: the result is stored before count is moved.
StoreFirst(w) ==
  /\ pc[w] = "store"
  /\ count' = [count EXCEPT ![w] = @ + 1]
  /\ results' = [results EXCEPT ![w] = EnqueueToQ(@, count[w])]
  /\ Goto(w, "send")
  /\ UNCHANGED <<eager, network, counter, source, handed, incoming, report>>

\* count++; EnqueueToQ(count, &results)
Store(w) ==
  /\ pc[w] = "store"
  /\ count' = [count EXCEPT ![w] = @ + 1]
  /\ results' = [results EXCEPT ![w] = EnqueueToQ(@, count[w] + 1)]
  /\ Goto(w, "send")
  /\ UNCHANGED <<eager, network, counter, source, handed, incoming, report>>

\* The loop of worker is over; main takes the end timestamp.
Leave(w) ==
  /\ pc[w] = "send"
  /\ count[w] >= NumSamples
  /\ samples' = [samples EXCEPT ![w][0] = "both"]
  /\ Goto(w, "finish")
  /\ UNCHANGED <<eager, network, locals, rings, summary>>

worker(w) == Send(w) \/ Sent(w) \/ Wait(w) \/ Store(w) \/ Leave(w)

-----------------------------------------------------------------------------
(* server                                                                  *)

\* MPI_Recv from any source
Receive ==
  /\ pc[Server] = "receive"
  /\ counter < Tasks
  /\ \E w \in Workers :
       /\ requests[w] # <<>>
       /\ count' = [count EXCEPT ![Server] = Head(requests[w])]
       /\ requests' = [requests EXCEPT ![w] = Tail(@)]
       /\ source' = w
  /\ Goto(Server, "take")
  /\ UNCHANGED <<eager, answers, counter, handed, rings, report>>

\* DequeueFromQ(&incoming): -1 when empty, else it waits until the slot is set.
Take ==
  LET q == incoming[Server] IN
  /\ pc[Server] = "take"
  /\ isQueueEmpty(q) \/ Target(q) # 0
  /\ handed' = Append(handed, IF isQueueEmpty(q) THEN -1 ELSE Target(q))
  /\ incoming' = [incoming EXCEPT ![Server] =
                    IF isQueueEmpty(q) THEN q ELSE Dequeued(q)]
  /\ Goto(Server, "answer")
  /\ UNCHANGED <<eager, network, count, counter, source, results, report>>

\* Faulty variant: the answer goes to whoever asks, not to who has asked.
AnswerAny ==
  /\ pc[Server] = "answer"
  /\ \E w \in Workers :
       answers' = [answers EXCEPT ![w] = Append(@, count[Server])]
  /\ Goto(Server, "answering")
  /\ UNCHANGED <<eager, requests, locals, rings, report>>

\* MPI_Send to the source of the request
Answer ==
  /\ pc[Server] = "answer"
  /\ answers' = [answers EXCEPT ![source] = Append(@, count[Server])]
  /\ Goto(Server, "answering")
  /\ UNCHANGED <<eager, requests, locals, rings, report>>

\* Faulty variant: the counter starts anew with every source.
AnsweredPerSource ==
  /\ pc[Server] = "answering"
  /\ eager \/ answers[source] = <<>>
  /\ counter' = count[Server] + 1
  /\ Goto(Server, "receive")
  /\ UNCHANGED <<eager, network, count, source, handed, rings, report>>

Answered ==
  /\ pc[Server] = "answering"
  /\ eager \/ answers[source] = <<>>
  /\ counter' = counter + 1
  /\ Goto(Server, "receive")
  /\ UNCHANGED <<eager, network, count, source, handed, rings, report>>

\* The loop of server is over.
Stop ==
  /\ pc[Server] = "receive"
  /\ counter >= Tasks
  /\ Goto(Server, "finish")
  /\ UNCHANGED <<eager, network, locals, rings, report>>

server == Receive \/ Take \/ Answer \/ Answered \/ Stop

-----------------------------------------------------------------------------
Rank(r) == Fill(r) \/ Filled(r) \/ Start(r) \/ Finish(r) \/ ComputeSummary(r)

Finished == \A r \in Ranks : pc[r] = "done"

\* MPI_Finalize has returned everywhere.
Terminated == Finished /\ UNCHANGED vars

Next ==
  \/ \E r \in Ranks : Rank(r)
  \/ \E w \in Workers : worker(w)
  \/ server
  \/ Terminated

Spec == Init /\ [][Next]_vars

\* Every rank is a process of its own, and MPI delivers what has been sent.
FairSpec ==
  /\ Spec
  /\ \A r \in Ranks : WF_vars(Rank(r))
  /\ \A w \in Workers : WF_vars(worker(w))
  /\ WF_vars(server)

-----------------------------------------------------------------------------
Queue == [head : -1 .. Tasks - 1, tail : -1 .. Tasks - 1,
          data : [0 .. MaxSize - 1 -> 0 .. Tasks]]

\* The locals, messages and rings of main.c, within the bounds of their arrays.
TypeOK ==
  /\ eager \in BOOLEAN
  /\ pc \in [Ranks -> {"fill", "start", "send", "sending", "wait", "store",
                       "receive", "take", "answer", "answering",
                       "finish", "summary", "done"}]
  /\ requests \in [Workers -> Seq(0 .. NumSamples - 1)]
  /\ answers \in [Workers -> Seq(0 .. NumSamples - 1)]
  /\ count \in [Ranks -> 0 .. NumSamples]
  /\ counter \in 0 .. Tasks
  /\ source \in Ranks
  /\ incoming \in [Ranks -> Queue]
  /\ results \in [Ranks -> Queue]
  /\ samples \in [Ranks -> [0 .. NumSamples - 1 -> {"unset", "start", "both"}]]
  /\ summary \in [Ranks -> SUBSET {"unset", "start", "both"}]
  /\ handed \in Seq(0 .. Tasks \cup {-1})

\* The server works on the request of worker w, from its MPI_Recv to its MPI_Send.
Serving(w) == pc[Server] \in {"take", "answer"} /\ source = w

\* Where the one message of worker w is: on its way to the server, with the
\* server, on its way back, or nowhere.
InRequest(w) ==
  requests[w] = <<count[w]>> /\ ~Serving(w) /\ answers[w] = <<>>
InServer(w) ==
  requests[w] = <<>> /\ Serving(w) /\ count[Server] = count[w] /\ answers[w] = <<>>
InAnswer(w) ==
  requests[w] = <<>> /\ ~Serving(w) /\ answers[w] = <<count[w]>>
Nowhere(w) ==
  requests[w] = <<>> /\ ~Serving(w) /\ answers[w] = <<>>

\* Request and answer belong together (main.c:83-87, :99-101): as long as a
\* worker waits there is exactly one message for it, and it carries what the
\* worker sent; a worker that does not wait has none.
OneMessage ==
  \A w \in Workers : IF pc[w] \in {"sending", "wait"}
                      THEN InRequest(w) \/ InServer(w) \/ InAnswer(w)
                      ELSE Nowhere(w)

\* Within the bounds of main.c's arrays and rings, requests and answers belong
\* together, whether MPI_Send blocks or not.
Exchange == TypeOK /\ OneMessage

\* Answers given to worker w: those it has counted and the one it has yet to
\* count.
AnsweredTo(w) ==
  count[w] + Len(answers[w]) + (IF pc[w] = "store" THEN 1 ELSE 0)
AllAnswered == {x \in Workers \X (1 .. NumSamples) : x[2] <= AnsweredTo(x[1])}

\* The server stops after NUM_SAMPLES * (world_size - 1) answers whoever they
\* went to: its counter is the number of all that the workers have got, so that
\* it never stops before the last of them.
ServerCounts ==
  counter + (IF pc[Server] = "answering" THEN 1 ELSE 0) = Cardinality(AllAnswered)

\* Every task put into the server's ring is handed out once, in order, and
\* DequeueFromQ never finds the ring empty, even when it is filled to the brim.
TasksOnce == handed = [n \in 1 .. Len(handed) |-> n]

\* The server hands out its tasks in order, and when all ranks are through the
\* second barrier no message is left, the server's
\* ring is empty, and every worker's result ring holds 1 .. NUM_SAMPLES in order.
Complete ==
  /\ TasksOnce
  /\ (\E r \in Ranks : pc[r] \in {"summary", "done"}) =>
       /\ isQueueEmpty(incoming[Server])
       /\ \A w \in Workers :
            /\ requests[w] = <<>> /\ answers[w] = <<>>
            /\ results[w].tail = NumSamples - 1
            /\ \A i \in 1 .. NumSamples : results[w].data[i - 1] = i

\* "compute the elapsed time per invocation" (main.c:57): the summary is made of
\* timestamps that have been taken.
SummaryOfSamples == \A r \in Ranks : pc[r] = "done" => summary[r] = {"both"}

\* All ranks get to MPI_Finalize, whether MPI_Send blocks or not.
Termination == <>Finished
=============================================================================
