------------------------------ MODULE Foreman ------------------------------
(***************************************************************************)
(* The single-node scheduler above the query managers: ForemanSingleNode   *)
(* (the event loop and the dispatch of work orders), PolicyEnforcerBase    *)
(* and PolicyEnforcerSingleNode (admission and removal of queries),        *)
(* WorkerDirectory (the load of each worker), the worker threads, and the  *)
(* main thread that asks for queries and waits for their completion.       *)
(*                                                                         *)
(* A query manager is abstracted to what QueryManager shows it to do: its  *)
(* work orders become ready stage by stage, each stage when the work       *)
(* orders of the earlier ones have completed or, for a streaming consumer, *)
(* when a block arrives.                                                   *)
(***************************************************************************)
EXTENDS Integers, Sequences, FiniteSets

CONSTANTS
    NumWorkers,  \* worker threads, indexed 0 .. NumWorkers - 1
    Queries,
    Stages,      \* Stages[q]: number of work orders in each stage of query q
    Script,      \* the admit requests of the main thread, sequences of queries
    Patient,     \* the main thread waits for the completion of a request
                 \* before it sends the next, as QuickstepCli does
    MinLoad,     \* FLAGS_min_load_per_worker
    MaxRound     \* FLAGS_max_msgs_per_dispatch_round

ASSUME WorkersAssumption == NumWorkers \in Nat \ {0}
ASSUME QueriesAssumption ==
    /\ Stages \in [Queries -> Seq(Nat \ {0})]
    /\ Script \in Seq(Seq(Queries))
ASSUME FlagsAssumption ==
    MinLoad \in Nat /\ MaxRound \in Nat \ {0} /\ Patient \in BOOLEAN

Workers == 0 .. NumWorkers - 1
kMaxConcurrentQueries == 1

VARIABLES
    script,    \* the requests the main thread has yet to send
    awaiting,  \* the main thread has sent a request and no completion since
    signals,   \* completion messages the main thread has not received
    mail,      \* messages of the main thread the foreman has not received
    pc,        \* what the foreman thread does next
    pe,        \* the policy enforcer's memory, see PEType
    outbox,    \* worker messages collected and not yet dispatched
    load,      \* num_queued_workorders_ of the WorkerDirectory
    queue,     \* messages to each worker
    chan       \* messages of each worker to the foreman

main == <<script, awaiting, signals>>
vars == <<script, awaiting, signals, mail, pc, pe, outbox, load, queue, chan>>

(***************************************************************************)
(*   admitted  admitted_queries_                                           *)
(*   ready     work orders the managers' containers hold                   *)
(*   out       work orders dispatched and not reported complete            *)
(*   stages    the stages that have not become ready                       *)
(*   waiting   waiting_queries_                                            *)
(*   removed   removed_query_ids_                                          *)
(***************************************************************************)
PEType ==
    [admitted : SUBSET Queries,
     ready    : [Queries -> Nat],
     out      : [Queries -> Int],
     stages   : [Queries -> Seq(Nat \ {0})],
     waiting  : Seq(Queries),
     removed  : SUBSET Queries]

Poison == [type |-> "poison"]
MainMessage   == [type : {"admit"}, queries : Seq(Queries)] \cup {Poison}
WorkerMessage == [type : {"workOrder"}, query : Queries] \cup {Poison}
Report == [type : {"newBlock", "pipeline", "feedback", "complete"}, query : Queries]

-----------------------------------------------------------------------------
(* The policy enforcer, on a memory e *)

hasQueries(e) == e.admitted # {} \/ e.waiting # <<>>

\* The next stage of query q, if there is one, becomes ready.
Release(e, q) ==
    IF e.stages[q] = <<>> THEN e
    ELSE [e EXCEPT !.ready[q] = @ + Head(e.stages[q]), !.stages[q] = Tail(@)]

\* Mutant: does not wait for the work orders that are at the workers.
FinishedIgnoresOut(e, q) == e.ready[q] = 0 /\ e.stages[q] = <<>>

hasQueryExecutionFinished(e, q) ==
    e.ready[q] = 0 /\ e.out[q] = 0 /\ e.stages[q] = <<>>

canAdmit(e, q) == Cardinality(e.admitted) < kMaxConcurrentQueries /\ q \notin e.admitted

admitQuery(e, q) ==
    IF Cardinality(e.admitted) < kMaxConcurrentQueries
    THEN IF q \in e.admitted
         THEN e
         ELSE Release([e EXCEPT !.admitted = @ \cup {q}, !.ready[q] = 0,
                                !.out[q] = 0, !.stages[q] = Stages[q]], q)
    ELSE [e EXCEPT !.waiting = Append(@, q)]

removeQuery(e, q) == [e EXCEPT !.admitted = @ \ {q}, !.removed = @ \cup {q}]

\* Mutant: the earliest waiting query is not admitted.
RemoveAdmitsNobody(e, q) ==
    IF hasQueryExecutionFinished(e, q) THEN removeQuery(e, q) ELSE e

\* The end of processMessage(): the query is removed once it has executed, and
\* the earliest waiting query takes its place.
removeIfExecuted(e, q) ==
    IF ~hasQueryExecutionFinished(e, q) THEN e
    ELSE LET r == removeQuery(e, q)
         IN  IF r.waiting = <<>> THEN r
             ELSE admitQuery([r EXCEPT !.waiting = Tail(@)], Head(r.waiting))

-----------------------------------------------------------------------------
(* The worker directory *)

isLeastLoaded(w) ==
    /\ \A v \in Workers : load[w] <= load[v]
    /\ \A v \in Workers : load[v] = load[w] => w <= v

\* Mutant: also collects after messages that bring no work.
CollectsAlways(type, l) == TRUE

\* canCollectNewMessages(), l being the loads after the message was processed.
canCollectNewMessages(type, l) ==
    /\ type \notin {"newBlock", "feedback"}
    /\ \E w \in Workers : l[w] <= MinLoad

AfterMessage(type, l) == IF canCollectNewMessages(type, l) THEN "collect" ELSE "signal"

-----------------------------------------------------------------------------
Init ==
    /\ script = Script
    /\ awaiting = FALSE
    /\ signals = 0
    /\ mail = <<>>
    /\ pc = "receive"
    /\ pe = [admitted |-> {}, ready |-> [q \in Queries |-> 0],
             out |-> [q \in Queries |-> 0], stages |-> Stages,
             waiting |-> <<>>, removed |-> {}]
    /\ outbox = <<>>
    /\ load = [w \in Workers |-> 0]
    /\ queue = [w \in Workers |-> <<>>]
    /\ chan = [w \in Workers |-> <<>>]

-----------------------------------------------------------------------------
(* The main thread *)

sendAdmitRequest ==
    /\ script # <<>>
    /\ Patient => ~awaiting
    /\ mail' = Append(mail, [type |-> "admit", queries |-> Head(script)])
    /\ script' = Tail(script)
    /\ awaiting' = TRUE
    /\ UNCHANGED <<signals, pc, pe, outbox, load, queue, chan>>

receiveQueryCompletion ==
    /\ awaiting /\ signals > 0
    /\ signals' = signals - 1
    /\ awaiting' = FALSE
    /\ UNCHANGED <<script, mail, pc, pe, outbox, load, queue, chan>>

\* The client quits: every thread is sent the poison message.
broadcastPoison ==
    /\ script = <<>> /\ Patient /\ ~awaiting
    /\ Poison \notin {mail[i] : i \in DOMAIN mail}
    /\ pc # "exited"
    /\ mail' = Append(mail, Poison)
    /\ queue' = [w \in Workers |-> Append(queue[w], Poison)]
    /\ UNCHANGED <<main, pc, pe, outbox, load, chan>>

-----------------------------------------------------------------------------
(* The foreman thread *)

receiveAdmitRequest ==
    /\ pc = "receive"
    /\ mail # <<>> /\ Head(mail).type = "admit"
    /\ pc' = "admit"
    /\ UNCHANGED <<main, mail, pe, outbox, load, queue, chan>>

\* One iteration of admitQueries(), which stops at the first query that cannot
\* be admitted now.
admitNext ==
    /\ pc = "admit"
    /\ LET qs == Head(mail).queries
           more == qs # <<>> /\ canAdmit(pe, Head(qs)) /\ Len(qs) > 1
       IN  /\ pe' = IF qs = <<>> THEN pe ELSE admitQuery(pe, Head(qs))
           /\ mail' = IF more
                      THEN [mail EXCEPT ![1] = [type |-> "admit", queries |-> Tail(qs)]]
                      ELSE Tail(mail)
           /\ pc' = IF more THEN "admit" ELSE AfterMessage("admit", load)
    /\ UNCHANGED <<main, outbox, load, queue, chan>>

receivePoison ==
    /\ pc = "receive"
    /\ mail # <<>> /\ Head(mail) = Poison
    /\ mail' = Tail(mail)
    /\ pc' = "exited"
    /\ UNCHANGED <<main, pe, outbox, load, queue, chan>>

\* The first message of worker w, of the given type, is taken off the bus.
Receives(w, type) ==
    /\ pc = "receive"
    /\ chan[w] # <<>>
    /\ Head(chan[w]).type = type
    /\ chan' = [chan EXCEPT ![w] = Tail(@)]
    /\ UNCHANGED <<main, mail, outbox, queue>>

\* A normal or a rebuild work order has completed.
processWorkOrderComplete(w) ==
    /\ Receives(w, "complete")
    /\ load' = [load EXCEPT ![w] = @ - 1]
    /\ LET q == Head(chan[w]).query
           e == [pe EXCEPT !.out[q] = @ - 1]
           f == IF e.ready[q] = 0 /\ e.out[q] = 0 THEN Release(e, q) ELSE e
       IN  pe' = removeIfExecuted(f, q)
    /\ pc' = AfterMessage("complete", load')

processDataPipeline(w) ==
    /\ Receives(w, "pipeline")
    /\ LET q == Head(chan[w]).query
       IN  \E e \in {pe, Release(pe, q)} : pe' = removeIfExecuted(e, q)
    /\ load' = load
    /\ pc' = AfterMessage("pipeline", load)

\* Feedback is stored by the operator and makes nothing ready by itself.
processFeedback(w) ==
    /\ Receives(w, "feedback")
    /\ pe' = removeIfExecuted(pe, Head(chan[w]).query)
    /\ load' = load
    /\ pc' = AfterMessage("feedback", load)

\* The block is added to the catalog; no query is looked at.
processNewBlock(w) ==
    /\ Receives(w, "newBlock")
    /\ pe' = pe
    /\ load' = load
    /\ pc' = AfterMessage("newBlock", load)

Times(n, q) == [i \in 1 .. n |-> q]

\* Mutant: takes a full share whether or not so many work orders are ready.
CollectUnchecked ==
    /\ pc = "collect"
    /\ \E q \in pe.admitted :
         /\ outbox' = Times(MaxRound, q)
         /\ pe' = [pe EXCEPT !.ready[q] = @ - MaxRound, !.out[q] = @ + MaxRound]
    /\ pc' = "dispatch"
    /\ UNCHANGED <<main, mail, load, queue, chan>>

\* The loop over the admitted queries, of which there is at most one: it takes
\* the whole round as its share, and is removed when it has executed.
getWorkerMessages ==
    /\ pc = "collect"
    /\ \/ /\ pe.admitted = {}
          /\ UNCHANGED <<pe, outbox>>
       \/ \E q \in pe.admitted :
            LET share == MaxRound \div kMaxConcurrentQueries
                n == IF pe.ready[q] < share THEN pe.ready[q] ELSE share
                e == [pe EXCEPT !.ready[q] = @ - n, !.out[q] = @ + n]
            IN  /\ outbox' = Times(n, q)
                /\ pe' = IF n < share /\ hasQueryExecutionFinished(e, q)
                         THEN removeQuery(e, q) ELSE e
    /\ pc' = "dispatch"
    /\ UNCHANGED <<main, mail, load, queue, chan>>

\* One iteration of dispatchWorkerMessages().  No message carries a hint.
dispatchWorkerMessage ==
    /\ pc = "dispatch" /\ outbox # <<>>
    /\ \E w \in Workers :
         /\ isLeastLoaded(w)
         /\ queue' = [queue EXCEPT ![w] =
                        Append(@, [type |-> "workOrder", query |-> Head(outbox)])]
         /\ load' = [load EXCEPT ![w] = @ + 1]
    /\ outbox' = Tail(outbox)
    /\ UNCHANGED <<main, mail, pc, pe, chan>>

\* The end of the event loop's iteration.
signalCompletion ==
    /\ pc = "signal" \/ (pc = "dispatch" /\ outbox = <<>>)
    /\ signals' = IF hasQueries(pe) THEN signals ELSE signals + 1
    /\ pc' = "receive"
    /\ UNCHANGED <<script, awaiting, mail, pe, outbox, load, queue, chan>>

-----------------------------------------------------------------------------
(* The worker threads *)

\* Whatever a work order sends while it executes precedes its completion.
Reports(q) ==
    {<<>>} \cup {<<[type |-> t, query |-> q]>> : t \in {"newBlock", "pipeline", "feedback"}}

\* A worker that finds the poison message returns, and stays behind it.
executeWorkOrder(w) ==
    /\ queue[w] # <<>> /\ Head(queue[w]).type = "workOrder"
    /\ queue' = [queue EXCEPT ![w] = Tail(@)]
    /\ LET q == Head(queue[w]).query
       IN  \E r \in Reports(q) :
             chan' = [chan EXCEPT ![w] = @ \o Append(r, [type |-> "complete", query |-> q])]
    /\ UNCHANGED <<main, mail, pc, pe, outbox, load>>

-----------------------------------------------------------------------------
ForemanStep ==
    \/ receiveAdmitRequest \/ admitNext \/ receivePoison
    \/ \E w \in Workers :
         \/ processWorkOrderComplete(w)
         \/ processDataPipeline(w)
         \/ processFeedback(w)
         \/ processNewBlock(w)
    \/ getWorkerMessages \/ dispatchWorkerMessage \/ signalCompletion

MainStep == sendAdmitRequest \/ receiveQueryCompletion \/ broadcastPoison

\* Every thread has returned.
Terminated ==
    /\ pc = "exited"
    /\ \A w \in Workers : queue[w] # <<>> /\ Head(queue[w]) = Poison
    /\ UNCHANGED vars

Next ==
    \/ MainStep
    \/ ForemanStep
    \/ \E w \in Workers : executeWorkOrder(w)
    \/ Terminated

Spec == Init /\ [][Next]_vars

\* The foreman and the workers are threads the system always lets run; nothing
\* is assumed of the main thread, which waits for its user.
FairSpec ==
    /\ Spec
    /\ WF_vars(ForemanStep)
    /\ \A w \in Workers : WF_vars(executeWorkOrder(w))

-----------------------------------------------------------------------------
(* Properties *)

\* Every variable keeps its type.
TypeOK ==
    /\ script \in Seq(Seq(Queries)) /\ awaiting \in BOOLEAN /\ signals \in Int
    /\ mail \in Seq(MainMessage)
    /\ pc \in {"receive", "admit", "collect", "dispatch", "signal", "exited"}
    /\ pe \in PEType
    /\ outbox \in Seq(Queries)
    /\ load \in [Workers -> Int]
    /\ queue \in [Workers -> Seq(WorkerMessage)]
    /\ chan \in [Workers -> Seq(Report)]

Count(s, type) == Cardinality({i \in DOMAIN s : s[i].type = type})
InSeq(s) == {s[i] : i \in DOMAIN s}
Asked(s) == UNION {InSeq(s[i]) : i \in DOMAIN s}

\* The queries named by admit requests that the foreman has not taken up.
InMail == UNION {InSeq(m.queries) : m \in {x \in InSeq(mail) : x.type = "admit"}}

(***************************************************************************)
(* The loads the dispatch decides on are the work orders a worker really   *)
(* has, or has completed without the foreman knowing, so the DEBUG_ASSERT  *)
(* of decrementNumQueuedWorkOrders() holds.                                *)
(***************************************************************************)
LoadsExact ==
    \A w \in Workers :
        load[w] = Count(queue[w], "workOrder") + Count(chan[w], "complete")

(***************************************************************************)
(* No worker is ever given more than MinLoad + MaxRound work orders: a     *)
(* round is collected only while the least loaded worker has at most       *)
(* MinLoad, and each message of it goes to the least loaded worker.        *)
(***************************************************************************)
LoadBounded == \A w \in Workers : load[w] <= MinLoad + MaxRound

(***************************************************************************)
(* Whatever is under way belongs to an admitted query: a message for a     *)
(* removed one would fail the DCHECKs of processMessage() and then         *)
(* dereference a null query manager.                                       *)
(***************************************************************************)
MessagesOfAdmitted ==
    /\ InSeq(outbox) \subseteq pe.admitted
    /\ \A w \in Workers :
         /\ \A m \in InSeq(queue[w]) : m.type = "workOrder" => m.query \in pe.admitted
         /\ \A m \in InSeq(chan[w]) : m.query \in pe.admitted

(***************************************************************************)
(* A query that was asked for is never dropped: it is still to be taken    *)
(* up, admitted, waiting, or executed.                                     *)
(***************************************************************************)
NoQueryLost ==
    Asked(Script) \subseteq
        Asked(script) \cup InMail \cup pe.admitted \cup InSeq(pe.waiting) \cup pe.removed

(***************************************************************************)
(* The main thread is told of the completion of a request at most once,    *)
(* and only when everything it has asked for has executed: the message has *)
(* no content, so a surplus one would answer the next request.             *)
(***************************************************************************)
CompletionMeansExecuted ==
    signals > 0 => signals = 1 /\ awaiting
                   /\ Asked(Script) \subseteq Asked(script) \cup pe.removed

(***************************************************************************)
(* The foreman and the workers are poisoned only when no work order, no    *)
(* report and no query is left behind.                                     *)
(***************************************************************************)
NothingAbandoned ==
    (pc = "exited" \/ \E w \in Workers : Poison \in InSeq(queue[w])) =>
        /\ ~hasQueries(pe)
        /\ \A w \in Workers : Count(queue[w], "workOrder") = 0 /\ chan[w] = <<>>

(***************************************************************************)
(* While the foreman sleeps, ready work orders never wait for nothing: some *)
(* worker still has a work order whose completion will wake it.            *)
(***************************************************************************)
NoStall ==
    pc = "receive" /\ (\E q \in pe.admitted : pe.ready[q] > 0)
        => \E w \in Workers : load[w] > 0

(***************************************************************************)
(* What foreman and policy enforcer believe is so: the loads are those of  *)
(* the workers, whatever is on the way is about an admitted query, no      *)
(* query is dropped or left behind at the end, and the foreman does not    *)
(* sleep on ready work.                                                    *)
(***************************************************************************)
SchedulerExact ==
    /\ TypeOK /\ LoadsExact /\ MessagesOfAdmitted
    /\ NoQueryLost /\ NothingAbandoned /\ NoStall

\* Every query the main thread has asked for is executed and removed.
EveryQueryExecutes == \A q \in Queries : (q \in InMail) ~> (q \in pe.removed)
=============================================================================
