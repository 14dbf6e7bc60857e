------------------------- MODULE ForemanDistributed -------------------------
(***************************************************************************)
(* The distributed scheduler: ForemanDistributed (the event loop, the      *)
(* directory of shiftbosses), PolicyEnforcerDistributed (admission,        *)
(* completion), QueryManagerDistributed (rebuilds that are counted on      *)
(* another machine), the shiftbosses, which keep a query context per query *)
(* and relay messages, and their workers.                                  *)
(*                                                                         *)
(* Each query is a chain of operators linked by pipeline breakers, so that *)
(* one operator of a query is active at a time; QueryManager has the       *)
(* general DAG.  A handler of the foreman is a function on its memory, the *)
(* messages it sends being collected in the component "out".               *)
(***************************************************************************)
EXTENDS Integers, Sequences, SequencesExt, FiniteSets, FiniteSetsExt

CONSTANTS
    Bosses,      \* the shiftbosses
    Late,        \* those that may register while queries are executing
    NumWorkers,  \* worker threads of each shiftboss, indexed from 0
    Queries,     \* each is asked for by a client of its own
    Ops,         \* Ops[q]: the chain of q, a sequence of [work, dest] records
    Result,      \* the queries that have a result relation
    MaxPartial,  \* bound: partially filled blocks of one InsertDestination
    MaxRound     \* FLAGS_max_msgs_per_dispatch_round

ASSUME BossesAssumption == Late \subseteq Bosses /\ Bosses \ Late # {}
ASSUME QueriesAssumption ==
    /\ Ops \in [Queries -> Seq([work : Nat, dest : BOOLEAN])]
    /\ Result \subseteq Queries
ASSUME BoundsAssumption ==
    NumWorkers \in Nat \ {0} /\ MaxPartial \in Nat /\ MaxRound \in Nat \ {0}

kMaxConcurrentQueries == 1
Workers == Bosses \X (0 .. NumWorkers - 1)

VARIABLES
    asked,       \* queries whose client has sent its admit request
    mail,        \* messages of the clients the foreman has not received
    exited,      \* the foreman has received the poison message
    fm,          \* the foreman's memory, see ForemanType
    boss,        \* memory of each shiftboss
    toBoss,      \* messages of the foreman to each shiftboss
    toForeman,   \* messages of each shiftboss to the foreman
    queue,       \* messages of the shiftboss to each worker
    reports      \* messages of each worker to its shiftboss

vars == <<asked, mail, exited, fm, boss, toBoss, toForeman, queue, reports>>

(***************************************************************************)
(*   dir        client_ids_ of the ShiftbossDirectory, by index            *)
(*   load       num_queued_work_orders_ of the ShiftbossDirectory          *)
(*   admitted   admitted_queries_        waiting   waiting_queries_        *)
(*   removed    removed_query_ids_                                         *)
(*   cur        the active operator; past the chain when q has executed    *)
(*   ready      its work orders in normal_workorder_protos_container_      *)
(*   queued     its queued_workorders_per_op_                              *)
(*   initiated, rebuilds   its rebuild_status_, -1: to be determined       *)
(*   saved      query_result_saved_shiftbosses_                            *)
(*   told       success messages sent to the client of the query           *)
(*   out        messages sent by the handler that is running               *)
(***************************************************************************)
ForemanType ==
    [dir : Seq(Bosses), load : Seq(Int),
     admitted : SUBSET Queries, waiting : Seq(Queries), removed : SUBSET Queries,
     cur : [Queries -> Nat], ready : [Queries -> Nat], queued : [Queries -> Int],
     initiated : [Queries -> BOOLEAN], rebuilds : [Queries -> Int],
     saved : [Queries -> SUBSET Nat], told : [Queries -> Nat],
     out : {[s \in Bosses |-> <<>>]}]

BossType == [index : Int, ctx : SUBSET Queries, start : 0 .. NumWorkers - 1, up : BOOLEAN]

Msg(type, q) == [type |-> type, query |-> q, arg |-> 0]
MsgWith(type, q, n) == [type |-> type, query |-> q, arg |-> n]
Poison == [type |-> "poison"]

NoMessages == [s \in Bosses |-> <<>>]
OneOf(S) == CHOOSE x \in S : TRUE

-----------------------------------------------------------------------------
(* What a handler of the foreman sends *)

broadcast(e, m) ==
    [e EXCEPT !.out = [s \in Bosses |-> IF s \in ToSet(e.dir)
                                        THEN Append(e.out[s], m) ELSE e.out[s]]]

sendTo(e, i, m) == [e EXCEPT !.out[e.dir[i]] = Append(@, m)]

-----------------------------------------------------------------------------
(* The query manager *)

hasQueryExecutionFinished(e, q) == e.cur[q] > Len(Ops[q])

initiateRebuild(e, q) ==
    [sendTo(e, 1, MsgWith("initiateRebuild", q, e.cur[q])) EXCEPT
        !.initiated[q] = TRUE, !.rebuilds[q] = -1]

\* Operator j of q becomes the active one and generates its work orders.
fetchNormalWorkOrders(e, q, j) ==
    [e EXCEPT !.cur[q] = j, !.queued[q] = 0,
              !.ready[q] = IF j \in DOMAIN Ops[q] THEN Ops[q][j].work ELSE 0,
              !.initiated[q] = FALSE, !.rebuilds[q] = 0]

\* n work orders of q are taken out of the container.
getNextWorkOrderMessages(e, q, n) ==
    [e EXCEPT !.ready[q] = @ - n, !.queued[q] = @ + n]

\* The operators of q from i on are processed: those without work orders and
\* without an InsertDestination finish at once.
processOperator(e, q, i) ==
    LET todo == {j \in i .. Len(Ops[q]) : Ops[q][j].work > 0 \/ Ops[q][j].dest}
        f == fetchNormalWorkOrders(e, q, Min(todo \cup {Len(Ops[q]) + 1}))
    IN  IF todo # {} /\ f.ready[q] = 0 THEN initiateRebuild(f, q) ELSE f

\* Mutant: does not wait for the work orders at the shiftboss.
CompleteIgnoresQueued(e, q) ==
    LET f == [e EXCEPT !.queued[q] = @ - 1]
    IN  IF f.ready[q] > 0 THEN f
        ELSE IF Ops[q][f.cur[q]].dest THEN initiateRebuild(f, q)
        ELSE processOperator(f, q, f.cur[q] + 1)

processWorkOrderCompleteMessage(e, q) ==
    LET f == [e EXCEPT !.queued[q] = @ - 1]
    IN  IF f.ready[q] > 0 \/ f.queued[q] > 0 THEN f
        ELSE IF Ops[q][f.cur[q]].dest THEN initiateRebuild(f, q)
        ELSE processOperator(f, q, f.cur[q] + 1)

processRebuildWorkOrderCompleteMessage(e, q) ==
    LET f == [e EXCEPT !.rebuilds[q] = @ - 1]
    IN  IF f.rebuilds[q] = 0 THEN processOperator(f, q, f.cur[q] + 1) ELSE f

\* The shiftboss reports that n blocks are to be rebuilt.
rebuildCounted(e, q, n) ==
    LET f == [e EXCEPT !.initiated[q] = TRUE, !.rebuilds[q] = n]
    IN  IF n # 0 THEN f ELSE processOperator(f, q, f.cur[q] + 1)

-----------------------------------------------------------------------------
(* The policy enforcer *)

initiateQueryInShiftboss(e, q) == broadcast(e, Msg("initiate", q))

\* Mutant: the query manager is constructed before the shiftbosses know of q.
AdmitBeforeInitiate(e, q) ==
    IF Cardinality(e.admitted) < kMaxConcurrentQueries
    THEN IF q \in e.admitted THEN e
         ELSE initiateQueryInShiftboss(
                  processOperator([e EXCEPT !.admitted = @ \cup {q}], q, 1), q)
    ELSE [e EXCEPT !.waiting = Append(@, q)]

admitQuery(e, q) ==
    IF Cardinality(e.admitted) < kMaxConcurrentQueries
    THEN IF q \in e.admitted THEN e
         ELSE processOperator([initiateQueryInShiftboss(e, q) EXCEPT
                                 !.admitted = @ \cup {q}], q, 1)
    ELSE [e EXCEPT !.waiting = Append(@, q)]

onQueryCompletion(e, q) ==
    IF q \in Result THEN broadcast(e, Msg("save", q))
    ELSE [broadcast(e, Msg("teardown", q)) EXCEPT !.told[q] = @ + 1]

removeQuery(e, q) == [e EXCEPT !.admitted = @ \ {q}, !.removed = @ \cup {q}]

\* Mutant: the earliest waiting query is not admitted.
EndAdmitsNobody(e, q) ==
    IF hasQueryExecutionFinished(e, q) THEN removeQuery(onQueryCompletion(e, q), q) ELSE e

\* The end of processMessage() and processInitiateRebuildResponseMessage().
removeIfExecuted(e, q) ==
    IF ~hasQueryExecutionFinished(e, q) THEN e
    ELSE LET r == removeQuery(onQueryCompletion(e, q), q)
         IN  IF r.waiting = <<>> THEN r
             ELSE admitQuery([r EXCEPT !.waiting = Tail(@)], Head(r.waiting))

processInitiateRebuildResponse(e, m, i) ==
    removeIfExecuted([rebuildCounted(e, m.query, m.arg) EXCEPT !.load[i + 1] = @ + m.arg],
                     m.query)

\* processMessage().  The argument of a completion is the worker's thread
\* index, which decrementNumQueuedWorkOrders() takes for a shiftboss index.  A
\* pipelined block has no consumer to go to: every link is a pipeline breaker.
processMessage(e, m) ==
    CASE m.type = "complete" ->
           removeIfExecuted(processWorkOrderCompleteMessage(
                                [e EXCEPT !.load[m.arg + 1] = @ - 1], m.query), m.query)
      [] m.type = "rebuildComplete" ->
           removeIfExecuted(processRebuildWorkOrderCompleteMessage(
                                [e EXCEPT !.load[m.arg + 1] = @ - 1], m.query), m.query)
      [] m.type \in {"pipeline", "feedback"} -> removeIfExecuted(e, m.query)
      [] m.type = "newBlock" -> e

\* Mutant: takes a full share whether or not so many work orders are ready.
CollectUnchecked(e) ==
    IF e.admitted = {} THEN e
    ELSE LET q == OneOf(e.admitted)
         IN  [e EXCEPT !.ready[q] = @ - MaxRound, !.queued[q] = @ + MaxRound]

\* The only query admitted has the whole round as its share.
getWorkOrderProtoMessages(e) ==
    IF e.admitted = {} THEN e
    ELSE LET q == OneOf(e.admitted)
             share == MaxRound \div Cardinality(e.admitted)
             n == Min({e.ready[q], share})
             f == [getNextWorkOrderMessages(e, q, n) EXCEPT
                            !.load[1] = @ + n,
                            !.out[e.dir[1]] = @ \o [i \in 1 .. n |-> Msg("workOrder", q)]]
         IN  IF n < share /\ hasQueryExecutionFinished(f, q)
             THEN removeQuery(onQueryCompletion(f, q), q) ELSE f

-----------------------------------------------------------------------------
(* The foreman *)

hasReachedCapacity(e, i) == e.load[i] >= NumWorkers

canCollectNewMessages(e, type) ==
    type \notin {"newBlock", "feedback"} /\ ~hasReachedCapacity(e, 1)

processShiftbossRegistration(e, s) ==
    LET f == [e EXCEPT !.dir = Append(@, s), !.load = Append(@, 0)]
    IN  [f EXCEPT !.out[s] = Append(@, [type |-> "registered", index |-> Len(e.dir)])]

processSaveQueryResultResponse(e, q, i) ==
    LET s == e.saved[q] \cup {i}
    IN  IF Cardinality(s) = Len(e.dir)
        THEN [e EXCEPT !.told[q] = @ + 1, !.saved[q] = {}]
        ELSE [e EXCEPT !.saved[q] = s]

\* The end of an iteration of the event loop: e is the memory after the message.
EndIteration(e, type) ==
    LET f == IF canCollectNewMessages(e, type) THEN getWorkOrderProtoMessages(e) ELSE e
    IN  /\ fm' = [f EXCEPT !.out = NoMessages]
        /\ toBoss' = [s \in Bosses |-> toBoss[s] \o f.out[s]]

-----------------------------------------------------------------------------
Init ==
    /\ asked = {}
    /\ mail = <<>>
    /\ exited = FALSE
    /\ fm = [dir |-> <<>>, load |-> <<>>, admitted |-> {}, waiting |-> <<>>,
             removed |-> {}, cur |-> [q \in Queries |-> 1],
             ready |-> [q \in Queries |-> 0], queued |-> [q \in Queries |-> 0],
             initiated |-> [q \in Queries |-> FALSE],
             rebuilds |-> [q \in Queries |-> 0],
             saved |-> [q \in Queries |-> {}], told |-> [q \in Queries |-> 0],
             out |-> NoMessages]
    /\ boss = [s \in Bosses |-> [index |-> -1, ctx |-> {}, start |-> 0, up |-> s \notin Late]]
    /\ toBoss = NoMessages
    /\ toForeman = [s \in Bosses |-> IF s \in Late THEN <<>> ELSE <<[type |-> "register"]>>]
    /\ queue = [w \in Workers |-> <<>>]
    /\ reports = [w \in Workers |-> <<>>]

-----------------------------------------------------------------------------
(* The clients *)

\* The clients start once the shiftbosses that are not late have registered.
sendAdmitRequest(q) ==
    /\ q \notin asked
    /\ Bosses \ Late \subseteq ToSet(fm.dir)
    /\ asked' = asked \cup {q}
    /\ mail' = Append(mail, [type |-> "admit", query |-> q])
    /\ UNCHANGED <<exited, fm, boss, toBoss, toForeman, queue, reports>>

sendPoison ==
    /\ \A q \in Queries : fm.told[q] > 0
    /\ mail = <<>> /\ ~exited
    /\ mail' = <<Poison>>
    /\ UNCHANGED <<asked, exited, fm, boss, toBoss, toForeman, queue, reports>>

-----------------------------------------------------------------------------
(* The foreman's thread *)

receiveAdmitRequest ==
    /\ ~exited
    /\ mail # <<>> /\ Head(mail).type = "admit"
    /\ mail' = Tail(mail)
    /\ EndIteration(admitQuery(fm, Head(mail).query), "admit")
    /\ UNCHANGED <<asked, exited, boss, toForeman, queue, reports>>

\* Every shiftboss that has registered is sent the poison message.
receivePoison ==
    /\ ~exited
    /\ mail # <<>> /\ Head(mail) = Poison
    /\ mail' = Tail(mail)
    /\ exited' = TRUE
    /\ toBoss' = [s \in Bosses |-> IF s \in ToSet(fm.dir)
                                   THEN Append(toBoss[s], Poison) ELSE toBoss[s]]
    /\ UNCHANGED <<asked, fm, boss, toForeman, queue, reports>>

\* The first message of shiftboss s, of one of the given types, is received.
Receives(s, types) ==
    /\ ~exited
    /\ toForeman[s] # <<>> /\ Head(toForeman[s]).type \in types
    /\ toForeman' = [toForeman EXCEPT ![s] = Tail(@)]
    /\ UNCHANGED <<asked, mail, exited, boss, queue, reports>>

receiveRegistration(s) ==
    /\ Receives(s, {"register"})
    /\ EndIteration(processShiftbossRegistration(fm, s), "register")

\* The response is checked against existQuery() and changes nothing.
receiveInitiateResponse(s) ==
    /\ Receives(s, {"initiated"})
    /\ EndIteration(fm, "initiated")

receiveReport(s) ==
    /\ Receives(s, {"newBlock", "pipeline", "feedback", "complete", "rebuildComplete"})
    /\ LET m == Head(toForeman[s]) IN EndIteration(processMessage(fm, m), m.type)

receiveInitiateRebuildResponse(s) ==
    /\ Receives(s, {"rebuildCount"})
    /\ LET m == Head(toForeman[s])
       IN  EndIteration(processInitiateRebuildResponse(fm, m, m.index), m.type)

receiveSaveQueryResultResponse(s) ==
    /\ Receives(s, {"saved"})
    /\ LET m == Head(toForeman[s])
       IN  EndIteration(processSaveQueryResultResponse(fm, m.query, m.index), m.type)

-----------------------------------------------------------------------------
(* The shiftbosses *)

\* A shiftboss that starts while the others are at work.
registerWithForeman(s) ==
    /\ s \in Late /\ ~boss[s].up /\ boss[s].index = -1
    /\ boss' = [boss EXCEPT ![s].up = TRUE]
    /\ toForeman' = [toForeman EXCEPT ![s] = Append(@, [type |-> "register"])]
    /\ UNCHANGED <<asked, mail, exited, fm, toBoss, queue, reports>>

\* The first message of the foreman, of the given type, is taken by s.
Takes(s, type) ==
    /\ boss[s].up
    /\ toBoss[s] # <<>> /\ Head(toBoss[s]).type = type
    /\ toBoss' = [toBoss EXCEPT ![s] = Tail(@)]
    /\ UNCHANGED <<asked, mail, exited, fm, reports>>

takeRegistrationResponse(s) ==
    /\ Takes(s, "registered")
    /\ boss' = [boss EXCEPT ![s].index = Head(toBoss[s]).index]
    /\ UNCHANGED <<toForeman, queue>>

processQueryInitiate(s) ==
    /\ Takes(s, "initiate")
    /\ LET q == Head(toBoss[s]).query
       IN  /\ boss' = [boss EXCEPT ![s].ctx = @ \cup {q}]
           /\ toForeman' = [toForeman EXCEPT ![s] = Append(@, Msg("initiated", q))]
    /\ UNCHANGED queue

\* The k-th worker that getSchedulableWorker() returns from now on.  The loads
\* it looks at are never increased, so the workers take turns.
getSchedulableWorker(s, k) == (boss[s].start + k) % NumWorkers

forwardWorkOrder(s) ==
    /\ Takes(s, "workOrder")
    /\ queue' = [queue EXCEPT ![<<s, getSchedulableWorker(s, 0)>>] = Append(@, Head(toBoss[s]))]
    /\ boss' = [boss EXCEPT ![s].start = getSchedulableWorker(s, 1)]
    /\ UNCHANGED toForeman

\* n blocks of the InsertDestination are partially filled, none if no work
\* order has inserted.  The response precedes the work orders.
processInitiateRebuild(s) ==
    /\ Takes(s, "initiateRebuild")
    /\ LET q == Head(toBoss[s]).query
           inserted == Ops[q][Head(toBoss[s]).arg].work > 0
       IN  \E n \in 0 .. (IF inserted THEN MaxPartial ELSE 0) :
             /\ toForeman' = [toForeman EXCEPT ![s] = Append(@,
                    [type |-> "rebuildCount", query |-> q, arg |-> n, index |-> boss[s].index])]
             /\ queue' = [w \in Workers |-> queue[w] \o
                    [i \in 1 .. Cardinality({k \in 0 .. n - 1 : w = <<s, getSchedulableWorker(s, k)>>})
                       |-> Msg("rebuild", q)]]
             /\ boss' = [boss EXCEPT ![s].start = getSchedulableWorker(s, n)]

processQueryTeardown(s) ==
    /\ Takes(s, "teardown")
    /\ boss' = [boss EXCEPT ![s].ctx = @ \ {Head(toBoss[s]).query}]
    /\ UNCHANGED <<toForeman, queue>>

processSaveQueryResult(s) ==
    /\ Takes(s, "save")
    /\ LET q == Head(toBoss[s]).query
       IN  /\ boss' = [boss EXCEPT ![s].ctx = @ \ {q}]
           /\ toForeman' = [toForeman EXCEPT ![s] = Append(@,
                  [type |-> "saved", query |-> q, index |-> boss[s].index])]
    /\ UNCHANGED queue

\* The workers are sent the poison message and the shiftboss returns.
forwardPoison(s) ==
    /\ Takes(s, "poison")
    /\ boss' = [boss EXCEPT ![s].up = FALSE]
    /\ queue' = [w \in Workers |-> IF w[1] = s THEN Append(queue[w], Poison) ELSE queue[w]]
    /\ UNCHANGED toForeman

\* What a worker sends is forwarded to the foreman.
forwardReport(w) ==
    /\ boss[w[1]].up
    /\ reports[w] # <<>>
    /\ toForeman' = [toForeman EXCEPT ![w[1]] = Append(@, Head(reports[w]))]
    /\ reports' = [reports EXCEPT ![w] = Tail(@)]
    /\ UNCHANGED <<asked, mail, exited, fm, boss, toBoss, queue>>

-----------------------------------------------------------------------------
(* The workers *)

\* What a work order sends while it executes precedes its completion.  The
\* thread index of the worker goes with the completion.
executeWorkOrder(w) ==
    /\ queue[w] # <<>> /\ Head(queue[w]).type = "workOrder"
    /\ LET q == Head(queue[w]).query
       IN  \E r \in {<<>>} \cup {<<Msg(t, q)>> : t \in {"newBlock", "pipeline", "feedback"}} :
             reports' = [reports EXCEPT ![w] = @ \o r \o <<MsgWith("complete", q, w[2])>>]
    /\ queue' = [queue EXCEPT ![w] = Tail(@)]
    /\ UNCHANGED <<asked, mail, exited, fm, boss, toBoss, toForeman>>

\* A rebuilt block is streamed to the consumers.
executeRebuildWorkOrder(w) ==
    /\ queue[w] # <<>> /\ Head(queue[w]).type = "rebuild"
    /\ LET q == Head(queue[w]).query
       IN  reports' = [reports EXCEPT ![w] =
                         @ \o <<Msg("pipeline", q), MsgWith("rebuildComplete", q, w[2])>>]
    /\ queue' = [queue EXCEPT ![w] = Tail(@)]
    /\ UNCHANGED <<asked, mail, exited, fm, boss, toBoss, toForeman>>

-----------------------------------------------------------------------------
ForemanStep ==
    \/ receiveAdmitRequest
    \/ receivePoison
    \/ \E s \in Bosses : \/ receiveRegistration(s)
                         \/ receiveInitiateResponse(s)
                         \/ receiveReport(s)
                         \/ receiveInitiateRebuildResponse(s)
                         \/ receiveSaveQueryResultResponse(s)

ShiftbossStep(s) ==
    \/ takeRegistrationResponse(s)
    \/ processQueryInitiate(s)
    \/ forwardWorkOrder(s)
    \/ processInitiateRebuild(s)
    \/ processQueryTeardown(s)
    \/ processSaveQueryResult(s)
    \/ forwardPoison(s)

WorkerStep(w) == executeWorkOrder(w) \/ executeRebuildWorkOrder(w)

Next ==
    \/ \E q \in Queries : sendAdmitRequest(q)
    \/ sendPoison
    \/ ForemanStep
    \/ \E s \in Bosses : registerWithForeman(s) \/ ShiftbossStep(s)
    \/ \E w \in Workers : forwardReport(w) \/ WorkerStep(w)

\* Every thread that has a message receives it eventually.  Clients need not
\* ask, and shiftbosses need not come late.
Fairness ==
    /\ WF_vars(receiveAdmitRequest) /\ WF_vars(receivePoison)
    /\ \A s \in Bosses :
         /\ WF_vars(\/ receiveRegistration(s) \/ receiveInitiateResponse(s)
                    \/ receiveReport(s) \/ receiveInitiateRebuildResponse(s)
                    \/ receiveSaveQueryResultResponse(s))
         /\ WF_vars(ShiftbossStep(s))
    /\ \A w \in Workers : WF_vars(forwardReport(w)) /\ WF_vars(WorkerStep(w))

Spec == Init /\ [][Next]_vars /\ Fairness

-----------------------------------------------------------------------------
(* Properties *)

\* The number of messages of the given types, about the queries in Q, that are
\* on their way at shiftboss s: to it, at its workers, from them, or from it.
Count(seq, types, Q) ==
    Len(SelectSeq(seq, LAMBDA m : m.type \in types /\ m.query \in Q))

OnTheWay(s, types, Q) ==
    Count(toBoss[s], types, Q) + Count(toForeman[s], types, Q)
    + MapThenSumSet(LAMBDA w : Count(queue[w], types, Q) + Count(reports[w], types, Q),
                    {w \in Workers : w[1] = s})

WorkTypes == {"workOrder", "complete", "rebuild", "rebuildComplete"}

\* The types of the variables.
TypeOK ==
    /\ asked \subseteq Queries
    /\ exited \in BOOLEAN
    /\ fm \in ForemanType
    /\ boss \in [Bosses -> BossType]
    /\ DOMAIN toBoss = Bosses /\ DOMAIN toForeman = Bosses
    /\ DOMAIN queue = Workers /\ DOMAIN reports = Workers

\* The foreman's count of the work orders at a shiftboss is the number that is
\* there, up to the rebuild work orders whose number is still on its way:
\* dispatch stops for good when the count stays too high.
LoadExact ==
    \A i \in DOMAIN fm.dir :
      LET s == fm.dir[i]
          counts == SelectSeq(toForeman[s], LAMBDA m : m.type = "rebuildCount")
      IN  fm.load[i] + FoldLeft(LAMBDA n, m : n + m.arg, 0, counts)
            = OnTheWay(s, WorkTypes, Queries)

\* The rebuild of an operator is counted by another machine than the one that
\* waits for it: while the number is undetermined one request or response is
\* under way, afterwards the number is that of the rebuild work orders that
\* have not been reported, so that no operator ends before its last block.
RebuildExact ==
    \A q \in fm.admitted :
      LET All(types) == MapThenSumSet(LAMBDA s : OnTheWay(s, types, {q}), Bosses)
          asking == All({"initiateRebuild", "rebuildCount"})
          pending == All({"rebuild", "rebuildComplete"})
      IN  IF fm.initiated[q] /\ fm.rebuilds[q] = -1
          THEN asking = 1 /\ fm.ready[q] = 0 /\ fm.queued[q] = 0
          ELSE asking = 0 /\ fm.rebuilds[q] = pending

\* A shiftboss finds the query context for every work order and rebuild
\* request it receives (DCHECK_EQ(1u, query_contexts_.count(query_id))), and
\* keeps it for as long as a worker may use it: the work orders hold pointers
\* into the context.
ContextOutlivesWork ==
    \A s \in Bosses :
      /\ toBoss[s] # <<>> /\ Head(toBoss[s]).type \in {"workOrder", "initiateRebuild"}
           => Head(toBoss[s]).query \in boss[s].ctx
      /\ \A i \in 0 .. NumWorkers - 1 : \A j \in DOMAIN queue[<<s, i>>] :
           LET m == queue[<<s, i>>][j]
           IN  m.type \in {"workOrder", "rebuild"} => m.query \in boss[s].ctx

\* No shiftboss keeps the context of a query that is over: once the query has
\* been removed, the context is gone or the message that removes it is coming.
ContextsFreed ==
    \A s \in Bosses : \A q \in boss[s].ctx \cap fm.removed :
      Count(toBoss[s], {"teardown", "save"}, {q}) > 0

\* The foreman's handlers look up the query of every message in
\* admitted_queries_, and receive none about a query that has been removed.
MessagesOfAdmitted ==
    \A s \in Bosses : \A q \in Queries \ fm.admitted :
      /\ OnTheWay(s, WorkTypes \cup {"pipeline", "feedback", "rebuildCount"}, {q}) = 0
      /\ Count(toForeman[s], {"initiated"}, {q}) > 0 => q \in fm.removed

\* A client is told once, when nothing of its query is left to execute and,
\* if it has a result, every shiftboss has saved it and freed its context.
AnsweredWhenSaved ==
    \A q \in Queries :
      /\ fm.told[q] <= 1
      /\ fm.told[q] = 1 =>
           /\ q \in fm.removed
           /\ \A s \in Bosses : OnTheWay(s, WorkTypes, {q}) = 0
           /\ q \in Result => \A i \in DOMAIN fm.dir : q \notin boss[fm.dir[i]].ctx

\* The comment on num_queued_work_orders_ (ShiftbossDirectory.hpp:175): "the
\* value should be not greater than that of work_order_capacities_".
WithinCapacity == \A i \in DOMAIN fm.load : fm.load[i] <= NumWorkers
=============================================================================
