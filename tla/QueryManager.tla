---------------------------- MODULE QueryManager ----------------------------
(***************************************************************************)
(* The single-node scheduler of one query: QueryManagerBase and            *)
(* QueryManagerSingleNode (the DAG of relational operators and the         *)
(* bookkeeping of their work orders), together with the worker threads     *)
(* that execute the work orders and report back over the message bus.      *)
(*                                                                         *)
(* A handler of the query manager visits the dependents of an operator and *)
(* recurses into the ones that finish without work.  The recursion is kept *)
(* as an explicit call stack: each frame is the set of dependents its loop *)
(* has still to visit (getDependents() is an unordered_map, so any order   *)
(* is possible).  While the stack is not empty the foreman thread can do   *)
(* nothing else; only the worker threads interleave with it.               *)
(***************************************************************************)
EXTENDS Integers, Sequences, FiniteSets

CONSTANTS
    N,          \* number of operators in the DAG, indexed 0 .. N - 1
    Plans,      \* the query plans to choose from
    Workers,    \* worker threads
    MaxStream,  \* bound: full blocks one work order may stream out
    MaxPartial  \* bound: partially filled blocks of one InsertDestination

Ops == 0 .. N - 1

VARIABLES
    plan,     \* the query plan: fixed by the optimizer, see PlanType
    cursor,   \* next operator of the constructor's loop; N when constructed
    stack,    \* call stack of the dependents' loops, innermost frame last
    qm,       \* the query manager's memory, see QMType
    partial,  \* partially filled blocks in each operator's InsertDestination
    slot,     \* the work order each worker holds
    chan      \* messages each worker has sent to the foreman, in order

vars == <<plan, cursor, stack, qm, partial, slot, chan>>

-----------------------------------------------------------------------------
(***************************************************************************)
(* Query plans.                                                            *)
(*   links     <<producer, consumer>> edges of the DAG                     *)
(*   breakers  the links that are pipeline breakers                        *)
(*   dest      operators that write through an InsertDestination           *)
(*   output    operators with getOutputRelationID() >= 0                   *)
(*   checks    operators whose getAllWorkOrders() generates nothing before *)
(*             blocking_dependencies_met_ is set                           *)
(*   perRel    operators that override doneFeedingInputBlocks() to tell    *)
(*             their input relations apart                                 *)
(*   stored    work orders an operator generates on its own (one per block *)
(*             of a stored input relation, or a fixed number)              *)
(*   rounds    further work orders it generates in response to feedback    *)
(***************************************************************************)
PlanType ==
    [links    : SUBSET (Ops \X Ops),
     breakers : SUBSET (Ops \X Ops),
     dest     : SUBSET Ops,
     output   : SUBSET Ops,
     checks   : SUBSET Ops,
     perRel   : SUBSET Ops,
     stored   : [Ops -> Nat],
     rounds   : [Ops -> Nat]]

Dependents(o)   == {d \in Ops : <<o, d>> \in plan.links}
Dependencies(o) == {p \in Ops : <<p, o>> \in plan.links}

\* blocking_dependencies_[o] and output_consumers_[o] of the constructor.
Blocking(o)  == {p \in Ops : <<p, o>> \in plan.links \cap plan.breakers}
Consumers(o) == {d \in Ops : <<o, d>> \in plan.links \ plan.breakers}
Streams(o)   == {p \in Ops : <<p, o>> \in plan.links \ plan.breakers}

(***************************************************************************)
(* What every plan of the ExecutionGenerator satisfies: a streaming        *)
(* producer has an output relation, an operator that streams and has a     *)
(* second dependency with an output relation overrides                     *)
(* doneFeedingInputBlocks(), and only an operator with work of its own     *)
(* waits for feedback.                                                     *)
(***************************************************************************)
WellFormed(p) ==
    LET streams(o) == {i \in Ops : <<i, o>> \in p.links \ p.breakers}
        feeders(o) == {i \in p.output : <<i, o>> \in p.links}
    IN  /\ p \in PlanType
        /\ p.breakers \subseteq p.links
        /\ \A l \in p.links : l[1] # l[2]
        /\ \A o \in Ops :
              /\ streams(o) \subseteq p.output
              /\ o \in p.perRel \/ streams(o) = {} \/ feeders(o) = streams(o)
              /\ o \in p.perRel \/ \A i, j \in streams(o) : i = j
              /\ p.rounds[o] > 0 => p.stored[o] > 0

ASSUME NAssumption == N \in Nat \ {0}
ASSUME PlansAssumption == \A p \in Plans : WellFormed(p)
ASSUME BoundsAssumption == MaxStream \in Nat /\ MaxPartial \in Nat

(***************************************************************************)
(* Two shapes of DAG the theorems about the visits to dependents ask for:  *)
(* the links go from lower to higher indexes, as addDirectDependency()     *)
(* receives them from the ExecutionGenerator, and no link repeats what a   *)
(* longer path says.  LIP filters break the first, hash joins over a       *)
(* computed relation the second.                                           *)
(***************************************************************************)
Upward(links) == \A l \in links : l[1] < l[2]

Transitive(r) == \A i, j, k \in Ops : <<i, j>> \in r /\ <<j, k>> \in r => <<i, k>> \in r

Paths(links, r) ==
    /\ links \subseteq r /\ Transitive(r)
    /\ \A i, j, k \in Ops : <<i, j>> \in r /\ <<j, k>> \in links => <<i, k>> \notin links

Irredundant(links) == \E r \in SUBSET (Ops \X Ops) : Paths(links, r)

-----------------------------------------------------------------------------
(***************************************************************************)
(* The query manager's memory: QueryExecutionState (queued .. finished),   *)
(* WorkOrdersContainer (normal, rebuild) and what the operators remember.  *)
(* avail[o] counts the input blocks operator o holds for which it has not  *)
(* yet generated a work order.  The two counters that a message decrements *)
(* are integers here: that they stay non-negative is part of CountersExact. *)
(***************************************************************************)
QMType ==
    [queued      : [Ops -> Int],
     numRebuild  : [Ops -> Int],
     rebuildInit : SUBSET Ops,
     doneGen     : SUBSET Ops,
     finished    : SUBSET Ops,
     numFinished : Nat,
     normal      : [Ops -> Nat],
     rebuild     : [Ops -> Nat],
     avail       : [Ops -> Nat],
     rounds      : [Ops -> Nat],
     informed    : SUBSET Ops,
     doneFeeding : [Ops -> SUBSET Ops]]

Zero == [o \in Ops |-> 0]

WorkOrder == [kind : {"normal", "rebuild"}, op : Ops]
Idle      == [kind |-> "idle", op |-> 0]

Message == [type : {"pipeline", "feedback", "complete", "rebuildComplete"},
            op   : Ops]

Constructed    == cursor = N
HandlerDone    == stack = <<>>
hasQueryExecutionFinished == qm.numFinished = N

-----------------------------------------------------------------------------
(* The checks of QueryManagerBase and QueryManagerSingleNode on a memory m *)

checkAllDependenciesMet(m, o) == Dependencies(o) \subseteq m.finished

checkAllBlockingDependenciesMet(m, o) == Blocking(o) \subseteq m.finished

\* Mutant: does not wait for the work orders that are at the workers.
OverIgnoresQueued(m, o) ==
    checkAllDependenciesMet(m, o) /\ m.normal[o] = 0 /\ o \in m.doneGen

checkNormalExecutionOver(m, o) ==
    /\ checkAllDependenciesMet(m, o)
    /\ m.normal[o] = 0
    /\ m.queued[o] = 0
    /\ o \in m.doneGen

checkRebuildOver(m, o) ==
    /\ o \in m.rebuildInit
    /\ m.rebuild[o] = 0
    /\ m.numRebuild[o] = 0

\* done_feeding_input_relation_, or the per-relation flags of an override.
doneFeedingInput(m, o) ==
    IF o \in plan.perRel THEN Streams(o) \subseteq m.doneFeeding[o]
                         ELSE m.doneFeeding[o] # {}

\* What getAllWorkOrders() returns: no more work orders will ever be generated.
getAllWorkOrdersDone(m, o) ==
    /\ o \in plan.checks => o \in m.informed
    /\ Streams(o) # {} => doneFeedingInput(m, o)
    /\ m.rounds[o] = 0

getAllWorkOrders(m, o) ==
    IF o \in plan.checks /\ o \notin m.informed
    THEN m
    ELSE [m EXCEPT !.normal[o] = @ + m.avail[o], !.avail[o] = 0]

\* Mutant: fetches whether or not the blocking dependencies are met.
FetchUnguarded(m, o) ==
    [getAllWorkOrders(m, o) EXCEPT
       !.doneGen = IF getAllWorkOrdersDone(m, o) THEN @ \cup {o} ELSE @]

fetchNormalWorkOrders(m, o) ==
    IF o \in m.doneGen \/ ~checkAllBlockingDependenciesMet(m, o)
    THEN m
    ELSE [getAllWorkOrders(m, o) EXCEPT
            !.doneGen = IF getAllWorkOrdersDone(m, o) THEN @ \cup {o} ELSE @]

\* Mutant: dependents are not told that their blocking dependencies are met.
FinishUninformed(m, o) ==
    [m EXCEPT !.finished = @ \cup {o}, !.numFinished = @ + 1,
              !.doneFeeding = [d \in Ops |->
                 IF d \in Dependents(o) /\ o \in plan.output
                 THEN m.doneFeeding[d] \cup {o} ELSE m.doneFeeding[d]]]

markOperatorFinished(m, o) ==
    LET fin == m.finished \cup {o}
    IN  [m EXCEPT
           !.finished    = fin,
           !.numFinished = @ + 1,
           !.doneFeeding = [d \in Ops |->
               IF d \in Dependents(o) /\ o \in plan.output
               THEN m.doneFeeding[d] \cup {o} ELSE m.doneFeeding[d]],
           !.informed    = @ \cup {d \in Dependents(o) :
               checkAllBlockingDependenciesMet([m EXCEPT !.finished = fin], d)}]

\* initiateRebuild() turns every partially filled block into a work order.
initiateRebuild(m, o) ==
    [m EXCEPT !.rebuild[o]    = @ + partial[o],
              !.numRebuild[o] = m.rebuild[o] + partial[o],
              !.rebuildInit   = @ \cup {o}]

\* The InsertDestinations the step m -> m2 drained.
drained(m, m2) ==
    [o \in Ops |-> IF o \in m2.rebuildInit \ m.rebuildInit THEN 0 ELSE partial[o]]

(***************************************************************************)
(* The end of an operator: start the rebuild of its partially filled       *)
(* blocks when that is due, and mark it finished when nothing is left.     *)
(***************************************************************************)
finishIfOver(m, o) ==
    IF ~checkNormalExecutionOver(m, o) THEN m
    ELSE IF o \notin plan.dest THEN markOperatorFinished(m, o)
    ELSE IF o \notin m.rebuildInit
         THEN LET r == initiateRebuild(m, o)
              IN  IF r.numRebuild[o] = 0 THEN markOperatorFinished(r, o) ELSE r
    ELSE IF checkRebuildOver(m, o) THEN markOperatorFinished(m, o)
    ELSE m

\* processOperator() up to the loop over the dependents ...
processOperator(m, o) ==
    LET f == fetchNormalWorkOrders(m, o)
    IN  IF f.normal[o] > m.normal[o] THEN f ELSE finishIfOver(f, o)

\* ... and whether it reaches that loop, m being the memory at the call.
reachesDependents(m, o) ==
    LET f == fetchNormalWorkOrders(m, o)
        starts == o \in plan.dest /\ o \notin f.rebuildInit /\ partial[o] > 0
    IN  /\ f.normal[o] = m.normal[o]
        /\ checkNormalExecutionOver(f, o)
        /\ ~starts

\* Frames without anything left to visit return at once.
Push(s, frame) == IF frame = {} THEN s ELSE Append(s, frame)
Callers        == SubSeq(stack, 1, Len(stack) - 1)

-----------------------------------------------------------------------------
Init ==
    /\ plan \in Plans
    /\ cursor = 0
    /\ stack = <<>>
    /\ qm = [queued |-> Zero, numRebuild |-> Zero, rebuildInit |-> {},
             doneGen |-> {}, finished |-> {}, numFinished |-> 0,
             normal |-> Zero, rebuild |-> Zero, avail |-> plan.stored,
             rounds |-> plan.rounds, informed |-> {},
             doneFeeding |-> [o \in Ops |-> {}]]
    /\ partial = Zero
    /\ slot = [w \in Workers |-> Idle]
    /\ chan = [w \in Workers |-> <<>>]

\* One iteration of the loop in QueryManagerSingleNode's constructor.
ConstructOperator ==
    /\ cursor < N
    /\ cursor' = cursor + 1
    /\ qm' = IF checkAllBlockingDependenciesMet(qm, cursor)
             THEN processOperator([qm EXCEPT !.informed = @ \cup {cursor}], cursor)
             ELSE qm
    /\ partial' = drained(qm, qm')
    /\ UNCHANGED <<plan, stack, slot, chan>>

\* The foreman thread is between two messages of this query.
Receptive == Constructed /\ HandlerDone /\ ~hasQueryExecutionFinished

HasWork(o) == o \notin qm.finished /\ (qm.normal[o] > 0 \/ qm.rebuild[o] > 0)

\* getNextWorkerMessage(0): the unfinished operator with the lowest index that
\* has a work order, its normal ones first.
getNextWorkerMessage(w) ==
    \E o \in Ops :
      /\ HasWork(o) /\ \A p \in Ops : p < o => ~HasWork(p)
      /\ IF qm.normal[o] > 0
         THEN /\ qm' = [qm EXCEPT !.normal[o] = @ - 1, !.queued[o] = @ + 1]
              /\ slot' = [slot EXCEPT ![w] = [kind |-> "normal", op |-> o]]
         ELSE /\ qm' = [qm EXCEPT !.rebuild[o] = @ - 1]
              /\ slot' = [slot EXCEPT ![w] = [kind |-> "rebuild", op |-> o]]

Dispatch(w) ==
    /\ Receptive
    /\ slot[w] = Idle
    /\ getNextWorkerMessage(w)
    /\ UNCHANGED <<plan, cursor, stack, partial, chan>>

\* The first message of worker w, of the given type, is taken off the bus.
Receives(w, type) ==
    /\ Receptive
    /\ chan[w] # <<>>
    /\ Head(chan[w]).type = type
    /\ chan' = [chan EXCEPT ![w] = Tail(@)]
    /\ UNCHANGED <<plan, cursor, slot>>

\* Every consumer is fed the block and asked for new work orders.
processDataPipelineMessage(w) ==
    /\ Receives(w, "pipeline")
    /\ LET o == Head(chan[w]).op
           fed == [qm EXCEPT !.avail = [c \in Ops |->
                     IF c \in Consumers(o) THEN qm.avail[c] + 1 ELSE qm.avail[c]]]
           one(c) == fetchNormalWorkOrders(fed, c)
       IN  qm' = [fed EXCEPT
             !.normal  = [c \in Ops |->
                IF c \in Consumers(o) THEN one(c).normal[c] ELSE fed.normal[c]],
             !.avail   = [c \in Ops |->
                IF c \in Consumers(o) THEN one(c).avail[c] ELSE fed.avail[c]],
             !.doneGen = @ \cup {c \in Consumers(o) : c \in one(c).doneGen}]
    /\ UNCHANGED <<stack, partial>>

\* Feedback lets the operator generate one more work order, while it wants any;
\* the work orders are fetched only when a later message is processed.
processFeedbackMessage(w) ==
    /\ Receives(w, "feedback")
    /\ LET o == Head(chan[w]).op
       IN  qm' = IF qm.rounds[o] > 0
                 THEN [qm EXCEPT !.rounds[o] = @ - 1, !.avail[o] = @ + 1]
                 ELSE qm
    /\ UNCHANGED <<stack, partial>>

processWorkOrderCompleteMessage(w) ==
    /\ Receives(w, "complete")
    /\ LET o == Head(chan[w]).op
           dec == [qm EXCEPT !.queued[o] = @ - 1]
       IN  /\ qm' = finishIfOver(fetchNormalWorkOrders(dec, o), o)
           /\ stack' = Push(stack, Dependents(o))
    /\ partial' = drained(qm, qm')

\* Mutant: the last rebuild completion does not wake the dependents.
RebuildWakesNobody(w) ==
    /\ Receives(w, "rebuildComplete")
    /\ LET o == Head(chan[w]).op
           dec == [qm EXCEPT !.numRebuild[o] = @ - 1]
       IN  qm' = IF checkRebuildOver(dec, o) THEN markOperatorFinished(dec, o) ELSE dec
    /\ UNCHANGED <<stack, partial>>

processRebuildWorkOrderCompleteMessage(w) ==
    /\ Receives(w, "rebuildComplete")
    /\ LET o == Head(chan[w]).op
           dec == [qm EXCEPT !.numRebuild[o] = @ - 1]
       IN  IF checkRebuildOver(dec, o)
           THEN /\ qm' = markOperatorFinished(dec, o)
                /\ stack' = Push(stack, Dependents(o))
           ELSE /\ qm' = dec
                /\ stack' = stack
    /\ UNCHANGED partial

\* One iteration of the innermost loop over dependents, with the call of
\* processOperator(d, true) it makes.
VisitDependent ==
    /\ ~HandlerDone
    /\ \E d \in stack[Len(stack)] :
         LET rest == Push(Callers, stack[Len(stack)] \ {d})
         IN  IF checkAllBlockingDependenciesMet(qm, d)
             THEN /\ qm' = processOperator(qm, d)
                  /\ stack' = IF reachesDependents(qm, d)
                              THEN Push(rest, Dependents(d)) ELSE rest
             ELSE /\ qm' = qm
                  /\ stack' = rest
    /\ partial' = drained(qm, qm')
    /\ UNCHANGED <<plan, cursor, slot, chan>>

\* The query has executed: the PolicyEnforcer destroys its manager.
Removed ==
    /\ Constructed /\ HandlerDone /\ hasQueryExecutionFinished
    /\ UNCHANGED vars

-----------------------------------------------------------------------------
(***************************************************************************)
(* A worker executes the work order it holds and then reports completion.  *)
(* Full output blocks, then feedback, are sent while it executes, so they  *)
(* precede the completion on the bus.                                      *)
(***************************************************************************)
Copies(n, msg) == [i \in 1 .. n |-> msg]

\* Mutant: completion is reported before the feedback and the output blocks.
CompletesFirst(w) ==
    /\ slot[w].kind = "normal"
    /\ LET o == slot[w].op
       IN  \E n \in 0 .. MaxStream :
             /\ o \notin plan.output => n = 0
             /\ chan' = [chan EXCEPT ![w] =
                   @ \o <<[type |-> "complete", op |-> o]>>
                     \o Copies(IF plan.rounds[o] > 0 THEN 1 ELSE 0,
                               [type |-> "feedback", op |-> o])
                     \o Copies(n, [type |-> "pipeline", op |-> o])]
    /\ slot' = [slot EXCEPT ![w] = Idle]
    /\ UNCHANGED <<plan, cursor, stack, qm, partial>>

executeWorkOrder(w) ==
    /\ slot[w].kind = "normal"
    /\ LET o == slot[w].op
       IN  \E n \in 0 .. MaxStream, p \in 0 .. MaxPartial :
             /\ o \notin plan.dest => p = partial[o]
             /\ o \notin plan.output => n = 0
             /\ partial' = [partial EXCEPT ![o] = p]
             /\ chan' = [chan EXCEPT ![w] =
                   @ \o (Copies(n, [type |-> "pipeline", op |-> o])
                           \o Copies(IF plan.rounds[o] > 0 THEN 1 ELSE 0,
                                     [type |-> "feedback", op |-> o])
                           \o <<[type |-> "complete", op |-> o]>>)]
    /\ slot' = [slot EXCEPT ![w] = Idle]
    /\ UNCHANGED <<plan, cursor, stack, qm>>

executeRebuildWorkOrder(w) ==
    /\ slot[w].kind = "rebuild"
    /\ LET o == slot[w].op
       IN  chan' = [chan EXCEPT ![w] =
              @ \o <<[type |-> "pipeline", op |-> o],
                     [type |-> "rebuildComplete", op |-> o]>>]
    /\ slot' = [slot EXCEPT ![w] = Idle]
    /\ UNCHANGED <<plan, cursor, stack, qm, partial>>

-----------------------------------------------------------------------------
Foreman ==
    \/ ConstructOperator
    \/ VisitDependent
    \/ \E w \in Workers :
         \/ processDataPipelineMessage(w)
         \/ processFeedbackMessage(w)
         \/ processWorkOrderCompleteMessage(w)
         \/ processRebuildWorkOrderCompleteMessage(w)

Worker(w) == executeWorkOrder(w) \/ executeRebuildWorkOrder(w)

Next ==
    \/ Foreman
    \/ \E w \in Workers : Dispatch(w)
    \/ \E w \in Workers : Worker(w)
    \/ Removed

Spec == Init /\ [][Next]_vars

\* The foreman and the workers are threads of their own that never stop before
\* the query is done, and the foreman refills an idle worker after a message.
FairSpec ==
    /\ Spec
    /\ WF_vars(Foreman)
    /\ \A w \in Workers : WF_vars(Dispatch(w)) /\ WF_vars(Worker(w))
-----------------------------------------------------------------------------
(* Properties *)

\* Every variable keeps its type, and the plan stays one the generator can make.
TypeOK ==
    /\ WellFormed(plan)
    /\ cursor \in 0 .. N
    /\ stack \in Seq(SUBSET Ops)
    /\ qm \in QMType
    /\ partial \in [Ops -> Nat]
    /\ slot \in [Workers -> WorkOrder \cup {Idle}]
    /\ chan \in [Workers -> Seq(Message)]

Held(kind, o) == {w \in Workers : slot[w].kind = kind /\ slot[w].op = o}
InBus(type, o) ==
    {x \in UNION {{<<w, i>> : i \in DOMAIN chan[w]} : w \in Workers} :
        chan[x[1]][x[2]] = [type |-> type, op |-> o]}

(***************************************************************************)
(* A work order exists (waiting, at a worker, or completed but unreported) *)
(* only for an operator whose blocking dependencies have all finished: no  *)
(* probe before its hash table is built.  fetchNormalWorkOrders() is the   *)
(* only gate, and it is called from four handlers.                         *)
(***************************************************************************)
BlockingOrder ==
    \A o \in Ops :
        (qm.normal[o] > 0 \/ qm.queued[o] > 0 \/ qm.rebuild[o] > 0
           \/ \E w \in Workers : slot[w] # Idle /\ slot[w].op = o)
        => Blocking(o) \subseteq qm.finished

(***************************************************************************)
(* The counters the end of an operator is decided on count exactly the     *)
(* work that is outstanding: queued normal work orders are at a worker or  *)
(* reported in an unprocessed completion, and so are rebuild work orders.  *)
(* Hence the DCHECKs in decrementNumQueuedWorkOrders() and                 *)
(* decrementNumRebuildWorkOrders() never fail.                             *)
(***************************************************************************)
CountersExact ==
    \A o \in Ops :
      /\ qm.queued[o] = Cardinality(Held("normal", o)) + Cardinality(InBus("complete", o))
      /\ qm.numRebuild[o] = qm.rebuild[o] + Cardinality(Held("rebuild", o))
                               + Cardinality(InBus("rebuildComplete", o))

(***************************************************************************)
(* A finished operator has nothing left anywhere: no input block without a *)
(* work order, no work order waiting or executing, no partially filled     *)
(* block, and no message of it on the bus.                                 *)
(***************************************************************************)
FinishedIsQuiescent ==
    \A o \in qm.finished :
      /\ qm.avail[o] = 0 /\ qm.normal[o] = 0 /\ qm.rebuild[o] = 0
      /\ o \in plan.dest => partial[o] = 0
      /\ \A w \in Workers :
            /\ slot[w] # Idle => slot[w].op # o
            /\ \A i \in DOMAIN chan[w] : chan[w][i].op # o

(***************************************************************************)
(* A block on its way to a consumer always finds the consumer willing to   *)
(* generate a work order for it: no operator is done generating while one  *)
(* of its streaming producers still has a block on the bus.                *)
(***************************************************************************)
NoBlockLost ==
    \A w \in Workers : \A i \in DOMAIN chan[w] :
        chan[w][i].type = "pipeline"
        => \A c \in Consumers(chan[w][i].op) : c \notin qm.doneGen

(***************************************************************************)
(* num_operators_finished_ is the number of operators that have finished,  *)
(* as its comment says: hasQueryExecutionFinished() depends on it.         *)
(***************************************************************************)
NumFinishedExact == qm.numFinished = Cardinality(qm.finished)

(***************************************************************************)
(* When a handler returns, no operator that may run holds input without a  *)
(* work order, unless a completion of its own is on the bus and will fetch *)
(* it: nothing else would ever ask the operator again.                     *)
(***************************************************************************)
WorkCollected ==
    Receptive =>
      \A o \in Ops : Blocking(o) \subseteq qm.finished /\ qm.avail[o] > 0
                      => InBus("complete", o) # {}

(***************************************************************************)
(* An operator whose blocking dependencies have finished has been told so  *)
(* by informAllBlockingDependenciesMet(), once the constructor has passed  *)
(* it: otherwise a hash join would never generate its work orders.         *)
(***************************************************************************)
InformedWhenUnblocked ==
    \A o \in Ops : o < cursor /\ Blocking(o) \subseteq qm.finished => o \in qm.informed

(***************************************************************************)
(* The manager reports the query executed only when every operator has     *)
(* finished its execution: at that point it is destroyed with whatever     *)
(* work orders it still has.                                               *)
(***************************************************************************)
ExecutedMeansAllFinished ==
    HandlerDone /\ hasQueryExecutionFinished => qm.finished = Ops

(***************************************************************************)
(* What the manager believes of an operator is so: the counters count the  *)
(* outstanding work, the finished operators are counted once each, and a   *)
(* finished one has nothing left anywhere.                                 *)
(***************************************************************************)
OperatorStateExact == TypeOK /\ CountersExact /\ NumFinishedExact /\ FinishedIsQuiescent

(***************************************************************************)
(* No input is left behind: neither a block that reaches a consumer after  *)
(* it is done generating, nor input that no later message will collect.    *)
(***************************************************************************)
NothingForgotten == NoBlockLost /\ WorkCollected

\* Every query runs to its end: each operator finishes and the manager
\* reports kQueryExecuted.
QueryCompletes == <>(qm.finished = Ops /\ hasQueryExecutionFinished)
=============================================================================
