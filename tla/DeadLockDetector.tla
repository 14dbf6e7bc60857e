-------------------------- MODULE DeadLockDetector --------------------------
(***************************************************************************)
(* The deadlock detector's thread next to the lock manager's: the detector *)
(* builds the wait-for graph from the lock table, leaves the victims in a  *)
(* vector both threads use, and signals over an atomic status; after each  *)
(* round of its loops the lock manager kills the victims.                  *)
(*                                                                         *)
(* The actions of LockManager are taken over; only the end of the second   *)
(* loop of run() is different, as killVictims() follows it here.           *)
(***************************************************************************)
EXTENDS LockManager
LOCAL INSTANCE SequencesExt
LOCAL INSTANCE Graphs

CONSTANT MaxRounds   \* bound: rounds of the detector

ASSUME RoundsAssumption == MaxRounds \in Nat

VARIABLES
    status,   \* detector_status_
    result,   \* victim_result_, written by both threads
    killing,  \* the victims the loop of killVictims() has yet to release
    dpc,      \* what the detector's thread does next
    batch,    \* victim_new_batch
    nodeOf,   \* tid_node_mapping_, kept from one round to the next
    rounds    \* rounds of the detector so far

detector == <<dpc, batch, nodeOf, rounds>>
allVars  == <<vars, status, result, killing, detector>>

DInit ==
    /\ Init
    /\ status = "kNotReady"
    /\ result = {} /\ killing = {}
    /\ dpc = "poll" /\ batch = {} /\ nodeOf = <<>> /\ rounds = 0

-----------------------------------------------------------------------------
(* The detector *)

\* The exclusive latch of the lock table is held by the lock manager.
LatchedExclusive == pc \in {"put", "release", "hung", "kill"}

Owners(r)  == {table.own[r][i].tid : i \in DOMAIN table.own[r]}
Waiters(r) == {table.pending[r][i].tid : i \in DOMAIN table.pending[r]}

\* The transactions getNodeId() is called for, and the edges, pending to owner.
Involved == UNION {Owners(r) \cup (IF Owners(r) = {} THEN {} ELSE Waiters(r)) : r \in Resources}
WaitsFor == UNION {Waiters(r) \X Owners(r) : r \in Resources}

(***************************************************************************)
(* What CycleDetector makes of a graph (see its module): the victims are   *)
(* members of components of several nodes and leave no cycle there.        *)
(***************************************************************************)
chooseVictimsToBreakCycle(nodes, edges) ==
    LET together(u, v) == ConnectionsIn([node |-> nodes, edge |-> edges])[u, v]
                          /\ ConnectionsIn([node |-> nodes, edge |-> edges])[v, u]
        candidates == {v \in nodes : \E u \in nodes \ {v} : together(u, v)}
    IN  {vs \in SUBSET candidates :
           LET rest == candidates \ vs
           IN  ~HasCycle([node |-> rest, edge |-> edges \cap (rest \X rest)])}

(***************************************************************************)
(* getAllVictims(), under the shared latch.  A transaction that is in the  *)
(* mapping keeps its old id; the others are numbered from 0 in the new     *)
(* graph.  An id beyond the nodes of the graph is an access out of range,  *)
(* and one in range names the node of some other transaction.              *)
(***************************************************************************)
getAllVictims ==
    /\ dpc = "poll" /\ status # "kDone" /\ rounds < MaxRounds
    /\ ~LatchedExclusive
    /\ \E nodes \in SetToSeqs(Involved \ DOMAIN nodeOf) :
         LET ids   == [t \in Involved |-> IF t \in DOMAIN nodeOf THEN nodeOf[t]
                                          ELSE CHOOSE i \in DOMAIN nodes : nodes[i] = t]
             edges == {<<ids[e[1]], ids[e[2]]>> : e \in WaitsFor}
         IN  /\ nodeOf' = [t \in Involved \cup DOMAIN nodeOf |->
                             IF t \in DOMAIN nodeOf THEN nodeOf[t] ELSE ids[t]]
             /\ \/ /\ \E e \in WaitsFor : {e[1], e[2]} \cap DOMAIN nodeOf # {}
                   /\ dpc' = "undefined"
                   /\ batch' = batch
                \/ /\ \A e \in edges : {e[1], e[2]} \subseteq DOMAIN nodes
                   /\ \E vs \in chooseVictimsToBreakCycle(DOMAIN nodes, edges) :
                        batch' = {nodes[i] : i \in vs}
                   /\ dpc' = "swap"
    /\ rounds' = rounds + 1
    /\ UNCHANGED <<vars, status, result, killing>>

\* std::swap(); the old batch is dropped with the local vector.
swapVictims ==
    /\ dpc = "swap"
    /\ result' = batch
    /\ batch' = {}
    /\ dpc' = "signal"
    /\ UNCHANGED <<vars, status, killing, nodeOf, rounds>>

signalDone ==
    /\ dpc = "signal"
    /\ status' = "kDone"
    /\ dpc' = "poll"
    /\ UNCHANGED <<vars, result, killing, batch, nodeOf, rounds>>

-----------------------------------------------------------------------------
(* killVictims() *)

\* The end of the second loop of run() and the test of the status.
testStatus ==
    /\ pc = "inner" /\ tries = MaxTry
    /\ tries' = 0
    /\ IF status = "kDone" THEN pc' = "kill" /\ killing' = result
                           ELSE pc' = "clear" /\ killing' = {}
    /\ UNCHANGED <<clients, incoming, inner, job, table, tx, status, result, detector>>

\* Mutant: only the owned locks of a victim are released.
KillOwned ==
    /\ pc = "kill" /\ killing # {}
    /\ \E v \in killing :
         /\ killing' = killing \ {v}
         /\ job' = [req |-> [type |-> "release", tid |-> v], loop |-> "kill", locks |-> tx[v].own]
         /\ tx' = [tx EXCEPT ![v] = [own |-> <<>>, pending |-> <<>>]]
    /\ pc' = "release"
    /\ UNCHANGED <<clients, incoming, inner, tries, table, status, result, detector>>

\* Its loop: releaseAllLocks(victim, false); the loop goes on after released.
killVictim ==
    /\ pc = "kill" /\ killing # {}
    /\ \E v \in killing :
         /\ killing' = killing \ {v}
         /\ job' = Releasing([type |-> "release", tid |-> v], "kill")
         /\ tx' = [tx EXCEPT ![v] = [own |-> <<>>, pending |-> <<>>]]
    /\ pc' = "release"
    /\ UNCHANGED <<clients, incoming, inner, tries, table, status, result, detector>>

allKilled ==
    /\ pc = "kill" /\ killing = {}
    /\ pc' = "clear"
    /\ UNCHANGED <<clients, incoming, inner, tries, job, table, tx, status, result, killing, detector>>

clearResult ==
    /\ pc = "clear"
    /\ result' = {}
    /\ pc' = "store"
    /\ UNCHANGED <<clients, incoming, inner, tries, job, table, tx, status, killing, detector>>

storeNotReady ==
    /\ pc = "store"
    /\ status' = "kNotReady"
    /\ pc' = "incoming"
    /\ UNCHANGED <<clients, incoming, inner, tries, job, table, tx, result, killing, detector>>

-----------------------------------------------------------------------------
Requests == \E t \in Transactions : requestLock(t) \/ requestRelease(t)

\* run() as LockManager has it, up to the end of its second loop.
RunLoops ==
    \/ popIncoming \/ tryInner \/ pollEmpty \/ climb \/ put \/ release \/ released
    \/ pc = "incoming" /\ endLoop

DNext ==
    \/ (RunLoops \/ Requests) /\ UNCHANGED <<status, result, killing, detector>>
    \/ testStatus \/ killVictim \/ allKilled \/ clearResult \/ storeNotReady
    \/ getAllVictims \/ swapVictims \/ signalDone

DSpec == DInit /\ [][DNext]_allVars

-----------------------------------------------------------------------------
(* Properties *)

Traces(v) == {r \in Resources : Entries(table.own[r], v) + Entries(table.pending[r], v) > 0}

(***************************************************************************)
(* Once killVictims() is through with its batch no lock of a victim is     *)
(* left in the lock table, owned or pending, and no other transaction has  *)
(* lost one (TablesAgree).                                                 *)
(***************************************************************************)
KilledLeaveNothing ==
    [][pc = "kill" /\ pc' = "clear" => \A v \in result : Traces(v) = {}]_allVars

(***************************************************************************)
(* While the lock manager goes through the batch the detector keeps its    *)
(* hands off it: it waits for the status to change.                        *)
(***************************************************************************)
BatchStable == pc = "kill" \/ (pc = "release" /\ job.loop = "kill") =>
                   dpc \in {"poll", "undefined"} /\ killing \subseteq result

(***************************************************************************)
(* "Signal LockTable that new batch is ready": no batch is cleared before  *)
(* the locks of its victims have been released.                            *)
(***************************************************************************)
NoBatchLost ==
    [][result # {} /\ result' = {} => \A v \in result : Traces(v) = {}]_allVars

(***************************************************************************)
(* "Mapping from TransactioId to NodeId in graph": every id the detector   *)
(* takes from the mapping is that of a node of the graph it is building.   *)
(***************************************************************************)
IdsOfThisGraph == dpc # "undefined"
=============================================================================
