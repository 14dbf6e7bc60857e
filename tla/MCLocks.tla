------------------------------ MODULE MCLocks ------------------------------
(***************************************************************************)
(* The lock manager, the deadlock detector beside it, and the algorithm    *)
(* that finds the victims, for the model checker: an initial state chooses *)
(* one of the three parts, and the others stay as they are.                *)
(***************************************************************************)
EXTENDS DeadLockDetector, TLC

CONSTANTS
    t1, t2, t3, db, rel, blk,
    Parts,     \* the parts to check
    MaxEdges   \* bound: edges of a wait-for graph

VARIABLES
    part,      \* "levels", "detector" or "cycles"
    edges, cpc, marked, low, comp, counter, numComps, traversal, calls, todo,
    within, visited, toVisit, victims   \* see CycleDetector

Lock(r, m) == [rid |-> r, mode |-> m]

\* A reader of the database and two writers of a block.
Levels == (db :> NoParent) @@ (rel :> db) @@ (blk :> rel)
ReaderAndWriters ==
    (t1 :> <<Lock(rel, "S"), Lock(blk, "S")>>) @@ (t2 :> <<Lock(blk, "X")>>)
      @@ (t3 :> <<Lock(blk, "SIX"), Lock(db, "S")>>)

\* Two transactions that lock two resources in opposite order.
Crosswise ==
    (t1 :> <<Lock(db, "X"), Lock(blk, "X")>>) @@ (t2 :> <<Lock(blk, "X"), Lock(db, "X")>>)
      @@ (t3 :> <<>>)
Detected == INSTANCE DeadLockDetector
              WITH Parent <- [r \in Resources |-> NoParent], Script <- Crosswise, MaxTry <- 1

AllGraphs == {g \in SUBSET ((0 .. 3) \X (0 .. 3)) : Cardinality(g) <= MaxEdges}
Cycles == INSTANCE CycleDetector WITH N <- 4, WaitForGraphs <- AllGraphs, pc <- cpc

ASSUME GraphsOfNodes == Cycles!GraphsAssumption

locking   == <<vars, status, result, killing, detector>>
detection == <<edges, cpc, marked, low, comp, counter, numComps, traversal, calls, todo,
               within, visited, toVisit, victims>>
suite     == <<part, locking, detection>>

SuiteInit ==
    /\ part \in Parts
    /\ DInit
    /\ Cycles!Init /\ (part # "cycles" => edges = {})

SuiteNext ==
    \/ part = "levels" /\ Next /\ UNCHANGED <<part, status, result, killing, detector, detection>>
    \/ part = "detector" /\ Detected!DNext /\ UNCHANGED <<part, detection>>
    \/ part = "cycles" /\ Cycles!Next /\ UNCHANGED <<part, locking>>

SuiteSpec == SuiteInit /\ [][SuiteNext]_suite /\ WF_suite(part = "cycles" /\ SuiteNext)

-----------------------------------------------------------------------------
(***************************************************************************)
(* The search finds the strongly connected components, every victim waits  *)
(* for itself, and without the victims no two transactions wait for each   *)
(* other; while the lock manager kills a batch of victims the detector     *)
(* leaves the batch alone.                                                 *)
(***************************************************************************)
VictimsExact ==
    /\ Cycles!ComponentsExact /\ Cycles!StackConnected
    /\ Cycles!VictimsDeadlocked /\ Cycles!CyclesBroken
    /\ BatchStable

\* The search for victims comes to an end on every wait-for graph, and a batch
\* of victims that was killed has no lock left.
DeadlocksResolved ==
    /\ (part = "cycles") ~> (cpc = "done")
    /\ KilledLeaveNothing
=============================================================================
