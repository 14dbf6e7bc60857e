--------------------------- MODULE MCDistributed ---------------------------
(***************************************************************************)
(* Three set-ups of the distributed scheduler, of which the constants      *)
(* describe the first, "run", and the block locator, for the model         *)
(* checker: an initial state chooses one of the four.                      *)
(***************************************************************************)
EXTENDS ForemanDistributed

CONSTANTS
    Setups,    \* what to check, of "run", "two", "late" and "locator"
    Hosts, NumThreads, MaxBlocks, MaxLoads, MaxInbox
               \* see BlockLocator

VARIABLES
    setup,
    block_domain, domain_network_addresses, block_locations, domain_blocks,
    inbox, answers, domain, up, loaded, disk, known, pc, block, peers, loads,
    late, dropped, crossed
               \* see BlockLocator

\* A query with a result whose first operator needs a rebuild, a second one
\* without a result, one that has nothing to do (a deletion from an empty
\* relation), and one whose only operator has no input but an InsertDestination.
OpsOf(queries) ==
    [q \in queries |->
       CASE q = "select" -> <<[work |-> 2, dest |-> TRUE], [work |-> 1, dest |-> FALSE]>>
         [] q = "delete" -> <<[work |-> 1, dest |-> FALSE]>>
         [] q = "none"   -> <<[work |-> 0, dest |-> FALSE]>>
         [] q = "empty"  -> <<[work |-> 0, dest |-> TRUE]>>]
MCOps == OpsOf(Queries)

\* Two workers for each shiftboss, and a query without work.
Two == INSTANCE ForemanDistributed
         WITH NumWorkers <- 2, Queries <- {"select", "none"},
              Ops <- OpsOf({"select", "none"})

\* A shiftboss that registers while a query is executing.
LateBoss == CHOOSE s \in Bosses : TRUE
Later == INSTANCE ForemanDistributed
           WITH Late <- {LateBoss}, Queries <- {"select", "empty"},
                Ops <- OpsOf({"select", "empty"}), MaxPartial <- 1

\* The hosts, threads and blocks of the locator are constants of the suite.
Locator == INSTANCE BlockLocator

\* The first host has one thread and the second has two; the blocks are of
\* whichever host registers first.
MCNumThreads == [h \in Hosts |-> h]
MCMaxBlocks  == [d \in 1 .. Cardinality(Hosts) |-> IF d = 1 THEN 2 ELSE 0]

ASSUME LocatorAssumption == Locator!BlockLocatorAssumption

locating == <<block_domain, domain_network_addresses, block_locations, domain_blocks,
              inbox, answers, domain, up, loaded, disk, known, pc, block, peers, loads,
              late, dropped, crossed>>
suite == <<setup, vars, locating>>

SuiteInit ==
    /\ setup \in Setups
    /\ Locator!Init
    /\ setup \in {"run", "locator"} => Init
    /\ setup = "two" => Two!Init
    /\ setup = "late" => Later!Init

SuiteNext ==
    \/ setup = "run" /\ Next /\ UNCHANGED <<setup, locating>>
    \/ setup = "two" /\ Two!Next /\ UNCHANGED <<setup, locating>>
    \/ setup = "late" /\ Later!Next /\ UNCHANGED <<setup, locating>>
    \/ setup = "locator" /\ Locator!Next /\ UNCHANGED <<setup, vars>>

\* The fairness of ForemanDistributed, for the first set-up.
SuiteSpec ==
    /\ SuiteInit /\ [][SuiteNext]_suite
    /\ WF_vars(setup = "run" /\ receiveAdmitRequest) /\ WF_vars(setup = "run" /\ receivePoison)
    /\ \A s \in Bosses :
         /\ WF_vars(/\ setup = "run"
                    /\ \/ receiveRegistration(s) \/ receiveInitiateResponse(s)
                       \/ receiveReport(s) \/ receiveInitiateRebuildResponse(s)
                       \/ receiveSaveQueryResultResponse(s))
         /\ WF_vars(setup = "run" /\ ShiftbossStep(s))
    /\ \A w \in Workers : /\ WF_vars(setup = "run" /\ forwardReport(w))
                          /\ WF_vars(setup = "run" /\ WorkerStep(w))

-----------------------------------------------------------------------------
(* Properties *)

\* Every variable keeps its type.
TypesOK == /\ setup = "run" => TypeOK
           /\ setup = "two" => Two!TypeOK
           /\ setup = "late" => Later!TypeOK

\* Nothing on the way is about a query the foreman has removed.
AllOfAdmitted == /\ setup = "run" => MessagesOfAdmitted
                 /\ setup = "two" => Two!MessagesOfAdmitted
                 /\ setup = "late" => Later!MessagesOfAdmitted

(***************************************************************************)
(* What the foreman believes is so: its count of the work orders at a      *)
(* shiftboss (with one worker, and nobody who comes late), the rebuild     *)
(* work orders it waits for, the admission of what is on the way; and it   *)
(* tells a client once, when the result is saved everywhere.               *)
(***************************************************************************)
ForemanExact ==
    /\ TypesOK /\ AllOfAdmitted
    /\ setup = "run" => LoadExact /\ RebuildExact /\ AnsweredWhenSaved
    /\ setup = "two" => Two!RebuildExact
    /\ setup = "late" => Later!AnsweredWhenSaved

\* A shiftboss has the query context of whatever its workers execute, and none
\* is left when nothing is going on.
ContextsExact ==
    /\ setup = "run" => ContextOutlivesWork /\ ContextsFreed
    /\ setup = "two" => Two!ContextOutlivesWork
    /\ setup = "late" => Later!ContextOutlivesWork /\ Later!ContextsFreed

(***************************************************************************)
(* The maps of the block locator mirror each other and, for a block that   *)
(* no message and no call is about, what the hosts have in memory, but for *)
(* what evictBlockOrBlob() took back before it was announced; a load finds *)
(* its block, unless a destructor dropped it before it was ever written or *)
(* the thread read an answer meant for another.                            *)
(***************************************************************************)
LocationsExact ==
    /\ Locator!TypeOK /\ Locator!MapsMirror
    /\ Locator!LocationsAgree /\ Locator!LoadSucceeds

\* Every query that is asked for is answered, and after a shutdown every
\* shiftboss and worker stops.
RequestsEnd ==
    /\ \A q \in Queries : q \in asked ~> (setup = "run" => fm.told[q] > 0)
    /\ exited ~> (setup = "run" => \A s \in Bosses :
          ~boss[s].up /\ \A i \in 0 .. NumWorkers - 1 : queue[<<s, i>>] = <<Poison>>)
=============================================================================
