------------------------ MODULE RelationalOperators ------------------------
(***************************************************************************)
(* How a relational operator turns its input into work orders: the         *)
(* getAllWorkOrders() of the single-node version and the                   *)
(* getAllWorkOrderProtos() of the distributed one, which the query manager *)
(* calls until they return TRUE, between the blocks it feeds to the        *)
(* operator and the end of the feeding that it announces.  One operator is *)
(* chosen in Init.  NestedLoopsJoin, SortMergeRun and TextScan have        *)
(* modules of their own.                                                   *)
(*                                                                         *)
(* A work order is known by the block, or the partition of an aggregation, *)
(* that it is about, or by Whole when it does all the work.                *)
(***************************************************************************)
EXTENDS Naturals, Sequences

CONSTANTS
    Operators,      \* classes of operators to be considered
    Placements,     \* of the input: "plain", "partitioned", "numa"
    Versions,       \* "single" or "distributed"
    NumPartitions,  \* partitions of a partitioned relation or aggregation
    MaxBlocks       \* bound: blocks of the input

RelationalOperatorsAssumption ==
    /\ Placements \subseteq {"plain", "partitioned", "numa"}
    /\ Versions \subseteq {"single", "distributed"}
    /\ NumPartitions \in 1 .. MaxBlocks
    /\ MaxBlocks \in Nat

Blocks     == 1 .. MaxBlocks
Whole      == 0
Partitions == 1 .. NumPartitions

\* Operators with a work order per block, and those of them that may be fed.
PerBlock == {"Select", "Aggregation", "BuildHash", "HashJoin", "Delete",
             "Sample", "SaveBlocks", "SortRunGeneration", "Update"}
Fed      == PerBlock \ {"Update"}

VARIABLES
    op, version, placement,  \* what is modelled
    stored,                  \* input_relation_is_stored_
    known,                   \* number of blocks the operator has been given
    ids,                     \* input_relation_block_ids_
    part_ids,                \* input_relation_block_ids_in_partition_
    generated,               \* num_workorders_generated_
    part_generated,          \* num_workorders_generated_in_partition_
    started,                 \* started_, work_generated_, generated_
    done_feeding,            \* done_feeding_input_relation_
    blocking_met,            \* blocking_dependencies_met_
    orders,                  \* number of work orders about each unit
    lost_toss,               \* blocks for which Sample has lost a toss
    status,                  \* status of the database
    ended,                   \* relations whose feeding has ended
    returned                 \* what the last call returned

config == <<op, version, placement, stored>>
input  == <<known, ids, part_ids, done_feeding, blocking_met, ended>>
vars   == <<config, input, generated, part_generated, started, orders,
            lost_toss, status, returned>>

Partitioned    == placement # "plain"
PartitionOf(b) == 1 + (b % NumPartitions)
BlocksOf(p, n) == SelectSeq([i \in 1 .. n |-> i], LAMBDA b : PartitionOf(b) = p)

\* Only Select looks at the partitions of its input; the placement of
\* FinalizeAggregation is that of its aggregation state.
Init ==
    /\ op \in Operators /\ version \in Versions /\ placement \in Placements
    /\ stored \in BOOLEAN
    /\ (op = "Update" => stored) /\ (op = "SaveBlocks" => ~stored)
    /\ op \in {"Select", "FinalizeAggregation"} \/ ~Partitioned
    /\ known \in IF stored /\ op \in PerBlock THEN 0 .. MaxBlocks ELSE {0}
    /\ ids = [i \in 1 .. known |-> i]
    /\ part_ids = [p \in Partitions |-> IF Partitioned THEN BlocksOf(p, known) ELSE <<>>]
    /\ generated = 0 /\ part_generated = [p \in Partitions |-> 0]
    /\ started = FALSE /\ done_feeding = FALSE /\ blocking_met \in BOOLEAN
    /\ orders = [u \in {Whole} \cup Blocks |-> 0]
    /\ lost_toss = {} /\ status = "Consistent"
    /\ ended = {} /\ returned = FALSE

-----------------------------------------------------------------------------
(* What the query manager tells the operator.                              *)

\* With a partition scheme the block goes to the list of its partition only.
feedInputBlock ==
    /\ op \in Fed /\ ~stored /\ "input" \notin ended /\ known < MaxBlocks
    /\ known' = known + 1
    /\ IF Partitioned
       THEN /\ part_ids' = [part_ids EXCEPT ![PartitionOf(known')] = Append(@, known')]
            /\ UNCHANGED ids
       ELSE /\ ids' = Append(ids, known')
            /\ UNCHANGED part_ids
    /\ UNCHANGED <<config, done_feeding, blocking_met, ended, generated,
                   part_generated, started, orders, lost_toss, status, returned>>

\* HashJoin ignores the end of the relation its hash table is built from.
doneFeedingInputBlocks(rel) ==
    /\ rel \notin ended
    /\ rel = "build" => op = "HashJoin"
    /\ ended' = ended \cup {rel}
    /\ done_feeding' = (done_feeding \/ op # "HashJoin" \/ rel = "input")
    /\ UNCHANGED <<config, known, ids, part_ids, blocking_met, generated,
                   part_generated, started, orders, lost_toss, status, returned>>

informAllBlockingDependenciesMet ==
    /\ ~blocking_met
    /\ blocking_met' = TRUE
    /\ UNCHANGED <<config, known, ids, part_ids, done_feeding, ended, generated,
                   part_generated, started, orders, lost_toss, status, returned>>

-----------------------------------------------------------------------------
(* The work orders.                                                        *)

Elements(s) == {s[i] : i \in DOMAIN s}
From(s, n)  == Elements(SubSeq(s, n + 1, Len(s)))
Add(units)  == orders' = [u \in DOMAIN orders |-> orders[u] + (IF u \in units THEN 1 ELSE 0)]
AddNone     == UNCHANGED orders

\* All the blocks of a stored relation, at the first call.
AddStored(units) ==
    /\ Add(IF started THEN {} ELSE units)
    /\ started' = TRUE /\ returned' = TRUE
    /\ UNCHANGED <<generated, part_generated, lost_toss, status>>

AddAllAgain ==
    /\ Add(Elements(ids))
    /\ generated' = Len(ids)
    /\ returned' = done_feeding
    /\ UNCHANGED <<part_generated, started, lost_toss, status>>

\* The blocks fed since the last call.
AddNew ==
    /\ Add(From(ids, generated))
    /\ generated' = Len(ids)
    /\ returned' = done_feeding
    /\ UNCHANGED <<part_generated, started, lost_toss, status>>

AddBlocks == IF stored THEN AddStored(Elements(ids)) ELSE AddNew

\* One work order for all the work, once the operator may start.
AddWhole(may_start) ==
    /\ Add(IF may_start /\ ~started THEN {Whole} ELSE {})
    /\ started' = (started \/ may_start)
    /\ returned' = started'
    /\ UNCHANGED <<generated, part_generated, lost_toss>>

Nothing(result) ==
    /\ AddNone
    /\ returned' = result
    /\ UNCHANGED <<generated, part_generated, started, lost_toss, status>>

AggregationWork       == op = "Aggregation" /\ AddBlocks
BuildHashWork         == op = "BuildHash" /\ AddBlocks
DeleteWork            == op = "Delete" /\ AddBlocks
SortRunGenerationWork == op = "SortRunGeneration" /\ AddBlocks
SaveBlocksWork        == op = "SaveBlocks" /\ AddNew

HashJoinWork ==
    /\ op = "HashJoin"
    /\ IF blocking_met THEN AddBlocks ELSE Nothing(FALSE)

\* addWorkOrders(): the blocks that are not listed by partition.
addWorkOrders == AddBlocks

\* addPartitionAwareWorkOrders(): the blocks of every partition.
addPartitionAwareWorkOrders ==
    IF stored
    THEN AddStored(UNION {Elements(part_ids[p]) : p \in Partitions})
    ELSE /\ Add(UNION {From(part_ids[p], part_generated[p]) : p \in Partitions})
         /\ part_generated' = [p \in Partitions |-> Len(part_ids[p])]
         /\ returned' = done_feeding
         /\ UNCHANGED <<generated, started, lost_toss, status>>

\* A partitioned input without a NUMA placement scheme is left out.
SelectWork ==
    /\ op = "Select"
    /\ IF version = "single" /\ Partitioned
       THEN IF placement = "numa"
            THEN addPartitionAwareWorkOrders
            ELSE /\ AddNone
                 /\ started' = (started \/ stored)
                 /\ returned' = (stored \/ done_feeding)
                 /\ UNCHANGED <<generated, part_generated, lost_toss, status>>
       ELSE addWorkOrders

\* By block: a lost toss leaves a stored block out; a block that is fed is
\* tossed for again until the toss is won, which is one step here: that with a
\* percentage of 0 it never is won is left out.  By tuple: every block.
SampleWork ==
    /\ op = "Sample"
    /\ \/ AddBlocks
       \/ \E lost \in SUBSET (IF stored THEN Elements(ids) ELSE From(ids, generated)) :
            /\ Add(IF ~stored THEN From(ids, generated)
                   ELSE IF started THEN {} ELSE Elements(ids) \ lost)
            /\ lost_toss' = lost_toss \cup (IF started THEN {} ELSE lost)
            /\ generated' = IF stored THEN generated ELSE Len(ids)
            /\ started' = (started \/ stored)
            /\ returned' = (stored \/ done_feeding)
            /\ UNCHANGED <<part_generated, status>>

UpdateWork ==
    /\ op = "Update"
    /\ IF blocking_met THEN AddStored(Elements(ids)) ELSE Nothing(started)

InsertWork            == op = "Insert" /\ AddWhole(blocking_met) /\ UNCHANGED status
DestroyHashWork       == op = "DestroyHash" /\ AddWhole(blocking_met) /\ UNCHANGED status
DestroyAggregationStateWork ==
    op = "DestroyAggregationState" /\ AddWhole(blocking_met) /\ UNCHANGED status
WindowAggregationWork == op = "WindowAggregation" /\ AddWhole(blocking_met) /\ UNCHANGED status
TableGeneratorWork    == op = "TableGenerator" /\ AddWhole(TRUE) /\ UNCHANGED status
CreateTableWork       == op = "CreateTable" /\ Nothing(TRUE)
CreateIndexWork       == op = "CreateIndex" /\ Nothing(TRUE)

DropTableWork ==
    /\ op = "DropTable"
    /\ AddWhole(blocking_met)
    /\ status' = IF blocking_met /\ ~started THEN "PendingBlockDeletions" ELSE status

\* A work order per partition of the aggregation state; the protos name none.
FinalizeAggregationWork ==
    /\ op = "FinalizeAggregation"
    /\ IF version = "single" /\ Partitioned
       THEN IF blocking_met THEN AddStored(Partitions) ELSE Nothing(started)
       ELSE AddWhole(blocking_met) /\ UNCHANGED status

getAllWorkOrders ==
    /\ ~returned
    /\ \/ SelectWork \/ AggregationWork \/ BuildHashWork \/ HashJoinWork
       \/ DeleteWork \/ SampleWork \/ SaveBlocksWork \/ SortRunGenerationWork
       \/ UpdateWork \/ InsertWork \/ DropTableWork \/ CreateTableWork
       \/ CreateIndexWork \/ DestroyHashWork \/ DestroyAggregationStateWork
       \/ FinalizeAggregationWork \/ WindowAggregationWork \/ TableGeneratorWork
    /\ UNCHANGED <<config, input>>

Next ==
    \/ feedInputBlock
    \/ \E rel \in {"input", "build"} : doneFeedingInputBlocks(rel)
    \/ informAllBlockingDependenciesMet
    \/ getAllWorkOrders

\* The operators that produce the input finish, and the query manager asks
\* for work orders after each message about the operator.
Spec ==
    /\ Init /\ [][Next]_vars
    /\ WF_vars(getAllWorkOrders)
    /\ WF_vars(doneFeedingInputBlocks("input"))
    /\ WF_vars(informAllBlockingDependenciesMet)
-----------------------------------------------------------------------------
(* Properties.                                                             *)

TypeOK ==
    /\ op \in Operators /\ version \in Versions /\ placement \in Placements
    /\ stored \in BOOLEAN /\ known \in 0 .. MaxBlocks
    /\ ids \in Seq(Blocks) /\ Len(ids) <= known
    /\ \A p \in Partitions : part_ids[p] \in Seq(Blocks)
    /\ generated \in 0 .. Len(ids)
    /\ \A p \in Partitions : part_generated[p] \in 0 .. Len(part_ids[p])
    /\ {started, done_feeding, blocking_met, returned} \subseteq BOOLEAN
    /\ orders \in [{Whole} \cup Blocks -> Nat] /\ lost_toss \subseteq Blocks
    /\ status \in {"Consistent", "PendingBlockDeletions"}
    /\ ended \subseteq {"input", "build"}

\* What the operator has work orders to do for, at the end.
AllWork ==
    CASE op \in PerBlock -> 1 .. known
      [] op = "FinalizeAggregation" /\ Partitioned -> Partitions
      [] op \in {"CreateTable", "CreateIndex"} -> {}
      [] OTHER -> {Whole}

\* No block, partition or operator gets a second work order, however often
\* getAllWorkOrders() is called and whatever is fed between the calls.
NeverTwice == \A u \in DOMAIN orders : orders[u] <= IF u \in AllWork THEN 1 ELSE 0

\* When getAllWorkOrders() has returned TRUE the query manager never calls it
\* again: by then there is a work order for all the work, nothing more is fed,
\* and only Sample may have left a block out, for which it lost a toss.
AllWorkGenerated == returned => \A u \in AllWork \ lost_toss : orders[u] = 1

\* A block that lost its toss is not part of a sample by blocks.
SampleByToss == \A b \in lost_toss : orders[b] = 0

\* Every operator finishes the generation of its work orders.
GenerationEnds == <>returned
====
