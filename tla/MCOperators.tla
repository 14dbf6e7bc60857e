---------------------------- MODULE MCOperators ----------------------------
(***************************************************************************)
(* The relational operators, for the model checker: an initial state       *)
(* chooses an operator or a work order, and the others stay as they are.   *)
(***************************************************************************)
EXTENDS NestedLoopsJoin, Sequences

CONSTANT Parts  \* of those SuiteInit chooses from

VARIABLES
    part,
    op, version, placement, is_stored, known, ids, part_ids, generated,
    part_generated, begun, done_feeding, blocking_met, units, lost_toss, status,
    ended, result,                    \* see RelationalOperators
    file, segment_size, text_met, work_generated, segments, loaded,  \* see TextScan
    input_stored, blocks, added, sorting, feeding_ended, runs_expected,
    runs_scheduled, pending, cur_level, final_level, jobs, feedback, streamed,
    sorted,                           \* see SortMergeRun
    config, runs, top_k, at, heap, nulls, out, pc            \* see RunMerger

Work == INSTANCE RelationalOperators
          WITH Operators <- {"Select", "Aggregation", "BuildHash", "HashJoin", "Delete",
                             "Sample", "SaveBlocks", "SortRunGeneration", "Update", "Insert",
                             "DropTable", "CreateTable", "CreateIndex", "DestroyHash",
                             "DestroyAggregationState", "FinalizeAggregation",
                             "WindowAggregation", "TableGenerator"},
               Placements <- {"plain", "numa"}, Versions <- {"single", "distributed"},
               NumPartitions <- 2,
               stored <- is_stored, started <- begun, orders <- units, returned <- result
Text == INSTANCE TextScan
          WITH Chars <- {"v", ",", "n"}, NumColumns <- 2, SegmentSizes <- {2, 3, 4},
               MaxLength <- 7, orders <- segments, blocking_met <- text_met
\* Enough blocks for three levels and partial merges.
Sort == INSTANCE SortMergeRun
          WITH MergeFactor <- 2, MaxBlocks <- 8, started <- sorting, returned <- sorted
\* One ORDER BY column: copies and the two merges that treat NULLs apart.
Single == INSTANCE RunMerger
            WITH Keys <- {1, 2}, Columns <- 1, NumRuns <- 3, MaxLength <- 2, MaxTopK <- 3,
                 BlockTuples <- 2
\* Two ORDER BY columns: the generic merge.
Generic == INSTANCE RunMerger
             WITH Keys <- {1, 2}, Columns <- 2, NumRuns <- 2, MaxLength <- 2, MaxTopK <- 1,
                  BlockTuples <- 2

ASSUME InstanceAssumptions ==
    /\ Work!RelationalOperatorsAssumption /\ Text!TextScanAssumption
    /\ Sort!MergeAssumption /\ Single!MergerAssumption /\ Generic!MergerAssumption

work  == <<op, version, placement, is_stored, known, ids, part_ids, generated,
           part_generated, begun, done_feeding, blocking_met, units, lost_toss, status,
           ended, result>>
text  == <<file, segment_size, text_met, work_generated, segments, loaded>>
sort  == <<input_stored, blocks, added, sorting, feeding_ended, runs_expected,
           runs_scheduled, pending, cur_level, final_level, jobs, feedback, streamed, sorted>>
merge == <<config, runs, top_k, at, heap, nulls, out, pc>>
suite == <<part, vars, work, text, sort, merge>>

\* A part that is not chosen is in one of its initial states.
SuiteInit ==
    /\ part \in Parts
    /\ part = "join" \/ (left_stored = FALSE /\ right_stored = FALSE)
    /\ Init
    /\ part = "work" \/ (op = "Insert" /\ version = "single" /\ is_stored = TRUE /\ blocking_met = TRUE)
    /\ Work!Init
    \* Operators of the distributed version do not look at partitions.
    /\ version = "distributed" => placement = "plain"
    /\ part = "text" \/ (file = <<>> /\ segment_size = 2)
    /\ Text!Init
    /\ part = "sort" \/ input_stored = FALSE
    /\ Sort!Init
    /\ part \in {"single", "generic"}
         \/ (runs = <<<<<<1>>>>>> /\ config = <<[ascending |-> TRUE, null_first |-> TRUE]>> /\ top_k = 0)
    /\ IF part = "generic" THEN Generic!Init ELSE Single!Init

SuiteNext ==
    \/ part = "join" /\ Next /\ UNCHANGED <<part, work, text, sort, merge>>
    \/ part = "work" /\ Work!Next /\ UNCHANGED <<part, vars, text, sort, merge>>
    \/ part = "text" /\ Text!Next /\ UNCHANGED <<part, vars, work, sort, merge>>
    \/ part = "sort" /\ Sort!Next /\ UNCHANGED <<part, vars, work, text, merge>>
    \/ part = "single" /\ Single!Next /\ UNCHANGED <<part, vars, work, text, sort>>
    \/ part = "generic" /\ Generic!Next /\ UNCHANGED <<part, vars, work, text, sort>>

\* The fairness of NestedLoopsJoin, RelationalOperators and SortMergeRun.
SuiteSpec ==
    /\ SuiteInit /\ [][SuiteNext]_suite
    /\ WF_vars(part = "join" /\ doneFeedingLeft) /\ WF_vars(part = "join" /\ doneFeedingRight)
    /\ WF_vars(part = "join" /\ getAllWorkOrders)
    /\ WF_work(part = "work" /\ Work!getAllWorkOrders)
    /\ WF_work(part = "work" /\ Work!doneFeedingInputBlocks("input"))
    /\ WF_work(part = "work" /\ Work!informAllBlockingDependenciesMet)
    /\ WF_sort(part = "sort" /\ Sort!firstGetAllWorkOrders)
    /\ WF_sort(part = "sort" /\ Sort!nextGetAllWorkOrders)
    /\ WF_sort(part = "sort" /\ Sort!doneFeedingInputBlocks)
    /\ WF_sort(part = "sort" /\ \E j \in jobs : Sort!execute(j))
    /\ WF_sort(part = "sort" /\ \E f \in feedback : Sort!receiveFeedbackMessage(f))

-----------------------------------------------------------------------------
(***************************************************************************)
(* A work order for every unit of work, and none twice, whatever is fed    *)
(* between the calls; the rows of a text file each by one work order.      *)
(***************************************************************************)
WorkExact ==
    /\ TypeOK /\ Work!TypeOK /\ Work!NeverTwice /\ Work!AllWorkGenerated
    /\ Text!TypeOK /\ Text!NoRowTwice /\ Text!AllRowsLoaded

(***************************************************************************)
(* The merges of a sort: no block is lost or merged twice and one run is   *)
(* left; and each merge of runs writes the tuples that ORDER BY and LIMIT  *)
(* ask for, in order, without comparing a NULL.                            *)
(***************************************************************************)
SortExact ==
    /\ Sort!TypeOK /\ Sort!NoBlockLost /\ Sort!JobsReadable /\ Sort!EndsInOneRun
    /\ IF part = "generic"
       THEN Generic!OutputSorted /\ Generic!TopKExact
       ELSE Single!TypeOK /\ Single!OutputSorted /\ Single!NoNullCompared /\ Single!TopKExact

\* The join, the other operators and the sort finish the generation of their
\* work orders.
GenerationEnds ==
    /\ (part = "join") ~> (part = "join" => returned)
    /\ (part = "work") ~> (part = "work" => result)
    /\ (part = "sort") ~> (part = "sort" => Sort!Finished)
=============================================================================
