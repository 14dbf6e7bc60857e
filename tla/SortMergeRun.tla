---------------------------- MODULE SortMergeRun ----------------------------
(***************************************************************************)
(* SortMergeRunOperator and its MergeTree: sorted runs are merged, at most *)
(* merge_factor_ at a time and level by level, until one run is left.  The *)
(* work orders of one level start while runs of the level below are still  *)
(* missing, and the first level starts before it is known how many runs    *)
(* there will be.                                                          *)
(*                                                                         *)
(* A run is the set of input blocks merged into it and the relation its    *)
(* blocks were written to.  Blocks are numbered in the order they arrive.  *)
(***************************************************************************)
EXTENDS Integers, Sequences, FiniteSets, TLC

CONSTANTS
    MergeFactor,  \* merge_factor_
    MaxBlocks     \* bound: input blocks

MergeAssumption == MergeFactor \in Nat \ {0, 1} /\ MaxBlocks \in Nat

VARIABLES
    input_stored,   \* input_relation_is_stored_
    blocks,         \* size of input_relation_block_ids_
    added,          \* num_input_workorders_generated_
    started,        \* started_
    feeding_ended,  \* doneFeedingInputBlocks() was called
    runs_expected, runs_scheduled,  \* level -> number of runs
    pending,        \* level -> sequence of runs
    cur_level, final_level,
    jobs,           \* work orders that have not been executed
    feedback,       \* kRunOutputMessages that have not been received
    streamed,       \* runs whose blocks were announced to the consumers
    returned        \* what the last call returned

input == <<input_stored, blocks, feeding_ended>>
tree  == <<runs_expected, runs_scheduled, cur_level, final_level>>
work  == <<jobs, feedback, streamed>>
vars  == <<input, added, started, tree, pending, work, returned>>

\* kFinalLevelUninitialized, larger than any number of runs or levels.
Uninitialized == MaxBlocks + 1

num_levels == Cardinality(DOMAIN runs_expected)

Init ==
    /\ input_stored \in BOOLEAN
    /\ blocks \in 0 .. MaxBlocks /\ (input_stored \/ blocks = 0)
    /\ added = 0 /\ started = FALSE /\ feeding_ended = FALSE
    /\ runs_expected = <<>> /\ runs_scheduled = <<>> /\ pending = <<>>
    /\ cur_level = 0 /\ final_level = Uninitialized
    /\ jobs = {} /\ feedback = {} /\ streamed = {}
    /\ returned = FALSE

-----------------------------------------------------------------------------
(* The merge tree.                                                         *)

\* The number of runs of each level, up to the first that one merge can take.
RunsPerLevel(initial_runs) ==
    LET runs[l \in Nat] ==
            IF l = 0 THEN initial_runs ELSE (runs[l - 1] + MergeFactor - 1) \div MergeFactor
        last == CHOOSE l \in 0 .. initial_runs :
                    runs[l] <= MergeFactor /\ \A k \in 0 .. l - 1 : runs[k] > MergeFactor
    IN  [l \in 0 .. last |-> runs[l]]

\* The tree for the first level alone, while the number of runs is unknown.
initializeForPipeline == 0 :> Uninitialized

\* A vector that is resized: old elements stay, new ones are the default.
Resize(v, size, default) == [i \in 0 .. size - 1 |-> IF i \in DOMAIN v THEN v[i] ELSE default]

InputRun(b) == [from |-> "input", holds |-> {b}]

AddAllAgain(levels, min, max) ==
    [levels EXCEPT ![0] = @ \o [i \in 1 .. max |-> InputRun(i)]]

\* The input blocks numbered from min (excluded) to max join the first level.
AddInputRuns(levels, min, max) ==
    [levels EXCEPT ![0] = @ \o [i \in 1 .. max - min |-> InputRun(min + i)]]

\* Mutant: a level with a single run is never copied.
NeverNeedsCopy(expected) == FALSE

\* checkAndFixFinalMerge(): if the only merge of the tree was scheduled while
\* more runs could have come, it does not write to the output relation, and a
\* level is added that copies its run there.
NeedsCopyLevel(expected) == expected[0] = MergeFactor /\ runs_scheduled[0] = MergeFactor

-----------------------------------------------------------------------------
(* Merge jobs.                                                             *)

\* Mutant: the runs left over by full merges are never merged.
TakeFullOnly(p, expected, scheduled) ==
    IF expected <= scheduled THEN 0 ELSE Len(p) - (Len(p) % MergeFactor)

\* How many of the pending runs p of a level are scheduled: full merges, and
\* a smaller one when no more runs can come.
Take(p, expected, scheduled) ==
    IF expected <= scheduled THEN 0
    ELSE IF Len(p) + scheduled = expected THEN Len(p)
         ELSE Len(p) - (Len(p) % MergeFactor)

\* The runs of a level that are scheduled are taken from the back.
JobsOf(level, p, take) ==
    {[level |-> level, final |-> level = final_level', runs |-> {p[i] : i \in S}] :
        S \in {{i \in Len(p) - take + 1 .. Len(p) : (Len(p) - i) \div MergeFactor = k} :
                    k \in 0 .. (take + MergeFactor - 1) \div MergeFactor - 1}}

\* getMergeJobs() on the tree (e, s, p, c) that the call starts from.
getMergeJobs(e, s, p, c) ==
    LET levels  == c .. Cardinality(DOMAIN e) - 1
        take(l) == IF l \in levels THEN Take(p[l], e[l], s[l]) ELSE 0
    IN  /\ jobs' = jobs \cup UNION {JobsOf(l, p[l], take(l)) : l \in levels}
        /\ runs_scheduled' = [l \in DOMAIN s |-> s[l] + take(l)]
        /\ pending' = [l \in DOMAIN p |-> SubSeq(p[l], 1, Len(p[l]) - take(l))]
        /\ cur_level' = c + Cardinality({l \in levels : e[l] <= s[l]})
        /\ returned' = (final_level' # Uninitialized /\ runs_scheduled'[final_level'] = e[final_level'])

-----------------------------------------------------------------------------
(* The operator.                                                           *)

\* The first call sets up the tree, completely if the input is stored, or for
\* the first level alone.
firstGetAllWorkOrders ==
    LET expected == IF input_stored THEN RunsPerLevel(blocks) ELSE initializeForPipeline
        size     == Cardinality(DOMAIN expected)
    IN  /\ ~started /\ started' = TRUE
        /\ runs_expected' = expected
        /\ final_level' = IF input_stored THEN size - 1 ELSE Uninitialized
        /\ getMergeJobs(expected, [l \in 0 .. size - 1 |-> 0],
                        AddInputRuns(Resize(<<>>, size + 1, <<>>), 0, blocks), 0)
        /\ added' = IF input_stored THEN 0 ELSE blocks
        /\ UNCHANGED <<input, feedback, streamed>>

nextGetAllWorkOrders ==
    /\ started /\ ~returned
    /\ UNCHANGED <<runs_expected, final_level>>
    /\ getMergeJobs(runs_expected, runs_scheduled, pending, cur_level)
    /\ UNCHANGED <<input, added, started, feedback, streamed>>

\* The query manager calls getAllWorkOrders() for the first time before it
\* handles any message.
feedInputBlock ==
    /\ ~input_stored /\ started /\ ~feeding_ended /\ blocks < MaxBlocks
    /\ blocks' = blocks + 1
    /\ pending' = AddInputRuns(pending, added, blocks + 1)
    /\ added' = blocks + 1
    /\ UNCHANGED <<input_stored, feeding_ended, started, tree, work, returned>>

\* The tree is computed for the number of runs that is now known.
doneFeedingInputBlocks ==
    LET expected == RunsPerLevel(blocks)
        levels   == Cardinality(DOMAIN expected) + (IF NeedsCopyLevel(expected) THEN 1 ELSE 0)
    IN  /\ ~input_stored /\ started /\ ~feeding_ended
        /\ feeding_ended' = TRUE
        /\ runs_expected' = Resize(expected, levels, 1)
        /\ runs_scheduled' = Resize(runs_scheduled, levels, 0)
        /\ cur_level' = 0 /\ final_level' = levels - 1
        /\ pending' = AddInputRuns(Resize(pending, levels + 1, <<>>), added, blocks)
        /\ added' = blocks
        /\ UNCHANGED <<input_stored, blocks, started, work, returned>>

\* A worker merges the runs of a job.  Each block it fills, in the relation of
\* intermediate runs or in the output relation, is announced to the consumers
\* of the operator.
execute(j) ==
    LET run == [from  |-> IF j.final THEN "output" ELSE "run",
                holds |-> UNION {r.holds : r \in j.runs}]
    IN  /\ j \in jobs
        /\ jobs' = jobs \ {j}
        /\ streamed' = streamed \cup {run}
        /\ feedback' = feedback \cup {[level |-> j.level, run |-> run]}
        /\ UNCHANGED <<input, added, started, tree, pending, returned>>

receiveFeedbackMessage(f) ==
    /\ f \in feedback
    /\ feedback' = feedback \ {f}
    /\ pending' = [pending EXCEPT ![f.level + 1] = Append(@, f.run)]
    /\ UNCHANGED <<input, added, started, tree, jobs, streamed, returned>>

Next ==
    \/ firstGetAllWorkOrders \/ nextGetAllWorkOrders
    \/ feedInputBlock \/ doneFeedingInputBlocks
    \/ \E j \in jobs : execute(j)
    \/ \E f \in feedback : receiveFeedbackMessage(f)

\* The producer finishes, workers execute, the foreman handles its messages
\* and asks for work orders after each of them.
Spec ==
    /\ Init /\ [][Next]_vars
    /\ WF_vars(firstGetAllWorkOrders) /\ WF_vars(nextGetAllWorkOrders)
    /\ WF_vars(doneFeedingInputBlocks)
    /\ WF_vars(\E j \in jobs : execute(j))
    /\ WF_vars(\E f \in feedback : receiveFeedbackMessage(f))

-----------------------------------------------------------------------------
(* Properties.                                                             *)

Runs   == [from : {"input", "run", "output"}, holds : SUBSET (1 .. MaxBlocks)]
Levels == 0 .. MaxBlocks

TypeOK ==
    /\ blocks \in 0 .. MaxBlocks /\ added \in 0 .. blocks
    /\ final_level \in Levels \cup {Uninitialized}
    /\ final_level # Uninitialized => final_level = num_levels - 1
    /\ cur_level \in 0 .. num_levels
    /\ started => /\ DOMAIN runs_scheduled = 0 .. num_levels - 1
                  /\ DOMAIN pending = 0 .. num_levels
    /\ \A l \in DOMAIN pending : pending[l] \in Seq(Runs)
    /\ \A j \in jobs : j.level \in Levels /\ j.runs \subseteq Runs
    /\ \A f \in feedback : f.level \in DOMAIN pending /\ f.run \in Runs

\* Where input block b is: in runs that wait for a merge, in runs that are
\* being merged, and in merged runs that have not been received.
Places(b) ==
    UNION {{<<"pending", l, i>> : i \in {k \in DOMAIN pending[l] : b \in pending[l][k].holds}} :
               l \in DOMAIN pending}
    \cup UNION {{<<"job", j, r>> : r \in {q \in j.runs : b \in q.holds}} : j \in jobs}
    \cup {<<"feedback", f>> : f \in {m \in feedback : b \in m.run.holds}}

\* No input block is lost or merged twice on its way through the levels,
\* whatever the order of feeding, scheduling and merging.
NoBlockLost == started => \A b \in 1 .. blocks : Cardinality(Places(b)) = 1

\* A job merges at least one run and at most merge_factor_ of them, and its
\* runs are in the relation that its work order will read.
JobsReadable ==
    \A j \in jobs :
        /\ Cardinality(j.runs) \in 1 .. MergeFactor
        /\ \A r \in j.runs : r.from = IF j.level > 0 THEN "run" ELSE "input"

Finished == returned /\ jobs = {} /\ feedback = {}

\* When the operator is done, all input blocks are in one sorted run in the
\* output relation.
EndsInOneRun ==
    Finished /\ blocks > 0
        => pending[final_level + 1] = <<[from |-> "output", holds |-> 1 .. blocks]>>

\* What an operator is fed by the sort are blocks of the sort's output
\* relation: the consumers assert that the relation of a block is their input
\* relation.
ConsumersFedOutput == \A r \in streamed : r.from = "output"
====
