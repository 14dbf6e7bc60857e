----------------------------- MODULE MCStorage -----------------------------
(***************************************************************************)
(* The buffer pool and the insert destinations, for the model checker: an  *)
(* initial state chooses one of them, and the other stays as it is.        *)
(***************************************************************************)
EXTENDS StorageManager, Sequences

CONSTANTS
    Parts,     \* of "pool", "destination" and "create"
    Workers, Tuples, Partitions, PartitionId, ExistingBlocks, Slots,
    OutputBlocks
               \* see InsertDestination; the ids of its blocks

VARIABLES
    which,     \* the part
    waiting, todo, mark, wpc, wblock, wpart, full, available_block_refs,
    available_block_ids, done_block_ids, windex, content, mail, rebuild
               \* see InsertDestination

\* Odd and even blocks: every other id falls into the same shard.
MCShard == [b \in Blocks |-> b % 2]

\* The odd tuples go to the first of two partitions, and one block of the
\* relation is in the pool of the first.  An existing block takes one tuple
\* more, every new one two.
MCPartitionId    == [x \in Tuples |-> IF x % 2 = 1 THEN 1 ELSE 2]
MCExistingBlocks == [p \in Partitions |-> IF p = 1 THEN <<1>> ELSE <<>>]
MCSlots          == [b \in OutputBlocks |-> IF b = 1 THEN 1 ELSE 2]

\* A pool of blocks, or a new block for every call.
Out == INSTANCE InsertDestination
         WITH always_create <- which = "create", Blocks <- OutputBlocks,
              pc <- wpc, block <- wblock, part <- wpart, block_index <- windex

ASSUME DestinationAssumed == Out!DestinationAssumption

destination == <<waiting, todo, mark, wpc, wblock, wpart, full, available_block_refs,
                 available_block_ids, done_block_ids, windex, content, mail, rebuild>>
suite == <<which, vars, destination>>

SuiteInit ==
    /\ which \in Parts
    /\ Init
    /\ Out!Init

SuiteNext ==
    \/ which = "pool" /\ Next /\ UNCHANGED <<which, destination>>
    \/ which \in {"destination", "create"} /\ UNCHANGED <<which, vars>> /\ Out!Next
    \* An exception has ended the program, or every block has been deleted.
    \/ /\ which = "pool" /\ (known = {} \/ \E t \in Threads : pc[t] = "thrown")
       /\ UNCHANGED suite

\* The fairness of InsertDestination.
SuiteSpec ==
    /\ SuiteInit /\ [][SuiteNext]_suite
    /\ \A w \in Workers :
         WF_destination(which = "destination" /\ (Out!bulkInsertTuples(w) \/ Out!Work(w)))
    /\ WF_destination(which = "destination" /\ Out!getPartiallyFilledBlocks)
    /\ WF_destination(which = "destination" /\ \E b \in OutputBlocks : Out!executeRebuild(b))

-----------------------------------------------------------------------------
(***************************************************************************)
(* The destination: no two workers insert into one block, every tuple is   *)
(* inserted once and into its partition, every block is streamed once and  *)
(* in the end all of them are.                                             *)
(***************************************************************************)
DestinationExact == Out!DestinationExact

\* Every call returns and everything is streamed in the end.
InsertionsEnd == (which = "destination") ~> (which = "destination" => Out!Completed)
=============================================================================
