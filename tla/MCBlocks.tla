------------------------------ MODULE MCBlocks ------------------------------
(***************************************************************************)
(* Storage blocks and the CSB+-tree, for the model checker: an initial     *)
(* state chooses one of the blocks or one of the trees below.              *)
(***************************************************************************)
EXTENDS Integers, Sequences

CONSTANT Cases  \* the names of blocks and trees to choose from

VARIABLES
    case,
    store, index, flags, mode, fatal, rows,  \* see StorageBlock
    tree, tuples, lost, built                \* see CSBTree, whose fatal is lost

-----------------------------------------------------------------------------
(* Blocks.                                                                 *)

\* A split row store with an index of each kind, ad-hoc insertions.
Split == INSTANCE StorageBlock
           WITH Keys <- {0, 1}, Nullable <- FALSE, TupleStore <- "split",
                IndexTypes <- <<"bloom", "csb", "sma">>, Capacity <- 4, IndexCapacity <- 3,
                BatchCalls <- {}, LiteralSides <- {"right"},
                VariableLength <- TRUE, Partitioned <- FALSE

\* A packed row store, a CSB+-tree that is smaller than it, batches.
Packed == INSTANCE StorageBlock
            WITH Keys <- {0, 1}, Nullable <- FALSE, TupleStore <- "packed",
                 IndexTypes <- <<"csb", "sma">>, Capacity <- 3, IndexCapacity <- 2,
                 BatchCalls <- {"tuple", "accessor"}, LiteralSides <- {"right"},
                 VariableLength <- FALSE, Partitioned <- TRUE

\* A sorted column store, whose tuples move when one is inserted.
Sorted == INSTANCE StorageBlock
            WITH Keys <- {0, 1, 2}, Nullable <- FALSE, TupleStore <- "sorted",
                 IndexTypes <- <<"csb">>, Capacity <- 4, IndexCapacity <- 3,
                 BatchCalls <- {}, LiteralSides <- {"left", "right"},
                 VariableLength <- FALSE, Partitioned <- FALSE

\* A sorted column store that is filled in batches.
Bulk == INSTANCE StorageBlock
          WITH Keys <- {0, 1, 2}, Nullable <- FALSE, TupleStore <- "sorted",
               IndexTypes <- <<"sma", "csb">>, Capacity <- 3, IndexCapacity <- 3,
               BatchCalls <- {"tuple", "accessor"}, LiteralSides <- {"left", "right"},
               VariableLength <- FALSE, Partitioned <- TRUE

\* A CSB+-tree, asked with the literal to the left of the key too.
Flip == INSTANCE StorageBlock
          WITH Keys <- {0, 1}, Nullable <- FALSE, TupleStore <- "split",
               IndexTypes <- <<"csb">>, Capacity <- 2, IndexCapacity <- 2,
               BatchCalls <- {}, LiteralSides <- {"left", "right"},
               VariableLength <- FALSE, Partitioned <- FALSE

-----------------------------------------------------------------------------
(* Trees.  Two keys per node, so that few tuples make several levels.      *)

\* Insertions, updates and deletions until the node groups run out.
Group == INSTANCE CSBTree
           WITH Keys <- {0, 1}, MaxKeysInternal <- 2, MaxKeysLeaf <- 2, NodeGroups <- 2,
                Loads <- {<<>>}, NewKeys <- {0, 1}, MaxTuples <- 4,
                Operations <- {"insert", "update", "delete"}, fatal <- lost

\* Insertions below the greatest key, which is alone in the last leaf.
Grow == INSTANCE CSBTree
          WITH Keys <- {0, 1, 3}, MaxKeysInternal <- 2, MaxKeysLeaf <- 2, NodeGroups <- 7,
               Loads <- {<<0, 0, 3>>, <<0, 1, 3, 3>>, <<0, 0, 1, 1, 1, 1, 3>>},
               NewKeys <- {0, 1}, MaxTuples <- 13, Operations <- {"insert"}, fatal <- lost

\* A batch over three keys is told by how often each occurs.
Counted(a, b, c) == [i \in 1..(a + b + c) |-> IF i <= a THEN 0 ELSE IF i <= a + b THEN 1 ELSE 2]
Batches == UNION {{Counted(a, b, n - a - b) : b \in 0..(n - a)} : <<n, a>> \in
                    {p \in (0..19) \X (0..19) : p[2] <= p[1]}}

\* All batches of up to 19 tuples.
Rebuild == INSTANCE CSBTree
             WITH Keys <- {0, 1, 2}, MaxKeysInternal <- 2, MaxKeysLeaf <- 2, NodeGroups <- 7,
                  Loads <- Batches, NewKeys <- {}, MaxTuples <- 19,
                  Operations <- {"rebuild"}, fatal <- lost

ASSUME InstanceAssumptions ==
    /\ Split!StorageBlockAssumption /\ Packed!StorageBlockAssumption
    /\ Sorted!StorageBlockAssumption /\ Bulk!StorageBlockAssumption
    /\ Flip!StorageBlockAssumption
    /\ Group!CSBTreeAssumption /\ Grow!CSBTreeAssumption /\ Rebuild!CSBTreeAssumption

-----------------------------------------------------------------------------
block == <<store, index, flags, mode, fatal, rows>>
csb   == <<tree, tuples, lost, built>>

SuiteInit ==
    /\ case \in Cases
    /\ CASE case = "packed" -> Packed!Init
         [] case = "sorted" -> Sorted!Init
         [] case = "bulk"   -> Bulk!Init
         [] case = "flip"   -> Flip!Init
         [] OTHER           -> Split!Init
    /\ CASE case = "rebuild" -> Rebuild!Init
         [] case = "grow"    -> Grow!Init
         [] OTHER            -> Group!Init

SuiteNext ==
    \/ /\ \/ case = "split"  /\ Split!Next
          \/ case = "packed" /\ Packed!Next
          \/ case = "sorted" /\ Sorted!Next
          \/ case = "bulk"   /\ Bulk!Next
          \/ case = "flip"   /\ Flip!Next
       /\ UNCHANGED <<case, csb>>
    \/ /\ \/ case = "group"   /\ Group!Next
          \/ case = "grow"    /\ Grow!Next
          \/ case = "rebuild" /\ Rebuild!Next
       /\ UNCHANGED <<case, block>>

SuiteSpec == SuiteInit /\ [][SuiteNext]_<<case, block, csb>>

-----------------------------------------------------------------------------
(***************************************************************************)
(* A block: no query loses or adds a tuple, the flags say which indexes    *)
(* may be believed, an index answers with ids that fit, and tuples that    *)
(* come one by one never end the process.                                  *)
(***************************************************************************)
BlockExact ==
    /\ case = "split"  => Split!TypeOK /\ Split!TuplesConserved /\ Split!AnswerFits
    /\ case = "packed" => Packed!TuplesConserved /\ Packed!FlagsAgree
    /\ case = "sorted" => Sorted!TuplesConserved
    /\ case = "bulk"   => Bulk!TypeOK /\ Bulk!TuplesConserved /\ Bulk!FlagsAgree
    /\ case \in {"split", "sorted"} => Split!NeverFatal

\* Whatever the store and its indexes, a predicate selects the tuples it is
\* true of.
SearchExact ==
    /\ case = "split"  => Split!SearchExact
    /\ case = "packed" => Packed!SearchExact
    /\ case = "sorted" => Sorted!SearchExact
    /\ case = "bulk"   => Bulk!SearchExact

\* The same for a block that is asked with the literal on either side.
FlippedSearchExact == case = "flip" => Flip!SearchExact

(***************************************************************************)
(* A tree: no assertion fails, every entry to be removed is found, the     *)
(* leaves are a chain of all entries in order, a search is exact, the      *)
(* groups in use are those of the tree, and rebuild() takes as many as     *)
(* rebuildSpaceCheck() says.                                               *)
(***************************************************************************)
TreeExact ==
    /\ Group!AssertionsHold /\ Group!NeverFatal
    /\ case = "group"   => Group!ChainExact /\ Group!SearchExact /\ Group!GroupsExact
    /\ case = "grow"    => Grow!ChainExact /\ Grow!SearchExact /\ Grow!GroupsExact
    /\ case = "rebuild" => /\ Rebuild!ChainExact /\ Rebuild!SearchExact
                           /\ Rebuild!GroupsExact /\ Rebuild!SpaceCheckExact
=============================================================================
