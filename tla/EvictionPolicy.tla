--------------------------- MODULE EvictionPolicy ---------------------------
(***************************************************************************)
(* What an eviction policy knows of the blocks, as LRUKEvictionPolicyImpl  *)
(* keeps it (the policy of every StorageManager): reference counts, the    *)
(* in-memory flags and the set of candidates.  The times of the last K     *)
(* references only order the candidates; any of them may be chosen here.   *)
(***************************************************************************)
EXTENDS Naturals

CONSTANT Blocks   \* the block ids that may ever be generated

VARIABLES
    ref_count,              \* BlockInfo::ref_count_ of every block
    in_memory,              \* the blocks whose BlockInfo::in_memory_ is set
    nonreferenced_blocks    \* nonreferenced_blocks_

policy == <<ref_count, in_memory, nonreferenced_blocks>>

PolicyType ==
    /\ ref_count \in [Blocks -> Nat]
    /\ in_memory \subseteq Blocks
    /\ nonreferenced_blocks \subseteq Blocks

PolicyInit ==
    /\ ref_count = [b \in Blocks |-> 0]
    /\ in_memory = {}
    /\ nonreferenced_blocks = {}

-----------------------------------------------------------------------------
Candidates == nonreferenced_blocks \cap in_memory

\* The policy forgets its choice at once: it assumes the block is evicted.
chooseBlockToEvict(b) ==
    /\ b \in Candidates
    /\ in_memory' = in_memory \ {b}
    /\ nonreferenced_blocks' = nonreferenced_blocks \ {b}
    /\ UNCHANGED ref_count

blockCreated(b) ==
    /\ in_memory' = in_memory \cup {b}
    /\ nonreferenced_blocks' = nonreferenced_blocks \cup {b}
    /\ UNCHANGED ref_count

blockEvicted(b) ==
    /\ in_memory' = in_memory \ {b}
    /\ nonreferenced_blocks' = nonreferenced_blocks \ {b}
    /\ UNCHANGED ref_count

blockReferenced(b) ==
    /\ ref_count' = [ref_count EXCEPT ![b] = @ + 1]
    /\ in_memory' = in_memory \cup {b}
    /\ nonreferenced_blocks' =
         IF ref_count[b] = 0 THEN nonreferenced_blocks \ {b} ELSE nonreferenced_blocks

blockUnreferenced(b) ==
    /\ ref_count' = [ref_count EXCEPT ![b] = @ - 1]
    /\ nonreferenced_blocks' =
         IF ref_count[b] = 1 THEN nonreferenced_blocks \cup {b} ELSE nonreferenced_blocks
    /\ UNCHANGED in_memory

blockDeleted(b) ==
    /\ ref_count' = [ref_count EXCEPT ![b] = 0]
    /\ in_memory' = in_memory \ {b}
    /\ nonreferenced_blocks' = nonreferenced_blocks \ {b}
=============================================================================
