-------------------------- MODULE NestedLoopsJoin --------------------------
(***************************************************************************)
(* NestedLoopsJoinOperator: a work order for every pair of a block of the  *)
(* left and a block of the right relation, generated while blocks of       *)
(* either are still being fed.  Two counters tell the pairs that have a    *)
(* work order from those that have none: when both relations are fed, the  *)
(* new pairs are what is left of a rectangle when a smaller one is cut     *)
(* out of a corner.                                                        *)
(*                                                                         *)
(* Blocks are numbered in the order they are fed.  The two relations are   *)
(* different (ExecutionGenerator rejects a self-join).                     *)
(***************************************************************************)
EXTENDS Integers

CONSTANT MaxBlocks   \* bound: blocks of each relation

ASSUME MaxBlocksAssumption == MaxBlocks \in Nat

Blocks == 1 .. MaxBlocks
Pairs  == Blocks \X Blocks

VARIABLES
    left_stored, right_stored,  \* left/right_relation_is_stored_
    left, right,                \* sizes of left/right_relation_block_ids_
    left_gen, right_gen,        \* num_left/right_workorders_generated_
    done_left, done_right,      \* done_feeding_left/right_relation_
    all_generated,              \* all_workorders_generated_
    orders,                     \* pair -> number of its work orders
    returned                    \* what the last call returned

stored   == <<left_stored, right_stored>>
counters == <<left_gen, right_gen>>
done     == <<done_left, done_right>>
vars == <<stored, left, right, counters, done, all_generated, orders, returned>>

Init ==
    /\ left_stored \in BOOLEAN /\ right_stored \in BOOLEAN
    /\ left \in 0 .. MaxBlocks /\ (left_stored \/ left = 0)
    /\ right \in 0 .. MaxBlocks /\ (right_stored \/ right = 0)
    /\ left_gen = 0 /\ right_gen = 0
    /\ done_left = FALSE /\ done_right = FALSE
    /\ all_generated = FALSE
    /\ orders = [p \in Pairs |-> 0]
    /\ returned = FALSE

-----------------------------------------------------------------------------
(* What the query manager tells the operator.                              *)

feedLeftBlock ==
    /\ ~left_stored /\ ~done_left /\ left < MaxBlocks
    /\ left' = left + 1
    /\ UNCHANGED <<stored, right, counters, done, all_generated, orders, returned>>

feedRightBlock ==
    /\ ~right_stored /\ ~done_right /\ right < MaxBlocks
    /\ right' = right + 1
    /\ UNCHANGED <<stored, left, counters, done, all_generated, orders, returned>>

doneFeedingLeft ==
    /\ ~left_stored /\ ~done_left
    /\ done_left' = TRUE
    /\ UNCHANGED <<stored, left, right, counters, done_right, all_generated, orders, returned>>

doneFeedingRight ==
    /\ ~right_stored /\ ~done_right
    /\ done_right' = TRUE
    /\ UNCHANGED <<stored, left, right, counters, done_left, all_generated, orders, returned>>

-----------------------------------------------------------------------------
(* The work orders.                                                        *)

\* The blocks numbered from min (excluded) to max of each relation.
Rect(lmin, lmax, rmin, rmax) == (lmin + 1 .. lmax) \X (rmin + 1 .. rmax)
Area(lmin, lmax, rmin, rmax) == (lmax - lmin) * (rmax - rmin)

Count(S, p)   == IF p \in S THEN 1 ELSE 0
AddPairs(S)   == orders' = [p \in Pairs |-> orders[p] + Count(S, p)]
Add2(S, T)    == orders' = [p \in Pairs |-> orders[p] + Count(S, p) + Count(T, p)]

\* The counters advance only if a work order was generated.
Advance(new_workorders) ==
    IF new_workorders > 0
    THEN left_gen' = left /\ right_gen' = right
    ELSE UNCHANGED counters

bothStored ==
    /\ left_stored /\ right_stored
    /\ AddPairs(IF all_generated THEN {} ELSE Rect(0, left, 0, right))
    /\ all_generated' = TRUE
    /\ returned' = TRUE
    /\ UNCHANGED counters

\* Mutant: the pairs of two new blocks are generated by both loops.
CornerTwice ==
    /\ ~left_stored /\ ~right_stored
    /\ \/ /\ left > left_gen /\ right > right_gen
          /\ Add2(Rect(0, left, right_gen, right), Rect(left_gen, left, 0, right))
          /\ Advance(Area(0, left, right_gen, right) + Area(left_gen, left, 0, right_gen))
       \/ /\ left = left_gen /\ right > right_gen
          /\ AddPairs(Rect(0, left, right_gen, right))
          /\ Advance(Area(0, left, right_gen, right))
       \/ /\ left > left_gen /\ right = right_gen
          /\ AddPairs(Rect(left_gen, left, 0, right))
          /\ Advance(Area(left_gen, left, 0, right))
       \/ /\ left = left_gen /\ right = right_gen
          /\ UNCHANGED <<orders, counters>>
    /\ returned' = (done_left /\ done_right)
    /\ UNCHANGED all_generated

\* Mutant: done when the feeding of the left relation has ended.
ReturnAfterLeft ==
    /\ ~left_stored /\ ~right_stored
    /\ \/ /\ left > left_gen /\ right > right_gen
          /\ Add2(Rect(0, left, right_gen, right), Rect(left_gen, left, 0, right_gen))
          /\ Advance(Area(0, left, right_gen, right) + Area(left_gen, left, 0, right_gen))
       \/ /\ left = left_gen /\ right > right_gen
          /\ AddPairs(Rect(0, left, right_gen, right))
          /\ Advance(Area(0, left, right_gen, right))
       \/ /\ left > left_gen /\ right = right_gen
          /\ AddPairs(Rect(left_gen, left, 0, right))
          /\ Advance(Area(left_gen, left, 0, right))
       \/ /\ left = left_gen /\ right = right_gen
          /\ UNCHANGED <<orders, counters>>
    /\ returned' = done_left
    /\ UNCHANGED all_generated

bothNotStored ==
    /\ ~left_stored /\ ~right_stored
    /\ \/ /\ left > left_gen /\ right > right_gen
          /\ Add2(Rect(0, left, right_gen, right), Rect(left_gen, left, 0, right_gen))
          /\ Advance(Area(0, left, right_gen, right) + Area(left_gen, left, 0, right_gen))
       \/ /\ left = left_gen /\ right > right_gen
          /\ AddPairs(Rect(0, left, right_gen, right))
          /\ Advance(Area(0, left, right_gen, right))
       \/ /\ left > left_gen /\ right = right_gen
          /\ AddPairs(Rect(left_gen, left, 0, right))
          /\ Advance(Area(left_gen, left, 0, right))
       \/ /\ left = left_gen /\ right = right_gen
          /\ UNCHANGED <<orders, counters>>
    /\ returned' = (done_left /\ done_right)
    /\ UNCHANGED all_generated

oneStored ==
    /\ \/ /\ left_stored /\ ~right_stored
          /\ AddPairs(Rect(0, left, right_gen, right))
          /\ right_gen' = right /\ returned' = done_right
          /\ UNCHANGED left_gen
       \/ /\ ~left_stored /\ right_stored
          /\ AddPairs(Rect(left_gen, left, 0, right))
          /\ left_gen' = left /\ returned' = done_left
          /\ UNCHANGED right_gen
    /\ UNCHANGED all_generated

getAllWorkOrders ==
    /\ ~returned
    /\ bothStored \/ bothNotStored \/ oneStored
    /\ UNCHANGED <<stored, left, right, done>>

Next ==
    \/ feedLeftBlock \/ feedRightBlock \/ doneFeedingLeft \/ doneFeedingRight
    \/ getAllWorkOrders

\* The producers finish, and the query manager asks for work orders after
\* every message about the operator.
Spec ==
    /\ Init /\ [][Next]_vars
    /\ WF_vars(doneFeedingLeft) /\ WF_vars(doneFeedingRight)
    /\ WF_vars(getAllWorkOrders)

-----------------------------------------------------------------------------
(* Properties.                                                             *)

TypeOK ==
    /\ left_stored \in BOOLEAN /\ right_stored \in BOOLEAN
    /\ left \in 0 .. MaxBlocks /\ right \in 0 .. MaxBlocks
    /\ left_gen \in 0 .. left /\ right_gen \in 0 .. right
    /\ done_left \in BOOLEAN /\ done_right \in BOOLEAN
    /\ all_generated \in BOOLEAN /\ returned \in BOOLEAN
    /\ orders \in [Pairs -> Nat]

\* The pairs the counters stand for.
Generated ==
    IF left_stored /\ right_stored
    THEN IF all_generated THEN Rect(0, left, 0, right) ELSE {}
    ELSE Rect(0, IF left_stored THEN left ELSE left_gen,
              0, IF right_stored THEN right ELSE right_gen)

\* The two counters describe the work orders exactly: each pair of blocks
\* below them has one work order, and no other pair has any.  In particular
\* no pair of tuples is joined twice.
PairsExact == \A p \in Pairs : orders[p] = Count(Generated, p)

\* When getAllWorkOrders() has returned TRUE and is not called any more, no
\* more blocks come and every pair of blocks has its work order.
AllPairsGenerated ==
    returned => /\ left_stored \/ done_left
                /\ right_stored \/ done_right
                /\ \A l \in 1 .. left, r \in 1 .. right : orders[<<l, r>>] = 1

====
