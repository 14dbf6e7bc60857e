----------------------- MODULE NestedLoopsJoinProofs -----------------------
(***************************************************************************)
(* The work orders of a nested-loops join are, for any number of blocks    *)
(* and any order in which they are fed, exactly one for each pair.  The    *)
(* invariant is inductive once PairsExact says what the two counters stand *)
(* for: AllPairsGenerated follows from it because the counters fall behind *)
(* the blocks only while one of the relations has none.                    *)
(***************************************************************************)
EXTENDS NestedLoopsJoin, TLAPS

IInv == TypeOK /\ PairsExact /\ AllPairsGenerated

-----------------------------------------------------------------------------
(* Rectangles.                                                             *)

\* A pair is in a rectangle iff its two numbers are within the bounds.
LEMMA RectMember ==
    ASSUME NEW a \in Int, NEW b \in Int, NEW c \in Int, NEW d \in Int, NEW p \in Pairs
    PROVE  /\ p = <<p[1], p[2]>> /\ p[1] \in Nat \ {0} /\ p[2] \in Nat \ {0}
           /\ p \in Rect(a, b, c, d) <=> (a < p[1] /\ p[1] <= b /\ c < p[2] /\ p[2] <= d)
BY MaxBlocksAssumption DEF Rect, Pairs, Blocks

\* An L-shape: the new columns at full height and the rest of the new rows
\* are disjoint, and with the old rectangle they make the new one.
LEMMA CornerCut ==
    ASSUME NEW l \in Nat, NEW r \in Nat, NEW lg \in 0 .. l, NEW rg \in 0 .. r, NEW p \in Pairs
    PROVE  Count(Rect(0, lg, 0, rg), p) + Count(Rect(0, l, rg, r), p) + Count(Rect(lg, l, 0, rg), p)
             = Count(Rect(0, l, 0, r), p)
<1>0. 0 \in Int /\ l \in Int /\ r \in Int /\ lg \in Int /\ rg \in Int  OBVIOUS
<1>1. /\ p \in Rect(0, lg, 0, rg) <=> (0 < p[1] /\ p[1] <= lg /\ 0 < p[2] /\ p[2] <= rg)
      /\ p \in Rect(0, l, rg, r) <=> (0 < p[1] /\ p[1] <= l /\ rg < p[2] /\ p[2] <= r)
      /\ p \in Rect(lg, l, 0, rg) <=> (lg < p[1] /\ p[1] <= l /\ 0 < p[2] /\ p[2] <= rg)
      /\ p \in Rect(0, l, 0, r) <=> (0 < p[1] /\ p[1] <= l /\ 0 < p[2] /\ p[2] <= r)
  BY <1>0, RectMember
<1>2. p[1] \in Nat /\ p[2] \in Nat  BY <1>0, RectMember
<1> QED  BY <1>1, <1>2 DEF Count

\* A rectangle that grows to the right or upwards.
LEMMA GrowRight ==
    ASSUME NEW l \in Nat, NEW r \in Nat, NEW rg \in 0 .. r, NEW p \in Pairs
    PROVE  Count(Rect(0, l, 0, rg), p) + Count(Rect(0, l, rg, r), p) = Count(Rect(0, l, 0, r), p)
<1>0. 0 \in Int /\ l \in Int /\ r \in Int /\ rg \in Int  OBVIOUS
<1>1. /\ p \in Rect(0, l, 0, rg) <=> (0 < p[1] /\ p[1] <= l /\ 0 < p[2] /\ p[2] <= rg)
      /\ p \in Rect(0, l, rg, r) <=> (0 < p[1] /\ p[1] <= l /\ rg < p[2] /\ p[2] <= r)
      /\ p \in Rect(0, l, 0, r) <=> (0 < p[1] /\ p[1] <= l /\ 0 < p[2] /\ p[2] <= r)
  BY <1>0, RectMember
<1>2. p[1] \in Nat /\ p[2] \in Nat  BY <1>0, RectMember
<1> QED  BY <1>1, <1>2 DEF Count

LEMMA GrowUp ==
    ASSUME NEW l \in Nat, NEW r \in Nat, NEW lg \in 0 .. l, NEW p \in Pairs
    PROVE  Count(Rect(0, lg, 0, r), p) + Count(Rect(lg, l, 0, r), p) = Count(Rect(0, l, 0, r), p)
<1>0. 0 \in Int /\ l \in Int /\ r \in Int /\ lg \in Int  OBVIOUS
<1>1. /\ p \in Rect(0, lg, 0, r) <=> (0 < p[1] /\ p[1] <= lg /\ 0 < p[2] /\ p[2] <= r)
      /\ p \in Rect(lg, l, 0, r) <=> (lg < p[1] /\ p[1] <= l /\ 0 < p[2] /\ p[2] <= r)
      /\ p \in Rect(0, l, 0, r) <=> (0 < p[1] /\ p[1] <= l /\ 0 < p[2] /\ p[2] <= r)
  BY <1>0, RectMember
<1>2. p[1] \in Nat /\ p[2] \in Nat  BY <1>0, RectMember
<1> QED  BY <1>1, <1>2 DEF Count

\* A product of naturals is zero only if one of them is.
LEMMA PositiveProduct ==
    ASSUME NEW a \in Nat \ {0}, NEW b \in Nat \ {0}
    PROVE  a * b \in Nat \ {0}
OBVIOUS

-----------------------------------------------------------------------------
(* The invariant.                                                          *)

\* Initially no pair has a work order.
LEMMA InitIInv == Init => IInv
<1> SUFFICES ASSUME Init PROVE IInv
  OBVIOUS
<1>1. TypeOK
  <2>1. orders \in [Pairs -> Nat]  BY DEF Init
  <2>2. left \in 0 .. MaxBlocks /\ right \in 0 .. MaxBlocks  BY DEF Init
  <2>3. left_gen \in 0 .. left /\ right_gen \in 0 .. right
    BY <2>2, MaxBlocksAssumption DEF Init
  <2> QED  BY <2>1, <2>2, <2>3 DEF Init, TypeOK
<1>2. PairsExact
  <2> SUFFICES ASSUME NEW p \in Pairs PROVE Count(Generated, p) = 0
    BY DEF Init, PairsExact
  <2>1. p \notin Generated
    <3>1. CASE left_stored /\ right_stored
      BY <3>1 DEF Init, Generated
    <3>2. CASE ~(left_stored /\ right_stored)
      <4>1. Generated = Rect(0, IF left_stored THEN left ELSE 0, 0, IF right_stored THEN right ELSE 0)
        BY <3>2 DEF Init, Generated
      <4>2. CASE ~left_stored
        <5>1. Generated = Rect(0, 0, 0, IF right_stored THEN right ELSE 0)  BY <4>1, <4>2
        <5>2. 0 + 1 .. 0 = {}  OBVIOUS
        <5> QED  BY <5>1, <5>2 DEF Rect
      <4>3. CASE ~right_stored
        <5>1. Generated = Rect(0, IF left_stored THEN left ELSE 0, 0, 0)  BY <4>1, <4>3
        <5>2. 0 + 1 .. 0 = {}  OBVIOUS
        <5> QED  BY <5>1, <5>2 DEF Rect
      <4> QED  BY <3>2, <4>2, <4>3
    <3> QED  BY <3>1, <3>2
  <2> QED  BY <2>1 DEF Count
<1>3. AllPairsGenerated  BY DEF Init, AllPairsGenerated
<1> QED  BY <1>1, <1>2, <1>3 DEF IInv

\* A block that is fed, or an end of feeding, leaves the counters and the work
\* orders alone, and comes only before the call that returned TRUE.
LEMMA FeedIInv ==
    ASSUME IInv, feedLeftBlock \/ feedRightBlock \/ doneFeedingLeft \/ doneFeedingRight
    PROVE  IInv'
<1> USE DEF IInv, stored, counters, done
<1>1. TypeOK'
  <2>0. /\ left \in Nat /\ right \in Nat /\ MaxBlocks \in Nat
        /\ left_gen \in Nat /\ left_gen <= left /\ right_gen \in Nat /\ right_gen <= right
    BY MaxBlocksAssumption DEF TypeOK
  <2>1. CASE feedLeftBlock
    BY <2>0, <2>1 DEF TypeOK, feedLeftBlock
  <2>2. CASE feedRightBlock
    BY <2>0, <2>2 DEF TypeOK, feedRightBlock
  <2>3. CASE doneFeedingLeft
    BY <2>3 DEF TypeOK, doneFeedingLeft
  <2>4. CASE doneFeedingRight
    BY <2>4 DEF TypeOK, doneFeedingRight
  <2> QED  BY <2>1, <2>2, <2>3, <2>4
<1>2. CASE feedLeftBlock
  <2>1. Generated' = Generated  BY <1>2 DEF feedLeftBlock, Generated, Rect
  <2>2. PairsExact'  BY <1>2, <2>1 DEF feedLeftBlock, PairsExact, Count
  <2>3. AllPairsGenerated'  BY <1>2 DEF feedLeftBlock, AllPairsGenerated
  <2> QED  BY <1>1, <2>2, <2>3
<1>3. CASE feedRightBlock
  <2>1. Generated' = Generated  BY <1>3 DEF feedRightBlock, Generated, Rect
  <2>2. PairsExact'  BY <1>3, <2>1 DEF feedRightBlock, PairsExact, Count
  <2>3. AllPairsGenerated'  BY <1>3 DEF feedRightBlock, AllPairsGenerated
  <2> QED  BY <1>1, <2>2, <2>3
<1>4. CASE doneFeedingLeft
  <2>1. Generated' = Generated  BY <1>4 DEF doneFeedingLeft, Generated, Rect
  <2>2. PairsExact'  BY <1>4, <2>1 DEF doneFeedingLeft, PairsExact, Count
  <2>3. AllPairsGenerated'  BY <1>4 DEF doneFeedingLeft, AllPairsGenerated
  <2> QED  BY <1>1, <2>2, <2>3
<1>5. CASE doneFeedingRight
  <2>1. Generated' = Generated  BY <1>5 DEF doneFeedingRight, Generated, Rect
  <2>2. PairsExact'  BY <1>5, <2>1 DEF doneFeedingRight, PairsExact, Count
  <2>3. AllPairsGenerated'  BY <1>5 DEF doneFeedingRight, AllPairsGenerated
  <2> QED  BY <1>1, <2>2, <2>3
<1> QED  BY <1>2, <1>3, <1>4, <1>5

\* With both relations stored all pairs are generated at the first call.
LEMMA BothStoredPairs ==
    ASSUME IInv, getAllWorkOrders, bothStored
    PROVE  TypeOK' /\ PairsExact'
<1> USE DEF IInv, getAllWorkOrders, bothStored, stored, counters, done
<1>1. orders' = [p \in Pairs |-> orders[p] + Count(IF all_generated THEN {} ELSE Rect(0, left, 0, right), p)]
  BY DEF AddPairs
<1>2. TypeOK'  BY <1>1 DEF TypeOK, Count
<1>3. Generated' = Rect(0, left, 0, right)  BY DEF Generated, Rect
<1>4. Generated = IF all_generated THEN Rect(0, left, 0, right) ELSE {}  BY DEF Generated
<1>5. PairsExact'  BY <1>1, <1>3, <1>4 DEF PairsExact, Count, TypeOK
<1> QED  BY <1>2, <1>5

\* With one relation stored the rectangle grows in one direction.
LEMMA OneStoredPairs ==
    ASSUME IInv, getAllWorkOrders, oneStored
    PROVE  TypeOK' /\ PairsExact'
<1> USE DEF IInv, getAllWorkOrders, stored, counters, done
<1>0. left \in Nat /\ right \in Nat /\ left_gen \in 0 .. left /\ right_gen \in 0 .. right
  BY MaxBlocksAssumption DEF TypeOK
<1>1. CASE left_stored /\ ~right_stored
  <2>1. /\ orders' = [p \in Pairs |-> orders[p] + Count(Rect(0, left, right_gen, right), p)]
        /\ right_gen' = right /\ returned' = done_right /\ left_gen' = left_gen
        /\ all_generated' = all_generated
    BY <1>1 DEF oneStored, AddPairs
  <2>2. TypeOK'  BY <1>0, <2>1 DEF TypeOK, Count
  <2>3. Generated = Rect(0, left, 0, right_gen) /\ Generated' = Rect(0, left, 0, right)
    BY <1>1, <2>1 DEF Generated, Rect
  <2>4. PairsExact'
    BY <1>0, <2>1, <2>3, GrowRight DEF PairsExact
  <2> QED  BY <2>2, <2>4
<1>2. CASE ~left_stored /\ right_stored
  <2>1. /\ orders' = [p \in Pairs |-> orders[p] + Count(Rect(left_gen, left, 0, right), p)]
        /\ left_gen' = left /\ returned' = done_left /\ right_gen' = right_gen
        /\ all_generated' = all_generated
    BY <1>2 DEF oneStored, AddPairs
  <2>2. TypeOK'  BY <1>0, <2>1 DEF TypeOK, Count
  <2>3. Generated = Rect(0, left_gen, 0, right) /\ Generated' = Rect(0, left, 0, right)
    BY <1>2, <2>1 DEF Generated, Rect
  <2>4. PairsExact'
    BY <1>0, <2>1, <2>3, GrowUp DEF PairsExact
  <2> QED  BY <2>2, <2>4
<1> QED  BY <1>1, <1>2 DEF oneStored

\* With both relations fed the rectangle grows by an L-shape, or stays when
\* there is nothing to pair new blocks with.
LEMMA BothNotStoredPairs ==
    ASSUME IInv, getAllWorkOrders, bothNotStored
    PROVE  /\ TypeOK' /\ PairsExact'
           /\ \/ left_gen' = left /\ right_gen' = right
              \/ left = 0 \/ right = 0
<1> USE DEF IInv, getAllWorkOrders, stored, counters, done
<1>0. left \in Nat /\ right \in Nat /\ left_gen \in 0 .. left /\ right_gen \in 0 .. right
  BY MaxBlocksAssumption DEF TypeOK
<1>1. /\ ~left_stored /\ ~right_stored /\ ~left_stored' /\ ~right_stored'
      /\ left' = left /\ right' = right
      /\ all_generated' = all_generated /\ returned' = (done_left /\ done_right)
      /\ done_left' = done_left /\ done_right' = done_right
  BY DEF bothNotStored
<1>2. /\ Generated = Rect(0, left_gen, 0, right_gen)
      /\ Generated' = Rect(0, left_gen', 0, right_gen')
  BY <1>1 DEF Generated, Rect
<1>3. ASSUME left_gen' \in 0 .. left, right_gen' \in 0 .. right,
             \A p \in Pairs : orders'[p] = Count(Rect(0, left_gen', 0, right_gen'), p),
             orders' \in [Pairs -> Nat]
      PROVE  TypeOK' /\ PairsExact'
  <2>1. TypeOK'  BY <1>1, <1>3 DEF TypeOK
  <2>2. PairsExact'  BY <1>2, <1>3 DEF PairsExact, Count
  <2> QED  BY <2>1, <2>2
<1>4. \A p \in Pairs : orders[p] = Count(Rect(0, left_gen, 0, right_gen), p)
  BY <1>2 DEF PairsExact
<1>5. CASE left > left_gen /\ right > right_gen
  <2>1. Area(0, left, right_gen, right) \in Nat \ {0}
    BY <1>0, <1>5, PositiveProduct DEF Area
  <2>2. Area(left_gen, left, 0, right_gen) \in Nat
    BY <1>0 DEF Area
  <2>3. left_gen' = left /\ right_gen' = right
    BY <1>0, <1>5, <2>1, <2>2 DEF bothNotStored, Advance
  <2>4. orders' = [p \in Pairs |-> orders[p] + Count(Rect(0, left, right_gen, right), p)
                                             + Count(Rect(left_gen, left, 0, right_gen), p)]
    BY <1>0, <1>5 DEF bothNotStored, Add2
  <2>5. orders' \in [Pairs -> Nat]  BY <2>4 DEF TypeOK, Count
  <2>6. \A p \in Pairs : orders'[p] = Count(Rect(0, left, 0, right), p)
    BY <1>0, <1>4, <2>4, CornerCut
  <2> QED  BY <1>0, <1>3, <2>3, <2>5, <2>6
<1>6. CASE left = left_gen /\ right > right_gen
  <2>1. orders' = [p \in Pairs |-> orders[p] + Count(Rect(0, left, right_gen, right), p)]
    BY <1>0, <1>6 DEF bothNotStored, AddPairs
  <2>2. orders' \in [Pairs -> Nat]  BY <2>1 DEF TypeOK, Count
  <2>3. \A p \in Pairs : orders'[p] = Count(Rect(0, left, 0, right), p)
    BY <1>0, <1>4, <1>6, <2>1, GrowRight
  <2>4. CASE left = 0
    <3>1. Area(0, left, right_gen, right) = 0  BY <1>0, <2>4 DEF Area
    <3>2. left_gen' = left_gen /\ right_gen' = right_gen
      BY <1>0, <1>6, <3>1 DEF bothNotStored, Advance
    <3>3. \A p \in Pairs : Count(Rect(0, left, 0, right), p) = Count(Rect(0, left_gen, 0, right_gen), p)
      BY <1>0, <1>6, <2>4, RectMember DEF Count
    <3> QED  BY <1>0, <1>3, <2>2, <2>3, <2>4, <3>2, <3>3
  <2>5. CASE left # 0
    <3>1. Area(0, left, right_gen, right) \in Nat \ {0}
      BY <1>0, <1>6, <2>5, PositiveProduct DEF Area
    <3>2. left_gen' = left /\ right_gen' = right
      BY <1>0, <1>6, <3>1 DEF bothNotStored, Advance
    <3> QED  BY <1>0, <1>3, <2>2, <2>3, <3>2
  <2> QED  BY <2>4, <2>5
<1>7. CASE left > left_gen /\ right = right_gen
  <2>1. orders' = [p \in Pairs |-> orders[p] + Count(Rect(left_gen, left, 0, right), p)]
    BY <1>0, <1>7 DEF bothNotStored, AddPairs
  <2>2. orders' \in [Pairs -> Nat]  BY <2>1 DEF TypeOK, Count
  <2>3. \A p \in Pairs : orders'[p] = Count(Rect(0, left, 0, right), p)
    BY <1>0, <1>4, <1>7, <2>1, GrowUp
  <2>4. CASE right = 0
    <3>1. Area(left_gen, left, 0, right) = 0  BY <1>0, <2>4 DEF Area
    <3>2. left_gen' = left_gen /\ right_gen' = right_gen
      BY <1>0, <1>7, <3>1 DEF bothNotStored, Advance
    <3>3. \A p \in Pairs : Count(Rect(0, left, 0, right), p) = Count(Rect(0, left_gen, 0, right_gen), p)
      BY <1>0, <1>7, <2>4, RectMember DEF Count
    <3> QED  BY <1>0, <1>3, <2>2, <2>3, <2>4, <3>2, <3>3
  <2>5. CASE right # 0
    <3>1. Area(left_gen, left, 0, right) \in Nat \ {0}
      BY <1>0, <1>7, <2>5, PositiveProduct DEF Area
    <3>2. left_gen' = left /\ right_gen' = right
      BY <1>0, <1>7, <3>1 DEF bothNotStored, Advance
    <3> QED  BY <1>0, <1>3, <2>2, <2>3, <3>2
  <2> QED  BY <2>4, <2>5
<1>8. CASE left = left_gen /\ right = right_gen
  <2>1. orders' = orders /\ left_gen' = left_gen /\ right_gen' = right_gen
    BY <1>0, <1>8 DEF bothNotStored
  <2>2. orders' \in [Pairs -> Nat]  BY <2>1 DEF TypeOK
  <2> QED  BY <1>0, <1>3, <1>4, <1>8, <2>1, <2>2
<1> QED  BY <1>0, <1>5, <1>6, <1>7, <1>8

\* A call keeps the invariant: if it returns TRUE, all blocks have come and
\* the rectangle of the generated pairs is that of all blocks.
LEMMA CallIInv ==
    ASSUME IInv, getAllWorkOrders
    PROVE  IInv'
<1> USE DEF IInv, stored, counters, done
<1>0. left \in Nat /\ right \in Nat /\ left' = left /\ right' = right
  BY MaxBlocksAssumption DEF TypeOK, getAllWorkOrders
<1>1. TypeOK' /\ PairsExact'
  BY BothStoredPairs, OneStoredPairs, BothNotStoredPairs DEF getAllWorkOrders
<1>2. ASSUME Generated' = Rect(0, left, 0, right) \/ left = 0 \/ right = 0
      PROVE  \A l \in 1 .. left', r \in 1 .. right' : orders'[<<l, r>>] = 1
  <2> SUFFICES ASSUME NEW l \in 1 .. left, NEW r \in 1 .. right PROVE orders'[<<l, r>>] = 1
    BY <1>0
  <2>1. <<l, r>> \in Pairs
    <3>1. left <= MaxBlocks /\ right <= MaxBlocks  BY DEF TypeOK
    <3>2. l \in Blocks /\ r \in Blocks  BY <1>0, <3>1, MaxBlocksAssumption DEF Blocks
    <3> QED  BY <3>2 DEF Pairs
  <2>2. Generated' = Rect(0, left, 0, right)  BY <1>0, <1>2
  <2>3. <<l, r>> \in Rect(0, left, 0, right)  BY <1>0 DEF Rect
  <2> QED  BY <1>1, <2>1, <2>2, <2>3 DEF PairsExact, Count
<1>3. CASE bothStored
  <2>1. Generated' = Rect(0, left, 0, right) /\ left_stored' /\ right_stored'
    BY <1>3 DEF bothStored, getAllWorkOrders, Generated, Rect
  <2> QED  BY <1>1, <1>2, <2>1 DEF AllPairsGenerated
<1>4. CASE oneStored
  <2>1. Generated' = Rect(0, left, 0, right)
    BY <1>4 DEF oneStored, getAllWorkOrders, Generated, Rect
  <2>2. returned' => /\ left_stored' \/ done_left'
                     /\ right_stored' \/ done_right'
    BY <1>4 DEF oneStored, getAllWorkOrders
  <2> QED  BY <1>1, <1>2, <2>1, <2>2 DEF AllPairsGenerated
<1>5. CASE bothNotStored
  <2>1. Generated' = Rect(0, left_gen', 0, right_gen')
    BY <1>5 DEF bothNotStored, getAllWorkOrders, Generated, Rect
  <2>2. Generated' = Rect(0, left, 0, right) \/ left = 0 \/ right = 0
    BY <1>5, <2>1, BothNotStoredPairs
  <2>3. returned' => done_left' /\ done_right'
    BY <1>5 DEF bothNotStored, getAllWorkOrders
  <2> QED  BY <1>1, <1>2, <2>2, <2>3 DEF AllPairsGenerated
<1> QED  BY <1>3, <1>4, <1>5 DEF getAllWorkOrders

\* The strengthened invariant of the nested-loops join.
THEOREM JoinInvariant == Spec => []IInv
<1>1. Init => IInv  BY InitIInv
<1>2. IInv /\ [Next]_vars => IInv'
  <2> SUFFICES ASSUME IInv, [Next]_vars PROVE IInv'
    OBVIOUS
  <2>1. CASE UNCHANGED vars
    BY <2>1 DEF vars, stored, counters, done, IInv, TypeOK, PairsExact, AllPairsGenerated, Generated
  <2> QED  BY <2>1, FeedIInv, CallIInv DEF Next
<1> QED  BY <1>1, <1>2, PTL DEF Spec

\* The counters never pass the blocks, for any number of blocks.
THEOREM JoinTypeCorrect == Spec => []TypeOK
<1>1. IInv => TypeOK  BY DEF IInv
<1> QED  BY <1>1, JoinInvariant, PTL

\* Each pair of blocks that the counters cover has exactly one work order.
THEOREM PairsExactHolds == Spec => []PairsExact
<1>1. IInv => PairsExact  BY DEF IInv
<1> QED  BY <1>1, JoinInvariant, PTL

\* When the operator says that it is done, no pair of blocks is missing.
THEOREM AllPairsGeneratedHolds == Spec => []AllPairsGenerated
<1>1. IInv => AllPairsGenerated  BY DEF IInv
<1> QED  BY <1>1, JoinInvariant, PTL
====
