------------------------------- MODULE CSBTree --------------------------------
(***************************************************************************)
(* The CSB+-tree of a block.  The nodes below one internal node are a node *)
(* group: they lie next to each other, and only the group has a number.    *)
(* A leaf that splits shifts the nodes after it; when its group has no     *)
(* room the group splits, and with it the node above, up to the root.      *)
(* Groups are taken from a fixed number and given back by rebuild() only.  *)
(*                                                                         *)
(* A tree is the memory of the groups, the groups in use, the root and     *)
(* `ok', which is FALSE once a DEBUG_ASSERT or an access has failed.  The  *)
(* memory of a new block is zero; what earlier nodes left stays there.     *)
(* NULL keys are never brought to the tree and left out.                   *)
(***************************************************************************)
EXTENDS Integers, FiniteSetsExt, SequencesExt, TLC

CONSTANTS
    Keys,             \* the values of the key
    MaxKeysInternal,  \* max_keys_internal_: a group has one node more
    MaxKeysLeaf,      \* max_keys_leaf_
    NodeGroups,       \* how many node groups fit the sub-block
    Loads,            \* the batches of tuples the block may start with
    NewKeys,          \* the keys of tuples that are added one by one
    MaxTuples,        \* the tuples the block has room for
    Operations        \* which of "insert", "update", "delete", "rebuild" occur

CSBTreeAssumption ==
    /\ Keys \subseteq Nat /\ NewKeys \subseteq Keys /\ IsFiniteSet(Keys)
    /\ MaxKeysInternal \in Nat /\ MaxKeysInternal > 1
    /\ MaxKeysLeaf \in Nat /\ MaxKeysLeaf > 1
    /\ NodeGroups \in Nat \ {0} /\ MaxTuples \in Nat
    /\ Loads \subseteq Seq(Keys)
    /\ Operations \subseteq {"insert", "update", "delete", "rebuild"}

VARIABLES
    tree,    \* the sub-block
    tuples,  \* the tuple store: the key of each tuple there
    fatal,   \* removeEntry() did not find its entry
    built    \* nothing was added or removed since rebuild()

vars == <<tree, tuples, fatal, built>>

Groups == 0..(NodeGroups - 1)
kNodeGroupNone == -1
kNodeGroupNextLeaf == -2
kNodeGroupFull == -3
NULL == <<-1, -1>>

\* Into how many children and entries a split divides.
SmallHalf == (MaxKeysInternal + 1) \div 2
LargeHalf == SmallHalf + ((MaxKeysInternal + 1) % 2)
SmallHalfLeaf == MaxKeysLeaf \div 2
LargeHalfLeaf == SmallHalfLeaf + (MaxKeysLeaf % 2)

-------------------------------------------------------------------------------
(* Nodes.  An address is a group and a place in it.  The entries of a leaf  *)
(* are pairs of a key and a tuple, those of an internal node keys.           *)

Node(t, a) == t.mem[a[1]][a[2]]
Write(t, a, n) == [t EXCEPT !.mem[a[1]][a[2]] = n]
Behind(a) == <<a[1], a[2] + 1>>
Checked(t, condition) == [t EXCEPT !.ok = @ /\ condition]

\* The place of the first element that passes, counted from 0.
FirstPlace(s, Test(_)) == Min({i \in 1..Len(s) : Test(s[i])} \cup {Len(s) + 1}) - 1

InsertPlace(s, i, x) == SubSeq(s, 1, i) \o <<x>> \o SubSeq(s, i + 1, Len(s))

Free(t) == NodeGroups - Cardinality(t.used)

AllocatedGroup(t) == Min(Groups \ t.used)

\* allocateNodeGroup(): the caller has made sure that there is one.
allocateNodeGroup(t) ==
    IF Free(t) = 0 THEN Checked(t, FALSE) ELSE [t EXCEPT !.used = @ \cup {AllocatedGroup(t)}]

clearIndex(t) ==
    Write([t EXCEPT !.used = {0}, !.root = 0], <<0, 0>>,
          [leaf |-> TRUE, ref |-> kNodeGroupNone, keys |-> <<>>])

\* Where the least key below a node is.
RECURSIVE getLeastKey(_, _)
getLeastKey(t, a) ==
    IF Node(t, a).leaf THEN IF Node(t, a).keys = <<>> THEN NULL ELSE a
    ELSE LET least == getLeastKey(t, <<Node(t, a).ref, 0>>)
         IN  IF least = NULL THEN a ELSE least

\* The key at such a place, when it is read.
KeyAt(t, a) == IF Node(t, a).leaf THEN Node(t, a).keys[1][1] ELSE Node(t, a).keys[1]

\* Mutant: equal keys are looked for on the right only.
RECURSIVE FindLeafRight(_, _, _)
FindLeafRight(t, a, k) ==
    IF Node(t, a).leaf THEN a
    ELSE FindLeafRight(t, <<Node(t, a).ref, FirstPlace(Node(t, a).keys, LAMBDA x : k < x)>>, k)

\* The leaf where a search for k begins: equal keys may start left of the
\* first key that is equal.
RECURSIVE findLeaf(_, _, _)
findLeaf(t, a, k) ==
    IF Node(t, a).leaf THEN a
    ELSE findLeaf(t, <<Node(t, a).ref, FirstPlace(Node(t, a).keys, LAMBDA x : k <= x)>>, k)

Root(t) == <<t.root, 0>>

RECURSIVE LeftmostLeaf(_, _)
LeftmostLeaf(t, a) == IF Node(t, a).leaf THEN a ELSE LeftmostLeaf(t, <<Node(t, a).ref, 0>>)

getRightSiblingOfLeafNode(t, a) ==
    CASE Node(t, a).ref = kNodeGroupNextLeaf -> Behind(a)
      [] Node(t, a).ref >= 0 -> <<Node(t, a).ref, 0>>
      [] OTHER -> NULL

\* The leaves from `a' up to `until', at most as many as there are nodes.
RECURSIVE LeavesUpTo(_, _, _, _)
LeavesUpTo(t, a, until, fuel) ==
    IF a \in {NULL, until} \/ fuel = 0 \/ a[2] > MaxKeysInternal THEN <<>>
    ELSE <<a>> \o LeavesUpTo(t, getRightSiblingOfLeafNode(t, a), until, fuel - 1)
Leaves(t, a, until) == LeavesUpTo(t, a, until, NodeGroups * (MaxKeysInternal + 1))

EntriesOf(t, leaves) == FlattenSeq([i \in 1..Len(leaves) |-> Node(t, leaves[i]).keys])

-------------------------------------------------------------------------------
(* Searching *)

Comparisons == {"eq", "ne", "lt", "le", "gt", "ge"}

Ids(s, from, to) == {s[i][2] : i \in from..to}

\* evaluateEqualPredicate() and its three siblings: leaves before the one
\* where the search for k begins are taken whole, from there on entries are
\* compared, and once past k no longer.
evaluatePredicate(t, op, k) ==
    LET boundary == findLeaf(t, Root(t), k)
        head == EntriesOf(t, Leaves(t, LeftmostLeaf(t, Root(t)), boundary))
        less == Ids(head, 1, Len(head))
        s == EntriesOf(t, Leaves(t, boundary, NULL))
        lo == FirstPlace(s, LAMBDA e : e[1] >= k)
        hi == FirstPlace(s, LAMBDA e : e[1] > k)
    IN  CASE op = "eq" -> Ids(s, lo + 1, hi)
          [] op = "ne" -> less \cup Ids(s, 1, lo) \cup Ids(s, hi + 1, Len(s))
          [] op = "lt" -> less \cup Ids(s, 1, lo)
          [] op = "le" -> less \cup Ids(s, 1, hi)
          [] op = "gt" -> Ids(s, hi + 1, Len(s))
          [] op = "ge" -> Ids(s, lo + 1, Len(s))

-------------------------------------------------------------------------------
(* Adding an entry *)

\* The nodes of `group' from the place `from' on, copied to the place `to' of
\* the group `new'.
CopyNodes(t, group, from, new, to) ==
    [t EXCEPT !.mem[new] = [i \in 0..MaxKeysInternal |->
        IF i \in to..(to + MaxKeysInternal - from) THEN Node(t, <<group, from + i - to>>) ELSE @[i]]]

LinkSibling(t, a, group) ==
    IF ~t.ok \/ ~Node(t, a).leaf THEN t ELSE Write(t, a, [Node(t, a) EXCEPT !.ref = group])

\* Mutant: the last leaf that stays keeps its sibling.
SplitGroupForgetsSibling(t, parent_group, left_smaller, across) ==
    CopyNodes(allocateNodeGroup(t), parent_group, IF left_smaller THEN SmallHalf ELSE LargeHalf,
              AllocatedGroup(t), IF across THEN 1 ELSE 0)

\* splitNodeGroup(): the nodes of the second half move to a new group.
splitNodeGroup(t, parent_group, left_smaller, across) ==
    LET from == IF left_smaller THEN SmallHalf ELSE LargeHalf
    IN  LinkSibling(CopyNodes(allocateNodeGroup(t), parent_group, from, AllocatedGroup(t),
                              IF across THEN 1 ELSE 0),
                    <<parent_group, from - 1>>, AllocatedGroup(t))

\* splitNodeGroupHelper(): where the node is after the split and where its
\* group ends, which is nowhere if it is the node in the centre, to be split
\* between the two groups itself.
splitNodeGroupHelper(t, parent_group, a) ==
    LET new == AllocatedGroup(t)
        i == a[2]
    IN  [t |-> splitNodeGroup(t, parent_group, i < SmallHalf, i = SmallHalf),
         group |-> new, left |-> i < SmallHalf,
         node |-> IF i <= SmallHalf THEN a
                  ELSE <<new, i - SmallHalf - (IF Node(t, a).ref >= 0 THEN 1 ELSE 0)>>,
         end |-> CASE i < SmallHalf -> <<parent_group, SmallHalf>>
                   [] i = SmallHalf -> NULL
                   [] i > SmallHalf -> <<new, SmallHalf>>]

\* The group where the node `a' is split: it is split first if it is full.
GroupToSplitIn(t, required, parent_group, siblings, a) ==
    IF required > 0 THEN splitNodeGroupHelper(t, parent_group, a)
    ELSE [t |-> t, group |-> kNodeGroupNone, left |-> FALSE, node |-> a,
          end |-> <<parent_group, siblings + 1>>]

\* The two nodes a full node becomes; `leaf_refs' are their siblings.
Halves(n, right_group, left_smaller, child_across, leaf_refs) ==
    LET left == IF n.leaf THEN IF left_smaller THEN SmallHalfLeaf ELSE LargeHalfLeaf
                ELSE (IF left_smaller THEN SmallHalf ELSE LargeHalf) - 1
        skip == IF n.leaf \/ child_across THEN 0 ELSE 1
    IN  <<[n EXCEPT !.keys = SubSeq(@, 1, left), !.ref = IF n.leaf THEN leaf_refs[1] ELSE @],
          [leaf |-> n.leaf, keys |-> SubSeq(n.keys, left + skip + 1, Len(n.keys)),
           ref |-> IF n.leaf THEN leaf_refs[2] ELSE right_group]>>

IsFull(n) == Len(n.keys) = IF n.leaf THEN MaxKeysLeaf ELSE MaxKeysInternal

\* The nodes from `from' to `end' of a group, one place further.
ShiftNodes(t, group, from, end) ==
    [t EXCEPT !.mem[group] = [i \in 0..MaxKeysInternal |->
        IF i \in (from + 1)..end THEN @[i - 1] ELSE @[i]]]

\* A split node, and where the least key of its second half is.
WriteHalves(t, a, to, halves) ==
    LET split == Write(Write(t, a, halves[1]), to, halves[2])
    IN  [t |-> split, least |-> IF halves[2].leaf THEN to ELSE getLeastKey(split, to)]

\* splitNodeInGroup(): the nodes behind move on and the new one is the next;
\* splitNodeAcrossGroups(): the new one is the first of the new group.
SplitNode(g, right_group, left_smaller, child_across) ==
    LET n == Node(g.t, g.node)
        place == g.node[2]
        in_group == g.end # NULL
        sound == /\ IsFull(n)
                 /\ n.leaf <=> right_group = kNodeGroupNone
                 /\ IF in_group THEN place < g.end[2] /\ g.end[2] <= MaxKeysInternal
                    ELSE n.leaf => n.ref = g.group
    IN  IF ~g.t.ok \/ ~sound THEN [t |-> Checked(g.t, FALSE), least |-> NULL]
        ELSE IF in_group
        THEN WriteHalves(ShiftNodes(g.t, g.node[1], place + 1, g.end[2]), g.node, Behind(g.node),
                         Halves(n, right_group, left_smaller, child_across,
                                <<kNodeGroupNextLeaf, n.ref>>))
        ELSE WriteHalves(g.t, g.node, <<g.group, 0>>,
                         Halves(n, right_group, left_smaller, child_across,
                                <<n.ref, kNodeGroupNextLeaf>>))

insertEntryInLeaf(t, a, tuple, k) ==
    LET n == Node(t, a)
        place == FirstPlace(n.keys, LAMBDA e : k < e[1])
    IN  IF ~t.ok \/ ~n.leaf \/ IsFull(n) THEN Checked(t, FALSE)
        ELSE Write(t, a, [n EXCEPT !.keys = InsertPlace(@, place, <<k, tuple>>)])

InsertReturnValue(t, least, group, left) == [t |-> t, least |-> least, group |-> group, left |-> left]

\* The entry goes into one of the halves of a leaf.
EntryInHalf(split, g, first, tuple, k) ==
    InsertReturnValue(insertEntryInLeaf(split.t, IF first THEN g.node ELSE split.least, tuple, k),
                      split.least, g.group, g.left)

SplitLeaf(g, tuple, k) ==
    LET n == Node(g.t, g.node)
        first == k < n.keys[SmallHalfLeaf + 1][1]
    IN  IF ~n.leaf \/ ~IsFull(n)
        THEN InsertReturnValue(Checked(g.t, FALSE), NULL, kNodeGroupNone, FALSE)
        ELSE EntryInHalf(SplitNode(g, kNodeGroupNone, first, FALSE), g, first, tuple, k)

\* required: the groups that have to be free if this leaf splits; 0 if its
\* parent, with `siblings' keys over `parent_group', has room.
leafInsertHelper(t, required, tuple, k, parent_group, siblings, a) ==
    LET refused == IF required > 0 THEN Free(t) < required ELSE a = Root(t) /\ Free(t) = 0
    IN  IF ~IsFull(Node(t, a))
        THEN InsertReturnValue(insertEntryInLeaf(t, a, tuple, k), NULL, kNodeGroupNone, FALSE)
        ELSE IF refused THEN InsertReturnValue(t, NULL, kNodeGroupFull, FALSE)
        ELSE SplitLeaf(GroupToSplitIn(t, required, parent_group, siblings, a), tuple, k)

AddKey(t, a, place, k) == Write(t, a, [Node(t, a) EXCEPT !.keys = InsertPlace(@, place, k)])

\* The groups that have to be free if a child of `a' splits its group.
Required(t, required, a) ==
    IF ~IsFull(Node(t, a)) THEN 0 ELSE IF a = Root(t) THEN 2 ELSE required + 1

\* The key that separates the halves of the child at place i goes into one of
\* the halves of its parent, or between them if the child is `across' both.
KeyInHalf(split, g, c, i, across) ==
    LET right == IF g.end = NULL THEN <<g.group, 0>> ELSE Behind(g.node)
        key == KeyAt(split.t, c.least)
    IN  InsertReturnValue(
            CASE across \/ ~split.t.ok -> split.t
              [] ~across /\ split.t.ok /\ c.left -> AddKey(split.t, g.node, i, key)
              [] ~across /\ split.t.ok /\ ~c.left ->
                    IF i < LargeHalf THEN Checked(split.t, FALSE)
                    ELSE AddKey(split.t, right, i - LargeHalf, key),
            split.least, g.group, g.left)

SplitInternal(g, c, i) ==
    LET across == ~c.left /\ i = SmallHalf
    IN  KeyInHalf(SplitNode(g, c.group, c.left, across), g, c, i, across)

\* What becomes of the node `a' once its child at place i returned `c'.
ChildReturned(c, required, parent_group, siblings, a, i) ==
    CASE ~c.t.ok \/ c.group = kNodeGroupFull -> c
      [] c.t.ok /\ c.group = kNodeGroupNone ->
            InsertReturnValue(IF c.least = NULL THEN c.t ELSE AddKey(c.t, a, i, KeyAt(c.t, c.least)),
                              NULL, kNodeGroupNone, FALSE)
      [] OTHER ->
            IF required > 0 /\ Free(c.t) = 0
            THEN InsertReturnValue(Checked(c.t, FALSE), NULL, kNodeGroupNone, FALSE)
            ELSE SplitInternal(GroupToSplitIn(c.t, required, parent_group, siblings, a), c, i)

RECURSIVE internalInsertHelper(_, _, _, _, _, _, _)
internalInsertHelper(t, required, tuple, k, parent_group, siblings, a) ==
    LET n == Node(t, a)
        i == FirstPlace(n.keys, LAMBDA x : k < x)
        child == <<n.ref, i>>
        needed == Required(t, required, a)
    IN  ChildReturned(IF Node(t, child).leaf
                      THEN leafInsertHelper(t, needed, tuple, k, n.ref, Len(n.keys), child)
                      ELSE internalInsertHelper(t, needed, tuple, k, n.ref, Len(n.keys), child),
                      required, parent_group, siblings, a, i)

\* A root that split gets a new root above it.
RootReturned(r, root) ==
    LET new == AllocatedGroup(r.t)
        grown == Write([allocateNodeGroup(r.t) EXCEPT !.root = new], <<new, 0>>,
                       [leaf |-> FALSE, ref |-> root, keys |-> <<KeyAt(r.t, r.least)>>])
    IN  IF r.group = kNodeGroupFull THEN [t |-> r.t, added |-> FALSE]
        ELSE IF ~r.t.ok \/ r.least = NULL THEN [t |-> r.t, added |-> TRUE]
        ELSE [t |-> IF Free(r.t) = 0 THEN Checked(r.t, FALSE) ELSE grown, added |-> TRUE]

\* addEntry(): the result and whether there was room.
addEntry(t, tuple, k) ==
    RootReturned(IF Node(t, Root(t)).leaf
                 THEN leafInsertHelper(t, 0, tuple, k, t.root, 0, Root(t))
                 ELSE internalInsertHelper(t, 0, tuple, k, t.root, 0, Root(t)),
                 t.root)

\* removeEntry(): from the leaf where the search begins to the right, until
\* the entry or a greater key is found.
removeEntry(t, tuple, k) ==
    LET leaves == Leaves(t, findLeaf(t, Root(t), k), NULL)
        s == EntriesOf(t, leaves)
        place == FirstPlace(s, LAMBDA e : e = <<k, tuple>>)
        leaf == leaves[FirstPlace(leaves, LAMBDA a : Contains(Node(t, a).keys, <<k, tuple>>)) + 1]
        n == Node(t, leaf)
    IN  IF place = Len(s) \/ \E i \in 1..place : s[i][1] > k THEN [t |-> t, found |-> FALSE]
        ELSE [found |-> TRUE,
              t |-> Write(t, leaf, [n EXCEPT !.keys =
                          RemoveAt(@, FirstPlace(@, LAMBDA e : e = <<k, tuple>>) + 1)])]

\* bulkRemoveEntries() of two tuples, up to the first that is not found.
RemoveSecond(first, j, k) == IF first.found THEN removeEntry(first.t, j, k) ELSE first
bulkRemoveEntries(t, i, j, store) == RemoveSecond(removeEntry(t, i, store[i]), j, store[j])

\* bulkAddEntries() of two tuples: if there is no room for the second the
\* first is taken back out, where it has to be found.
TakeBack(second, i, k) ==
    LET back == removeEntry(second.t, i, k)
    IN  IF second.added THEN [t |-> second.t, added |-> TRUE, lost |-> FALSE]
        ELSE [t |-> back.t, added |-> FALSE, lost |-> ~back.found]
AddSecond(first, i, j, k) ==
    IF first.t.ok /\ first.added THEN TakeBack(addEntry(first.t, j, k), i, k)
    ELSE [t |-> first.t, added |-> first.added, lost |-> FALSE]
bulkAddEntries(t, i, j, k) == AddSecond(addEntry(t, i, k), i, j, k)

-------------------------------------------------------------------------------
(* Rebuilding *)

Ceil(n, d) == (n + d - 1) \div d

RECURSIVE GroupsAbove(_)
GroupsAbove(groups) ==
    IF groups <= 1 THEN 0
    ELSE LET up == Ceil(groups, MaxKeysInternal + 1) IN up + GroupsAbove(up)

\* rebuildSpaceCheck(): the groups that n entries take.
NodeGroupsNeeded(n) ==
    LET leaf_groups == Ceil(n, MaxKeysLeaf * (MaxKeysInternal + 1))
    IN  IF n <= MaxKeysLeaf THEN 1 ELSE 1 + leaf_groups + GroupsAbove(leaf_groups)

\* buildLeavesFromEntryReferences(): full leaves in full groups, the last of
\* both excepted.  The first group is the one of the empty root.
buildLeaves(t, s) ==
    LET size == MaxKeysInternal + 1
        count == Max({1, Ceil(Len(s), MaxKeysLeaf)})
        keys(m) == SubSeq(s, m * MaxKeysLeaf + 1, Min({(m + 1) * MaxKeysLeaf, Len(s)}))
        ref(m) == CASE m = count - 1 -> kNodeGroupNone
                    [] m < count - 1 /\ m % size = size - 1 -> (m \div size) + 1
                    [] OTHER -> kNodeGroupNextLeaf
    IN  [t EXCEPT
           !.used = 0..((count - 1) \div size),
           !.mem = [g \in Groups |-> [i \in 0..MaxKeysInternal |->
                      IF g * size + i < count
                      THEN [leaf |-> TRUE, ref |-> ref(g * size + i), keys |-> keys(g * size + i)]
                      ELSE @[g][i]]]]

\* rebalanceNodeGroups(): the last group of a level gets nodes of the one
\* before it.
rebalanceNodeGroups(t, full, underfull, n) ==
    LET shift == LargeHalf - n
        remaining == MaxKeysInternal + 1 - shift
        moved == [t EXCEPT !.mem[underfull] =
                    [i \in 0..MaxKeysInternal |->
                       IF i < shift THEN Node(t, <<full, remaining + i>>)
                       ELSE IF i < shift + n THEN @[i - shift] ELSE @[i]]]
        last == <<full, remaining - 1>>
        first == <<underfull, shift - 1>>
    IN  IF ~Node(t, last).leaf THEN moved
        ELSE Write(Write(moved, last, [Node(moved, last) EXCEPT !.ref = underfull]),
                   first, [Node(moved, first) EXCEPT !.ref = kNodeGroupNextLeaf])

\* makeInternalNode() over the first n nodes of a group.
InternalNode(t, group, n) ==
    [leaf |-> FALSE, ref |-> group,
     keys |-> [i \in 1..(n - 1) |-> KeyAt(t, getLeastKey(t, <<group, i>>))]]

\* rebuildInternalLevel() until there is one node: `below' are the groups of
\* the level below, `n' the nodes in the last of them.
RECURSIVE buildLevels(_, _, _)
buildLevels(t, below, n) ==
    LET size == MaxKeysInternal + 1
        k == Len(below)
        short == k > 1 /\ n < LargeHalf
        even == IF short THEN rebalanceNodeGroups(t, below[k - 1], below[k], n) ELSE t
        children(i) == CASE i = k -> IF short THEN LargeHalf ELSE n
                         [] i = k - 1 /\ short -> size - (LargeHalf - n)
                         [] OTHER -> size
        first == AllocatedGroup(even)
        above == [i \in 1..Ceil(k, size) |-> first + i - 1]
        level == [even EXCEPT
                    !.used = @ \cup Range(above),
                    !.mem = [g \in Groups |-> [i \in 0..MaxKeysInternal |->
                               IF g \in Range(above) /\ (g - first) * size + i < k
                               THEN LET j == (g - first) * size + i + 1
                                    IN  InternalNode(even, below[j], children(j))
                               ELSE @[g][i]]]]
    IN  IF k = 1 /\ n = 1 THEN [t EXCEPT !.root = below[1]]
        ELSE IF Free(even) < Ceil(k, size) THEN Checked(even, FALSE)
        ELSE buildLevels(level, above, ((k - 1) % size) + 1)

\* rebuild() of `s', the entries in the order of their keys.
rebuildIndex(t, s) ==
    LET size == MaxKeysInternal + 1
        leaves == Max({1, Ceil(Len(s), MaxKeysLeaf)})
        groups == [i \in 1..Ceil(leaves, size) |-> i - 1]
    IN  IF s = <<>> THEN [t |-> clearIndex(t), fits |-> TRUE]
        ELSE IF NodeGroupsNeeded(Len(s)) > NodeGroups THEN [t |-> clearIndex(t), fits |-> FALSE]
        ELSE [fits |-> TRUE,
              t |-> IF Len(groups) > NodeGroups THEN Checked(t, FALSE)
                    ELSE buildLevels(buildLeaves(clearIndex(t), s), groups, ((leaves - 1) % size) + 1)]

-------------------------------------------------------------------------------
(* The block around it *)

\* The entries of the store, sorted by key; ties in the order of the ids.
SortedEntries(store) ==
    LET ids == SelectSeq([n \in 1..MaxTuples |-> n - 1], LAMBDA i : i \in DOMAIN store)
        sorted == SortSeq(ids, LAMBDA i, j : store[i] < store[j] \/ (store[i] = store[j] /\ i < j))
    IN  [n \in 1..Len(sorted) |-> <<store[sorted[n]], sorted[n]>>]

NewId == Min((0..MaxTuples) \ DOMAIN tuples)
With(store, id, k) == [i \in DOMAIN store \cup {id} |-> IF i = id THEN k ELSE store[i]]
Without(store, id) == [i \in DOMAIN store \ {id} |-> store[i]]

EmptyTree ==
    [mem |-> [g \in Groups |-> [i \in 0..MaxKeysInternal |->
                [leaf |-> FALSE, ref |-> 0, keys |-> <<>>]]],
     used |-> {}, root |-> 0, ok |-> TRUE]

\* A block that was loaded in a batch and rebuilt.
Init ==
    \E load \in Loads :
        LET store == [i \in 0..(Len(load) - 1) |-> load[i + 1]]
            r == rebuildIndex(EmptyTree, SortedEntries(store))
        IN  /\ r.fits
            /\ tuples = store /\ tree = r.t
            /\ fatal = FALSE /\ built = TRUE

Running == tree.ok /\ ~fatal

insertTuple(k) ==
    LET r == addEntry(tree, NewId, k)
    IN  /\ "insert" \in Operations /\ Running /\ NewId < MaxTuples
        /\ tree' = r.t
        /\ tuples' = IF r.added THEN With(tuples, NewId, k) ELSE tuples
        /\ built' = FALSE
        /\ UNCHANGED fatal

\* An UPDATE of two tuples: bulkRemoveEntries() of both, the new key, and
\* bulkAddEntries(); the index is rebuilt if there is no room for both.
EntriesReplaced(in, store) ==
    LET all == rebuildIndex(in.t, SortedEntries(store))
    IN  IF in.lost THEN fatal' = TRUE /\ UNCHANGED <<tree, tuples, built>>
        ELSE /\ tuples' = store
             /\ IF in.added THEN tree' = in.t /\ built' = FALSE
                ELSE all.fits /\ tree' = all.t /\ built' = TRUE
             /\ UNCHANGED fatal

updateTuples(i, j, k) ==
    LET out == bulkRemoveEntries(tree, i, j, tuples)
    IN  /\ "update" \in Operations /\ Running /\ {i, j} \subseteq DOMAIN tuples /\ i < j
        /\ IF out.found
           THEN EntriesReplaced(bulkAddEntries(out.t, i, j, k), With(With(tuples, i, k), j, k))
           ELSE fatal' = TRUE /\ UNCHANGED <<tree, tuples, built>>

deleteTuple(id) ==
    LET r == removeEntry(tree, id, tuples[id])
    IN  /\ "delete" \in Operations /\ Running /\ id \in DOMAIN tuples
        /\ IF r.found
           THEN tree' = r.t /\ tuples' = Without(tuples, id) /\ UNCHANGED fatal
           ELSE fatal' = TRUE /\ UNCHANGED <<tree, tuples>>
        /\ built' = FALSE

rebuild ==
    LET r == rebuildIndex(tree, SortedEntries(tuples))
    IN  /\ "rebuild" \in Operations /\ Running /\ r.fits
        /\ tree' = r.t /\ built' = TRUE
        /\ UNCHANGED <<tuples, fatal>>

Next ==
    \/ \E k \in NewKeys : insertTuple(k)
    \/ \E i, j \in DOMAIN tuples, k \in NewKeys : updateTuples(i, j, k)
    \/ \E id \in DOMAIN tuples : deleteTuple(id)
    \/ rebuild

Spec == Init /\ [][Next]_vars

-------------------------------------------------------------------------------
\* Every DEBUG_ASSERT of an insertion and of rebuild() holds: a node that is
\* split is full and in its group, a leaf is where a leaf is expected, and the
\* groups a split needs were found free before anything was changed
\* (leafInsertHelper, splitNodeInGroup, allocateNodeGroup).
AssertionsHold == tree.ok

\* An entry that is removed is found, however often it was moved and whatever
\* leaves became empty since it was added (removeEntryFromLeaf).
NeverFatal == ~fatal

\* The chain of the leaves has every tuple of the store once, with its key,
\* in the order of the keys: a split in a group, across groups or a rebuild
\* leaves no sibling reference behind (splitNodeGroup, rebalanceNodeGroups).
ChainExact ==
    Running =>
        LET s == EntriesOf(tree, Leaves(tree, LeftmostLeaf(tree, Root(tree)), NULL))
        IN  /\ \A i \in 1..(Len(s) - 1) : s[i][1] <= s[i + 1][1]
            /\ Len(s) = Cardinality(DOMAIN tuples)
            /\ Range(s) = {<<tuples[id], id>> : id \in DOMAIN tuples}

\* Every comparison is answered exactly, with equal keys spread over leaves
\* and groups and with leaves that are empty (findLeaf, evaluatePredicate).
SearchExact ==
    Running => \A k \in Keys, op \in Comparisons :
        evaluatePredicate(tree, op, k) =
            {id \in DOMAIN tuples :
               CASE op = "eq" -> tuples[id] = k [] op = "ne" -> tuples[id] # k
                 [] op = "lt" -> tuples[id] < k [] op = "le" -> tuples[id] <= k
                 [] op = "gt" -> tuples[id] > k [] op = "ge" -> tuples[id] >= k}

RECURSIVE ReachableGroups(_, _)
ReachableGroups(t, a) ==
    LET n == Node(t, a)
    IN  {a[1]} \cup (IF n.leaf THEN {}
                     ELSE UNION {ReachableGroups(t, <<n.ref, i>>) : i \in 0..Len(n.keys)})

\* No group is leaked and none that is in use is free (allocateNodeGroup).
GroupsExact == Running => tree.used = ReachableGroups(tree, Root(tree))

\* rebuildSpaceCheck() asks for exactly the groups that rebuild() then takes:
\* with less it would run out, with more it would refuse what fits.
SpaceCheckExact ==
    Running /\ built => Cardinality(tree.used) = NodeGroupsNeeded(Cardinality(DOMAIN tuples))

===============================================================================
