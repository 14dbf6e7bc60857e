----------------------------- MODULE StorageBlock -----------------------------
(***************************************************************************)
(* One StorageBlock: a TupleStorageSubBlock, the IndexSubBlocks over one   *)
(* of its attributes, and the flags that say which of the indexes may be   *)
(* believed.  Queries insert, update and delete tuples one after another;  *)
(* every one of them has to carry the indexes along, whatever the store    *)
(* does to the ids of the tuples that stay.                                *)
(*                                                                         *)
(* Three stores (a packed row store, a split row store, a column store     *)
(* sorted on the key) and three indexes (CSB+-tree, Bloom filter, small    *)
(* materialized aggregates) are modelled by what they answer; a tuple is   *)
(* its key.  A slot has a null bit and the raw bytes of the key, which are *)
(* left from earlier tuples where nobody writes them.                      *)
(***************************************************************************)
EXTENDS Integers, Sequences, FiniteSetsExt

CONSTANTS
    Keys,            \* the values of the key; fresh and cleared memory reads 0
    Nullable,        \* whether the key may be NULL
    TupleStore,      \* "packed", "split" or "sorted"
    IndexTypes,      \* a sequence over "csb", "bloom", "sma"
    Capacity,        \* the tuples that fit the store
    IndexCapacity,   \* the entries that fit a CSB+-tree
    BatchCalls,      \* which of "tuple" (insertTupleInBatch) and "accessor"
                     \* (bulkInsertTuples) the queries use
    LiteralSides,    \* on which side of the key the queries write the literal
    VariableLength,  \* tuples have a part of variable length (split store)
    Partitioned      \* the key is the partitioning attribute

StorageBlockAssumption ==
    /\ Keys \subseteq Nat /\ 0 \in Keys /\ IsFiniteSet(Keys)
    /\ {Nullable, VariableLength, Partitioned} \subseteq BOOLEAN
    /\ TupleStore \in {"packed", "split", "sorted"}
    /\ IndexTypes \in Seq({"csb", "bloom", "sma"}) /\ Len(IndexTypes) > 0
    /\ Capacity \in Nat \ {0} /\ IndexCapacity \in Nat \ {0}
    /\ BatchCalls \subseteq {"tuple", "accessor"}
    /\ LiteralSides \subseteq {"left", "right"}
    /\ VariableLength => TupleStore = "split"

VARIABLES
    store,   \* the TupleStorageSubBlock
    index,   \* the IndexSubBlocks
    flags,   \* indices_consistent_, its two summaries, the header on the block
    mode,    \* the query that has the block: "idle", "adhoc", "batch"
    fatal,   \* the process died of a FATAL_ERROR
    rows     \* history: how many tuples of each value SQL says are here

vars == <<store, index, flags, mode, fatal, rows>>

Null == -1
Values == Keys \cup (IF Nullable THEN {Null} ELSE {})
Slots == 0..(Capacity - 1)
Indexes == 1..Len(IndexTypes)

\* GetLastValueForType(): stands for NULL in the sort column, and may also be
\* the value of a key.
Last == Max(Keys)

-------------------------------------------------------------------------------
(* The tuple stores *)

NumTuples(s) == Cardinality(s.used)
MaxTupleID(s) == IF s.used = {} THEN -1 ELSE Max(s.used)
KeyOf(s, id) == IF s.slot[id].null THEN Null ELSE s.slot[id].raw

\* A value written over a slot; the raw bytes under a NULL are `under`.
Cell(v, under) ==
    [null |-> v = Null, raw |-> IF v = Null THEN under ELSE v]

\* The end of the part of the sort column that is searched: the NULLs follow.
SearchEnd(s) == NumTuples(s) - s.nulls

\* The binary search, from the position `from', for the first value that is
\* greater than k; it relies on the order of the values it skips.
UpperBound(s, from, k) ==
    LET search[first \in Nat, len \in Int] ==
            LET half == len \div 2
            IN  IF len <= 0 THEN first
                ELSE IF s.slot[first + half].raw <= k
                THEN search[first + half + 1, len - half - 1]
                ELSE search[first, half]
    IN  search[from, SearchEnd(s) - from]

\* For the first that is not less.
LowerBound(s, from, k) == UpperBound(s, from, k - 1)

\* Where insertTuple() puts a tuple.
PositionFor(s, v) ==
    CASE TupleStore = "packed" -> NumTuples(s)
      [] TupleStore = "split" -> Min((0..Capacity) \ s.used)
      [] TupleStore = "sorted" ->
            IF v = Null THEN NumTuples(s)
            ELSE UpperBound(s, 0, v)

\* The tuple at `pos`, what was there and after it one slot further.
InsertAt(s, pos, v) ==
    [s EXCEPT
       !.slot = [id \in Slots |->
                   IF id < pos \/ (TupleStore # "sorted" /\ id # pos) THEN @[id]
                   ELSE IF id > pos THEN @[id - 1]
                   ELSE Cell(v, IF TupleStore = "sorted" THEN Last ELSE @[id].raw)],
       !.used = IF TupleStore = "sorted" THEN 0..NumTuples(s) ELSE @ \cup {pos},
       !.nulls = IF TupleStore = "sorted" /\ v = Null THEN @ + 1 ELSE @]

StoreInsert(s, v) ==
    LET pos == PositionFor(s, v)
    IN  [ok |-> NumTuples(s) < Capacity, id |-> pos,
         mutated |-> TupleStore = "sorted" /\ pos # NumTuples(s),
         store |-> InsertAt(s, pos, v)]

\* insertTupleInBatch() of the store: a sorted store appends and is unsorted.
StoreInsertInBatch(s, v) ==
    IF TupleStore = "sorted"
    THEN [InsertAt(s, NumTuples(s), v) EXCEPT !.sorted = FALSE]
    ELSE StoreInsert(s, v).store

\* bulkInsertTuples(): the split store counts the tuples to find the end of
\* the block, clears the rest if there are null bits, and takes the slots
\* after the last tuple for the ones it wrote.
StoreBulkInsert(s, vs) ==
    LET from == NumTuples(s)
        last == IF TupleStore = "split" THEN MaxTupleID(s) ELSE from - 1
        n == Min({Len(vs), Capacity - (last + 1)})
        cleared == TupleStore = "split" /\ Nullable
        under(id) == IF cleared THEN [null |-> FALSE, raw |-> 0] ELSE s.slot[id]
    IN  [s EXCEPT
           !.slot = [id \in Slots |->
                       CASE id < from -> @[id]
                         [] id \in from..(from + n - 1) ->
                               Cell(vs[id - from + 1], under(id).raw)
                         [] OTHER -> under(id)],
           !.used = @ \cup (last + 1)..(last + n),
           !.sorted = @ /\ (TupleStore # "sorted" \/ n = 0)]

\* The tuples that stay move together.
Compact(s, gone) ==
    LET kept == s.used \ gone
        new(id) == Cardinality({k \in kept : k < id})
        at(i) == CHOOSE id \in kept : new(id) = i
    IN  [s EXCEPT !.slot = [i \in Slots |-> IF i < Cardinality(kept) THEN @[at(i)] ELSE @[i]],
                  !.used = 0..(Cardinality(kept) - 1)]

\* Mutant: the store never says that ids changed.
NoIdsMutated(s, gone) == FALSE

\* Deleting leaves holes in a split store; elsewhere it truncates, or it moves
\* the tuples after the first that goes.
IdsMutated(s, gone) ==
    /\ TupleStore # "split" /\ gone # {}
    /\ gone # Min(gone)..(NumTuples(s) - 1)

StoreBulkDelete(s, gone) ==
    IF TupleStore = "split" THEN [s EXCEPT !.used = @ \ gone] ELSE Compact(s, gone)

\* deleteTuple() counts the NULL in the sort column that goes.
StoreDelete(s, id) ==
    [StoreBulkDelete(s, {id}) EXCEPT
       !.nulls = IF TupleStore = "sorted" /\ s.slot[id].null THEN @ - 1 ELSE @]

\* rebuild() of a split store: the holes are filled with tuples from the back.
Packed(s) ==
    LET n == NumTuples(s)
        holes == {id \in 0..(n - 1) : id \notin s.used}
        behind == {id \in s.used : id >= n}
        filler(h) == CHOOSE id \in behind :
                        Cardinality({k \in behind : k > id}) = Cardinality({k \in holes : k < h})
    IN  [s EXCEPT !.slot = [id \in Slots |-> IF id \in holes THEN @[filler(id)] ELSE @[id]],
                  !.used = 0..(n - 1)]

\* rebuild() of a sorted store: a stable sort of the raw values.  Among those
\* that equal the substitute for NULL the NULLs go last, if some are counted.
Sorted(s) ==
    LET n == NumTuples(s)
        raw(id) == s.slot[id].raw
        split == s.nulls > 0 /\ Cardinality({id \in s.used : raw(id) = Last}) > s.nulls
        before(a, b) ==
            \/ raw(a) < raw(b)
            \/ /\ raw(a) = raw(b)
               /\ IF split /\ raw(a) = Last /\ s.slot[a].null # s.slot[b].null
                  THEN ~s.slot[a].null ELSE a < b
        at(i) == CHOOSE id \in s.used : Cardinality({k \in s.used : before(k, id)}) = i
    IN  [s EXCEPT !.slot = [i \in Slots |-> IF i < n THEN @[at(i)] ELSE @[i]],
                  !.sorted = TRUE]

StoreRebuild(s) ==
    CASE TupleStore = "split" -> Packed(s)
      [] TupleStore = "sorted" -> IF s.sorted THEN s ELSE Sorted(s)
      [] OTHER -> s

-------------------------------------------------------------------------------
(* The indexes.  An entry is a key and the id of its tuple; a NULL has none. *)
(* A Bloom filter and an SMA only ever collect entries; of an SMA that had   *)
(* to remove one, `usable' is FALSE.                                         *)

Entries(s, ids) == {<<KeyOf(s, id), id>> : id \in {i \in ids : KeyOf(s, i) # Null}}

supportsAdHocRemove(i) == IndexTypes[i] # "bloom"

\* CSBTreeIndexSubBlock::rebuildSpaceCheck(); the others always have room.
RebuildFits(i, s) == IndexTypes[i] = "csb" => NumTuples(s) <= IndexCapacity

Rebuilt(i, s) ==
    [entries |-> IF RebuildFits(i, s) THEN Entries(s, s.used) ELSE {}, usable |-> TRUE]

\* Removing from a tree what it does not hold is a FATAL_ERROR.
RemoveDies(i, x, gone) == IndexTypes[i] = "csb" /\ ~(gone \subseteq x.entries)

RemoveEntries(i, x, gone) ==
    CASE IndexTypes[i] = "csb" -> [x EXCEPT !.entries = @ \ gone]
      [] IndexTypes[i] = "sma" -> [x EXCEPT !.usable = FALSE]
      [] OTHER -> x

\* A tree has no room when it is full; and, as its nodes are never merged,
\* when the leaf is full and no group of nodes is left: those in `tight'.
AddFails(i, x, new, tight) ==
    /\ IndexTypes[i] = "csb" /\ new \ x.entries # {}
    /\ Cardinality(x.entries \cup new) > IndexCapacity \/ i \in tight

AddEntries(i, x, new) ==
    IF IndexTypes[i] = "sma" /\ ~x.usable THEN x ELSE [x EXCEPT !.entries = @ \cup new]

\* The trees that may be out of nodes before they are full.
Fragmented(x) == {i \in Indexes : IndexTypes[i] = "csb" /\ x[i].entries # {}}

\* rebuildIndexes(): all of them, or up to the first that fails.
rebuildIndexes(s, x, f, short_circuit) ==
    LET bad == {i \in Indexes : ~RebuildFits(i, s)}
        ended == short_circuit /\ bad # {}
        done == IF ended THEN 1..Min(bad) ELSE Indexes
        each == [i \in Indexes |-> IF i \in done THEN i \notin bad ELSE f.each[i]]
    IN  [ok |-> bad = {},
         index |-> [i \in Indexes |-> IF i \in done THEN Rebuilt(i, s) ELSE x[i]],
         flags |-> [each |-> each, header |-> IF ended THEN f.header ELSE each,
                    all |-> bad = {}, none |-> done \subseteq bad]]

-------------------------------------------------------------------------------
(* Evaluating a comparison with the key *)

\* A comparison has the operator as it is written and the side of the literal.
Comparisons == [op : {"eq", "ne", "lt", "le", "gt", "ge"}, key : Keys, literal : LiteralSides]

flipComparisonID(op) ==
    CASE op = "lt" -> "gt" [] op = "le" -> "ge" [] op = "gt" -> "lt" [] op = "ge" -> "le"
      [] OTHER -> op

Compare(op, v, k) ==
    /\ v # Null
    /\ CASE op = "eq" -> v = k [] op = "ne" -> v # k [] op = "lt" -> v < k
         [] op = "le" -> v <= k [] op = "gt" -> v > k [] op = "ge" -> v >= k

\* The operator once the key is on the left.
KeyFirst(p) == IF p.literal = "left" THEN flipComparisonID(p.op) ELSE p.op

\* What a scan answers.
Scan(p) == {id \in store.used : Compare(KeyFirst(p), KeyOf(store, id), p.key)}

KeysIn(x) == {e[1] : e \in x.entries}

\* SMAIndexSubBlock::getSelectivityForPredicate(), from the least and the
\* greatest key.
Selectivity(x, p) ==
    LET op == KeyFirst(p)
        ends == {Min(KeysIn(x)), Max(KeysIn(x))}
    IN  IF ~x.usable \/ x.entries = {} \/ op = "ne" THEN "unknown"
        ELSE IF op = "eq"
        THEN IF p.key < Min(ends) \/ p.key > Max(ends) THEN "none" ELSE "some"
        ELSE IF \A e \in ends : Compare(op, e, p.key) THEN "all"
        ELSE IF \E e \in ends : Compare(op, e, p.key) THEN "some" ELSE "none"

kConstantTime == 0
kBinarySearch == 3
kTreeSearch == 4
kRowScan == 8
kInfinite == 255

IndexCost(i, p) ==
    CASE IndexTypes[i] = "csb" -> kTreeSearch
      [] IndexTypes[i] = "bloom" ->
            IF p.op = "eq" /\ p.literal = "right" /\ p.key \notin KeysIn(index[i])
            THEN kConstantTime ELSE kInfinite
      [] IndexTypes[i] = "sma" ->
            IF Selectivity(index[i], p) \in {"all", "none"} THEN kConstantTime ELSE kInfinite

\* A tree calls flipComparisonID() and drops the result.
IndexMatches(i, p) ==
    CASE IndexTypes[i] = "csb" ->
            {e[2] : e \in {d \in index[i].entries : Compare(p.op, d[1], p.key)}}
      [] IndexTypes[i] = "bloom" -> {}
      [] IndexTypes[i] = "sma" -> IF Selectivity(index[i], p) = "all" THEN store.used ELSE {}

StoreCost == IF TupleStore = "sorted" THEN kBinarySearch ELSE kRowScan

\* The sort column answers with one range of ids, or all but one.
StoreMatches(p) ==
    LET op == KeyFirst(p)
        end == SearchEnd(store)
        low == LowerBound(store, 0, p.key)
        high == UpperBound(store, IF op \in {"eq", "ne"} THEN low ELSE 0, p.key)
    IN  IF TupleStore # "sorted" THEN Scan(p)
        ELSE CASE op = "eq" -> low..(high - 1)
               [] op = "ne" -> (0..(end - 1)) \ (low..(high - 1))
               [] op = "lt" -> 0..(low - 1)
               [] op = "le" -> 0..(high - 1)
               [] op = "gt" -> high..(end - 1)
               [] op = "ge" -> low..(end - 1)

\* ComparisonPredicate::getAllMatches(): the cheapest of the store and the
\* indexes that are consistent, the first of them if several are.
getMatchesForPredicate(p) ==
    LET usable == {i \in Indexes : flags.each[i] /\ IndexCost(i, p) < StoreCost}
        cheapest == {i \in usable : \A j \in usable : IndexCost(i, p) <= IndexCost(j, p)}
    IN  IF usable = {} THEN StoreMatches(p) ELSE IndexMatches(Min(cheapest), p)

\* The tuples an UPDATE or a DELETE chooses: by its predicate on the key, or
\* by one on attributes that are not indexed, which is any set of tuples.
MatchSets == {getMatchesForPredicate(p) : p \in Comparisons} \cup SUBSET store.used

-------------------------------------------------------------------------------
(* The operations *)

\* The constructor with new_block TRUE.
Init ==
    /\ \E v \in Keys :
          store = [slot |-> [id \in Slots |-> [null |-> FALSE, raw |-> v]],
                   used |-> {}, nulls |-> 0, sorted |-> TRUE]
    /\ index = [i \in Indexes |-> [entries |-> {}, usable |-> TRUE]]
    /\ flags = [each |-> [i \in Indexes |-> TRUE], header |-> [i \in Indexes |-> TRUE],
                all |-> TRUE, none |-> FALSE]
    /\ mode = "idle" /\ fatal = FALSE
    /\ rows = [v \in Values |-> 0]

Die ==
    /\ fatal' = TRUE
    /\ UNCHANGED <<store, index, flags, rows>>

\* Mutant: the tuple that no index took stays in the store.
InsertEntryNotDeleted(s, id, tight) ==
    LET new == Entries(s, {id})
        full == {i \in Indexes : AddFails(i, index[i], new, tight)}
    IN  [ok |-> full = {}, dies |-> FALSE, flags |-> flags, store |-> s,
         index |-> [i \in Indexes |-> IF full = {} THEN AddEntries(i, index[i], new) ELSE index[i]]]

\* insertEntryInIndexes(): every index takes the new tuple, or none does and
\* the tuple is deleted again.
insertEntryInIndexes(s, id, tight) ==
    LET new == Entries(s, {id})
        full == {i \in Indexes : AddFails(i, index[i], new, tight)}
        took == IF full = {} THEN Indexes ELSE {i \in Indexes : i < Min(full)}
        added == [i \in Indexes |-> IF i \in took THEN AddEntries(i, index[i], new) ELSE index[i]]
        removed == [i \in Indexes |-> IF i \in took THEN RemoveEntries(i, added[i], new) ELSE added[i]]
        back == StoreDelete(s, id)
        again == rebuildIndexes(back, removed, flags, TRUE)
        fixed == [i \in Indexes |-> IF i \in took /\ ~supportsAdHocRemove(i)
                                    THEN Rebuilt(i, back) ELSE removed[i]]
    IN  CASE full = {} ->
               [ok |-> TRUE, dies |-> FALSE, store |-> s, index |-> added, flags |-> flags]
          [] full # {} /\ IdsMutated(s, {id}) ->
               [ok |-> FALSE, dies |-> ~again.ok, store |-> back, index |-> again.index,
                flags |-> again.flags]
          [] OTHER ->
               [ok |-> FALSE, dies |-> FALSE, store |-> back, index |-> fixed, flags |-> flags]

\* The other way of insertTuple(): the ids moved, so all indexes are rebuilt,
\* and rebuilt once more without the tuple if one has no room for it.
insertAndRebuild(s, id) ==
    LET first == rebuildIndexes(s, index, flags, TRUE)
        back == StoreDelete(s, id)
        again == rebuildIndexes(back, first.index, first.flags, TRUE)
    IN  IF first.ok
        THEN [ok |-> TRUE, dies |-> FALSE, store |-> s, index |-> first.index, flags |-> first.flags]
        ELSE [ok |-> FALSE, dies |-> ~again.ok, store |-> back, index |-> again.index,
              flags |-> again.flags]

insertTuple(v, tight) ==
    LET placed == StoreInsert(store, v)
        result == IF placed.mutated THEN insertAndRebuild(placed.store, placed.id)
                  ELSE insertEntryInIndexes(placed.store, placed.id, tight)
    IN  /\ ~fatal /\ mode \in {"idle", "adhoc"}
        /\ mode' = "adhoc"
        /\ IF ~placed.ok THEN UNCHANGED <<store, index, flags, fatal, rows>>
           ELSE IF result.dies THEN Die
           ELSE /\ store' = result.store /\ index' = result.index /\ flags' = result.flags
                /\ rows' = IF result.ok THEN [rows EXCEPT ![v] = @ + 1] ELSE rows
                /\ UNCHANGED fatal

invalidateAllIndexes(f) ==
    IF f.none THEN f
    ELSE [each |-> [i \in Indexes |-> FALSE], header |-> [i \in Indexes |-> FALSE],
          all |-> FALSE, none |-> TRUE]

insertTupleInBatch(v) ==
    /\ ~fatal /\ mode \in {"idle", "batch"} /\ "tuple" \in BatchCalls
    /\ mode' = "batch"
    /\ IF NumTuples(store) < Capacity
       THEN /\ store' = StoreInsertInBatch(store, v)
            /\ flags' = invalidateAllIndexes(flags)
            /\ rows' = [rows EXCEPT ![v] = @ + 1]
       ELSE UNCHANGED <<store, flags, rows>>
    /\ UNCHANGED <<index, fatal>>

bulkInsertTuples(vs) ==
    LET after == StoreBulkInsert(store, vs)
        n == NumTuples(after) - NumTuples(store)
    IN  /\ ~fatal /\ mode \in {"idle", "batch"} /\ "accessor" \in BatchCalls
        /\ mode' = "batch"
        /\ store' = after
        /\ flags' = IF n > 0 THEN invalidateAllIndexes(flags) ELSE flags
        /\ rows' = [v \in Values |-> rows[v] + Cardinality({i \in 1..n : vs[i] = v})]
        /\ UNCHANGED <<index, fatal>>

\* rebuild(): a RebuildWorkOrder, or an InsertDestination that found the block
\* full, at the end of every query that inserted.
rebuild ==
    LET s == StoreRebuild(store)
        r == rebuildIndexes(s, index, flags, FALSE)
    IN  /\ ~fatal /\ mode # "idle"
        /\ store' = s /\ index' = r.index /\ flags' = r.flags
        /\ mode' = "idle"
        /\ UNCHANGED <<fatal, rows>>

\* Which of the tuples to update cannot be updated in place.
RelocationSets(matches) ==
    IF Partitioned \/ TupleStore = "sorted" THEN {matches}
    ELSE IF VariableLength THEN SUBSET matches ELSE {{}}

\* How many of those find room in this block again.
Reinserted(out) ==
    IF Partitioned THEN {0}
    ELSE IF VariableLength THEN 0..Cardinality(out) ELSE {Cardinality(out)}

RECURSIVE ReinsertAll(_, _, _)
ReinsertAll(s, v, n) ==
    IF n = 0 THEN s ELSE ReinsertAll(StoreInsertInBatch(s, v), v, n - 1)

\* The last part of update(): each index takes the changed tuples again; one
\* that cannot, or that could not forget them, is rebuilt.
AddAgain(x, s, ids, tight) ==
    LET new == Entries(s, ids)
    IN  [i \in Indexes |->
           IF supportsAdHocRemove(i) /\ ~AddFails(i, x[i], new, tight)
           THEN [ok |-> TRUE, to |-> AddEntries(i, x[i], new)]
           ELSE [ok |-> RebuildFits(i, s), to |-> Rebuilt(i, s)]]

update(matches, v, out, n, tight) ==
    LET gone == Entries(store, matches)
        removed == [i \in Indexes |-> RemoveEntries(i, index[i], gone)]
        inPlace == matches \ out
        changed == [store EXCEPT !.slot = [id \in Slots |->
                      IF id \in inPlace THEN Cell(v, @[id].raw) ELSE @[id]]]
        without == StoreBulkDelete(changed, out)
        again == ReinsertAll(without, v, n)
        rebuild_all == IdsMutated(store, out) \/ (TupleStore = "sorted" /\ n > 0)
        built == StoreRebuild(again)
        all == rebuildIndexes(built, removed, flags, FALSE)
        some == AddAgain(removed, again, inPlace \cup (again.used \ without.used), tight)
        each == [i \in Indexes |-> some[i].ok]
    IN  /\ ~fatal /\ mode = "idle" /\ matches # {}
        /\ UNCHANGED mode
        /\ IF \E i \in Indexes : RemoveDies(i, index[i], gone) THEN Die
           ELSE /\ IF rebuild_all
                   THEN store' = built /\ index' = all.index /\ flags' = all.flags
                   ELSE /\ store' = again
                        /\ index' = [i \in Indexes |-> some[i].to]
                        /\ flags' = [each |-> each, header |-> each,
                                     all |-> flags.all /\ \A i \in Indexes : each[i],
                                     none |-> \A i \in Indexes : ~each[i]]
                /\ rows' = [w \in Values |->
                              rows[w] - Cardinality({id \in matches : KeyOf(store, id) = w})
                              + (IF w = v THEN Cardinality(inPlace) + n ELSE 0)]
                /\ UNCHANGED fatal

deleteTuples(matches) ==
    LET gone == Entries(store, matches)
        removed == [i \in Indexes |-> RemoveEntries(i, index[i], gone)]
        left == StoreBulkDelete(store, matches)
        all == rebuildIndexes(left, removed, flags, TRUE)
        fixed == [i \in Indexes |-> IF supportsAdHocRemove(i) THEN removed[i] ELSE Rebuilt(i, left)]
    IN  /\ ~fatal /\ mode = "idle" /\ matches # {}
        /\ UNCHANGED mode
        /\ IF \/ \E i \in Indexes : RemoveDies(i, index[i], gone)
              \/ IdsMutated(store, matches) /\ ~all.ok
           THEN Die
           ELSE /\ store' = left
                /\ IF IdsMutated(store, matches)
                   THEN index' = all.index /\ flags' = all.flags
                   ELSE index' = fixed /\ UNCHANGED flags
                /\ rows' = [w \in Values |->
                              rows[w] - Cardinality({id \in matches : KeyOf(store, id) = w})]
                /\ UNCHANGED fatal

\* The block is written to disk, evicted and loaded again: the constructor
\* with new_block FALSE reads the flags in the header.
reload ==
    /\ ~fatal /\ mode = "idle"
    /\ store' = [store EXCEPT !.sorted = TRUE]
    /\ flags' = [each |-> flags.header, header |-> flags.header,
                 all |-> \A i \in Indexes : flags.header[i],
                 none |-> \A i \in Indexes : ~flags.header[i]]
    /\ UNCHANGED <<index, mode, fatal, rows>>

Next ==
    \/ \E v \in Values, tight \in SUBSET Fragmented(index) : insertTuple(v, tight)
    \/ \E v \in Values : insertTupleInBatch(v)
    \/ \E n \in 1..2 : \E vs \in [1..n -> Values] : bulkInsertTuples(vs)
    \/ rebuild
    \/ \E matches \in MatchSets, v \in Values : \E out \in RelocationSets(matches) :
          \E n \in Reinserted(out), tight \in SUBSET Fragmented(index) :
             update(matches, v, out, n, tight)
    \/ \E matches \in MatchSets : deleteTuples(matches)
    \/ reload

Spec == Init /\ [][Next]_vars

-------------------------------------------------------------------------------
TypeOK ==
    /\ store \in [slot : [Slots -> [null : BOOLEAN, raw : Keys]], used : SUBSET Slots,
                  nulls : 0..Capacity, sorted : BOOLEAN]
    /\ index \in [Indexes -> [entries : SUBSET (Keys \X Slots), usable : BOOLEAN]]
    /\ flags \in [each : [Indexes -> BOOLEAN], header : [Indexes -> BOOLEAN],
                  all : BOOLEAN, none : BOOLEAN]
    /\ mode \in {"idle", "adhoc", "batch"} /\ fatal \in BOOLEAN
    /\ rows \in [Values -> 0..Capacity]

\* Whatever the sequence of insertions, updates, deletions, rebuilds and
\* reloads, and whichever of them failed half way and was taken back, the store
\* holds exactly the tuples that the queries that succeeded left here
\* (insertTuple, update, deleteTuples, rebuild).
TuplesConserved ==
    ~fatal => \A v \in Values : rows[v] = Cardinality({id \in store.used : KeyOf(store, id) = v})

\* Outside of a batch insertion a comparison with the key is answered as a
\* scan would answer it, by whichever index or search is chosen: no index that
\* is flagged consistent lacks a tuple, keeps one that is gone, or has the id
\* a tuple had before it moved (getAllMatches, rebuildIndexes, update).
SearchExact ==
    ~fatal /\ mode # "batch" => \A p \in Comparisons : getMatchesForPredicate(p) = Scan(p)

\* No sequence of queries kills the process: an entry that is removed is
\* there, and "it should always be possible to rebuild an index with the
\* tuples which it originally contained" (StorageBlock::insertTuple).
NeverFatal == ~fatal

\* Between queries the header that goes to disk says what the block believes,
\* and the summaries on which invalidateAllIndexes() and the DEBUG_ASSERTs
\* rely do not contradict the flags they summarise.
FlagsAgree ==
    ~fatal /\ mode = "idle" =>
        /\ flags.header = flags.each
        /\ flags.none <=> \A i \in Indexes : ~flags.each[i]
        /\ flags.all => \A i \in Indexes : flags.each[i]

\* The sequence of matches an SMA makes has numTuples() places; every id that
\* is set in it has to be less (TupleIdSequence::set asserts it).
AnswerFits ==
    \A i \in Indexes, p \in Comparisons :
        (IndexTypes[i] = "sma" /\ flags.each[i] /\ Selectivity(index[i], p) = "all")
            => \A id \in store.used : id < NumTuples(store)

===============================================================================
