----------------------------- MODULE RunMerger -----------------------------
(***************************************************************************)
(* RunMerger::doMerge(): the merge of sorted runs into one by a worker,    *)
(* one step per tuple written.  A single run is copied; runs ordered by    *)
(* one column are merged with the NULLs written before the heap is filled  *)
(* or after it is empty; runs ordered by more columns are merged with a    *)
(* comparator that knows NULL.  The tuples go to the blocks of a           *)
(* RunCreator, and the merge stops after top_k tuples.                     *)
(*                                                                         *)
(* A tuple is the sequence of its ORDER BY columns.  The blocks of an      *)
(* input run are its concatenation, which is all that RunIterator shows:   *)
(* it passes over blocks without tuples.  A run has no tuples if it has no *)
(* block or only such ones, and one run at least has a block.              *)
(***************************************************************************)
EXTENDS Integers, Sequences, FiniteSets, SequencesExt, FiniteSetsExt

CONSTANTS
    Keys,        \* the values of a column that are not NULL, integers
    Columns,     \* number of ORDER BY columns
    NumRuns,     \* bound: runs of a merge
    MaxLength,   \* bound: tuples of a run
    MaxTopK,     \* bound on top_k
    BlockTuples  \* tuples that fit a block of the output run

MergerAssumption ==
    /\ Keys \subseteq Int /\ IsFiniteSet(Keys)
    /\ Columns \in Nat \ {0} /\ NumRuns \in Nat \ {0} /\ MaxLength \in Nat \ {0}
    /\ MaxTopK \in Nat /\ BlockTuples \in Nat \ {0}

NULL == Max(Keys) + 1   \* a value no column has otherwise

VARIABLES
    config,   \* sort_config_: per column [ascending, null_first]
    runs,     \* input_runs_
    top_k,    \* top_k_, 0 for all tuples
    at,       \* iterators: run -> tuple it stands on
    heap,     \* run IDs in the heap
    nulls,    \* null_iterators, a sequence of run IDs
    out,      \* output_run_: sequence of blocks of <<run, tuple>>
    pc        \* where in doMerge() the worker is

vars == <<config, runs, top_k, at, heap, nulls, out, pc>>

-----------------------------------------------------------------------------
(* What ORDER BY means: each column has a rank, tuples are ordered by the  *)
(* ranks of their columns.                                                 *)

Rank(c, v) ==
    IF v = NULL THEN (IF config[c].null_first THEN Min(Keys) - 1 ELSE Max(Keys) + 1)
    ELSE IF config[c].ascending THEN v ELSE Min(Keys) + Max(Keys) - v

Before(s, t) ==
    \E c \in 1 .. Columns : /\ Rank(c, s[c]) < Rank(c, t[c])
                            /\ \A d \in 1 .. c - 1 : s[d] = t[d]

Sorted(run) == \A i \in 1 .. Len(run) - 1 : ~Before(run[i + 1], run[i])

Tuples == [1 .. Columns -> Keys \cup {NULL}]

Init ==
    /\ config \in [1 .. Columns -> [ascending : BOOLEAN, null_first : BOOLEAN]]
    /\ top_k \in 0 .. MaxTopK
    /\ \E n \in 1 .. NumRuns :
          runs \in [1 .. n -> {run \in BoundedSeq(Tuples, MaxLength) : Sorted(run)}]
    /\ at = [r \in DOMAIN runs |-> 1]
    /\ heap = {} /\ nulls = <<>>
    /\ out = <<<<>>>>
    /\ pc = "start"

-----------------------------------------------------------------------------
(* The comparators of the heap: does s come after t?                       *)

\* ColumnComparator: NULL is known, and compared by the order of NULLs.
GreaterInColumn(c, v, w) ==
    IF v # NULL /\ w # NULL
    THEN IF config[c].ascending THEN v > w ELSE v < w
    ELSE \/ ~config[c].null_first /\ w # NULL
         \/ config[c].null_first /\ v # NULL

\* GenericHeapComparator: the first column that differs decides.
GenericGreater(s, t) ==
    \E c \in 1 .. Columns : /\ s[c] # t[c]
                            /\ \A d \in 1 .. c - 1 : s[d] = t[d]
                            /\ GreaterInColumn(c, s[c], t[c])

\* SingleColumnHeapComparator: the values, which must not be NULL.
SingleGreater(s, t) == IF config[1].ascending THEN s[1] > t[1] ELSE s[1] < t[1]

SingleColumn == Columns = 1
NullFirst    == config[1].null_first

Greater(s, t) == IF SingleColumn THEN SingleGreater(s, t) ELSE GenericGreater(s, t)

-----------------------------------------------------------------------------
(* The output run.                                                         *)

num_tuples == Len(FlattenSeq(out))

\* appendTuple(): a full block is returned and a new one begun.
appendTuple(r) ==
    out' = IF Len(Last(out)) = BlockTuples
           THEN Append(out, <<<<r, at[r]>>>>)
           ELSE [out EXCEPT ![Len(out)] = Append(@, <<r, at[r]>>)]

\* Whether the tuple being written is the last of the top k.
LastOfTopK == top_k > 0 /\ num_tuples + 1 = top_k

\* flushBlock(): the last block is dropped from the run if it is empty.
flushBlock ==
    /\ pc = "flush" /\ pc' = "done"
    /\ out' = IF Last(out) = <<>> THEN Front(out) ELSE out
    /\ UNCHANGED <<config, runs, top_k, at, heap, nulls>>

-----------------------------------------------------------------------------
(* doMerge()                                                               *)

Value(r) == runs[r][at[r]][1]   \* of the first column
HasNext(r) == at[r] < Len(runs[r])
HasTuple(r) == at[r] <= Len(runs[r])
RunIDs == [r \in 1 .. Len(runs) |-> r]

doMerge ==
    /\ pc = "start"
    /\ CASE Len(runs) = 1 ->
              pc' = "copy" /\ UNCHANGED <<heap, nulls>>
         [] Len(runs) > 1 /\ SingleColumn /\ NullFirst ->
              pc' = "null first" /\ nulls' = RunIDs /\ UNCHANGED heap
         [] Len(runs) > 1 /\ SingleColumn /\ ~NullFirst ->
              /\ pc' = "heap"
              /\ heap' = {r \in DOMAIN runs : HasTuple(r) /\ Value(r) # NULL}
              /\ nulls' = SelectSeq(RunIDs, LAMBDA r : HasTuple(r) /\ Value(r) = NULL)
         [] Len(runs) > 1 /\ ~SingleColumn ->
              pc' = "heap" /\ heap' = {r \in DOMAIN runs : HasTuple(r)} /\ UNCHANGED nulls
    /\ UNCHANGED <<config, runs, top_k, at, out>>

copyToOutput ==
    /\ pc = "copy"
    /\ \/ HasTuple(1) /\ appendTuple(1) /\ at' = [at EXCEPT ![1] = @ + 1]
       \/ ~HasTuple(1) /\ UNCHANGED <<at, out>>
    /\ pc' = IF ~HasTuple(1) \/ LastOfTopK THEN "flush" ELSE "copy"
    /\ UNCHANGED <<config, runs, top_k, heap, nulls>>

\* mergeSingleColumnNullFirst(), the first loop: the NULLs of each run.
writeNullsFirst ==
    /\ pc = "null first"
    /\ UNCHANGED <<config, runs, top_k>>
    /\ \/ /\ nulls = <<>>
          /\ pc' = "heap"
          /\ UNCHANGED <<at, heap, nulls, out>>
       \/ /\ nulls # <<>>
          /\ LET r == Head(nulls) IN
             \/ /\ ~HasTuple(r)
                /\ nulls' = Tail(nulls)
                /\ UNCHANGED <<at, heap, out, pc>>
             \/ /\ HasTuple(r) /\ Value(r) = NULL
                /\ appendTuple(r)
                /\ at' = [at EXCEPT ![r] = @ + 1]
                /\ pc' = IF LastOfTopK THEN "flush" ELSE pc
                /\ UNCHANGED <<heap, nulls>>
             \/ /\ HasTuple(r) /\ Value(r) # NULL
                /\ heap' = heap \cup {r}
                /\ nulls' = Tail(nulls)
                /\ UNCHANGED <<at, out, pc>>

\* The loop over the heap, common to the three merges; that with NULLs last
\* puts a run aside when it comes to them.
popHeap(r) ==
    LET next == [at EXCEPT ![r] = @ + 1]
        to_nulls == SingleColumn /\ ~NullFirst /\ HasNext(r) /\ runs[r][at[r] + 1][1] = NULL
    IN  /\ pc = "heap" /\ r \in heap
        /\ \A q \in heap : ~Greater(runs[r][at[r]], runs[q][at[q]])
        /\ appendTuple(r)
        /\ IF LastOfTopK
           THEN pc' = "flush" /\ UNCHANGED <<at, heap, nulls>>
           ELSE /\ at' = next
                /\ heap' = IF HasNext(r) /\ ~to_nulls THEN heap ELSE heap \ {r}
                /\ nulls' = IF to_nulls THEN Append(nulls, r) ELSE nulls
                /\ UNCHANGED pc
        /\ UNCHANGED <<config, runs, top_k>>

heapEmpty ==
    /\ pc = "heap" /\ heap = {}
    /\ pc' = IF SingleColumn /\ ~NullFirst THEN "null last" ELSE "flush"
    /\ UNCHANGED <<config, runs, top_k, at, heap, nulls, out>>

\* mergeSingleColumnNullLast(), the last loop: the NULLs of the runs.
writeNullsLast ==
    /\ pc = "null last"
    /\ UNCHANGED <<config, runs, top_k, heap>>
    /\ \/ /\ nulls = <<>>
          /\ pc' = "flush"
          /\ UNCHANGED <<at, nulls, out>>
       \/ /\ nulls # <<>>
          /\ LET r == Head(nulls) IN
             /\ appendTuple(r)
             /\ at' = [at EXCEPT ![r] = @ + 1]
             /\ nulls' = IF HasNext(r) THEN nulls ELSE Tail(nulls)
             /\ pc' = IF LastOfTopK THEN "flush" ELSE pc

Next ==
    \/ doMerge \/ copyToOutput \/ writeNullsFirst \/ heapEmpty \/ writeNullsLast \/ flushBlock
    \/ \E r \in heap : popHeap(r)

Spec == Init /\ [][Next]_vars

-----------------------------------------------------------------------------
(* Properties.                                                             *)

Written == FlattenSeq(out)
Tuple(id) == runs[id[1]][id[2]]
AllTuples == {id \in (DOMAIN runs) \X (1 .. MaxLength) : id[2] <= Len(runs[id[1]])}

TypeOK ==
    /\ \A i \in DOMAIN out : Len(out[i]) \in 0 .. BlockTuples
    /\ \A i \in DOMAIN Written : Written[i] \in AllTuples
    /\ heap \subseteq {r \in DOMAIN runs : HasTuple(r)}
    /\ pc \in {"start", "copy", "null first", "heap", "null last", "flush", "done"}

\* The output run is sorted at every moment, whichever of the merges writes
\* it and whichever of several equal tuples the heap yields.
OutputSorted == Sorted([i \in DOMAIN Written |-> Tuple(Written[i])])

\* The comparator for a single column, which would read through a null
\* pointer, is never given a NULL.
NoNullCompared == SingleColumn => \A r \in heap : Value(r) # NULL

\* When the merge is over, the output run has top_k tuples, or all of them if
\* there are no more; none twice, none left out that comes before one that is
\* in; and none of its blocks is empty.
TopKExact ==
    pc = "done" =>
        LET chosen == Range(Written)
        IN  /\ IsInjective(Written)
            /\ Len(Written) = IF top_k = 0 THEN Cardinality(AllTuples) ELSE Min({top_k, Cardinality(AllTuples)})
            /\ \A id \in AllTuples \ chosen, w \in chosen : ~Before(Tuple(id), Tuple(w))
            /\ \A i \in DOMAIN out : out[i] # <<>>
====
