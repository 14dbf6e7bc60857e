----------------------------- MODULE MCHashTable -----------------------------
(***************************************************************************)
(* Workloads of the hash table: two or three threads, few buckets, keys    *)
(* whose hash codes collide in a slot ("a", "b", "c") or altogether        *)
(* ("b", "d").                                                             *)
(***************************************************************************)
EXTENDS HashTable

CONSTANT Case

MCHash(k) == CASE k = "a" -> 0 [] k = "b" -> 4 [] k = "c" -> 1 [] k = "d" -> 4

MCKeys == {"a", "b", "c", "d"}

\* The calls on an implementation: `other' collides with "b" altogether, which
\* two keys of a SimpleScalar table cannot.
Calls(impl, firsts, third) ==
    LET other == IF impl = "SimpleScalar" THEN "c" ELSE "d" IN
    {[t \in Threads |-> IF t = 1 THEN x ELSE IF t = 2 THEN <<other, "b">> ELSE <<third>>] : x \in firsts}

Impls == {"SimpleScalar", "SeparateChaining"}

\* Without duplicates: put() and upsert(), key by key or with an accessor.
Unique ==
    UNION {[impl: {i}, allow_duplicate_keys: {FALSE}, upsert: BOOLEAN, buckets: {1, 2},
            accessor: {[t \in Threads |-> t # 1], [t \in Threads |-> t = 1]},
            keys: Calls(i, {<<"a", "b">>, <<"b", "a">>}, "b")] : i \in Impls}

\* With duplicates, where nothing resizes while a preallocation is open:
\* insertions key by key into a table that grows, ...
Growing ==
    UNION {[impl: {i}, allow_duplicate_keys: {TRUE}, upsert: {FALSE}, buckets: {1, 2},
            accessor: {[t \in Threads |-> FALSE]},
            keys: Calls(i, {<<"a", "b">>, <<"b", "b">>}, "a")] : i \in Impls}

\* ... accessors of several threads with buckets enough, ...
Roomy ==
    UNION {[impl: {i}, allow_duplicate_keys: {TRUE}, upsert: {FALSE}, buckets: {5},
            accessor: {[t \in Threads |-> TRUE], [t \in Threads |-> t # 3]},
            keys: Calls(i, {<<"a", "b">>, <<"b", "b">>}, "a")] : i \in Impls}

\* ... and one accessor that is too large for the table at first.
Alone ==
    [impl: {"SimpleScalar"}, allow_duplicate_keys: {TRUE}, upsert: {FALSE},
     accessor: {[t \in Threads |-> TRUE]}, buckets: {1, 2},
     keys: {[t \in Threads |-> IF t = 1 THEN <<"a", "b", "a">> ELSE <<>>]}]

\* Two accessors of two tuples each, and a table for three.
Tight(impl) ==
    [impl: {impl}, allow_duplicate_keys: {TRUE}, upsert: {FALSE},
     accessor: {[t \in Threads |-> TRUE]}, buckets: {3},
     keys: {[t \in Threads |-> IF t = 1 THEN <<"a", "b">> ELSE <<"c", "b">>]}]

MCWorkloads ==
    CASE Case = "all"   -> Unique \union Growing \union Roomy \union Alone
      [] Case = "tight" -> Tight("SimpleScalar")
      [] Case = "spin"  -> Tight("SeparateChaining")
=============================================================================
