------------------------------ MODULE HashTable ------------------------------
(***************************************************************************)
(* The resizable hash table of joins and aggregations: the loops of        *)
(* HashTable (put, upsert and their ValueAccessor forms, which resize and  *)
(* retry when a table is out of space) over the two separate chaining      *)
(* implementations.  Threads insert under the shared side of               *)
(* resize_shared_mutex_; among themselves they only have atomics: the      *)
(* count of allocated buckets and the chain pointers, whose end a thread   *)
(* reserves by swapping 0 for kMax until it has written its bucket.        *)
(* resize() runs under the exclusive side, so it is one step.              *)
(*                                                                         *)
(* Every thread makes one call, on a sequence of keys.  Keys have a fixed  *)
(* length (a JoinHashTable copies none), so there is no variable-length    *)
(* storage.  Numbers of slots are not rounded to primes.  The memory of a  *)
(* new table is zero, and so is the hash of a bucket nobody has written.   *)
(***************************************************************************)
EXTENDS Integers, Sequences, FiniteSets, FiniteSetsExt, SequencesExt

CONSTANTS
    Threads,
    Keys,
    Hash(_),               \* hash code of a key; "SimpleScalar" needs it one-to-one
    Workloads,             \* what the threads do: see TypeOK
    kHashTableLoadFactor

NoKey == "none"   \* the key of a bucket that has not been written
NoPos == -1       \* no preallocation state
kMax  == -1       \* numeric_limits<size_t>::max() in a chain pointer

VARIABLES
    work,               \* the workload: implementation, template parameters, calls
    num_buckets,        \* header_->num_buckets
    buckets_allocated,  \* header_->buckets_allocated
    slots,              \* slots_: slot -> 0, bucket number + 1, or kMax
    buckets,            \* bucket -> [next, key, value]
    readers,            \* who holds resize_shared_mutex_ shared
    th,                 \* thread -> its place and locals
    accepted            \* history: thread -> keys it has inserted or updated

table == <<num_buckets, buckets_allocated, slots, buckets>>
vars  == <<work, table, readers, th, accepted>>

Places == {"preallocate", "enter", "next", "locate", "allocate", "rollback", "unreserve",
           "write", "publish", "apply", "resize", "done"}

using_prealloc(t) == work.allow_duplicate_keys /\ work.accessor[t]

num_slots == kHashTableLoadFactor * num_buckets

hash_code(b) == IF buckets[b].key = NoKey THEN 0 ELSE Hash(buckets[b].key)

Zeroed == [next |-> 0, key |-> NoKey, value |-> <<>>]

Init ==
    /\ work \in Workloads
    /\ num_buckets = work.buckets
    /\ buckets_allocated = 0
    /\ slots = [s \in 0..(num_slots - 1) |-> 0]
    /\ buckets = [b \in 0..(num_buckets - 1) |-> Zeroed]
    /\ readers = {}
    /\ th = [t \in Threads |->
               [pc      |-> IF work.keys[t] = <<>> THEN "done"
                            ELSE IF using_prealloc(t) THEN "preallocate" ELSE "enter",
                todo    |-> work.keys[t],  \* the accessor, from the current tuple on
                pos     |-> NoPos,         \* prealloc_state->bucket_position
                pending |-> 0,             \* pending_chain_ptr: -1 - slot, or a bucket
                bucket  |-> 0]]
    /\ accepted = [t \in Threads |-> <<>>]

At(t, place)  == th[t].pc = place
key(t)        == Head(th[t].todo)

\* pending_chain_ptr addresses a slot or the next pointer of a bucket.
SlotPtr(s)   == -1 - s
Load(p)      == IF p < 0 THEN slots[-1 - p] ELSE buckets[p].next
Store(p, v)  ==
    IF p < 0 THEN slots' = [slots EXCEPT ![-1 - p] = v] /\ UNCHANGED buckets
    ELSE buckets' = [buckets EXCEPT ![p].next = v] /\ UNCHANGED slots

-----------------------------------------------------------------------------
(* Preallocation and resize *)

\* preallocateForBulkInsert() under the shared lock; its loop of
\* compare-and-swaps is one step.
preallocateForBulkInsert(t) ==
    LET total_entries == Len(th[t].todo) IN
    /\ At(t, "preallocate")
    /\ \/ /\ buckets_allocated + total_entries <= num_buckets
          /\ buckets_allocated' = buckets_allocated + total_entries
          /\ th' = [th EXCEPT ![t].pos = buckets_allocated, ![t].pc = "enter"]
       \/ /\ buckets_allocated + total_entries > num_buckets
          /\ th' = [th EXCEPT ![t].pc = "resize"]
          /\ UNCHANGED buckets_allocated
    /\ UNCHANGED <<work, num_buckets, slots, buckets, readers, accepted>>

\* Only SimpleScalarSeparateChainingHashTable counts the buckets asked for.
isFull(extra) ==
    IF work.impl = "SimpleScalar"
    THEN buckets_allocated + extra >= num_buckets
    ELSE buckets_allocated >= num_buckets

\* Chains are rebuilt bucket by bucket, each put at the head of its chain.
RebuiltNext(slotOf, used) ==
    [b \in used |->
       LET before == {c \in used : c < b /\ slotOf[c] = slotOf[b]}
       IN  IF before = {} THEN 0 ELSE Max(before) + 1]

RebuiltSlots(slotOf, used, n) ==
    [s \in 0..(n - 1) |->
       LET chain == {c \in used : slotOf[c] = s}
       IN  IF chain = {} THEN 0 ELSE Max(chain) + 1]

\* The buckets below buckets_allocated are copied, written or not.
Rebuild(resized_num_buckets) ==
    LET used   == 0..(buckets_allocated - 1)
        n      == kHashTableLoadFactor * resized_num_buckets
        slotOf == [b \in used |-> hash_code(b) % n]
        next   == RebuiltNext(slotOf, used)
    IN  /\ num_buckets' = resized_num_buckets
        /\ slots' = RebuiltSlots(slotOf, used, n)
        /\ buckets' = [b \in 0..(resized_num_buckets - 1) |->
                         IF b \in used THEN [buckets[b] EXCEPT !.next = next[b]] ELSE Zeroed]

\* resize(), called with the number of entries when a preallocation failed and
\* with 0 otherwise.
resize(t) ==
    LET extra_buckets == IF using_prealloc(t) THEN Len(th[t].todo) ELSE 0 IN
    /\ At(t, "resize")
    /\ readers = {}
    /\ IF isFull(extra_buckets)
       THEN Rebuild(2 * (num_buckets + extra_buckets \div 2))
       ELSE UNCHANGED <<num_buckets, slots, buckets>>
    /\ th' = [th EXCEPT ![t].pc = IF using_prealloc(t) THEN "preallocate" ELSE "enter"]
    /\ UNCHANGED <<work, buckets_allocated, readers, accepted>>

-----------------------------------------------------------------------------
(* The loops of put(), upsert() and their ValueAccessor forms *)

\* The shared lock is taken: for one key, or for all keys of the accessor.
enter(t) ==
    /\ At(t, "enter")
    /\ readers' = readers \union {t}
    /\ th' = [th EXCEPT ![t].pc = "next"]
    /\ UNCHANGED <<work, table, accepted>>

\* kOutOfSpace: the lock is left, and the key is tried again after a resize.
OutOfSpace(t) ==
    /\ readers' = readers \ {t}
    /\ th' = [th EXCEPT ![t].pc = "resize"]

\* The call goes on with `rest', under the lock it has or after taking it again.
Continue(t, rest) ==
    LET leave == rest = <<>> \/ ~work.accessor[t] IN
    /\ readers' = IF leave THEN readers \ {t} ELSE readers
    /\ th' = [th EXCEPT ![t].todo = rest,
                        ![t].pc = IF rest = <<>> THEN "done" ELSE IF leave THEN "enter" ELSE "next"]

Accept(t) ==
    /\ accepted' = [accepted EXCEPT ![t] = Append(@, key(t))]
    /\ Continue(t, Tail(th[t].todo))

\* kDuplicateKey: an accessor is left on the tuple, put() has only one.
DuplicateKey(t) ==
    /\ Continue(t, IF work.accessor[t] THEN <<>> ELSE Tail(th[t].todo))
    /\ UNCHANGED accepted

\* putInternal() looks for a free bucket before it hashes; upsertInternal()
\* does not, as the key may be there.
putInternal(t) ==
    /\ At(t, "next")
    /\ IF ~work.upsert /\ ~using_prealloc(t) /\ buckets_allocated >= num_buckets
       THEN OutOfSpace(t)
       ELSE /\ th' = [th EXCEPT ![t].pc = "locate",
                                ![t].pending = SlotPtr(Hash(key(t)) % num_slots)]
            /\ UNCHANGED readers
    /\ UNCHANGED <<work, table, accepted>>

\* The hash code, then the key, of bucket b; SimpleScalar has only the hash code,
\* from which the key can be had back.
Collision(k, b) ==
    Hash(k) = hash_code(b) /\ (work.impl = "SimpleScalar" \/ k = buckets[b].key)

\* Mutant: the chain is not compared on the way to its end.
ChaseBlindly(t) ==
    LET existing_chain_ptr == Load(th[t].pending) IN
    /\ At(t, "locate")
    /\ existing_chain_ptr \notin {0, kMax}
    /\ th' = [th EXCEPT ![t].pending = existing_chain_ptr - 1]
    /\ UNCHANGED <<work, table, readers, accepted>>

\* locateBucketForInsertion(): a pointer that is neither 0 nor kMax is chased; a
\* key that is there ends put() and is updated by upsert().
chase(t) ==
    LET existing_chain_ptr == Load(th[t].pending)
        bucket == existing_chain_ptr - 1
    IN
    /\ At(t, "locate")
    /\ existing_chain_ptr \notin {0, kMax}
    /\ IF ~work.allow_duplicate_keys /\ Collision(key(t), bucket)
       THEN IF work.upsert
            THEN /\ th' = [th EXCEPT ![t].bucket = bucket, ![t].pc = "apply"]
                 /\ UNCHANGED <<readers, accepted>>
            ELSE DuplicateKey(t)
       ELSE th' = [th EXCEPT ![t].pending = bucket] /\ UNCHANGED <<readers, accepted>>
    /\ UNCHANGED <<work, table>>

\* Another thread is about to extend the chain: its pointer is read again.
spin(t) ==
    /\ At(t, "locate")
    /\ Load(th[t].pending) = kMax
    /\ UNCHANGED vars

\* The end of the chain, 0, is swapped for kMax.
reserve(t) ==
    /\ At(t, "locate")
    /\ Load(th[t].pending) = 0
    /\ Store(th[t].pending, kMax)
    /\ th' = [th EXCEPT ![t].pc = "allocate"]
    /\ UNCHANGED <<work, num_buckets, buckets_allocated, readers, accepted>>

\* The next preallocated bucket, or one more bucket.
allocate(t) ==
    LET pre == th[t].pos # NoPos
        allocated_bucket_num == IF pre THEN th[t].pos ELSE buckets_allocated
    IN
    /\ At(t, "allocate")
    /\ buckets_allocated' = IF pre THEN buckets_allocated ELSE buckets_allocated + 1
    /\ th' = [th EXCEPT ![t].pos = IF pre THEN @ + 1 ELSE @,
                        ![t].bucket = allocated_bucket_num,
                        ![t].pc = IF allocated_bucket_num >= num_buckets THEN "rollback" ELSE "write"]
    /\ UNCHANGED <<work, num_buckets, slots, buckets, readers, accepted>>

\* Mutant: both the callee and the caller take the count back.
RollbackTwice(t) ==
    /\ At(t, "rollback")
    /\ buckets_allocated' = buckets_allocated - 2
    /\ th' = [th EXCEPT ![t].pc = "unreserve"]
    /\ UNCHANGED <<work, num_buckets, slots, buckets, readers, accepted>>

\* Out of buckets: the count is taken back, then the end of the chain.
rollback(t) ==
    /\ At(t, "rollback")
    /\ buckets_allocated' = buckets_allocated - 1
    /\ th' = [th EXCEPT ![t].pc = "unreserve"]
    /\ UNCHANGED <<work, num_buckets, slots, buckets, readers, accepted>>

\* Mutant: the end of the chain stays reserved for nobody.
UnreserveForgotten(t) ==
    /\ At(t, "unreserve")
    /\ OutOfSpace(t)
    /\ UNCHANGED <<work, table, accepted>>

unreserve(t) ==
    /\ At(t, "unreserve")
    /\ Store(th[t].pending, 0)
    /\ OutOfSpace(t)
    /\ UNCHANGED <<work, num_buckets, buckets_allocated, accepted>>

\* The hash, the key and the value; the value of an upsert starts empty.
write(t) ==
    /\ At(t, "write")
    /\ buckets' = [buckets EXCEPT ![th[t].bucket].key = key(t),
                                  ![th[t].bucket].value = IF work.upsert THEN <<>> ELSE <<t>>]
    /\ th' = [th EXCEPT ![t].pc = "publish"]
    /\ UNCHANGED <<work, num_buckets, buckets_allocated, slots, readers, accepted>>

publish(t) ==
    /\ At(t, "publish")
    /\ Store(th[t].pending, th[t].bucket + 1)
    /\ IF work.upsert
       THEN th' = [th EXCEPT ![t].pc = "apply"] /\ UNCHANGED <<readers, accepted>>
       ELSE Accept(t)
    /\ UNCHANGED <<work, num_buckets, buckets_allocated>>

\* The functor of upsert() updates the value, still under the shared lock; its
\* caller makes it atomic.
apply(t) ==
    /\ At(t, "apply")
    /\ buckets' = [buckets EXCEPT ![th[t].bucket].value = Append(@, t)]
    /\ Accept(t)
    /\ UNCHANGED <<work, num_buckets, buckets_allocated, slots>>

Step(t) ==
    \/ preallocateForBulkInsert(t)
    \/ resize(t)
    \/ enter(t)
    \/ putInternal(t)
    \/ chase(t)
    \/ spin(t)
    \/ reserve(t)
    \/ allocate(t)
    \/ rollback(t)
    \/ unreserve(t)
    \/ write(t)
    \/ publish(t)
    \/ apply(t)

AllDone == \A t \in Threads : At(t, "done")

Next == (\E t \in Threads : Step(t)) \/ (AllDone /\ UNCHANGED vars)

Spec     == Init /\ [][Next]_vars
FairSpec == Spec /\ \A t \in Threads : WF_vars(Step(t))

-----------------------------------------------------------------------------
(* Properties *)

\* The pointers of the chain of slot s, as far as a walk of num_buckets steps
\* goes.
Walk(s) ==
    LET p[n \in 0..num_buckets] ==
          IF n = 0 THEN slots[s]
          ELSE IF p[n - 1] \in {0, kMax} THEN 0 ELSE buckets[p[n - 1] - 1].next
    IN  [n \in 0..num_buckets |-> p[n]]

InChain(s) == LET p == Walk(s) IN {p[n] - 1 : n \in {m \in DOMAIN p : p[m] \notin {0, kMax}}}

\* getAll(): the buckets with a key.
getAll(k) ==
    {b \in InChain(Hash(k) % num_slots) : Collision(k, b)}

\* The keys of the key type: a SimpleScalar table has only types whose hash is
\* one-to-one.
KeysOfTable ==
    {k \in Keys : work.impl = "SimpleScalar" =>
        \A t \in Threads : \A l \in ToSet(work.keys[t]) : Hash(k) = Hash(l) => k = l}

Slots == 0..(num_slots - 1)

Count(seq, x) == Cardinality({i \in DOMAIN seq : seq[i] = x})

\* Buckets that are allocated to a thread and not published: the one it is
\* about to write or publish, and the rest of its preallocation.
Owned(t) ==
    (IF th[t].pc \in {"write", "publish"} THEN {th[t].bucket} ELSE {})
      \union
    (IF th[t].pos = NoPos \/ At(t, "done") THEN {}
     ELSE LET left == Len(th[t].todo) - (IF th[t].pc \in {"write", "publish"} THEN 1 ELSE 0)
          IN  th[t].pos..(th[t].pos + left - 1))

\* Types, and what a workload may be.
TypeOK ==
    /\ work.impl \in {"SimpleScalar", "SeparateChaining"}
    /\ work.allow_duplicate_keys \in BOOLEAN
    /\ work.upsert \in BOOLEAN /\ (work.upsert => ~work.allow_duplicate_keys)
    /\ work.accessor \in [Threads -> BOOLEAN]
    /\ \A t \in Threads : work.keys[t] \in Seq(Keys) /\ accepted[t] \in Seq(Keys)
    /\ \A t \in Threads : ToSet(work.keys[t]) \subseteq KeysOfTable
    /\ num_buckets \in Nat \ {0}
    /\ buckets_allocated \in 0..(num_buckets + Cardinality(Threads))
    /\ DOMAIN slots = Slots /\ \A s \in Slots : slots[s] \in -1..num_buckets
    /\ DOMAIN buckets = 0..(num_buckets - 1)
    /\ \A b \in DOMAIN buckets :
          /\ buckets[b].next \in -1..num_buckets
          /\ buckets[b].key \in Keys \union {NoKey}
          /\ buckets[b].value \in Seq(Threads)
    /\ readers \subseteq Threads
    /\ \A t \in Threads : th[t].pc \in Places /\ th[t].todo \in Seq(Keys)

\* No bucket belongs to two threads, or to one of them and to a chain: what a
\* rollback of the count gives back is never a bucket somebody got, whatever
\* the order of the atomic additions and subtractions.
NoDoubleAllocation ==
    /\ \A t, u \in Threads : t # u => Owned(t) \cap Owned(u) = {}
    /\ \A t \in Threads :
          /\ Owned(t) \subseteq 0..(buckets_allocated - 1)
          /\ \A s \in Slots : Owned(t) \cap InChain(s) = {}

\* Every chain ends: a probe that does not find its key comes to an end.
ChainsEnd == \A s \in Slots : Walk(s)[num_buckets] \in {0, kMax}

\* Every chain ends, holds only written buckets whose hash leads to its slot,
\* and shares none with another chain: the lookups of locateBucketForInsertion()
\* and getAll() terminate and see every entry once.
ChainsSound ==
    /\ ChainsEnd
    /\ \A s \in Slots :
         LET p == Walk(s) IN
         \A b \in InChain(s) :
            /\ buckets[b].key # NoKey
            /\ Hash(buckets[b].key) % num_slots = s
            /\ Cardinality({n \in DOMAIN p : p[n] = b + 1}) = 1

\* Where duplicates are not allowed, no key is in the table twice, even if
\* threads that missed it in a chain insert it at the same time.
KeysUnique ==
    ~work.allow_duplicate_keys => \A k \in KeysOfTable : Cardinality(getAll(k)) <= 1

\* While no thread is inside the lock, which is when a resize may run and a
\* probe reads the table, the entries are those of the calls that returned:
\* every insertion and every update is there once, across all resizes.
EntriesExact ==
    readers = {} =>
      \A k \in KeysOfTable, t \in Threads :
         FoldSet(LAMBDA b, n : n + Count(buckets[b].value, t), 0, getAll(k)) = Count(accepted[t], k)

\* When all calls have returned, getNextEntry(), which reads the buckets up to
\* the count, meets only entries: no bucket was allocated and not used.
NoBucketLeaked ==
    AllDone => \A b \in 0..(buckets_allocated - 1) : \E s \in Slots : b \in InChain(s)

\* No bucket is allocated twice or leaked, and every chain can be walked.
TableSound == TypeOK /\ NoDoubleAllocation /\ ChainsSound /\ NoBucketLeaked

\* The table holds what was inserted, and a key once where it may be there once.
ContentExact == KeysUnique /\ EntriesExact

\* Every call returns.
EveryCallReturns == <>AllDone
=============================================================================
