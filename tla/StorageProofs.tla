--------------------------- MODULE StorageProofs ---------------------------
(***************************************************************************)
(* Proofs about the buffer pool, for any number of threads, blocks and     *)
(* shards and any limit, and about the insert destinations, for any number *)
(* of workers, tuples, partitions and blocks: the pool is exact            *)
(* (PoolExact) and keeps what was written (BlocksKept), whatever the       *)
(* interleaving of loads, evictions, uses and deletions; a destination     *)
(* loses nothing and streams every block once (DestinationExact).          *)
(***************************************************************************)
EXTENDS MCStorage, Counting

(* StorageManager *)

\* The places where block[t] is set, where it is not, and where victim[t] is.
WithBlock    == GetPlaces \cup {"created", "saving", "dEvict", "dFree", "dEvicted", "dFile",
                              "dDeleted"}
WithoutBlock == {"idle", "create"}
WithVictim   == {"getShard", "evictionLock", "isLoaded", "getRefCount", "save", "markClean", "evict",
                 "free", "releaseVictim", "unlockVictim"}
Deleting     == {"dEvict", "dFree", "dEvicted", "dFile", "dDeleted"}

\* The places where a thread has a shard counted and where it has it locked.
BlockCounted  == (GetPlaces \cup RoomPlaces) \ {"countAgain"}
VictimCounted == {"evictionLock", "isLoaded", "getRefCount", "save", "markClean", "evict", "free",
                  "releaseVictim"}
BlockLocked   == RoomPlaces \cup {"findAgain", "insert", "refer", "unlock"}
VictimLocked  == {"isLoaded", "getRefCount", "save", "markClean", "evict", "free", "releaseVictim",
                  "unlockVictim"}

\* The places where a thread has not got the block it asked for.
Wanting == RoomPlaces \cup {"readLock", "find", "countAgain", "writeLock", "findAgain", "insert", "refer"}
Loading == RoomPlaces \cup {"insert"}

\* The places of a thread whose memory is counted for no block of blocks_.
InFlight == {"insert", "create", "free", "dFree"}

OnBlock(s, places)  == {t \in Threads : block[t] # None /\ Shard[block[t]] = s /\ pc[t] \in places}
OnVictim(s, places) == {t \in Threads : victim[t] # None /\ Shard[victim[t]] = s /\ pc[t] \in places}
Holders(b)          == {t \in Threads : b \in held[t]}
Inserting           == {t \in Threads : pc[t] \in InFlight}

-----------------------------------------------------------------------------
(* The inductive invariant *)

\* block[t] and victim[t] are set where the code uses them.
PlacesExact ==
    \A t \in Threads :
        /\ pc[t] \in WithBlock => block[t] # None
        /\ pc[t] \in WithoutBlock => block[t] = None
        /\ victim[t] # None <=> pc[t] \in WithVictim

\* Who holds which shard lock, and that a writer is alone.
LocksExact ==
    \A s \in Shards :
        /\ reading[s] = OnBlock(s, {"find"})
        /\ writing[s] = OnBlock(s, BlockLocked) \cup OnVictim(s, VictimLocked)
        /\ \A t, u \in writing[s] : t = u
        /\ writing[s] # {} => reading[s] = {}

\* A thread that loads a block evicts from other shards only.
OwnShardSpared ==
    \A t \in Threads :
        block[t] # None /\ pc[t] \in VictimCounted \cup VictimLocked
            => Shard[block[t]] # Shard[victim[t]]

CountsExact ==
    \A s \in Shards :
        shard_count[s] = Cardinality(OnBlock(s, BlockCounted)) + Cardinality(OnVictim(s, VictimCounted))

\* The policy counts the references there are.
RefCountExact == \A b \in Blocks : ref_count[b] = Cardinality(Holders(b))

\* What is referred to, asked for or a candidate has been created.
IdsCreated ==
    /\ blocks \cup known \cup saved \cup in_memory \subseteq 1 .. block_index
    /\ \A t \in Threads : block[t] <= block_index /\ victim[t] <= block_index

\* References are to blocks that are not deleted, a thread asks for a block that
\* is not deleted and that it has no reference to, and a thread that creates or
\* deletes a block is the only one to work on it.
OwnersExact ==
    \A t \in Threads :
        /\ held[t] \subseteq known
        /\ block[t] # None /\ pc[t] \in GetPlaces \cup RoomPlaces \cup {"saving"} => block[t] \in known
        /\ block[t] # None /\ pc[t] \in Wanting => block[t] \notin held[t]
        /\ pc[t] \in Deleting \cup {"created"} =>
             block[t] \notin known /\ \A u \in Threads : u # t => block[u] # block[t]

\* What a thread has found out about its block stays so.
LoadsExact ==
    \A t \in Threads :
        /\ block[t] # None /\ pc[t] \in Loading => block[t] \notin blocks
        /\ pc[t] = "refer" => block[t] \in blocks
        /\ pc[t] = "created" => /\ block[t] \in dirty /\ block[t] \notin in_memory
                                /\ \A u \in Threads : victim[u] # block[t]
        /\ pc[t] \in {"dFree", "dEvicted", "dFile", "dDeleted"} => block[t] \notin blocks
        /\ pc[t] = "dDeleted" => block[t] \notin saved

\* Nobody gets at a block that is about to be evicted, and what is about to be
\* marked clean is in its file, unless it was modified meanwhile.
VictimsFree ==
    \A t \in Threads :
        /\ pc[t] \in {"save", "markClean", "evict"} => Holders(victim[t]) = {}
        /\ pc[t] = "markClean" /\ victim[t] \in known => victim[t] \in saved
        /\ pc[t] = "evict" => victim[t] \notin dirty
        /\ pc[t] = "saving" => block[t] \in saved \cup raced

Inner ==
    /\ PlacesExact /\ LocksExact /\ OwnShardSpared /\ CountsExact /\ RefCountExact
    /\ IdsCreated /\ OwnersExact /\ LoadsExact /\ VictimsFree

Outer == TypeOK /\ ReferencedLoaded /\ UsageExact /\ NothingLost /\ DeletedGone

IInv == Outer /\ (NothingThrown => Inner)
-----------------------------------------------------------------------------
\* A block that is set is one, and has a shard.
LEMMA Sharded ==
    ASSUME TypeOK, PlacesExact, NEW t \in Threads
    PROVE  /\ block[t] # None => block[t] \in Blocks /\ Shard[block[t]] \in Shards
           /\ victim[t] # None => victim[t] \in Blocks /\ Shard[victim[t]] \in Shards
           /\ pc[t] \in WithBlock => block[t] \in Blocks /\ Shard[block[t]] \in Shards
           /\ pc[t] \in WithVictim => victim[t] \in Blocks /\ Shard[victim[t]] \in Shards
BY StorageAssumption DEF TypeOK, PlacesExact, None

\* Sets of threads are finite.
LEMMA ThreadsCounted ==
    ASSUME NEW S \in SUBSET Threads
    PROVE  /\ IsFiniteSet(S) /\ Cardinality(S) \in Nat
           /\ Cardinality(S) = 0 <=> S = {}
<1>1. IsFiniteSet(S) BY FS_Subset, StorageAssumption
<1> QED BY <1>1, FS_CardinalityType, FS_EmptySet

\* Blocks have been created, so there are finitely many.
LEMMA BlocksCounted ==
    ASSUME TypeOK, IdsCreated
    PROVE  /\ IsFiniteSet(blocks) /\ Cardinality(blocks) \in Nat
           /\ blocks # {} => Cardinality(blocks) > 0
<1>1. blocks \in SUBSET (1 .. block_index) /\ block_index \in Nat BY DEF TypeOK, IdsCreated
<1>2. IsFiniteSet(1 .. block_index) BY <1>1, FS_Interval
<1>3. IsFiniteSet(blocks) BY <1>1, <1>2, FS_Subset
<1> QED BY <1>3, FS_CardinalityType, FS_EmptySet

\* What is given back was taken: no counter falls below zero.
LEMMA CountersPositive ==
    ASSUME TypeOK, Inner, UsageExact, NEW t \in Threads
    PROVE  /\ block[t] # None /\ pc[t] \in BlockCounted => shard_count[Shard[block[t]]] > 0
           /\ victim[t] # None /\ pc[t] \in VictimCounted => shard_count[Shard[victim[t]]] > 0
           /\ \A b \in held[t] : ref_count[b] > 0
           /\ pc[t] \in {"free", "dFree"} => usage > 0
<1>p. PlacesExact /\ CountsExact /\ RefCountExact /\ IdsCreated BY DEF Inner
<1>1. ASSUME NEW s \in Shards
      PROVE  /\ Cardinality(OnBlock(s, BlockCounted)) \in Nat
             /\ Cardinality(OnVictim(s, VictimCounted)) \in Nat
             /\ OnBlock(s, BlockCounted) # {} => Cardinality(OnBlock(s, BlockCounted)) # 0
             /\ OnVictim(s, VictimCounted) # {} => Cardinality(OnVictim(s, VictimCounted)) # 0
  <2>1. OnBlock(s, BlockCounted) \in SUBSET Threads /\ OnVictim(s, VictimCounted) \in SUBSET Threads
    BY DEF OnBlock, OnVictim
  <2> QED BY <2>1, ThreadsCounted
<1>2. ASSUME block[t] # None, pc[t] \in BlockCounted PROVE shard_count[Shard[block[t]]] > 0
  <2>1. Shard[block[t]] \in Shards BY <1>2, <1>p, Sharded
  <2>2. t \in OnBlock(Shard[block[t]], BlockCounted) BY <1>2 DEF OnBlock
  <2> QED BY <1>1, <1>p, <2>1, <2>2 DEF CountsExact
<1>3. ASSUME victim[t] # None, pc[t] \in VictimCounted PROVE shard_count[Shard[victim[t]]] > 0
  <2>1. Shard[victim[t]] \in Shards BY <1>3, <1>p, Sharded
  <2>2. t \in OnVictim(Shard[victim[t]], VictimCounted) BY <1>3 DEF OnVictim
  <2> QED BY <1>1, <1>p, <2>1, <2>2 DEF CountsExact
<1>4. ASSUME NEW b \in held[t] PROVE ref_count[b] > 0
  <2>1. b \in Blocks BY DEF TypeOK
  <2>2. t \in Holders(b) /\ Holders(b) \in SUBSET Threads BY DEF Holders
  <2>3. Cardinality(Holders(b)) \in Nat /\ Cardinality(Holders(b)) # 0 BY <2>2, ThreadsCounted
  <2> QED BY <1>p, <2>1, <2>3 DEF RefCountExact
<1>5. ASSUME pc[t] \in {"free", "dFree"} PROVE usage > 0
  <2>1. Cardinality(blocks) \in Nat BY <1>p, BlocksCounted
  <2>2. t \in Inserting /\ Inserting \in SUBSET Threads BY <1>5 DEF Inserting, InFlight
  <2>3. Cardinality(Inserting) \in Nat /\ Cardinality(Inserting) # 0 BY <2>2, ThreadsCounted
  <2>4. usage = Cardinality(blocks) + Cardinality(Inserting) BY DEF UsageExact, Inserting, InFlight
  <2> QED BY <2>1, <2>3, <2>4
<1> QED BY <1>2, <1>3, <1>4, <1>5

\* What a thread does, the exceptions that end the program included.
Act(t, b) == getBlock(t, b) \/ createBlock(t) \/ Get(t) \/ Room(t) \/ Create(t) \/ markSaved(t)
               \/ Delete(t) \/ Use(t, b) \/ deleteBlockOrBlobFile(t, b)

\* An eviction that throws nothing finds its block.
LEMMA NoThrow ==
    ASSUME TypeOK, NothingThrown', NEW t \in Threads
    PROVE  /\ evictVictim(t) => /\ Go(t, "evict", "free") /\ Evict(victim[t])
                                /\ UNCHANGED <<policy, shards, held, block, victim>>
           /\ dEvict(t) => /\ Go(t, "dEvict", "dFree") /\ Evict(block[t])
                           /\ UNCHANGED <<policy, shards, held, block, victim>>
<1>1. ASSUME NEW from, Go(t, from, "thrown") PROVE FALSE BY <1>1 DEF Go, NothingThrown, TypeOK
<1> QED BY <1>1 DEF evictVictim, dEvict

\* The policy keeps its types.
LEMMA PolicyKept ==
    ASSUME PolicyType, NEW b \in Blocks
    PROVE  /\ blockReferenced(b) => PolicyType'
           /\ chooseBlockToEvict(b) => PolicyType'
<1>1. ASSUME blockReferenced(b) PROVE PolicyType'
  <2>1. ref_count' \in [Blocks -> Nat] BY <1>1 DEF PolicyType, blockReferenced
  <2>2. in_memory' \subseteq Blocks /\ nonreferenced_blocks' \subseteq Blocks
    BY <1>1 DEF PolicyType, blockReferenced
  <2> QED BY <2>1, <2>2 DEF PolicyType
<1>2. ASSUME chooseBlockToEvict(b) PROVE PolicyType' BY <1>2 DEF PolicyType, chooseBlockToEvict
<1> QED BY <1>1, <1>2

\* A shard lock keeps others off the blocks of the shard: two threads never have
\* the lock of the same block's shard, and none reads under a writer.
LEMMA LockExcludes ==
    ASSUME TypeOK, PlacesExact, LocksExact, NEW t \in Threads, NEW u \in Threads
    PROVE  /\ /\ block[t] # None /\ block[u] = block[t]
              /\ pc[t] \in BlockLocked /\ pc[u] \in BlockLocked
              => t = u
           /\ /\ block[u] = victim[t] /\ pc[t] \in VictimLocked /\ pc[u] \in BlockLocked
              => t = u
           /\ pc[t] \in VictimLocked /\ pc[u] = "find" => block[u] # victim[t]
<1>1. pc[t] \in VictimLocked => victim[t] # None
  BY DEF PlacesExact, VictimLocked, WithVictim
<1>2. /\ block[t] # None => Shard[block[t]] \in Shards
      /\ victim[t] # None => Shard[victim[t]] \in Shards
  BY Sharded
<1>3. ASSUME block[t] # None, block[u] = block[t], pc[t] \in BlockLocked, pc[u] \in BlockLocked
      PROVE  t = u
  <2>1. t \in OnBlock(Shard[block[t]], BlockLocked) /\ u \in OnBlock(Shard[block[t]], BlockLocked)
    BY <1>3 DEF OnBlock
  <2> QED BY <1>2, <1>3, <2>1 DEF LocksExact
<1>4. ASSUME block[u] = victim[t], pc[t] \in VictimLocked, pc[u] \in BlockLocked PROVE t = u
  <2>1. t \in OnVictim(Shard[victim[t]], VictimLocked) /\ u \in OnBlock(Shard[victim[t]], BlockLocked)
    BY <1>1, <1>4 DEF OnBlock, OnVictim
  <2> QED BY <1>1, <1>2, <1>4, <2>1 DEF LocksExact
<1>5. ASSUME block[u] = victim[t], pc[t] \in VictimLocked, pc[u] = "find" PROVE FALSE
  <2>1. t \in OnVictim(Shard[victim[t]], VictimLocked) /\ u \in OnBlock(Shard[victim[t]], {"find"})
    BY <1>1, <1>5 DEF OnBlock, OnVictim
  <2> QED BY <1>1, <1>2, <1>5, <2>1 DEF LocksExact
<1> QED BY <1>3, <1>4, <1>5

LEMMA TypeKept ==
    ASSUME TypeOK, Inner, UsageExact, ReferencedLoaded, NEW t \in Threads, NEW b,
           Act(t, b), NothingThrown'
    PROVE  TypeOK'
<1> USE DEF Go, TypeOK, PolicyType, store, shards, policy, None, WithBlock, WithVictim,
            BlockCounted, VictimCounted, GetPlaces, RoomPlaces, Places
<1>p. PlacesExact BY DEF Inner
<1>q. /\ block[t] # None => block[t] \in Blocks /\ Shard[block[t]] \in Shards
      /\ pc[t] \in WithBlock => block[t] \in Blocks /\ Shard[block[t]] \in Shards
      /\ pc[t] \in WithVictim => victim[t] \in Blocks /\ Shard[victim[t]] \in Shards /\ victim[t] # None
  BY <1>p, Sharded DEF PlacesExact
<1>r. /\ block[t] # None /\ pc[t] \in BlockCounted => shard_count[Shard[block[t]]] > 0
      /\ victim[t] # None /\ pc[t] \in VictimCounted => shard_count[Shard[victim[t]]] > 0
      /\ \A x \in held[t] : ref_count[x] > 0
      /\ pc[t] \in {"free", "dFree"} => usage > 0
      /\ held[t] \subseteq blocks
  BY CountersPositive DEF ReferencedLoaded
<1>1. CASE getBlock(t, b) BY <1>1, <1>p, <1>q, <1>r, StorageAssumption DEF getBlock, count
<1>2. CASE readLock(t) BY <1>2, <1>p, <1>q, <1>r, StorageAssumption DEF readLock, lockShared
<1>3. CASE find(t)
  <2>1. CASE block[t] \in blocks
    <3>1. PolicyType'
      BY <1>3, <2>1, <1>q, PolicyKept DEF find, reference
    <3> QED BY <1>3, <2>1, <3>1, <1>q DEF find, reference, unlockShared
  <2>2. CASE block[t] \notin blocks BY <1>3, <2>2, <1>p, <1>q, <1>r, StorageAssumption DEF find,
        unlockShared
  <2> QED BY <2>1, <2>2
<1>4. CASE releaseShard(t) BY <1>4, <1>p, <1>q, <1>r, StorageAssumption DEF releaseShard, release
<1>5. CASE countAgain(t) BY <1>5, <1>p, <1>q, <1>r, StorageAssumption DEF countAgain, count
<1>6. CASE writeLock(t) BY <1>6, <1>p, <1>q, <1>r, StorageAssumption DEF writeLock, lock
<1>7. CASE findAgain(t)
  <2>1. CASE block[t] \in blocks
    <3>1. PolicyType'
      BY <1>7, <2>1, <1>q, PolicyKept DEF findAgain, reference
    <3> QED BY <1>7, <2>1, <3>1, <1>q DEF findAgain, reference
  <2>2. CASE block[t] \notin blocks BY <1>7, <2>2, <1>p, <1>q, <1>r, StorageAssumption DEF findAgain
  <2> QED BY <2>1, <2>2
<1>8. CASE insert(t) BY <1>8, <1>p, <1>q, <1>r, StorageAssumption DEF insert
<1>9. CASE refer(t)
  <2>1. PolicyType'
    BY <1>9, <1>q, PolicyKept DEF refer, reference
  <2> QED BY <1>9, <2>1, <1>q DEF refer, reference
<1>10. CASE unlockBlock(t) BY <1>10, <1>p, <1>q, <1>r, StorageAssumption DEF unlockBlock, unlock
<1>11. CASE releaseAgain(t) BY <1>11, <1>p, <1>q, <1>r, StorageAssumption DEF releaseAgain, release
<1>12. CASE test(t) BY <1>12, <1>p, <1>q, <1>r, StorageAssumption DEF test
<1>13. CASE chooseVictim(t)
  <2>1. CASE Candidates = {} BY <1>13, <2>1 DEF chooseVictim
  <2>2. ASSUME NEW v \in Candidates, Go(t, "choose", "getShard"), chooseBlockToEvict(v),
               victim' = [victim EXCEPT ![t] = v], UNCHANGED <<store, shards, held, block>>
        PROVE  TypeOK'
    <3>1. v \in Blocks BY DEF Candidates
    <3>2. PolicyType' BY <2>2, <3>1, PolicyKept
    <3> QED BY <2>2, <3>1, <3>2
  <2> QED BY <1>13, <2>1, <2>2 DEF chooseVictim
<1>14. CASE getShard(t)
  <2>1. ASSUME Go(t, "getShard", "gaveUp"), victim' = [victim EXCEPT ![t] = None],
               UNCHANGED <<policy, store, shards, held, block>>
        PROVE  TypeOK'
    BY <2>1, <1>p, <1>q, <1>r, StorageAssumption
  <2>2. ASSUME Go(t, "getShard", "evictionLock"), shard_count[Shard[victim[t]]] = 0, count(victim[t]),
               UNCHANGED <<policy, store, reading, writing, held, block, victim>>
        PROVE  TypeOK'
    BY <2>2, <1>p, <1>q, <1>r, StorageAssumption DEF count
  <2> QED BY <1>14, <2>1, <2>2 DEF getShard
<1>15. CASE evictionLock(t) BY <1>15, <1>p, <1>q, <1>r, StorageAssumption DEF evictionLock, lock
<1>16. CASE isLoaded(t) BY <1>16, <1>p, <1>q, <1>r, StorageAssumption DEF isLoaded
<1>17. CASE getRefCount(t) BY <1>17, <1>p, <1>q, <1>r, StorageAssumption DEF getRefCount
<1>18. CASE saveVictim(t) BY <1>18, <1>p, <1>q, <1>r, StorageAssumption DEF saveVictim, Write
<1>19. CASE evictVictim(t)
  <2>1. /\ Go(t, "evict", "free") /\ Evict(victim[t])
        /\ UNCHANGED <<policy, shards, held, block, victim>>
    BY <1>19, NoThrow
  <2>2. blocks' \subseteq Blocks /\ dirty' \subseteq blocks' /\ saved' \subseteq Blocks
        /\ usage' \in Nat /\ block_index' \in Nat /\ known' \subseteq Blocks /\ raced' \subseteq Blocks
    BY <2>1 DEF Evict
  <2> QED BY <2>1, <2>2
<1>20. CASE releaseVictim(t) BY <1>20, <1>p, <1>q, <1>r, StorageAssumption DEF releaseVictim,
      release
<1>21. CASE unlockVictim(t) BY <1>21, <1>p, <1>q, <1>r, StorageAssumption DEF unlockVictim, unlock
<1>22. CASE allocate(t) BY <1>22, <1>p, <1>q, <1>r, StorageAssumption DEF allocate
<1>23. CASE createBlock(t) BY <1>23, <1>p, <1>q, <1>r, StorageAssumption DEF createBlock
<1>24. CASE insertNew(t) BY <1>24, <1>p, <1>q, <1>r, StorageAssumption DEF insertNew
<1>25. CASE announce(t) BY <1>25, <1>p, <1>q, <1>r, StorageAssumption DEF announce, blockCreated
<1>26. CASE write(t, b) BY <1>26, <1>p, <1>q, <1>r, StorageAssumption DEF write
<1>27. CASE unreference(t, b) BY <1>27, <1>p, <1>q, <1>r, StorageAssumption DEF unreference,
      blockUnreferenced
<1>28. CASE saveBlockOrBlob(t, b) BY <1>28, <1>p, <1>q, <1>r, StorageAssumption DEF saveBlockOrBlob,
      Write
<1>29. CASE deleteBlockOrBlobFile(t, b) BY <1>29, <1>p, <1>q, <1>r, StorageAssumption DEF
      deleteBlockOrBlobFile
<1>30. CASE dEvict(t)
  <2>1. /\ Go(t, "dEvict", "dFree") /\ Evict(block[t])
        /\ UNCHANGED <<policy, shards, held, block, victim>>
    BY <1>30, NoThrow
  <2>2. blocks' \subseteq Blocks /\ dirty' \subseteq blocks' /\ saved' \subseteq Blocks
        /\ usage' \in Nat /\ block_index' \in Nat /\ known' \subseteq Blocks /\ raced' \subseteq Blocks
    BY <2>1 DEF Evict
  <2> QED BY <2>1, <2>2
<1>31. CASE dEvicted(t) BY <1>31, <1>p, <1>q, <1>r, StorageAssumption DEF dEvicted, blockEvicted
<1>32. CASE dFile(t) BY <1>32, <1>p, <1>q, <1>r, StorageAssumption DEF dFile
<1>33. CASE dDeleted(t) BY <1>33, <1>p, <1>q, <1>r, StorageAssumption DEF dDeleted, blockDeleted
<1>34. CASE markVictimClean(t) BY <1>34, <1>p, <1>q, <1>r, StorageAssumption DEF markVictimClean, markClean
<1>35. CASE freeVictim(t) BY <1>35, <1>p, <1>q, <1>r, StorageAssumption DEF freeVictim, deallocateSlots
<1>36. CASE markSaved(t) BY <1>36, <1>p, <1>q, <1>r, StorageAssumption DEF markSaved, markClean
<1>37. CASE dFree(t) BY <1>37, <1>p, <1>q, <1>r, StorageAssumption DEF dFree, deallocateSlots
<1> QED BY <1>1, <1>2, <1>3, <1>4, <1>5, <1>6, <1>7, <1>8, <1>9, <1>10, <1>11, <1>12, <1>13,
    <1>14, <1>15, <1>16, <1>17, <1>18, <1>19, <1>20, <1>21, <1>22, <1>23, <1>24, <1>25, <1>26,
    <1>27, <1>28, <1>29, <1>30, <1>31, <1>32, <1>33, <1>34, <1>35, <1>36, <1>37 DEF Act,
    Get, Room, Create, Delete, Use

LEMMA PlacesKept ==
    ASSUME TypeOK, PlacesExact, NEW t \in Threads, NEW b,
           Act(t, b), NothingThrown'
    PROVE  PlacesExact'
<1> USE DEF Go, PlacesExact, TypeOK, NothingThrown, WithBlock, WithoutBlock, WithVictim, None,
            GetPlaces, RoomPlaces, Places
<1>1. CASE getBlock(t, b) BY <1>1, StorageAssumption DEF getBlock, count
<1>2. CASE readLock(t) BY <1>2, StorageAssumption DEF readLock, lockShared
<1>3. CASE find(t)
  <2>1. CASE block[t] \in blocks BY <1>3, <2>1, StorageAssumption DEF find, reference, unlockShared,
        blockReferenced
  <2>2. CASE block[t] \notin blocks BY <1>3, <2>2, StorageAssumption DEF find, reference,
        unlockShared, blockReferenced
  <2> QED BY <2>1, <2>2
<1>4. CASE releaseShard(t) BY <1>4, StorageAssumption DEF releaseShard, release
<1>5. CASE countAgain(t) BY <1>5, StorageAssumption DEF countAgain, count
<1>6. CASE writeLock(t) BY <1>6, StorageAssumption DEF writeLock, lock
<1>7. CASE findAgain(t)
  <2>1. CASE block[t] \in blocks BY <1>7, <2>1, StorageAssumption DEF findAgain, reference,
        blockReferenced
  <2>2. CASE block[t] \notin blocks BY <1>7, <2>2, StorageAssumption DEF findAgain, reference,
        blockReferenced
  <2> QED BY <2>1, <2>2
<1>8. CASE insert(t) BY <1>8, StorageAssumption DEF insert
<1>9. CASE refer(t) BY <1>9, StorageAssumption DEF refer, reference, blockReferenced
<1>10. CASE unlockBlock(t) BY <1>10, StorageAssumption DEF unlockBlock, unlock
<1>11. CASE releaseAgain(t) BY <1>11, StorageAssumption DEF releaseAgain, release
<1>12. CASE test(t) BY <1>12, StorageAssumption DEF test
<1>13. CASE chooseVictim(t)
  <2>1. ASSUME Go(t, "choose", "gaveUp"), UNCHANGED <<policy, store, shards, held, block, victim>>
        PROVE  PlacesExact'
    BY <2>1, StorageAssumption DEF PolicyType
  <2>2. ASSUME NEW v \in Candidates, Go(t, "choose", "getShard"), chooseBlockToEvict(v),
               victim' = [victim EXCEPT ![t] = v], UNCHANGED <<store, shards, held, block>>
        PROVE  PlacesExact'
    BY <2>2, StorageAssumption DEF chooseBlockToEvict, Candidates, PolicyType
  <2> QED BY <1>13, <2>1, <2>2 DEF chooseVictim
<1>14. CASE getShard(t)
  <2>1. ASSUME Go(t, "getShard", "gaveUp"), victim' = [victim EXCEPT ![t] = None],
               UNCHANGED <<policy, store, shards, held, block>>
        PROVE  PlacesExact'
    BY <2>1, StorageAssumption
  <2>2. ASSUME Go(t, "getShard", "evictionLock"), shard_count[Shard[victim[t]]] = 0, count(victim[t]),
               UNCHANGED <<policy, store, reading, writing, held, block, victim>>
        PROVE  PlacesExact'
    BY <2>2, StorageAssumption DEF count
  <2> QED BY <1>14, <2>1, <2>2 DEF getShard
<1>15. CASE evictionLock(t) BY <1>15, StorageAssumption DEF evictionLock, lock
<1>16. CASE isLoaded(t) BY <1>16, StorageAssumption DEF isLoaded
<1>17. CASE getRefCount(t) BY <1>17, StorageAssumption DEF getRefCount
<1>18. CASE saveVictim(t) BY <1>18, StorageAssumption DEF saveVictim, Write
<1>19. CASE evictVictim(t)
  <2>1. /\ Go(t, "evict", "free") /\ Evict(victim[t])
        /\ UNCHANGED <<policy, shards, held, block, victim>>
    BY <1>19, NoThrow
  <2> QED BY <2>1, StorageAssumption DEF Evict
<1>20. CASE releaseVictim(t) BY <1>20, StorageAssumption DEF releaseVictim, release
<1>21. CASE unlockVictim(t) BY <1>21, StorageAssumption DEF unlockVictim, unlock
<1>22. CASE allocate(t) BY <1>22, StorageAssumption DEF allocate
<1>23. CASE createBlock(t) BY <1>23, StorageAssumption DEF createBlock
<1>24. CASE insertNew(t) BY <1>24, StorageAssumption DEF insertNew
<1>25. CASE announce(t) BY <1>25, StorageAssumption DEF announce, blockCreated
<1>26. CASE write(t, b) BY <1>26, StorageAssumption DEF write
<1>27. CASE unreference(t, b) BY <1>27, StorageAssumption DEF unreference, blockUnreferenced
<1>28. CASE saveBlockOrBlob(t, b) BY <1>28, StorageAssumption DEF saveBlockOrBlob, Write
<1>29. CASE deleteBlockOrBlobFile(t, b) BY <1>29, StorageAssumption DEF deleteBlockOrBlobFile
<1>30. CASE dEvict(t)
  <2>1. /\ Go(t, "dEvict", "dFree") /\ Evict(block[t])
        /\ UNCHANGED <<policy, shards, held, block, victim>>
    BY <1>30, NoThrow
  <2> QED BY <2>1, StorageAssumption DEF Evict
<1>31. CASE dEvicted(t) BY <1>31, StorageAssumption DEF dEvicted, blockEvicted
<1>32. CASE dFile(t) BY <1>32, StorageAssumption DEF dFile
<1>33. CASE dDeleted(t) BY <1>33, StorageAssumption DEF dDeleted, blockDeleted
<1>34. CASE markVictimClean(t) BY <1>34, StorageAssumption DEF markVictimClean, markClean
<1>35. CASE freeVictim(t) BY <1>35, StorageAssumption DEF freeVictim, deallocateSlots
<1>36. CASE markSaved(t) BY <1>36, StorageAssumption DEF markSaved, markClean
<1>37. CASE dFree(t) BY <1>37, StorageAssumption DEF dFree, deallocateSlots
<1> QED BY <1>1, <1>2, <1>3, <1>4, <1>5, <1>6, <1>7, <1>8, <1>9, <1>10, <1>11, <1>12, <1>13,
    <1>14, <1>15, <1>16, <1>17, <1>18, <1>19, <1>20, <1>21, <1>22, <1>23, <1>24, <1>25, <1>26,
    <1>27, <1>28, <1>29, <1>30, <1>31, <1>32, <1>33, <1>34, <1>35, <1>36, <1>37 DEF Act,
    Get, Room, Create, Delete, Use

LEMMA LocksKept ==
    ASSUME TypeOK, PlacesExact, LocksExact, OwnShardSpared, NEW t \in Threads, NEW b,
           Act(t, b), NothingThrown'
    PROVE  LocksExact'
<1> USE DEF Go, LocksExact, OnBlock, OnVictim, BlockLocked, VictimLocked, PlacesExact,
            OwnShardSpared, TypeOK, WithBlock, WithoutBlock, WithVictim, None, store, shards,
            GetPlaces, RoomPlaces, Places
<1>q. /\ block[t] # None => block[t] \in Blocks /\ Shard[block[t]] \in Shards
      /\ pc[t] \in WithBlock => block[t] \in Blocks /\ Shard[block[t]] \in Shards
      /\ pc[t] \in WithVictim => victim[t] \in Blocks /\ Shard[victim[t]] \in Shards
  BY Sharded
<1>1. CASE getBlock(t, b) BY <1>1, <1>q DEF getBlock, count
<1>2. CASE readLock(t) BY <1>2, <1>q DEF readLock, lockShared
<1>3. CASE find(t)
  <2>1. CASE block[t] \in blocks BY <1>3, <2>1, <1>q DEF find, reference, unlockShared,
        blockReferenced
  <2>2. CASE block[t] \notin blocks BY <1>3, <2>2, <1>q DEF find, reference, unlockShared,
        blockReferenced
  <2> QED BY <2>1, <2>2
<1>4. CASE releaseShard(t) BY <1>4, <1>q DEF releaseShard, release
<1>5. CASE countAgain(t) BY <1>5, <1>q DEF countAgain, count
<1>6. CASE writeLock(t) BY <1>6, <1>q DEF writeLock, lock
<1>7. CASE findAgain(t)
  <2>1. CASE block[t] \in blocks BY <1>7, <2>1, <1>q DEF findAgain, reference, blockReferenced
  <2>2. CASE block[t] \notin blocks BY <1>7, <2>2, <1>q DEF findAgain, reference, blockReferenced
  <2> QED BY <2>1, <2>2
<1>8. CASE insert(t) BY <1>8, <1>q DEF insert
<1>9. CASE refer(t) BY <1>9, <1>q DEF refer, reference, blockReferenced
<1>10. CASE unlockBlock(t) BY <1>10, <1>q DEF unlockBlock, unlock
<1>11. CASE releaseAgain(t) BY <1>11, <1>q DEF releaseAgain, release
<1>12. CASE test(t) BY <1>12, <1>q DEF test
<1>13. CASE chooseVictim(t)
  <2>1. ASSUME Go(t, "choose", "gaveUp"), UNCHANGED <<policy, store, shards, held, block, victim>>
        PROVE  LocksExact'
    BY <2>1, <1>q DEF PolicyType
  <2>2. ASSUME NEW v \in Candidates, Go(t, "choose", "getShard"), chooseBlockToEvict(v),
               victim' = [victim EXCEPT ![t] = v], UNCHANGED <<store, shards, held, block>>
        PROVE  LocksExact'
    BY <2>2, <1>q DEF chooseBlockToEvict, Candidates, PolicyType
  <2> QED BY <1>13, <2>1, <2>2 DEF chooseVictim
<1>14. CASE getShard(t)
  <2>1. ASSUME Go(t, "getShard", "gaveUp"), victim' = [victim EXCEPT ![t] = None],
               UNCHANGED <<policy, store, shards, held, block>>
        PROVE  LocksExact'
    BY <2>1, <1>q
  <2>2. ASSUME Go(t, "getShard", "evictionLock"), shard_count[Shard[victim[t]]] = 0, count(victim[t]),
               UNCHANGED <<policy, store, reading, writing, held, block, victim>>
        PROVE  LocksExact'
    BY <2>2, <1>q DEF count
  <2> QED BY <1>14, <2>1, <2>2 DEF getShard
<1>15. CASE evictionLock(t) BY <1>15, <1>q DEF evictionLock, lock
<1>16. CASE isLoaded(t) BY <1>16, <1>q DEF isLoaded
<1>17. CASE getRefCount(t) BY <1>17, <1>q DEF getRefCount
<1>18. CASE saveVictim(t) BY <1>18, <1>q DEF saveVictim, Write
<1>19. CASE evictVictim(t)
  <2>1. /\ Go(t, "evict", "free") /\ Evict(victim[t])
        /\ UNCHANGED <<policy, shards, held, block, victim>>
    BY <1>19, NoThrow
  <2> QED BY <2>1, <1>q DEF Evict
<1>20. CASE releaseVictim(t) BY <1>20, <1>q DEF releaseVictim, release
<1>21. CASE unlockVictim(t) BY <1>21, <1>q DEF unlockVictim, unlock
<1>22. CASE allocate(t) BY <1>22, <1>q DEF allocate
<1>23. CASE createBlock(t) BY <1>23, <1>q DEF createBlock
<1>24. CASE insertNew(t) BY <1>24, <1>q DEF insertNew
<1>25. CASE announce(t) BY <1>25, <1>q DEF announce, blockCreated
<1>26. CASE write(t, b) BY <1>26, <1>q DEF write
<1>27. CASE unreference(t, b) BY <1>27, <1>q DEF unreference, blockUnreferenced
<1>28. CASE saveBlockOrBlob(t, b) BY <1>28, <1>q DEF saveBlockOrBlob, Write
<1>29. CASE deleteBlockOrBlobFile(t, b) BY <1>29, <1>q DEF deleteBlockOrBlobFile
<1>30. CASE dEvict(t)
  <2>1. /\ Go(t, "dEvict", "dFree") /\ Evict(block[t])
        /\ UNCHANGED <<policy, shards, held, block, victim>>
    BY <1>30, NoThrow
  <2> QED BY <2>1, <1>q DEF Evict
<1>31. CASE dEvicted(t) BY <1>31, <1>q DEF dEvicted, blockEvicted
<1>32. CASE dFile(t) BY <1>32, <1>q DEF dFile
<1>33. CASE dDeleted(t) BY <1>33, <1>q DEF dDeleted, blockDeleted
<1>34. CASE markVictimClean(t) BY <1>34, <1>q DEF markVictimClean, markClean
<1>35. CASE freeVictim(t) BY <1>35, <1>q DEF freeVictim, deallocateSlots
<1>36. CASE markSaved(t) BY <1>36, <1>q DEF markSaved, markClean
<1>37. CASE dFree(t) BY <1>37, <1>q DEF dFree, deallocateSlots
<1> QED BY <1>1, <1>2, <1>3, <1>4, <1>5, <1>6, <1>7, <1>8, <1>9, <1>10, <1>11, <1>12, <1>13,
    <1>14, <1>15, <1>16, <1>17, <1>18, <1>19, <1>20, <1>21, <1>22, <1>23, <1>24, <1>25, <1>26,
    <1>27, <1>28, <1>29, <1>30, <1>31, <1>32, <1>33, <1>34, <1>35, <1>36, <1>37 DEF Act,
    Get, Room, Create, Delete, Use

LEMMA SparedKept ==
    ASSUME TypeOK, Inner, UsageExact, OwnShardSpared, NEW t \in Threads, NEW b,
           Act(t, b), NothingThrown'
    PROVE  OwnShardSpared'
<1> USE DEF Go, OwnShardSpared, PlacesExact, TypeOK, BlockCounted, VictimCounted, VictimLocked,
            WithBlock, WithoutBlock, WithVictim, None, store, shards, GetPlaces, RoomPlaces, Places
<1>p. PlacesExact BY DEF Inner
<1>r. block[t] # None /\ pc[t] \in BlockCounted => shard_count[Shard[block[t]]] > 0 BY CountersPositive
<1>1. CASE getBlock(t, b) BY <1>1, <1>p, <1>r DEF getBlock, count
<1>2. CASE readLock(t) BY <1>2, <1>p, <1>r DEF readLock, lockShared
<1>3. CASE find(t)
  <2>1. CASE block[t] \in blocks BY <1>3, <2>1, <1>p, <1>r DEF find, reference, unlockShared,
        blockReferenced
  <2>2. CASE block[t] \notin blocks BY <1>3, <2>2, <1>p, <1>r DEF find, reference, unlockShared,
        blockReferenced
  <2> QED BY <2>1, <2>2
<1>4. CASE releaseShard(t) BY <1>4, <1>p, <1>r DEF releaseShard, release
<1>5. CASE countAgain(t) BY <1>5, <1>p, <1>r DEF countAgain, count
<1>6. CASE writeLock(t) BY <1>6, <1>p, <1>r DEF writeLock, lock
<1>7. CASE findAgain(t)
  <2>1. CASE block[t] \in blocks BY <1>7, <2>1, <1>p, <1>r DEF findAgain, reference, blockReferenced
  <2>2. CASE block[t] \notin blocks BY <1>7, <2>2, <1>p, <1>r DEF findAgain, reference,
        blockReferenced
  <2> QED BY <2>1, <2>2
<1>8. CASE insert(t) BY <1>8, <1>p, <1>r DEF insert
<1>9. CASE refer(t) BY <1>9, <1>p, <1>r DEF refer, reference, blockReferenced
<1>10. CASE unlockBlock(t) BY <1>10, <1>p, <1>r DEF unlockBlock, unlock
<1>11. CASE releaseAgain(t) BY <1>11, <1>p, <1>r DEF releaseAgain, release
<1>12. CASE test(t) BY <1>12, <1>p, <1>r DEF test
<1>13. CASE chooseVictim(t)
  <2>1. ASSUME Go(t, "choose", "gaveUp"), UNCHANGED <<policy, store, shards, held, block, victim>>
        PROVE  OwnShardSpared'
    BY <2>1, <1>p, <1>r DEF PolicyType
  <2>2. ASSUME NEW v \in Candidates, Go(t, "choose", "getShard"), chooseBlockToEvict(v),
               victim' = [victim EXCEPT ![t] = v], UNCHANGED <<store, shards, held, block>>
        PROVE  OwnShardSpared'
    BY <2>2, <1>p, <1>r DEF chooseBlockToEvict, Candidates, PolicyType
  <2> QED BY <1>13, <2>1, <2>2 DEF chooseVictim
<1>14. CASE getShard(t)
  <2>1. ASSUME Go(t, "getShard", "gaveUp"), victim' = [victim EXCEPT ![t] = None],
               UNCHANGED <<policy, store, shards, held, block>>
        PROVE  OwnShardSpared'
    BY <2>1, <1>p, <1>r
  <2>2. ASSUME Go(t, "getShard", "evictionLock"), shard_count[Shard[victim[t]]] = 0, count(victim[t]),
               UNCHANGED <<policy, store, reading, writing, held, block, victim>>
        PROVE  OwnShardSpared'
    BY <2>2, <1>p, <1>r DEF count
  <2> QED BY <1>14, <2>1, <2>2 DEF getShard
<1>15. CASE evictionLock(t) BY <1>15, <1>p, <1>r DEF evictionLock, lock
<1>16. CASE isLoaded(t) BY <1>16, <1>p, <1>r DEF isLoaded
<1>17. CASE getRefCount(t) BY <1>17, <1>p, <1>r DEF getRefCount
<1>18. CASE saveVictim(t) BY <1>18, <1>p, <1>r DEF saveVictim, Write
<1>19. CASE evictVictim(t)
  <2>1. /\ Go(t, "evict", "free") /\ Evict(victim[t])
        /\ UNCHANGED <<policy, shards, held, block, victim>>
    BY <1>19, NoThrow
  <2> QED BY <2>1, <1>p, <1>r DEF Evict
<1>20. CASE releaseVictim(t) BY <1>20, <1>p, <1>r DEF releaseVictim, release
<1>21. CASE unlockVictim(t) BY <1>21, <1>p, <1>r DEF unlockVictim, unlock
<1>22. CASE allocate(t) BY <1>22, <1>p, <1>r DEF allocate
<1>23. CASE createBlock(t) BY <1>23, <1>p, <1>r DEF createBlock
<1>24. CASE insertNew(t) BY <1>24, <1>p, <1>r DEF insertNew
<1>25. CASE announce(t) BY <1>25, <1>p, <1>r DEF announce, blockCreated
<1>26. CASE write(t, b) BY <1>26, <1>p, <1>r DEF write
<1>27. CASE unreference(t, b) BY <1>27, <1>p, <1>r DEF unreference, blockUnreferenced
<1>28. CASE saveBlockOrBlob(t, b) BY <1>28, <1>p, <1>r DEF saveBlockOrBlob, Write
<1>29. CASE deleteBlockOrBlobFile(t, b) BY <1>29, <1>p, <1>r DEF deleteBlockOrBlobFile
<1>30. CASE dEvict(t)
  <2>1. /\ Go(t, "dEvict", "dFree") /\ Evict(block[t])
        /\ UNCHANGED <<policy, shards, held, block, victim>>
    BY <1>30, NoThrow
  <2> QED BY <2>1, <1>p, <1>r DEF Evict
<1>31. CASE dEvicted(t) BY <1>31, <1>p, <1>r DEF dEvicted, blockEvicted
<1>32. CASE dFile(t) BY <1>32, <1>p, <1>r DEF dFile
<1>33. CASE dDeleted(t) BY <1>33, <1>p, <1>r DEF dDeleted, blockDeleted
<1>34. CASE markVictimClean(t) BY <1>34, <1>p, <1>r DEF markVictimClean, markClean
<1>35. CASE freeVictim(t) BY <1>35, <1>p, <1>r DEF freeVictim, deallocateSlots
<1>36. CASE markSaved(t) BY <1>36, <1>p, <1>r DEF markSaved, markClean
<1>37. CASE dFree(t) BY <1>37, <1>p, <1>r DEF dFree, deallocateSlots
<1> QED BY <1>1, <1>2, <1>3, <1>4, <1>5, <1>6, <1>7, <1>8, <1>9, <1>10, <1>11, <1>12, <1>13,
    <1>14, <1>15, <1>16, <1>17, <1>18, <1>19, <1>20, <1>21, <1>22, <1>23, <1>24, <1>25, <1>26,
    <1>27, <1>28, <1>29, <1>30, <1>31, <1>32, <1>33, <1>34, <1>35, <1>36, <1>37 DEF Act,
    Get, Room, Create, Delete, Use

LEMMA IdsKept ==
    ASSUME TypeOK, PlacesExact, OwnersExact, ReferencedLoaded, IdsCreated, NEW t \in Threads, NEW b,
           Act(t, b), NothingThrown'
    PROVE  IdsCreated'
<1> USE DEF Go, IdsCreated, ReferencedLoaded, OwnersExact, PlacesExact, TypeOK, WithBlock,
            WithVictim, None, store, shards, policy, GetPlaces, RoomPlaces, Places
<1>1. CASE getBlock(t, b) BY <1>1, StorageAssumption DEF getBlock, count
<1>2. CASE readLock(t) BY <1>2, StorageAssumption DEF readLock, lockShared
<1>3. CASE find(t)
  <2>1. CASE block[t] \in blocks BY <1>3, <2>1, StorageAssumption DEF find, reference, unlockShared,
        blockReferenced
  <2>2. CASE block[t] \notin blocks BY <1>3, <2>2, StorageAssumption DEF find, reference,
        unlockShared, blockReferenced
  <2> QED BY <2>1, <2>2
<1>4. CASE releaseShard(t) BY <1>4, StorageAssumption DEF releaseShard, release
<1>5. CASE countAgain(t) BY <1>5, StorageAssumption DEF countAgain, count
<1>6. CASE writeLock(t) BY <1>6, StorageAssumption DEF writeLock, lock
<1>7. CASE findAgain(t)
  <2>1. CASE block[t] \in blocks BY <1>7, <2>1, StorageAssumption DEF findAgain, reference,
        blockReferenced
  <2>2. CASE block[t] \notin blocks BY <1>7, <2>2, StorageAssumption DEF findAgain, reference,
        blockReferenced
  <2> QED BY <2>1, <2>2
<1>8. CASE insert(t) BY <1>8, StorageAssumption DEF insert
<1>9. CASE refer(t) BY <1>9, StorageAssumption DEF refer, reference, blockReferenced
<1>10. CASE unlockBlock(t) BY <1>10, StorageAssumption DEF unlockBlock, unlock
<1>11. CASE releaseAgain(t) BY <1>11, StorageAssumption DEF releaseAgain, release
<1>12. CASE test(t) BY <1>12, StorageAssumption DEF test
<1>13. CASE chooseVictim(t)
  <2>1. ASSUME Go(t, "choose", "gaveUp"), UNCHANGED <<policy, store, shards, held, block, victim>>
        PROVE  IdsCreated'
    BY <2>1, StorageAssumption DEF PolicyType
  <2>2. ASSUME NEW v \in Candidates, Go(t, "choose", "getShard"), chooseBlockToEvict(v),
               victim' = [victim EXCEPT ![t] = v], UNCHANGED <<store, shards, held, block>>
        PROVE  IdsCreated'
    BY <2>2, StorageAssumption DEF chooseBlockToEvict, Candidates, PolicyType
  <2> QED BY <1>13, <2>1, <2>2 DEF chooseVictim
<1>14. CASE getShard(t)
  <2>1. ASSUME Go(t, "getShard", "gaveUp"), victim' = [victim EXCEPT ![t] = None],
               UNCHANGED <<policy, store, shards, held, block>>
        PROVE  IdsCreated'
    BY <2>1, StorageAssumption
  <2>2. ASSUME Go(t, "getShard", "evictionLock"), shard_count[Shard[victim[t]]] = 0, count(victim[t]),
               UNCHANGED <<policy, store, reading, writing, held, block, victim>>
        PROVE  IdsCreated'
    BY <2>2, StorageAssumption DEF count
  <2> QED BY <1>14, <2>1, <2>2 DEF getShard
<1>15. CASE evictionLock(t) BY <1>15, StorageAssumption DEF evictionLock, lock
<1>16. CASE isLoaded(t) BY <1>16, StorageAssumption DEF isLoaded
<1>17. CASE getRefCount(t) BY <1>17, StorageAssumption DEF getRefCount
<1>18. CASE saveVictim(t)
  <2>1. ASSUME Go(t, "save", "markClean"), Write(victim[t]), UNCHANGED <<policy, shards, held, block, victim>>
        PROVE  IdsCreated'
    BY <2>1, StorageAssumption DEF Write
  <2>2. ASSUME pc[t] = "save", UNCHANGED <<policy, store, shards, held, block, victim>>,
               \/ Go(t, "save", "evict")
               \/ Go(t, "save", "releaseVictim")
        PROVE  IdsCreated'
    BY <2>2, StorageAssumption
  <2> QED BY <1>18, <2>1, <2>2 DEF saveVictim
<1>19. CASE evictVictim(t)
  <2>1. /\ Go(t, "evict", "free") /\ Evict(victim[t])
        /\ UNCHANGED <<policy, shards, held, block, victim>>
    BY <1>19, NoThrow
  <2> QED BY <2>1, StorageAssumption DEF Evict
<1>20. CASE releaseVictim(t) BY <1>20, StorageAssumption DEF releaseVictim, release
<1>21. CASE unlockVictim(t) BY <1>21, StorageAssumption DEF unlockVictim, unlock
<1>22. CASE allocate(t) BY <1>22, StorageAssumption DEF allocate
<1>23. CASE createBlock(t) BY <1>23, StorageAssumption DEF createBlock
<1>24. CASE insertNew(t)
  <2>1. /\ Go(t, "create", "created") /\ block_index' = block_index + 1
        /\ block' = [block EXCEPT ![t] = block_index + 1] /\ blocks' = blocks \cup {block_index + 1}
        /\ UNCHANGED <<policy, saved, known, victim>>
    BY <1>24 DEF insertNew
  <2>2. block_index \in Nat /\ 1 .. block_index \subseteq 1 .. block_index + 1
        /\ block_index + 1 \in 1 .. block_index + 1
    OBVIOUS
  <2>3. blocks' \cup known' \cup saved' \cup in_memory' \subseteq 1 .. block_index'
    BY <2>1, <2>2
  <2>4. ASSUME NEW u \in Threads PROVE block'[u] <= block_index' /\ victim'[u] <= block_index'
    <3>1. block[u] \in Nat /\ victim[u] \in Nat /\ block[u] <= block_index /\ victim[u] <= block_index
      <4>1. block[u] \in Blocks \cup {None} /\ victim[u] \in Blocks \cup {None} OBVIOUS
      <4>2. Blocks \cup {None} \subseteq Nat BY StorageAssumption
      <4> QED BY <4>1, <4>2
    <3>2. victim'[u] = victim[u] /\ block'[u] \in {block[u], block_index + 1} BY <2>1
    <3> QED BY <2>1, <2>2, <3>1, <3>2
  <2> QED BY <2>3, <2>4
<1>25. CASE announce(t)
  <2>1. block[t] \in 1 .. block_index
    <3>1. block[t] # None /\ block[t] <= block_index /\ block_index \in Nat
      BY <1>25 DEF announce
    <3>2. block[t] \in Nat \ {0} BY <3>1, StorageAssumption
    <3> QED BY <3>1, <3>2
  <2> QED BY <1>25, <2>1, StorageAssumption DEF announce, blockCreated
<1>26. CASE write(t, b) BY <1>26, StorageAssumption DEF write
<1>27. CASE unreference(t, b) BY <1>27, StorageAssumption DEF unreference, blockUnreferenced
<1>28. CASE saveBlockOrBlob(t, b) BY <1>28, StorageAssumption DEF saveBlockOrBlob, Write
<1>29. CASE deleteBlockOrBlobFile(t, b) BY <1>29, StorageAssumption DEF deleteBlockOrBlobFile
<1>30. CASE dEvict(t)
  <2>1. /\ Go(t, "dEvict", "dFree") /\ Evict(block[t])
        /\ UNCHANGED <<policy, shards, held, block, victim>>
    BY <1>30, NoThrow
  <2> QED BY <2>1, StorageAssumption DEF Evict
<1>31. CASE dEvicted(t) BY <1>31, StorageAssumption DEF dEvicted, blockEvicted
<1>32. CASE dFile(t) BY <1>32, StorageAssumption DEF dFile
<1>33. CASE dDeleted(t) BY <1>33, StorageAssumption DEF dDeleted, blockDeleted
<1>34. CASE markVictimClean(t) BY <1>34, StorageAssumption DEF markVictimClean, markClean
<1>35. CASE freeVictim(t) BY <1>35, StorageAssumption DEF freeVictim, deallocateSlots
<1>36. CASE markSaved(t) BY <1>36, StorageAssumption DEF markSaved, markClean
<1>37. CASE dFree(t) BY <1>37, StorageAssumption DEF dFree, deallocateSlots
<1> QED BY <1>1, <1>2, <1>3, <1>4, <1>5, <1>6, <1>7, <1>8, <1>9, <1>10, <1>11, <1>12, <1>13,
    <1>14, <1>15, <1>16, <1>17, <1>18, <1>19, <1>20, <1>21, <1>22, <1>23, <1>24, <1>25, <1>26,
    <1>27, <1>28, <1>29, <1>30, <1>31, <1>32, <1>33, <1>34, <1>35, <1>36, <1>37 DEF Act,
    Get, Room, Create, Delete, Use

LEMMA OwnersKept ==
    ASSUME TypeOK, PlacesExact, IdsCreated, OwnersExact, NEW t \in Threads, NEW b,
           Act(t, b), NothingThrown'
    PROVE  OwnersExact'
<1> USE DEF Go, OwnersExact, IdsCreated, PlacesExact, TypeOK, Deleting, Wanting, WithBlock,
            WithoutBlock, None, store, shards, policy, GetPlaces, RoomPlaces, Places
<1>1. CASE getBlock(t, b) BY <1>1, StorageAssumption DEF getBlock, count
<1>2. CASE readLock(t) BY <1>2, StorageAssumption DEF readLock, lockShared
<1>3. CASE find(t)
  <2>1. CASE block[t] \in blocks BY <1>3, <2>1, StorageAssumption DEF find, reference, unlockShared,
        blockReferenced
  <2>2. CASE block[t] \notin blocks BY <1>3, <2>2, StorageAssumption DEF find, reference,
        unlockShared, blockReferenced
  <2> QED BY <2>1, <2>2
<1>4. CASE releaseShard(t) BY <1>4, StorageAssumption DEF releaseShard, release
<1>5. CASE countAgain(t) BY <1>5, StorageAssumption DEF countAgain, count
<1>6. CASE writeLock(t) BY <1>6, StorageAssumption DEF writeLock, lock
<1>7. CASE findAgain(t)
  <2>1. CASE block[t] \in blocks BY <1>7, <2>1, StorageAssumption DEF findAgain, reference,
        blockReferenced
  <2>2. CASE block[t] \notin blocks BY <1>7, <2>2, StorageAssumption DEF findAgain, reference,
        blockReferenced
  <2> QED BY <2>1, <2>2
<1>8. CASE insert(t) BY <1>8, StorageAssumption DEF insert
<1>9. CASE refer(t) BY <1>9, StorageAssumption DEF refer, reference, blockReferenced
<1>10. CASE unlockBlock(t) BY <1>10, StorageAssumption DEF unlockBlock, unlock
<1>11. CASE releaseAgain(t) BY <1>11, StorageAssumption DEF releaseAgain, release
<1>12. CASE test(t) BY <1>12, StorageAssumption DEF test
<1>13. CASE chooseVictim(t)
  <2>1. ASSUME Go(t, "choose", "gaveUp"), UNCHANGED <<policy, store, shards, held, block, victim>>
        PROVE  OwnersExact'
    BY <2>1, StorageAssumption DEF PolicyType
  <2>2. ASSUME NEW v \in Candidates, Go(t, "choose", "getShard"), chooseBlockToEvict(v),
               victim' = [victim EXCEPT ![t] = v], UNCHANGED <<store, shards, held, block>>
        PROVE  OwnersExact'
    BY <2>2, StorageAssumption DEF chooseBlockToEvict, Candidates, PolicyType
  <2> QED BY <1>13, <2>1, <2>2 DEF chooseVictim
<1>14. CASE getShard(t)
  <2>1. ASSUME Go(t, "getShard", "gaveUp"), victim' = [victim EXCEPT ![t] = None],
               UNCHANGED <<policy, store, shards, held, block>>
        PROVE  OwnersExact'
    BY <2>1, StorageAssumption
  <2>2. ASSUME Go(t, "getShard", "evictionLock"), shard_count[Shard[victim[t]]] = 0, count(victim[t]),
               UNCHANGED <<policy, store, reading, writing, held, block, victim>>
        PROVE  OwnersExact'
    BY <2>2, StorageAssumption DEF count
  <2> QED BY <1>14, <2>1, <2>2 DEF getShard
<1>15. CASE evictionLock(t) BY <1>15, StorageAssumption DEF evictionLock, lock
<1>16. CASE isLoaded(t) BY <1>16, StorageAssumption DEF isLoaded
<1>17. CASE getRefCount(t) BY <1>17, StorageAssumption DEF getRefCount
<1>18. CASE saveVictim(t) BY <1>18, StorageAssumption DEF saveVictim, Write
<1>19. CASE evictVictim(t)
  <2>1. /\ Go(t, "evict", "free") /\ Evict(victim[t])
        /\ UNCHANGED <<policy, shards, held, block, victim>>
    BY <1>19, NoThrow
  <2> QED BY <2>1, StorageAssumption DEF Evict
<1>20. CASE releaseVictim(t) BY <1>20, StorageAssumption DEF releaseVictim, release
<1>21. CASE unlockVictim(t) BY <1>21, StorageAssumption DEF unlockVictim, unlock
<1>22. CASE allocate(t) BY <1>22, StorageAssumption DEF allocate
<1>23. CASE createBlock(t) BY <1>23, StorageAssumption DEF createBlock
<1>24. CASE insertNew(t) BY <1>24, StorageAssumption DEF insertNew
<1>25. CASE announce(t) BY <1>25, StorageAssumption DEF announce, blockCreated
<1>26. CASE write(t, b) BY <1>26, StorageAssumption DEF write
<1>27. CASE unreference(t, b) BY <1>27, StorageAssumption DEF unreference, blockUnreferenced
<1>28. CASE saveBlockOrBlob(t, b) BY <1>28, StorageAssumption DEF saveBlockOrBlob, Write
<1>29. CASE deleteBlockOrBlobFile(t, b) BY <1>29, StorageAssumption DEF deleteBlockOrBlobFile
<1>30. CASE dEvict(t)
  <2>1. /\ Go(t, "dEvict", "dFree") /\ Evict(block[t])
        /\ UNCHANGED <<policy, shards, held, block, victim>>
    BY <1>30, NoThrow
  <2> QED BY <2>1, StorageAssumption DEF Evict
<1>31. CASE dEvicted(t) BY <1>31, StorageAssumption DEF dEvicted, blockEvicted
<1>32. CASE dFile(t) BY <1>32, StorageAssumption DEF dFile
<1>33. CASE dDeleted(t) BY <1>33, StorageAssumption DEF dDeleted, blockDeleted
<1>34. CASE markVictimClean(t) BY <1>34, StorageAssumption DEF markVictimClean, markClean
<1>35. CASE freeVictim(t) BY <1>35, StorageAssumption DEF freeVictim, deallocateSlots
<1>36. CASE markSaved(t) BY <1>36, StorageAssumption DEF markSaved, markClean
<1>37. CASE dFree(t) BY <1>37, StorageAssumption DEF dFree, deallocateSlots
<1> QED BY <1>1, <1>2, <1>3, <1>4, <1>5, <1>6, <1>7, <1>8, <1>9, <1>10, <1>11, <1>12, <1>13,
    <1>14, <1>15, <1>16, <1>17, <1>18, <1>19, <1>20, <1>21, <1>22, <1>23, <1>24, <1>25, <1>26,
    <1>27, <1>28, <1>29, <1>30, <1>31, <1>32, <1>33, <1>34, <1>35, <1>36, <1>37 DEF Act,
    Get, Room, Create, Delete, Use

LEMMA LoadedKept ==
    ASSUME TypeOK, PlacesExact, OwnersExact, LoadsExact, VictimsFree, ReferencedLoaded, NEW t \in Threads, NEW b,
           Act(t, b), NothingThrown'
    PROVE  ReferencedLoaded'
<1> USE DEF Go, ReferencedLoaded, OwnersExact, LoadsExact, VictimsFree, Holders, PlacesExact,
            TypeOK, Deleting, Wanting, WithBlock, WithoutBlock, None, store, shards, policy,
            GetPlaces, RoomPlaces, Places
<1>1. CASE getBlock(t, b) BY <1>1 DEF getBlock, count
<1>2. CASE readLock(t) BY <1>2 DEF readLock, lockShared
<1>3. CASE find(t)
  <2>1. CASE block[t] \in blocks BY <1>3, <2>1 DEF find, reference, unlockShared, blockReferenced
  <2>2. CASE block[t] \notin blocks BY <1>3, <2>2 DEF find, reference, unlockShared, blockReferenced
  <2> QED BY <2>1, <2>2
<1>4. CASE releaseShard(t) BY <1>4 DEF releaseShard, release
<1>5. CASE countAgain(t) BY <1>5 DEF countAgain, count
<1>6. CASE writeLock(t) BY <1>6 DEF writeLock, lock
<1>7. CASE findAgain(t)
  <2>1. CASE block[t] \in blocks BY <1>7, <2>1 DEF findAgain, reference, blockReferenced
  <2>2. CASE block[t] \notin blocks BY <1>7, <2>2 DEF findAgain, reference, blockReferenced
  <2> QED BY <2>1, <2>2
<1>8. CASE insert(t) BY <1>8 DEF insert
<1>9. CASE refer(t) BY <1>9 DEF refer, reference, blockReferenced
<1>10. CASE unlockBlock(t) BY <1>10 DEF unlockBlock, unlock
<1>11. CASE releaseAgain(t) BY <1>11 DEF releaseAgain, release
<1>12. CASE test(t) BY <1>12 DEF test
<1>13. CASE chooseVictim(t)
  <2>1. ASSUME Go(t, "choose", "gaveUp"), UNCHANGED <<policy, store, shards, held, block, victim>>
        PROVE  ReferencedLoaded'
    BY <2>1 DEF PolicyType
  <2>2. ASSUME NEW v \in Candidates, Go(t, "choose", "getShard"), chooseBlockToEvict(v),
               victim' = [victim EXCEPT ![t] = v], UNCHANGED <<store, shards, held, block>>
        PROVE  ReferencedLoaded'
    BY <2>2 DEF chooseBlockToEvict, Candidates, PolicyType
  <2> QED BY <1>13, <2>1, <2>2 DEF chooseVictim
<1>14. CASE getShard(t)
  <2>1. ASSUME Go(t, "getShard", "gaveUp"), victim' = [victim EXCEPT ![t] = None],
               UNCHANGED <<policy, store, shards, held, block>>
        PROVE  ReferencedLoaded'
    BY <2>1
  <2>2. ASSUME Go(t, "getShard", "evictionLock"), shard_count[Shard[victim[t]]] = 0, count(victim[t]),
               UNCHANGED <<policy, store, reading, writing, held, block, victim>>
        PROVE  ReferencedLoaded'
    BY <2>2 DEF count
  <2> QED BY <1>14, <2>1, <2>2 DEF getShard
<1>15. CASE evictionLock(t) BY <1>15 DEF evictionLock, lock
<1>16. CASE isLoaded(t) BY <1>16 DEF isLoaded
<1>17. CASE getRefCount(t) BY <1>17 DEF getRefCount
<1>18. CASE saveVictim(t) BY <1>18 DEF saveVictim, Write
<1>19. CASE evictVictim(t)
  <2>1. /\ Go(t, "evict", "free") /\ Evict(victim[t])
        /\ UNCHANGED <<policy, shards, held, block, victim>>
    BY <1>19, NoThrow
  <2> QED BY <2>1 DEF Evict
<1>20. CASE releaseVictim(t) BY <1>20 DEF releaseVictim, release
<1>21. CASE unlockVictim(t) BY <1>21 DEF unlockVictim, unlock
<1>22. CASE allocate(t) BY <1>22 DEF allocate
<1>23. CASE createBlock(t) BY <1>23 DEF createBlock
<1>24. CASE insertNew(t) BY <1>24 DEF insertNew
<1>25. CASE announce(t) BY <1>25 DEF announce, blockCreated
<1>26. CASE write(t, b) BY <1>26 DEF write
<1>27. CASE unreference(t, b) BY <1>27 DEF unreference, blockUnreferenced
<1>28. CASE saveBlockOrBlob(t, b) BY <1>28 DEF saveBlockOrBlob, Write
<1>29. CASE deleteBlockOrBlobFile(t, b) BY <1>29 DEF deleteBlockOrBlobFile
<1>30. CASE dEvict(t)
  <2>1. /\ Go(t, "dEvict", "dFree") /\ Evict(block[t])
        /\ UNCHANGED <<policy, shards, held, block, victim>>
    BY <1>30, NoThrow
  <2> QED BY <2>1 DEF Evict
<1>31. CASE dEvicted(t) BY <1>31 DEF dEvicted, blockEvicted
<1>32. CASE dFile(t) BY <1>32 DEF dFile
<1>33. CASE dDeleted(t) BY <1>33 DEF dDeleted, blockDeleted
<1>34. CASE markVictimClean(t) BY <1>34 DEF markVictimClean, markClean
<1>35. CASE freeVictim(t) BY <1>35 DEF freeVictim, deallocateSlots
<1>36. CASE markSaved(t) BY <1>36 DEF markSaved, markClean
<1>37. CASE dFree(t) BY <1>37 DEF dFree, deallocateSlots
<1> QED BY <1>1, <1>2, <1>3, <1>4, <1>5, <1>6, <1>7, <1>8, <1>9, <1>10, <1>11, <1>12, <1>13,
    <1>14, <1>15, <1>16, <1>17, <1>18, <1>19, <1>20, <1>21, <1>22, <1>23, <1>24, <1>25, <1>26,
    <1>27, <1>28, <1>29, <1>30, <1>31, <1>32, <1>33, <1>34, <1>35, <1>36, <1>37 DEF Act,
    Get, Room, Create, Delete, Use

LEMMA LostKept ==
    ASSUME TypeOK, PlacesExact, OwnersExact, LoadsExact, VictimsFree, NothingLost, NEW t \in Threads, NEW b,
           Act(t, b), NothingThrown'
    PROVE  NothingLost'
<1> USE DEF Go, NothingLost, OwnersExact, LoadsExact, VictimsFree, Holders, PlacesExact, TypeOK,
            Deleting, Wanting, WithBlock, WithoutBlock, None, store, shards, policy, GetPlaces,
            RoomPlaces, Places
<1>1. CASE getBlock(t, b) BY <1>1 DEF getBlock, count
<1>2. CASE readLock(t) BY <1>2 DEF readLock, lockShared
<1>3. CASE find(t)
  <2>1. CASE block[t] \in blocks BY <1>3, <2>1 DEF find, reference, unlockShared, blockReferenced
  <2>2. CASE block[t] \notin blocks BY <1>3, <2>2 DEF find, reference, unlockShared, blockReferenced
  <2> QED BY <2>1, <2>2
<1>4. CASE releaseShard(t) BY <1>4 DEF releaseShard, release
<1>5. CASE countAgain(t) BY <1>5 DEF countAgain, count
<1>6. CASE writeLock(t) BY <1>6 DEF writeLock, lock
<1>7. CASE findAgain(t)
  <2>1. CASE block[t] \in blocks BY <1>7, <2>1 DEF findAgain, reference, blockReferenced
  <2>2. CASE block[t] \notin blocks BY <1>7, <2>2 DEF findAgain, reference, blockReferenced
  <2> QED BY <2>1, <2>2
<1>8. CASE insert(t) BY <1>8 DEF insert
<1>9. CASE refer(t) BY <1>9 DEF refer, reference, blockReferenced
<1>10. CASE unlockBlock(t) BY <1>10 DEF unlockBlock, unlock
<1>11. CASE releaseAgain(t) BY <1>11 DEF releaseAgain, release
<1>12. CASE test(t) BY <1>12 DEF test
<1>13. CASE chooseVictim(t)
  <2>1. ASSUME Go(t, "choose", "gaveUp"), UNCHANGED <<policy, store, shards, held, block, victim>>
        PROVE  NothingLost'
    BY <2>1 DEF PolicyType
  <2>2. ASSUME NEW v \in Candidates, Go(t, "choose", "getShard"), chooseBlockToEvict(v),
               victim' = [victim EXCEPT ![t] = v], UNCHANGED <<store, shards, held, block>>
        PROVE  NothingLost'
    BY <2>2 DEF chooseBlockToEvict, Candidates, PolicyType
  <2> QED BY <1>13, <2>1, <2>2 DEF chooseVictim
<1>14. CASE getShard(t)
  <2>1. ASSUME Go(t, "getShard", "gaveUp"), victim' = [victim EXCEPT ![t] = None],
               UNCHANGED <<policy, store, shards, held, block>>
        PROVE  NothingLost'
    BY <2>1
  <2>2. ASSUME Go(t, "getShard", "evictionLock"), shard_count[Shard[victim[t]]] = 0, count(victim[t]),
               UNCHANGED <<policy, store, reading, writing, held, block, victim>>
        PROVE  NothingLost'
    BY <2>2 DEF count
  <2> QED BY <1>14, <2>1, <2>2 DEF getShard
<1>15. CASE evictionLock(t) BY <1>15 DEF evictionLock, lock
<1>16. CASE isLoaded(t) BY <1>16 DEF isLoaded
<1>17. CASE getRefCount(t) BY <1>17 DEF getRefCount
<1>18. CASE saveVictim(t) BY <1>18 DEF saveVictim, Write
<1>19. CASE evictVictim(t)
  <2>1. /\ Go(t, "evict", "free") /\ Evict(victim[t])
        /\ UNCHANGED <<policy, shards, held, block, victim>>
    BY <1>19, NoThrow
  <2> QED BY <2>1 DEF Evict
<1>20. CASE releaseVictim(t) BY <1>20 DEF releaseVictim, release
<1>21. CASE unlockVictim(t) BY <1>21 DEF unlockVictim, unlock
<1>22. CASE allocate(t) BY <1>22 DEF allocate
<1>23. CASE createBlock(t) BY <1>23 DEF createBlock
<1>24. CASE insertNew(t) BY <1>24 DEF insertNew
<1>25. CASE announce(t) BY <1>25 DEF announce, blockCreated
<1>26. CASE write(t, b) BY <1>26 DEF write
<1>27. CASE unreference(t, b) BY <1>27 DEF unreference, blockUnreferenced
<1>28. CASE saveBlockOrBlob(t, b) BY <1>28 DEF saveBlockOrBlob, Write
<1>29. CASE deleteBlockOrBlobFile(t, b) BY <1>29 DEF deleteBlockOrBlobFile
<1>30. CASE dEvict(t)
  <2>1. /\ Go(t, "dEvict", "dFree") /\ Evict(block[t])
        /\ UNCHANGED <<policy, shards, held, block, victim>>
    BY <1>30, NoThrow
  <2> QED BY <2>1 DEF Evict
<1>31. CASE dEvicted(t) BY <1>31 DEF dEvicted, blockEvicted
<1>32. CASE dFile(t) BY <1>32 DEF dFile
<1>33. CASE dDeleted(t) BY <1>33 DEF dDeleted, blockDeleted
<1>34. CASE markVictimClean(t) BY <1>34 DEF markVictimClean, markClean
<1>35. CASE freeVictim(t) BY <1>35 DEF freeVictim, deallocateSlots
<1>36. CASE markSaved(t) BY <1>36 DEF markSaved, markClean
<1>37. CASE dFree(t) BY <1>37 DEF dFree, deallocateSlots
<1> QED BY <1>1, <1>2, <1>3, <1>4, <1>5, <1>6, <1>7, <1>8, <1>9, <1>10, <1>11, <1>12, <1>13,
    <1>14, <1>15, <1>16, <1>17, <1>18, <1>19, <1>20, <1>21, <1>22, <1>23, <1>24, <1>25, <1>26,
    <1>27, <1>28, <1>29, <1>30, <1>31, <1>32, <1>33, <1>34, <1>35, <1>36, <1>37 DEF Act,
    Get, Room, Create, Delete, Use

LEMMA GoneKept ==
    ASSUME TypeOK, PlacesExact, IdsCreated, OwnersExact, LoadsExact, DeletedGone, NEW t \in Threads, NEW b,
           Act(t, b), NothingThrown'
    PROVE  DeletedGone'
<1> USE DEF Go, DeletedGone, Candidates, IdsCreated, OwnersExact, LoadsExact, PlacesExact, TypeOK,
            PolicyType, Deleting, Wanting, WithBlock, WithoutBlock, None, store, shards, policy,
            GetPlaces, RoomPlaces, Places
<1>1. CASE getBlock(t, b) BY <1>1, StorageAssumption DEF getBlock, count
<1>2. CASE readLock(t) BY <1>2, StorageAssumption DEF readLock, lockShared
<1>3. CASE find(t)
  <2>1. CASE block[t] \in blocks BY <1>3, <2>1, StorageAssumption DEF find, reference, unlockShared,
        blockReferenced
  <2>2. CASE block[t] \notin blocks BY <1>3, <2>2, StorageAssumption DEF find, reference,
        unlockShared, blockReferenced
  <2> QED BY <2>1, <2>2
<1>4. CASE releaseShard(t) BY <1>4, StorageAssumption DEF releaseShard, release
<1>5. CASE countAgain(t) BY <1>5, StorageAssumption DEF countAgain, count
<1>6. CASE writeLock(t) BY <1>6, StorageAssumption DEF writeLock, lock
<1>7. CASE findAgain(t)
  <2>1. CASE block[t] \in blocks BY <1>7, <2>1, StorageAssumption DEF findAgain, reference,
        blockReferenced
  <2>2. CASE block[t] \notin blocks BY <1>7, <2>2, StorageAssumption DEF findAgain, reference,
        blockReferenced
  <2> QED BY <2>1, <2>2
<1>8. CASE insert(t) BY <1>8, StorageAssumption DEF insert
<1>9. CASE refer(t) BY <1>9, StorageAssumption DEF refer, reference, blockReferenced
<1>10. CASE unlockBlock(t) BY <1>10, StorageAssumption DEF unlockBlock, unlock
<1>11. CASE releaseAgain(t) BY <1>11, StorageAssumption DEF releaseAgain, release
<1>12. CASE test(t) BY <1>12, StorageAssumption DEF test
<1>13. CASE chooseVictim(t)
  <2>1. ASSUME Go(t, "choose", "gaveUp"), UNCHANGED <<policy, store, shards, held, block, victim>>
        PROVE  DeletedGone'
    BY <2>1, StorageAssumption
  <2>2. ASSUME NEW v \in Candidates, Go(t, "choose", "getShard"), chooseBlockToEvict(v),
               victim' = [victim EXCEPT ![t] = v], UNCHANGED <<store, shards, held, block>>
        PROVE  DeletedGone'
    BY <2>2, StorageAssumption DEF chooseBlockToEvict
  <2> QED BY <1>13, <2>1, <2>2 DEF chooseVictim
<1>14. CASE getShard(t)
  <2>1. ASSUME Go(t, "getShard", "gaveUp"), victim' = [victim EXCEPT ![t] = None],
               UNCHANGED <<policy, store, shards, held, block>>
        PROVE  DeletedGone'
    BY <2>1, StorageAssumption
  <2>2. ASSUME Go(t, "getShard", "evictionLock"), shard_count[Shard[victim[t]]] = 0, count(victim[t]),
               UNCHANGED <<policy, store, reading, writing, held, block, victim>>
        PROVE  DeletedGone'
    BY <2>2, StorageAssumption DEF count
  <2> QED BY <1>14, <2>1, <2>2 DEF getShard
<1>15. CASE evictionLock(t) BY <1>15, StorageAssumption DEF evictionLock, lock
<1>16. CASE isLoaded(t) BY <1>16, StorageAssumption DEF isLoaded
<1>17. CASE getRefCount(t) BY <1>17, StorageAssumption DEF getRefCount
<1>18. CASE saveVictim(t) BY <1>18, StorageAssumption DEF saveVictim, Write
<1>19. CASE evictVictim(t)
  <2>1. /\ Go(t, "evict", "free") /\ Evict(victim[t])
        /\ UNCHANGED <<policy, shards, held, block, victim>>
    BY <1>19, NoThrow
  <2> QED BY <2>1, StorageAssumption DEF Evict
<1>20. CASE releaseVictim(t) BY <1>20, StorageAssumption DEF releaseVictim, release
<1>21. CASE unlockVictim(t) BY <1>21, StorageAssumption DEF unlockVictim, unlock
<1>22. CASE allocate(t) BY <1>22, StorageAssumption DEF allocate
<1>23. CASE createBlock(t) BY <1>23, StorageAssumption DEF createBlock
<1>24. CASE insertNew(t) BY <1>24, StorageAssumption DEF insertNew
<1>25. CASE announce(t) BY <1>25, StorageAssumption DEF announce, blockCreated
<1>26. CASE write(t, b) BY <1>26, StorageAssumption DEF write
<1>27. CASE unreference(t, b) BY <1>27, StorageAssumption DEF unreference, blockUnreferenced
<1>28. CASE saveBlockOrBlob(t, b) BY <1>28, StorageAssumption DEF saveBlockOrBlob, Write
<1>29. CASE deleteBlockOrBlobFile(t, b) BY <1>29, StorageAssumption DEF deleteBlockOrBlobFile
<1>30. CASE dEvict(t)
  <2>1. /\ Go(t, "dEvict", "dFree") /\ Evict(block[t])
        /\ UNCHANGED <<policy, shards, held, block, victim>>
    BY <1>30, NoThrow
  <2> QED BY <2>1, StorageAssumption DEF Evict
<1>31. CASE dEvicted(t) BY <1>31, StorageAssumption DEF dEvicted, blockEvicted
<1>32. CASE dFile(t) BY <1>32, StorageAssumption DEF dFile
<1>33. CASE dDeleted(t) BY <1>33, StorageAssumption DEF dDeleted, blockDeleted
<1>34. CASE markVictimClean(t) BY <1>34, StorageAssumption DEF markVictimClean, markClean
<1>35. CASE freeVictim(t) BY <1>35, StorageAssumption DEF freeVictim, deallocateSlots
<1>36. CASE markSaved(t) BY <1>36, StorageAssumption DEF markSaved, markClean
<1>37. CASE dFree(t) BY <1>37, StorageAssumption DEF dFree, deallocateSlots
<1> QED BY <1>1, <1>2, <1>3, <1>4, <1>5, <1>6, <1>7, <1>8, <1>9, <1>10, <1>11, <1>12, <1>13,
    <1>14, <1>15, <1>16, <1>17, <1>18, <1>19, <1>20, <1>21, <1>22, <1>23, <1>24, <1>25, <1>26,
    <1>27, <1>28, <1>29, <1>30, <1>31, <1>32, <1>33, <1>34, <1>35, <1>36, <1>37 DEF Act,
    Get, Room, Create, Delete, Use

LEMMA LoadsKept ==
    ASSUME TypeOK, PlacesExact, LocksExact, IdsCreated, OwnersExact, LoadsExact, NEW t \in Threads, NEW b,
           Act(t, b), NothingThrown'
    PROVE  LoadsExact'
<1> USE DEF Go, LoadsExact, Loading, IdsCreated, OwnersExact, PlacesExact, TypeOK, PolicyType,
            Deleting, Wanting, WithBlock, WithoutBlock, WithVictim, None, store, shards, policy,
            GetPlaces, RoomPlaces, Places
<1>1. CASE getBlock(t, b) BY <1>1, StorageAssumption DEF getBlock, count
<1>2. CASE readLock(t) BY <1>2, StorageAssumption DEF readLock, lockShared
<1>3. CASE find(t)
  <2>1. CASE block[t] \in blocks BY <1>3, <2>1, StorageAssumption DEF find, reference, unlockShared,
        blockReferenced
  <2>2. CASE block[t] \notin blocks BY <1>3, <2>2, StorageAssumption DEF find, reference,
        unlockShared, blockReferenced
  <2> QED BY <2>1, <2>2
<1>4. CASE releaseShard(t) BY <1>4, StorageAssumption DEF releaseShard, release
<1>5. CASE countAgain(t) BY <1>5, StorageAssumption DEF countAgain, count
<1>6. CASE writeLock(t) BY <1>6, StorageAssumption DEF writeLock, lock
<1>7. CASE findAgain(t)
  <2>1. CASE block[t] \in blocks BY <1>7, <2>1, StorageAssumption DEF findAgain, reference,
        blockReferenced
  <2>2. CASE block[t] \notin blocks BY <1>7, <2>2, StorageAssumption DEF findAgain, reference,
        blockReferenced
  <2> QED BY <2>1, <2>2
<1>8. CASE insert(t)
  <2>1. ASSUME NEW u \in Threads, u # t, block[u] = block[t] PROVE pc[u] \notin Loading
    BY <1>8, <2>1, LockExcludes DEF insert, BlockLocked
  <2> QED BY <1>8, <2>1 DEF insert
<1>9. CASE refer(t) BY <1>9, StorageAssumption DEF refer, reference, blockReferenced
<1>10. CASE unlockBlock(t) BY <1>10, StorageAssumption DEF unlockBlock, unlock
<1>11. CASE releaseAgain(t) BY <1>11, StorageAssumption DEF releaseAgain, release
<1>12. CASE test(t) BY <1>12, StorageAssumption DEF test
<1>13. CASE chooseVictim(t)
  <2>1. ASSUME Go(t, "choose", "gaveUp"), UNCHANGED <<policy, store, shards, held, block, victim>>
        PROVE  LoadsExact'
    BY <2>1, StorageAssumption
  <2>2. ASSUME NEW v \in Candidates, Go(t, "choose", "getShard"), chooseBlockToEvict(v),
               victim' = [victim EXCEPT ![t] = v], UNCHANGED <<store, shards, held, block>>
        PROVE  LoadsExact'
    BY <2>2, StorageAssumption DEF chooseBlockToEvict, Candidates
  <2> QED BY <1>13, <2>1, <2>2 DEF chooseVictim
<1>14. CASE getShard(t)
  <2>1. ASSUME Go(t, "getShard", "gaveUp"), victim' = [victim EXCEPT ![t] = None],
               UNCHANGED <<policy, store, shards, held, block>>
        PROVE  LoadsExact'
    BY <2>1, StorageAssumption
  <2>2. ASSUME Go(t, "getShard", "evictionLock"), shard_count[Shard[victim[t]]] = 0, count(victim[t]),
               UNCHANGED <<policy, store, reading, writing, held, block, victim>>
        PROVE  LoadsExact'
    BY <2>2, StorageAssumption DEF count
  <2> QED BY <1>14, <2>1, <2>2 DEF getShard
<1>15. CASE evictionLock(t) BY <1>15, StorageAssumption DEF evictionLock, lock
<1>16. CASE isLoaded(t) BY <1>16, StorageAssumption DEF isLoaded
<1>17. CASE getRefCount(t) BY <1>17, StorageAssumption DEF getRefCount
<1>18. CASE saveVictim(t)
  <2>1. ASSUME Go(t, "save", "markClean"), Write(victim[t]), UNCHANGED <<policy, shards, held, block, victim>>
        PROVE  LoadsExact'
    BY <2>1, StorageAssumption DEF Write
  <2>2. ASSUME pc[t] = "save", UNCHANGED <<policy, store, shards, held, block, victim>>,
               \/ Go(t, "save", "evict")
               \/ Go(t, "save", "releaseVictim")
        PROVE  LoadsExact'
    BY <2>2, StorageAssumption
  <2> QED BY <1>18, <2>1, <2>2 DEF saveVictim
<1>19. CASE evictVictim(t)
  <2>1. /\ Go(t, "evict", "free") /\ Evict(victim[t])
        /\ UNCHANGED <<policy, shards, held, block, victim>>
    BY <1>19, NoThrow
  <2>2. ASSUME NEW u \in Threads, block[u] = victim[t] PROVE pc[u] # "refer"
    BY <2>1, <2>2, LockExcludes DEF VictimLocked, BlockLocked
  <2> QED BY <2>1, <2>2 DEF Evict
<1>20. CASE releaseVictim(t) BY <1>20, StorageAssumption DEF releaseVictim, release
<1>21. CASE unlockVictim(t) BY <1>21, StorageAssumption DEF unlockVictim, unlock
<1>22. CASE allocate(t) BY <1>22, StorageAssumption DEF allocate
<1>23. CASE createBlock(t) BY <1>23, StorageAssumption DEF createBlock
<1>24. CASE insertNew(t) BY <1>24, StorageAssumption DEF insertNew
<1>25. CASE announce(t) BY <1>25, StorageAssumption DEF announce, blockCreated
<1>26. CASE write(t, b) BY <1>26, StorageAssumption DEF write
<1>27. CASE unreference(t, b) BY <1>27, StorageAssumption DEF unreference, blockUnreferenced
<1>28. CASE saveBlockOrBlob(t, b) BY <1>28, StorageAssumption DEF saveBlockOrBlob, Write
<1>29. CASE deleteBlockOrBlobFile(t, b) BY <1>29, StorageAssumption DEF deleteBlockOrBlobFile
<1>30. CASE dEvict(t)
  <2>1. /\ Go(t, "dEvict", "dFree") /\ Evict(block[t])
        /\ UNCHANGED <<policy, shards, held, block, victim>>
    BY <1>30, NoThrow
  <2> QED BY <2>1, StorageAssumption DEF Evict
<1>31. CASE dEvicted(t) BY <1>31, StorageAssumption DEF dEvicted, blockEvicted
<1>32. CASE dFile(t) BY <1>32, StorageAssumption DEF dFile
<1>33. CASE dDeleted(t) BY <1>33, StorageAssumption DEF dDeleted, blockDeleted
<1>34. CASE markVictimClean(t) BY <1>34, StorageAssumption DEF markVictimClean, markClean
<1>35. CASE freeVictim(t) BY <1>35, StorageAssumption DEF freeVictim, deallocateSlots
<1>36. CASE markSaved(t) BY <1>36, StorageAssumption DEF markSaved, markClean
<1>37. CASE dFree(t) BY <1>37, StorageAssumption DEF dFree, deallocateSlots
<1> QED BY <1>1, <1>2, <1>3, <1>4, <1>5, <1>6, <1>7, <1>8, <1>9, <1>10, <1>11, <1>12, <1>13,
    <1>14, <1>15, <1>16, <1>17, <1>18, <1>19, <1>20, <1>21, <1>22, <1>23, <1>24, <1>25, <1>26,
    <1>27, <1>28, <1>29, <1>30, <1>31, <1>32, <1>33, <1>34, <1>35, <1>36, <1>37 DEF Act,
    Get, Room, Create, Delete, Use

LEMMA VictimsKept ==
    ASSUME TypeOK, PlacesExact, LocksExact, OwnersExact, RefCountExact, IdsCreated, LoadsExact, VictimsFree,
           NEW t \in Threads, NEW b, Act(t, b), NothingThrown'
    PROVE  VictimsFree'
<1> USE DEF Go, VictimsFree, Holders, TypeOK, PolicyType, None, store, shards, policy, GetPlaces,
            RoomPlaces, Places, OwnersExact, IdsCreated, PlacesExact, WithVictim
<1>1. CASE getBlock(t, b) BY <1>1, StorageAssumption DEF getBlock, count
<1>2. CASE readLock(t) BY <1>2, StorageAssumption DEF readLock, lockShared
<1>3. CASE find(t)
  <2>1. CASE block[t] \in blocks
    <3>1. held' = [held EXCEPT ![t] = @ \cup {block[t]}] BY <1>3, <2>1 DEF find, reference
    <3>2. ASSUME NEW u \in Threads, pc[u] \in {"save", "markClean", "evict"} PROVE block[t] # victim[u]
      BY <1>3, <3>2, LockExcludes DEF find, VictimLocked, BlockLocked
    <3> QED BY <1>3, <3>1, <3>2 DEF find
  <2>2. CASE block[t] \notin blocks BY <1>3, <2>2 DEF find
  <2> QED BY <2>1, <2>2
<1>4. CASE releaseShard(t) BY <1>4, StorageAssumption DEF releaseShard, release
<1>5. CASE countAgain(t) BY <1>5, StorageAssumption DEF countAgain, count
<1>6. CASE writeLock(t) BY <1>6, StorageAssumption DEF writeLock, lock
<1>7. CASE findAgain(t)
  <2>1. CASE block[t] \in blocks
    <3>1. held' = [held EXCEPT ![t] = @ \cup {block[t]}] BY <1>7, <2>1 DEF findAgain, reference
    <3>2. ASSUME NEW u \in Threads, pc[u] \in {"save", "markClean", "evict"} PROVE block[t] # victim[u]
      BY <1>7, <3>2, LockExcludes DEF findAgain, VictimLocked, BlockLocked
    <3> QED BY <1>7, <3>1, <3>2 DEF findAgain
  <2>2. CASE block[t] \notin blocks BY <1>7, <2>2 DEF findAgain
  <2> QED BY <2>1, <2>2
<1>8. CASE insert(t) BY <1>8, StorageAssumption DEF insert
<1>9. CASE refer(t)
  <2>1. held' = [held EXCEPT ![t] = @ \cup {block[t]}] BY <1>9 DEF refer, reference
  <2>2. ASSUME NEW u \in Threads, pc[u] \in {"save", "markClean", "evict"} PROVE block[t] # victim[u]
    BY <1>9, <2>2, LockExcludes DEF refer, VictimLocked, BlockLocked
  <2> QED BY <1>9, <2>1, <2>2 DEF refer
<1>10. CASE unlockBlock(t) BY <1>10, StorageAssumption DEF unlockBlock, unlock
<1>11. CASE releaseAgain(t) BY <1>11, StorageAssumption DEF releaseAgain, release
<1>12. CASE test(t) BY <1>12, StorageAssumption DEF test
<1>13. CASE chooseVictim(t)
  <2>1. ASSUME Go(t, "choose", "gaveUp"), UNCHANGED <<policy, store, shards, held, block, victim>>
        PROVE  VictimsFree'
    BY <2>1, StorageAssumption
  <2>2. ASSUME NEW v \in Candidates, Go(t, "choose", "getShard"), chooseBlockToEvict(v),
               victim' = [victim EXCEPT ![t] = v], UNCHANGED <<store, shards, held, block>>
        PROVE  VictimsFree'
    BY <2>2, StorageAssumption DEF chooseBlockToEvict, Candidates
  <2> QED BY <1>13, <2>1, <2>2 DEF chooseVictim
<1>14. CASE getShard(t)
  <2>1. ASSUME Go(t, "getShard", "gaveUp"), victim' = [victim EXCEPT ![t] = None],
               UNCHANGED <<policy, store, shards, held, block>>
        PROVE  VictimsFree'
    BY <2>1, StorageAssumption
  <2>2. ASSUME Go(t, "getShard", "evictionLock"), shard_count[Shard[victim[t]]] = 0, count(victim[t]),
               UNCHANGED <<policy, store, reading, writing, held, block, victim>>
        PROVE  VictimsFree'
    BY <2>2, StorageAssumption DEF count
  <2> QED BY <1>14, <2>1, <2>2 DEF getShard
<1>15. CASE evictionLock(t) BY <1>15, StorageAssumption DEF evictionLock, lock
<1>16. CASE isLoaded(t) BY <1>16, StorageAssumption DEF isLoaded
<1>17. CASE getRefCount(t)
  <2>1. CASE ref_count[victim[t]] > 0 BY <1>17, <2>1 DEF getRefCount
  <2>2. CASE ~(ref_count[victim[t]] > 0)
    <3>1. victim[t] \in Blocks BY <1>17, Sharded DEF getRefCount
    <3>2. Holders(victim[t]) \in SUBSET Threads OBVIOUS
    <3>3. Cardinality(Holders(victim[t])) \in Nat
          /\ (Cardinality(Holders(victim[t])) = 0 <=> Holders(victim[t]) = {})
      BY <3>2, ThreadsCounted
    <3>4. Holders(victim[t]) = {} BY <2>2, <3>1, <3>3 DEF RefCountExact
    <3> QED BY <1>17, <3>4 DEF getRefCount
  <2> QED BY <2>1, <2>2
<1>18. CASE saveVictim(t) BY <1>18, StorageAssumption DEF saveVictim, Write
<1>19. CASE evictVictim(t)
  <2>1. /\ Go(t, "evict", "free") /\ Evict(victim[t])
        /\ UNCHANGED <<policy, shards, held, block, victim>>
    BY <1>19, NoThrow
  <2> QED BY <2>1, StorageAssumption DEF Evict
<1>20. CASE releaseVictim(t) BY <1>20, StorageAssumption DEF releaseVictim, release
<1>21. CASE unlockVictim(t) BY <1>21, StorageAssumption DEF unlockVictim, unlock
<1>22. CASE allocate(t) BY <1>22, StorageAssumption DEF allocate
<1>23. CASE createBlock(t) BY <1>23, StorageAssumption DEF createBlock
<1>24. CASE insertNew(t) BY <1>24, StorageAssumption DEF insertNew
<1>25. CASE announce(t) BY <1>25, StorageAssumption DEF announce, blockCreated, LoadsExact
<1>26. CASE write(t, b) BY <1>26, StorageAssumption DEF write
<1>27. CASE unreference(t, b) BY <1>27, StorageAssumption DEF unreference, blockUnreferenced
<1>28. CASE saveBlockOrBlob(t, b) BY <1>28, StorageAssumption DEF saveBlockOrBlob, Write
<1>29. CASE deleteBlockOrBlobFile(t, b) BY <1>29, StorageAssumption DEF deleteBlockOrBlobFile
<1>30. CASE dEvict(t)
  <2>1. /\ Go(t, "dEvict", "dFree") /\ Evict(block[t])
        /\ UNCHANGED <<policy, shards, held, block, victim>>
    BY <1>30, NoThrow
  <2> QED BY <2>1, StorageAssumption DEF Evict
<1>31. CASE dEvicted(t) BY <1>31, StorageAssumption DEF dEvicted, blockEvicted
<1>32. CASE dFile(t) BY <1>32, StorageAssumption DEF dFile, Deleting, WithBlock
<1>33. CASE dDeleted(t) BY <1>33, StorageAssumption DEF dDeleted, blockDeleted
<1>34. CASE markVictimClean(t) BY <1>34, StorageAssumption DEF markVictimClean, markClean
<1>35. CASE freeVictim(t) BY <1>35, StorageAssumption DEF freeVictim, deallocateSlots
<1>36. CASE markSaved(t) BY <1>36, StorageAssumption DEF markSaved, markClean
<1>37. CASE dFree(t) BY <1>37, StorageAssumption DEF dFree, deallocateSlots
<1> QED BY <1>1, <1>2, <1>3, <1>4, <1>5, <1>6, <1>7, <1>8, <1>9, <1>10, <1>11, <1>12, <1>13,
    <1>14, <1>15, <1>16, <1>17, <1>18, <1>19, <1>20, <1>21, <1>22, <1>23, <1>24, <1>25, <1>26,
    <1>27, <1>28, <1>29, <1>30, <1>31, <1>32, <1>33, <1>34, <1>35, <1>36, <1>37 DEF Act,
    Get, Room, Create, Delete, Use

\* The counts of shards follow from what the acting thread enters and leaves.
LEMMA CountsFollow ==
    ASSUME CountsExact, NEW t \in Threads,
           \A u \in Threads : u # t => /\ pc'[u] = pc[u]
                                       /\ block'[u] = block[u] /\ victim'[u] = victim[u],
           \A s \in Shards :
               shard_count'[s] = shard_count[s]
                   + One((t \in OnBlock(s, BlockCounted))') - One(t \in OnBlock(s, BlockCounted))
                   + One((t \in OnVictim(s, VictimCounted))') - One(t \in OnVictim(s, VictimCounted))
    PROVE  CountsExact'
<1> SUFFICES ASSUME NEW s \in Shards
             PROVE  shard_count'[s] = Cardinality(OnBlock(s, BlockCounted)')
                                        + Cardinality(OnVictim(s, VictimCounted)')
  BY DEF CountsExact
<1> DEFINE A == OnBlock(s, BlockCounted)
           B == OnVictim(s, VictimCounted)
<1>1. A \in SUBSET Threads /\ A' \in SUBSET Threads /\ B \in SUBSET Threads /\ B' \in SUBSET Threads
  BY DEF OnBlock, OnVictim
<1>2. \A u \in Threads : u # t => (u \in A <=> u \in A') /\ (u \in B <=> u \in B')
  BY DEF OnBlock, OnVictim
<1>3. shard_count[s] = Cardinality(A) + Cardinality(B) BY DEF CountsExact
<1>4. shard_count'[s] = shard_count[s] + One(t \in A') - One(t \in A) + One(t \in B') - One(t \in B)
  OBVIOUS
<1> HIDE DEF A, B
<1>5. /\ Cardinality(A) \in Nat /\ Cardinality(A') \in Nat
      /\ Cardinality(A') = Cardinality(A) + One(t \in A') - One(t \in A)
  BY <1>1, <1>2, StorageAssumption, CountChange
<1>6. /\ Cardinality(B) \in Nat /\ Cardinality(B') \in Nat
      /\ Cardinality(B') = Cardinality(B) + One(t \in B') - One(t \in B)
  BY <1>1, <1>2, StorageAssumption, CountChange
<1>7. One(t \in A') \in Int /\ One(t \in A) \in Int /\ One(t \in B') \in Int /\ One(t \in B) \in Int
  BY DEF One
<1>8. shard_count'[s] = Cardinality(A') + Cardinality(B') BY <1>3, <1>4, <1>5, <1>6, <1>7
<1> QED BY <1>8 DEF A, B

\* The usage follows from the blocks and from whether the acting thread has
\* memory for a block it has not inserted.
LEMMA UsageFollows ==
    ASSUME UsageExact, NEW t \in Threads,
           \A u \in Threads : u # t => pc'[u] = pc[u],
           Cardinality(blocks) \in Nat,
           usage' - Cardinality(blocks') = usage - Cardinality(blocks)
               + One(pc'[t] \in InFlight) - One(pc[t] \in InFlight),
           usage' \in Int, Cardinality(blocks') \in Int
    PROVE  UsageExact'
<1>1. Inserting \in SUBSET Threads /\ Inserting' \in SUBSET Threads BY DEF Inserting
<1>2. \A u \in Threads : u # t => (u \in Inserting <=> u \in Inserting') BY DEF Inserting
<1>3. /\ t \in Inserting <=> pc[t] \in InFlight
      /\ t \in Inserting' <=> pc'[t] \in InFlight
  BY DEF Inserting
<1>4. usage = Cardinality(blocks) + Cardinality(Inserting) BY DEF UsageExact, Inserting, InFlight
<1>5. /\ Cardinality(Inserting) \in Nat /\ Cardinality(Inserting') \in Nat
      /\ Cardinality(Inserting') = Cardinality(Inserting) + One(t \in Inserting') - One(t \in Inserting)
  BY <1>1, <1>2, StorageAssumption, CountChange
<1>6. /\ One(t \in Inserting) = One(pc[t] \in InFlight)
      /\ One(t \in Inserting') = One(pc'[t] \in InFlight)
      /\ One(t \in Inserting) \in Int /\ One(t \in Inserting') \in Int
  BY <1>3 DEF One
<1>7. usage' = Cardinality(blocks') + Cardinality(Inserting') BY <1>4, <1>5, <1>6
<1> QED BY <1>7 DEF UsageExact, Inserting, InFlight

\* The reference counts follow from the references of the acting thread.
LEMMA RefsFollow ==
    ASSUME RefCountExact, NEW t \in Threads,
           \A u \in Threads : u # t => held'[u] = held[u],
           \A x \in Blocks : ref_count'[x] = ref_count[x] + One(x \in held'[t]) - One(x \in held[t])
    PROVE  RefCountExact'
<1> SUFFICES ASSUME NEW x \in Blocks PROVE ref_count'[x] = Cardinality(Holders(x)')
  BY DEF RefCountExact
<1> DEFINE A == Holders(x)
<1>1. A \in SUBSET Threads /\ A' \in SUBSET Threads BY DEF Holders
<1>2. \A u \in Threads : u # t => (u \in A <=> u \in A') BY DEF Holders
<1>3. (t \in A <=> x \in held[t]) /\ (t \in A' <=> x \in held'[t]) BY DEF Holders
<1>4. ref_count[x] = Cardinality(A) BY DEF RefCountExact
<1> HIDE DEF A
<1>5. /\ Cardinality(A) \in Nat /\ Cardinality(A') \in Nat
      /\ Cardinality(A') = Cardinality(A) + One(t \in A') - One(t \in A)
  BY <1>1, <1>2, StorageAssumption, CountChange
<1>6. One(t \in A) = One(x \in held[t]) /\ One(t \in A') = One(x \in held'[t]) BY <1>3 DEF One
<1>7. ref_count'[x] = Cardinality(A') BY <1>4, <1>5, <1>6
<1> QED BY <1>7 DEF A

LEMMA CountsChange ==
    ASSUME TypeOK, PlacesExact, NEW t \in Threads, NEW b,
           Act(t, b), NothingThrown'
    PROVE  (/\ \A u \in Threads : u # t => /\ pc'[u] = pc[u]
                                         /\ block'[u] = block[u] /\ victim'[u] = victim[u]
         /\ \A s \in Shards :
               shard_count'[s] = shard_count[s]
                   + One((t \in OnBlock(s, BlockCounted))') - One(t \in OnBlock(s, BlockCounted))
                   + One((t \in OnVictim(s, VictimCounted))') - One(t \in OnVictim(s, VictimCounted)))
<1> USE DEF Go, OnBlock, OnVictim, BlockCounted, VictimCounted, One, PlacesExact, TypeOK, WithBlock,
            WithoutBlock, WithVictim, None, store, shards, GetPlaces, RoomPlaces, Places
<1>q. /\ block[t] # None => block[t] \in Blocks /\ Shard[block[t]] \in Shards
      /\ pc[t] \in WithBlock => block[t] \in Blocks /\ Shard[block[t]] \in Shards
      /\ pc[t] \in WithVictim => victim[t] \in Blocks /\ Shard[victim[t]] \in Shards
  BY Sharded
<1>1. CASE getBlock(t, b) BY <1>1, <1>q, StorageAssumption DEF getBlock, count
<1>2. CASE readLock(t) BY <1>2, <1>q DEF readLock, lockShared
<1>3. CASE find(t)
  <2>1. CASE block[t] \in blocks BY <1>3, <2>1, <1>q DEF find, reference, unlockShared,
        blockReferenced
  <2>2. CASE block[t] \notin blocks BY <1>3, <2>2, <1>q DEF find, reference, unlockShared,
        blockReferenced
  <2> QED BY <2>1, <2>2
<1>4. CASE releaseShard(t) BY <1>4, <1>q DEF releaseShard, release
<1>5. CASE countAgain(t) BY <1>5, <1>q DEF countAgain, count
<1>6. CASE writeLock(t) BY <1>6, <1>q DEF writeLock, lock
<1>7. CASE findAgain(t)
  <2>1. CASE block[t] \in blocks BY <1>7, <2>1, <1>q DEF findAgain, reference, blockReferenced
  <2>2. CASE block[t] \notin blocks BY <1>7, <2>2, <1>q DEF findAgain, reference, blockReferenced
  <2> QED BY <2>1, <2>2
<1>8. CASE insert(t) BY <1>8, <1>q DEF insert
<1>9. CASE refer(t) BY <1>9, <1>q DEF refer, reference, blockReferenced
<1>10. CASE unlockBlock(t) BY <1>10, <1>q DEF unlockBlock, unlock
<1>11. CASE releaseAgain(t) BY <1>11, <1>q DEF releaseAgain, release
<1>12. CASE test(t) BY <1>12, <1>q DEF test
<1>13. CASE chooseVictim(t)
  <2>1. ASSUME Go(t, "choose", "gaveUp"), UNCHANGED <<policy, store, shards, held, block, victim>>
        PROVE  (/\ \A u \in Threads : u # t => /\ pc'[u] = pc[u]
                                         /\ block'[u] = block[u] /\ victim'[u] = victim[u]
         /\ \A s \in Shards :
               shard_count'[s] = shard_count[s]
                   + One((t \in OnBlock(s, BlockCounted))') - One(t \in OnBlock(s, BlockCounted))
                   + One((t \in OnVictim(s, VictimCounted))') - One(t \in OnVictim(s, VictimCounted)))
    BY <2>1, <1>q DEF PolicyType
  <2>2. ASSUME NEW v \in Candidates, Go(t, "choose", "getShard"), chooseBlockToEvict(v),
               victim' = [victim EXCEPT ![t] = v], UNCHANGED <<store, shards, held, block>>
        PROVE  (/\ \A u \in Threads : u # t => /\ pc'[u] = pc[u]
                                         /\ block'[u] = block[u] /\ victim'[u] = victim[u]
         /\ \A s \in Shards :
               shard_count'[s] = shard_count[s]
                   + One((t \in OnBlock(s, BlockCounted))') - One(t \in OnBlock(s, BlockCounted))
                   + One((t \in OnVictim(s, VictimCounted))') - One(t \in OnVictim(s, VictimCounted)))
    BY <2>2, <1>q DEF chooseBlockToEvict, Candidates, PolicyType
  <2> QED BY <1>13, <2>1, <2>2 DEF chooseVictim
<1>14. CASE getShard(t)
  <2>1. ASSUME Go(t, "getShard", "gaveUp"), victim' = [victim EXCEPT ![t] = None],
               UNCHANGED <<policy, store, shards, held, block>>
        PROVE  (/\ \A u \in Threads : u # t => /\ pc'[u] = pc[u]
                                         /\ block'[u] = block[u] /\ victim'[u] = victim[u]
         /\ \A s \in Shards :
               shard_count'[s] = shard_count[s]
                   + One((t \in OnBlock(s, BlockCounted))') - One(t \in OnBlock(s, BlockCounted))
                   + One((t \in OnVictim(s, VictimCounted))') - One(t \in OnVictim(s, VictimCounted)))
    BY <2>1, <1>q
  <2>2. ASSUME Go(t, "getShard", "evictionLock"), shard_count[Shard[victim[t]]] = 0, count(victim[t]),
               UNCHANGED <<policy, store, reading, writing, held, block, victim>>
        PROVE  (/\ \A u \in Threads : u # t => /\ pc'[u] = pc[u]
                                         /\ block'[u] = block[u] /\ victim'[u] = victim[u]
         /\ \A s \in Shards :
               shard_count'[s] = shard_count[s]
                   + One((t \in OnBlock(s, BlockCounted))') - One(t \in OnBlock(s, BlockCounted))
                   + One((t \in OnVictim(s, VictimCounted))') - One(t \in OnVictim(s, VictimCounted)))
    BY <2>2, <1>q DEF count
  <2> QED BY <1>14, <2>1, <2>2 DEF getShard
<1>15. CASE evictionLock(t) BY <1>15, <1>q DEF evictionLock, lock
<1>16. CASE isLoaded(t) BY <1>16, <1>q DEF isLoaded
<1>17. CASE getRefCount(t) BY <1>17, <1>q DEF getRefCount
<1>18. CASE saveVictim(t) BY <1>18, <1>q DEF saveVictim, Write
<1>19. CASE evictVictim(t)
  <2>1. /\ Go(t, "evict", "free") /\ Evict(victim[t])
        /\ UNCHANGED <<policy, shards, held, block, victim>>
    BY <1>19, NoThrow
  <2> QED BY <2>1, <1>q DEF Evict
<1>20. CASE releaseVictim(t) BY <1>20, <1>q DEF releaseVictim, release
<1>21. CASE unlockVictim(t) BY <1>21, <1>q DEF unlockVictim, unlock
<1>22. CASE allocate(t) BY <1>22, <1>q DEF allocate
<1>23. CASE createBlock(t) BY <1>23, <1>q DEF createBlock
<1>24. CASE insertNew(t) BY <1>24, <1>q DEF insertNew
<1>25. CASE announce(t) BY <1>25, <1>q DEF announce, blockCreated
<1>26. CASE write(t, b) BY <1>26, <1>q DEF write
<1>27. CASE unreference(t, b) BY <1>27, <1>q DEF unreference, blockUnreferenced
<1>28. CASE saveBlockOrBlob(t, b) BY <1>28, <1>q DEF saveBlockOrBlob, Write
<1>29. CASE deleteBlockOrBlobFile(t, b) BY <1>29, <1>q DEF deleteBlockOrBlobFile
<1>30. CASE dEvict(t)
  <2>1. /\ Go(t, "dEvict", "dFree") /\ Evict(block[t])
        /\ UNCHANGED <<policy, shards, held, block, victim>>
    BY <1>30, NoThrow
  <2> QED BY <2>1, <1>q DEF Evict
<1>31. CASE dEvicted(t) BY <1>31, <1>q DEF dEvicted, blockEvicted
<1>32. CASE dFile(t) BY <1>32, <1>q DEF dFile
<1>33. CASE dDeleted(t) BY <1>33, <1>q DEF dDeleted, blockDeleted
<1>34. CASE markVictimClean(t) BY <1>34, <1>q DEF markVictimClean, markClean
<1>35. CASE freeVictim(t) BY <1>35, <1>q DEF freeVictim, deallocateSlots
<1>36. CASE markSaved(t) BY <1>36, <1>q DEF markSaved, markClean
<1>37. CASE dFree(t) BY <1>37, <1>q DEF dFree, deallocateSlots
<1> QED BY <1>1, <1>2, <1>3, <1>4, <1>5, <1>6, <1>7, <1>8, <1>9, <1>10, <1>11, <1>12, <1>13,
    <1>14, <1>15, <1>16, <1>17, <1>18, <1>19, <1>20, <1>21, <1>22, <1>23, <1>24, <1>25, <1>26,
    <1>27, <1>28, <1>29, <1>30, <1>31, <1>32, <1>33, <1>34, <1>35, <1>36, <1>37 DEF Act,
    Get, Room, Create, Delete, Use

LEMMA RefsChange ==
    ASSUME TypeOK, PlacesExact, OwnersExact, RefCountExact, NEW t \in Threads, NEW b,
           Act(t, b), NothingThrown'
    PROVE  (/\ \A u \in Threads : u # t => held'[u] = held[u]
          /\ \A x \in Blocks : ref_count'[x] = ref_count[x] + One(x \in held'[t]) - One(x \in held[t]))
<1> USE DEF Go, One, PlacesExact, OwnersExact, TypeOK, PolicyType, Wanting, WithBlock, None, store,
            shards, policy, GetPlaces, RoomPlaces, Places
<1>1. CASE getBlock(t, b) BY <1>1, StorageAssumption DEF getBlock, count
<1>2. CASE readLock(t) BY <1>2, StorageAssumption DEF readLock, lockShared
<1>3. CASE find(t)
  <2>1. CASE block[t] \in blocks BY <1>3, <2>1, StorageAssumption DEF find, reference, unlockShared,
        blockReferenced
  <2>2. CASE block[t] \notin blocks BY <1>3, <2>2, StorageAssumption DEF find, reference,
        unlockShared, blockReferenced
  <2> QED BY <2>1, <2>2
<1>4. CASE releaseShard(t) BY <1>4, StorageAssumption DEF releaseShard, release
<1>5. CASE countAgain(t) BY <1>5, StorageAssumption DEF countAgain, count
<1>6. CASE writeLock(t) BY <1>6, StorageAssumption DEF writeLock, lock
<1>7. CASE findAgain(t)
  <2>1. CASE block[t] \in blocks BY <1>7, <2>1, StorageAssumption DEF findAgain, reference,
        blockReferenced
  <2>2. CASE block[t] \notin blocks BY <1>7, <2>2, StorageAssumption DEF findAgain, reference,
        blockReferenced
  <2> QED BY <2>1, <2>2
<1>8. CASE insert(t) BY <1>8, StorageAssumption DEF insert
<1>9. CASE refer(t) BY <1>9, StorageAssumption DEF refer, reference, blockReferenced
<1>10. CASE unlockBlock(t) BY <1>10, StorageAssumption DEF unlockBlock, unlock
<1>11. CASE releaseAgain(t) BY <1>11, StorageAssumption DEF releaseAgain, release
<1>12. CASE test(t) BY <1>12, StorageAssumption DEF test
<1>13. CASE chooseVictim(t)
  <2>1. ASSUME Go(t, "choose", "gaveUp"), UNCHANGED <<policy, store, shards, held, block, victim>>
        PROVE  (/\ \A u \in Threads : u # t => held'[u] = held[u]
          /\ \A x \in Blocks : ref_count'[x] = ref_count[x] + One(x \in held'[t]) - One(x \in held[t]))
    BY <2>1
  <2>2. ASSUME NEW v \in Candidates, Go(t, "choose", "getShard"), chooseBlockToEvict(v),
               victim' = [victim EXCEPT ![t] = v], UNCHANGED <<store, shards, held, block>>
        PROVE  (/\ \A u \in Threads : u # t => held'[u] = held[u]
          /\ \A x \in Blocks : ref_count'[x] = ref_count[x] + One(x \in held'[t]) - One(x \in held[t]))
    BY <2>2 DEF chooseBlockToEvict, Candidates
  <2> QED BY <1>13, <2>1, <2>2 DEF chooseVictim
<1>14. CASE getShard(t)
  <2>1. ASSUME Go(t, "getShard", "gaveUp"), victim' = [victim EXCEPT ![t] = None],
               UNCHANGED <<policy, store, shards, held, block>>
        PROVE  (/\ \A u \in Threads : u # t => held'[u] = held[u]
          /\ \A x \in Blocks : ref_count'[x] = ref_count[x] + One(x \in held'[t]) - One(x \in held[t]))
    BY <2>1
  <2>2. ASSUME Go(t, "getShard", "evictionLock"), shard_count[Shard[victim[t]]] = 0, count(victim[t]),
               UNCHANGED <<policy, store, reading, writing, held, block, victim>>
        PROVE  (/\ \A u \in Threads : u # t => held'[u] = held[u]
          /\ \A x \in Blocks : ref_count'[x] = ref_count[x] + One(x \in held'[t]) - One(x \in held[t]))
    BY <2>2 DEF count
  <2> QED BY <1>14, <2>1, <2>2 DEF getShard
<1>15. CASE evictionLock(t) BY <1>15, StorageAssumption DEF evictionLock, lock
<1>16. CASE isLoaded(t) BY <1>16, StorageAssumption DEF isLoaded
<1>17. CASE getRefCount(t) BY <1>17, StorageAssumption DEF getRefCount
<1>18. CASE saveVictim(t) BY <1>18, StorageAssumption DEF saveVictim, Write
<1>19. CASE evictVictim(t)
  <2>1. /\ Go(t, "evict", "free") /\ Evict(victim[t])
        /\ UNCHANGED <<policy, shards, held, block, victim>>
    BY <1>19, NoThrow
  <2> QED BY <2>1, StorageAssumption DEF Evict
<1>20. CASE releaseVictim(t) BY <1>20, StorageAssumption DEF releaseVictim, release
<1>21. CASE unlockVictim(t) BY <1>21, StorageAssumption DEF unlockVictim, unlock
<1>22. CASE allocate(t) BY <1>22, StorageAssumption DEF allocate
<1>23. CASE createBlock(t) BY <1>23, StorageAssumption DEF createBlock
<1>24. CASE insertNew(t) BY <1>24, StorageAssumption DEF insertNew
<1>25. CASE announce(t) BY <1>25, StorageAssumption DEF announce, blockCreated
<1>26. CASE write(t, b) BY <1>26, StorageAssumption DEF write
<1>27. CASE unreference(t, b) BY <1>27, StorageAssumption DEF unreference, blockUnreferenced
<1>28. CASE saveBlockOrBlob(t, b) BY <1>28, StorageAssumption DEF saveBlockOrBlob, Write
<1>29. CASE deleteBlockOrBlobFile(t, b) BY <1>29, StorageAssumption DEF deleteBlockOrBlobFile
<1>30. CASE dEvict(t)
  <2>1. /\ Go(t, "dEvict", "dFree") /\ Evict(block[t])
        /\ UNCHANGED <<policy, shards, held, block, victim>>
    BY <1>30, NoThrow
  <2> QED BY <2>1, StorageAssumption DEF Evict
<1>31. CASE dEvicted(t) BY <1>31, StorageAssumption DEF dEvicted, blockEvicted
<1>32. CASE dFile(t) BY <1>32, StorageAssumption DEF dFile
<1>33. CASE dDeleted(t)
  <2>1. block[t] \in Blocks /\ block[t] \notin known
    BY <1>33, StorageAssumption DEF dDeleted, Deleting
  <2>2. Holders(block[t]) = {} BY <2>1 DEF Holders
  <2>3. ref_count[block[t]] = 0 BY <2>1, <2>2, FS_EmptySet DEF RefCountExact
  <2>4. ref_count' = ref_count
    BY <1>33, <2>1, <2>3 DEF dDeleted, blockDeleted
  <2> QED BY <1>33, <2>4 DEF dDeleted
<1>34. CASE markVictimClean(t) BY <1>34, StorageAssumption DEF markVictimClean, markClean
<1>35. CASE freeVictim(t) BY <1>35, StorageAssumption DEF freeVictim, deallocateSlots
<1>36. CASE markSaved(t) BY <1>36, StorageAssumption DEF markSaved, markClean
<1>37. CASE dFree(t) BY <1>37, StorageAssumption DEF dFree, deallocateSlots
<1> QED BY <1>1, <1>2, <1>3, <1>4, <1>5, <1>6, <1>7, <1>8, <1>9, <1>10, <1>11, <1>12, <1>13,
    <1>14, <1>15, <1>16, <1>17, <1>18, <1>19, <1>20, <1>21, <1>22, <1>23, <1>24, <1>25, <1>26,
    <1>27, <1>28, <1>29, <1>30, <1>31, <1>32, <1>33, <1>34, <1>35, <1>36, <1>37 DEF Act,
    Get, Room, Create, Delete, Use

LEMMA UsageKept ==
    ASSUME TypeOK, PlacesExact, IdsCreated, LoadsExact, UsageExact, NEW t \in Threads, NEW b,
           Act(t, b), NothingThrown'
    PROVE  UsageExact'
<1> USE DEF Go, TypeOK, store, InFlight
<1>f. \A u \in Threads : u # t => pc'[u] = pc[u] BY CountsChange
<1>c. IsFiniteSet(blocks) /\ Cardinality(blocks) \in Nat BY BlocksCounted
<1>u. usage \in Nat OBVIOUS
<1>1. ASSUME blocks' = blocks, usage' = usage,
             pc[t] \notin InFlight, pc'[t] \notin InFlight
      PROVE  UsageExact'
  BY <1>1, <1>f, <1>c, <1>u, UsageFollows DEF One
<1>2. ASSUME NEW x, x \in blocks, blocks' = blocks \ {x}, usage' = usage,
             pc[t] \notin InFlight, pc'[t] \in InFlight
      PROVE  UsageExact'
  <2>1. Cardinality(blocks') = Cardinality(blocks) - 1 BY <1>2, <1>c, FS_RemoveElement
  <2>2. One(pc'[t] \in InFlight) = 1 /\ One(pc[t] \in InFlight) = 0
    BY <1>2 DEF One
  <2>3. usage' - Cardinality(blocks') = usage - Cardinality(blocks) + 1 - 0
        /\ usage' \in Int /\ Cardinality(blocks') \in Int
    BY <1>2, <2>1, <1>c, <1>u
  <2> QED BY <2>2, <2>3, <1>f, <1>c, UsageFollows
<1>3. ASSUME NEW x, x \notin blocks, blocks' = blocks \cup {x}, usage' = usage,
             pc[t] \in InFlight, pc'[t] \notin InFlight
      PROVE  UsageExact'
  <2>1. Cardinality(blocks') = Cardinality(blocks) + 1 BY <1>3, <1>c, FS_AddElement
  <2>2. One(pc'[t] \in InFlight) = 0 /\ One(pc[t] \in InFlight) = 1
    BY <1>3 DEF One
  <2>3. usage' - Cardinality(blocks') = usage - Cardinality(blocks) + 0 - 1
        /\ usage' \in Int /\ Cardinality(blocks') \in Int
    BY <1>3, <2>1, <1>c, <1>u
  <2> QED BY <2>2, <2>3, <1>f, <1>c, UsageFollows
<1>4. CASE insert(t)
  <2>1. block[t] \notin blocks /\ pc'[t] = "refer"
    BY <1>4 DEF insert, LoadsExact, Loading, PlacesExact, WithBlock, GetPlaces
  <2> QED BY <1>4, <2>1, <1>3 DEF insert
<1>5. CASE insertNew(t)
  <2>1. block_index + 1 \notin blocks
    <3>1. block_index \in Nat /\ blocks \subseteq 1 .. block_index BY DEF IdsCreated
    <3> QED BY <3>1
  <2>2. pc'[t] = "created" BY <1>5 DEF insertNew
  <2> QED BY <1>5, <2>1, <2>2, <1>3 DEF insertNew
<1>6. CASE allocate(t)
  <2>1. blocks' = blocks /\ usage' = usage + 1 /\ pc[t] \in {"fits", "gaveUp"}
        /\ pc'[t] \in InFlight
    BY <1>6 DEF allocate
  <2> QED BY <2>1, <1>f, <1>c, <1>u, UsageFollows DEF One
<1>7. CASE evictVictim(t)
  <2>1. Go(t, "evict", "free") /\ Evict(victim[t]) BY <1>7, NoThrow
  <2>2. pc[t] = "evict" /\ pc'[t] = "free" BY <2>1
  <2> QED BY <2>1, <2>2, <1>2 DEF Evict
<1>8. CASE dEvict(t)
  <2>1. Go(t, "dEvict", "dFree") /\ Evict(block[t]) BY <1>8, NoThrow
  <2>2. pc[t] = "dEvict" /\ pc'[t] = "dFree" BY <2>1
  <2> QED BY <2>1, <2>2, <1>2 DEF Evict
<1>9. CASE getBlock(t, b) BY <1>9, <1>1 DEF getBlock
<1>10. CASE readLock(t) BY <1>10, <1>1 DEF readLock
<1>11. CASE find(t) BY <1>11, <1>1 DEF find
<1>12. CASE releaseShard(t) BY <1>12, <1>1 DEF releaseShard
<1>13. CASE countAgain(t) BY <1>13, <1>1 DEF countAgain
<1>14. CASE writeLock(t) BY <1>14, <1>1 DEF writeLock
<1>15. CASE findAgain(t) BY <1>15, <1>1 DEF findAgain
<1>16. CASE refer(t) BY <1>16, <1>1 DEF refer
<1>17. CASE unlockBlock(t) BY <1>17, <1>1 DEF unlockBlock
<1>18. CASE releaseAgain(t) BY <1>18, <1>1 DEF releaseAgain
<1>19. CASE test(t) BY <1>19, <1>1 DEF test
<1>20. CASE chooseVictim(t) BY <1>20, <1>1 DEF chooseVictim
<1>21. CASE getShard(t) BY <1>21, <1>1 DEF getShard
<1>22. CASE evictionLock(t) BY <1>22, <1>1 DEF evictionLock
<1>23. CASE isLoaded(t) BY <1>23, <1>1 DEF isLoaded
<1>24. CASE getRefCount(t) BY <1>24, <1>1 DEF getRefCount
<1>25. CASE saveVictim(t) BY <1>25, <1>1 DEF saveVictim, Write
<1>26. CASE releaseVictim(t) BY <1>26, <1>1 DEF releaseVictim
<1>27. CASE unlockVictim(t) BY <1>27, <1>1 DEF unlockVictim
<1>28. CASE createBlock(t) BY <1>28, <1>1 DEF createBlock
<1>29. CASE announce(t) BY <1>29, <1>1 DEF announce
<1>30. CASE write(t, b) BY <1>30, <1>1 DEF write
<1>31. CASE unreference(t, b) BY <1>31, <1>1 DEF unreference
<1>32. CASE saveBlockOrBlob(t, b) BY <1>32, <1>1 DEF saveBlockOrBlob, Write
<1>33. CASE deleteBlockOrBlobFile(t, b) BY <1>33, <1>1 DEF deleteBlockOrBlobFile
<1>34. CASE dEvicted(t) BY <1>34, <1>1 DEF dEvicted
<1>35. CASE dFile(t) BY <1>35, <1>1 DEF dFile
<1>36. CASE dDeleted(t) BY <1>36, <1>1 DEF dDeleted
<1>37. CASE freeVictim(t)
  <2>1. blocks' = blocks /\ usage' = usage - 1 /\ pc[t] = "free" /\ pc'[t] = "releaseVictim"
    BY <1>37 DEF freeVictim, deallocateSlots
  <2> QED BY <2>1, <1>f, <1>c, <1>u, UsageFollows DEF One
<1>38. CASE dFree(t)
  <2>1. blocks' = blocks /\ usage' = usage - 1 /\ pc[t] = "dFree" /\ pc'[t] = "dEvicted"
    BY <1>38 DEF dFree, deallocateSlots
  <2> QED BY <2>1, <1>f, <1>c, <1>u, UsageFollows DEF One
<1>39. CASE markVictimClean(t) BY <1>39, <1>1 DEF markVictimClean, markClean
<1>40. CASE markSaved(t) BY <1>40, <1>1 DEF markSaved, markClean
<1> QED BY <1>4, <1>5, <1>6, <1>7, <1>8, <1>9, <1>10, <1>11, <1>12, <1>13, <1>14, <1>15, <1>16,
    <1>17, <1>18, <1>19, <1>20, <1>21, <1>22, <1>23, <1>24, <1>25, <1>26, <1>27, <1>28, <1>29,
    <1>30, <1>31, <1>32, <1>33, <1>34, <1>35, <1>36, <1>37, <1>38,
    <1>39, <1>40 DEF Act, Get, Room, Create, Delete, Use

-----------------------------------------------------------------------------
LEMMA InitInv == Init => IInv
<1> SUFFICES ASSUME Init PROVE IInv OBVIOUS
<1>1. TypeOK
  BY DEF Init, PolicyInit, TypeOK, PolicyType, Places, None
<1>2. \A s : \A P \in {BlockCounted, BlockLocked, {"find"}} : OnBlock(s, P) = {}
  BY DEF Init, OnBlock
<1>3. \A s, P : OnVictim(s, P) = {} BY DEF Init, OnVictim
<1>4. (\A b : Holders(b) = {}) /\ Inserting = {} BY DEF Init, Holders, Inserting, InFlight
<1>5. Cardinality({}) = 0 BY FS_EmptySet
<1>6. PlacesExact BY DEF Init, PlacesExact, WithBlock, WithoutBlock, WithVictim, GetPlaces
<1>7. LocksExact BY <1>2, <1>3 DEF Init, LocksExact
<1>8. CountsExact BY <1>2, <1>3, <1>5 DEF Init, CountsExact
<1>9. RefCountExact BY <1>4, <1>5 DEF Init, PolicyInit, RefCountExact
<1>10. IdsCreated BY DEF Init, PolicyInit, IdsCreated, None
<1>11. OwnShardSpared /\ OwnersExact /\ LoadsExact /\ VictimsFree
  BY DEF Init, OwnShardSpared, OwnersExact, LoadsExact, VictimsFree, None, Deleting
<1>12. UsageExact BY <1>4, <1>5 DEF Init, UsageExact, Inserting, InFlight
<1>13. ReferencedLoaded /\ NothingLost BY DEF Init, ReferencedLoaded, NothingLost
<1>14. DeletedGone BY DEF Init, PolicyInit, DeletedGone, Candidates
<1> QED
  BY <1>1, <1>6, <1>7, <1>8, <1>9, <1>10, <1>11, <1>12, <1>13, <1>14 DEF IInv, Inner, Outer

\* An exception changes nothing but the place of the thread.
LEMMA ThrowInv ==
    ASSUME Outer, NEW t \in Threads, pc' = [pc EXCEPT ![t] = "thrown"],
           pc[t] \in {"evict", "dEvict"},
           UNCHANGED <<policy, store, shards, held, block, victim>>
    PROVE  IInv'
<1>1. TypeOK' BY DEF Outer, TypeOK, PolicyType, Places, policy, store, shards
<1>2. {u \in Threads : pc'[u] \in InFlight} = {u \in Threads : pc[u] \in InFlight}
  BY DEF Outer, TypeOK, InFlight
<1>3. UsageExact' BY <1>2 DEF Outer, UsageExact, store, InFlight
<1>4. ReferencedLoaded' /\ NothingLost' BY DEF Outer, ReferencedLoaded, NothingLost, store
<1>5. DeletedGone' BY DEF Outer, DeletedGone, Candidates, store, policy
<1>6. ~NothingThrown' BY DEF Outer, TypeOK, NothingThrown
<1> QED BY <1>1, <1>3, <1>4, <1>5, <1>6 DEF IInv, Outer

\* Only an eviction that does not find its block throws.
LEMMA Thrown ==
    ASSUME TypeOK, NothingThrown, NEW t \in Threads, NEW b, Act(t, b), ~NothingThrown'
    PROVE  /\ pc[t] \in {"evict", "dEvict"} /\ pc' = [pc EXCEPT ![t] = "thrown"]
           /\ UNCHANGED <<policy, store, shards, held, block, victim>>
<1>1. ASSUME NEW from, NEW to, Go(t, from, to), to # "thrown" PROVE FALSE
  BY <1>1 DEF Go, NothingThrown, TypeOK
<1>2. CASE Get(t)
  BY <1>2, <1>1 DEF Get, readLock, find, releaseShard, countAgain, writeLock, findAgain, insert, refer,
     unlockBlock, releaseAgain
<1>3. CASE Room(t)
  <2>1. CASE allocate(t)
    BY <2>1 DEF allocate, NothingThrown, TypeOK
  <2>2. CASE evictVictim(t) BY <2>2, <1>1 DEF evictVictim, Go
  <2> QED
    BY <1>3, <1>1, <2>1, <2>2 DEF Room, test, chooseVictim, getShard, evictionLock, isLoaded, getRefCount,
       saveVictim, markVictimClean, freeVictim, releaseVictim, unlockVictim
<1>4. CASE Create(t) BY <1>4, <1>1 DEF Create, insertNew, announce
<1>5. CASE Delete(t)
  <2>1. CASE dEvict(t) BY <2>1, <1>1 DEF dEvict, Go
  <2> QED BY <1>5, <1>1, <2>1 DEF Delete, dFree, dEvicted, dFile, dDeleted
<1>6. CASE getBlock(t, b) \/ createBlock(t) \/ markSaved(t) \/ deleteBlockOrBlobFile(t, b)
  BY <1>6, <1>1 DEF getBlock, createBlock, markSaved, deleteBlockOrBlobFile
<1>7. CASE Use(t, b)
  BY <1>7, <1>1 DEF Use, write, unreference, saveBlockOrBlob, NothingThrown
<1> QED BY <1>2, <1>3, <1>4, <1>5, <1>6, <1>7 DEF Act

LEMMA StepInv == IInv /\ [Next]_vars => IInv'
<1> SUFFICES ASSUME IInv, [Next]_vars PROVE IInv' OBVIOUS
<1>1. CASE UNCHANGED vars
  <2>1. UNCHANGED <<policy, store, shards, held, pc, block, victim>> BY <1>1 DEF vars
  <2>2. UNCHANGED <<ref_count, in_memory, nonreferenced_blocks, blocks, dirty, saved, usage,
                    block_index, known, raced, shard_count, reading, writing>>
    BY <2>1 DEF policy, store, shards
  <2>3. TypeOK' = TypeOK BY <2>1, <2>2 DEF TypeOK, PolicyType
  <2>4. Outer' = Outer
    BY <2>1, <2>2, <2>3 DEF Outer, ReferencedLoaded, UsageExact, NothingLost, DeletedGone, Candidates
  <2>5. Inner' = Inner
    BY <2>1, <2>2 DEF Inner, PlacesExact, LocksExact, OwnShardSpared, CountsExact, RefCountExact,
       IdsCreated, OwnersExact, LoadsExact, VictimsFree, OnBlock, OnVictim, Holders
  <2>6. NothingThrown' = NothingThrown BY <2>1 DEF NothingThrown
  <2> QED BY <2>4, <2>5, <2>6 DEF IInv
<1>2. CASE Next
  <2>1. NothingThrown BY <1>2 DEF Next, NothingThrown
  <2>2. Outer /\ Inner BY <2>1 DEF IInv
  <2>a. PICK t \in Threads :
           \/ Begin(t) \/ Get(t) \/ Room(t) \/ Create(t) \/ markSaved(t) \/ Delete(t)
           \/ \E b \in Blocks : Use(t, b) \/ deleteBlockOrBlobFile(t, b)
    BY <1>2 DEF Next
  <2>b. \E b : Act(t, b) BY <2>a DEF Begin, Act
  <2>3. PICK b : Act(t, b) BY <2>b
  <2>4. CASE ~NothingThrown'
    <3>1. /\ pc[t] \in {"evict", "dEvict"} /\ pc' = [pc EXCEPT ![t] = "thrown"]
          /\ UNCHANGED <<policy, store, shards, held, block, victim>>
      BY <2>1, <2>2, <2>3, <2>4, Thrown DEF Outer
    <3> QED BY <2>2, <3>1, ThrowInv
  <2>5. CASE NothingThrown'
    <3>1. TypeOK' /\ UsageExact' /\ ReferencedLoaded' /\ NothingLost' /\ DeletedGone'
      BY <2>2, <2>3, <2>5, TypeKept, UsageKept, LoadedKept, LostKept, GoneKept DEF Outer, Inner
    <3>2. CountsExact' BY <2>2, <2>3, <2>5, CountsChange, CountsFollow DEF Outer, Inner
    <3>3. RefCountExact' BY <2>2, <2>3, <2>5, RefsChange, RefsFollow DEF Outer, Inner
    <3>4. PlacesExact' /\ LocksExact' /\ OwnShardSpared' /\ IdsCreated' /\ OwnersExact' /\ LoadsExact'
            /\ VictimsFree'
      BY <2>2, <2>3, <2>5, PlacesKept, LocksKept, SparedKept, IdsKept, OwnersKept, LoadsKept, VictimsKept
         DEF Outer, Inner
    <3> QED BY <3>1, <3>2, <3>3, <3>4 DEF IInv, Outer, Inner
  <2> QED BY <2>4, <2>5
<1> QED BY <1>1, <1>2

-----------------------------------------------------------------------------
\* A block somebody has a reference to is in memory, total_memory_usage_ is what
\* is loaded, about to be inserted and about to be given back, and shard_count_
\* covers every shard lock that is held or waited for.
THEOREM PoolExactHolds == Spec => []PoolExact
<1>1. IInv => PoolExact
  BY DEF IInv, Outer, Inner, PoolExact, ShardCountCovers, NothingThrown, CountsExact, OnBlock, OnVictim,
         BlockCounted, VictimCounted
<1> QED BY <1>1, InitInv, StepInv, PTL DEF Spec

\* No eviction loses what was written to a block, however it interleaves with
\* loads, uses, saves and deletions of the same block, unless a call of
\* saveBlockOrBlob() by another thread was between its write to the file and
\* markClean() when the block was modified; and a deleted block does not come
\* back to memory, to disk or among the candidates.
THEOREM BlocksKeptHolds == Spec => []BlocksKept
<1>1. IInv => BlocksKept BY DEF IInv, Outer, BlocksKept
<1> QED BY <1>1, InitInv, StepInv, PTL DEF Spec

-----------------------------------------------------------------------------
(* InsertDestination *)

\* The operators of FiniteSets are the same ones in the instance.
LEMMA SameCounts ==
    /\ \A S : Out!IsFiniteSet(S) <=> IsFiniteSet(S)
    /\ \A S : Out!Cardinality(S) = Cardinality(S)
<1>1. \A S : Out!IsFiniteSet(S) <=> IsFiniteSet(S) BY DEF Out!IsFiniteSet, IsFiniteSet
<1>2. \A S : Out!Cardinality(S) = Cardinality(S) BY DEF Out!Cardinality, Cardinality
<1> QED BY <1>1, <1>2

Refs(p) == Out!Range(available_block_refs[p])
Ids(p)  == Out!Range(available_block_ids[p])
Done(p) == Out!Range(done_block_ids[p])

-----------------------------------------------------------------------------
(* The inductive invariant *)

DestMessage == [type : {"newBlock", "pipeline"}, block : OutputBlocks, partition : Partitions \cup {Out!None}]

\* A worker has a block from getting it to giving it back, a partition as long
\* as its call lasts, and nothing to do outside one.
WorkersSound ==
    \A w \in Workers :
        /\ wblock[w] # Out!None <=> wpc[w] \in {"insert", "return", "send"}
        /\ wpart[w] # Out!None <=> wpc[w] # "idle"
        /\ wpc[w] = "idle" => todo[w] = {}

\* A block is in the pool at most once.
PoolSound ==
    /\ \A p \in Partitions : Out!IsInjective(available_block_refs[p]) /\ Out!IsInjective(available_block_ids[p])
    /\ \A p, q \in Partitions :
         /\ Refs(p) \cap Ids(q) = {}
         /\ p # q => Refs(p) \cap Refs(q) = {} /\ Ids(p) \cap Ids(q) = {}

\* A block is with one worker, in the pool, to be rebuilt or streamed.
Apart ==
    /\ \A v, w \in Workers : v # w /\ wblock[v] # Out!None => wblock[v] # wblock[w]
    /\ \A w \in Workers : wblock[w] \notin rebuild \cup Out!Streamed
    /\ \A w \in Workers, p \in Partitions :
         wblock[w] \notin Refs(p) \cup Ids(p) /\ (wblock[w] \in Done(p) => wpc[w] = "send")
    /\ rebuild \cap Out!Streamed = {}
    /\ \A p \in Partitions : (rebuild \cup Out!Streamed) \cap (Refs(p) \cup Ids(p)) = {}
    /\ \A p, q \in Partitions : Done(p) \cap (Refs(q) \cup Ids(q)) = {}

\* No id is in use that was not given out.
Created ==
    /\ \A p \in Partitions : Refs(p) \cup Ids(p) \cup Done(p) \subseteq 1 .. windex
    /\ rebuild \cup Out!Streamed \subseteq 1 .. windex
    /\ \A w \in Workers : wblock[w] <= windex
    /\ \A b \in OutputBlocks : content[b] # {} => b <= windex

\* A block has the tuples of one partition, that of its list or its worker.
Pure ==
    /\ \A p \in Partitions : \A b \in Refs(p) \cup Done(p) : \A x \in content[b] : Out!PartitionOf(x) = p
    /\ \A w \in Workers : wblock[w] # Out!None => \A x \in content[wblock[w]] : Out!PartitionOf(x) = wpart[w]
    /\ \A p \in Partitions : \A b \in Ids(p) : content[b] = {}

\* A tuple waits, is in one call or in one block.
TuplesSound ==
    /\ \A w \in Workers : \A x \in todo[w] : x \notin waiting /\ \A v \in Workers : v # w => x \notin todo[v]
    /\ \A b \in OutputBlocks : \A x \in content[b] : x \notin waiting /\ \A w \in Workers : x \notin todo[w]
    /\ \A b, c \in OutputBlocks : content[b] \cap content[c] # {} => b = c
    /\ \A x \in Tuples : \/ x \in waiting
                         \/ \E w \in Workers : x \in todo[w]
                         \/ \E b \in OutputBlocks : x \in content[b]

\* A block with tuples is streamed, or is where somebody will find it.
Accounted ==
    \A b \in OutputBlocks :
        content[b] # {} => \/ b \in Out!Streamed \cup rebuild
                           \/ \E p \in Partitions : b \in Refs(p)
                           \/ \E w \in Workers : wblock[w] = b

\* The catalog has been told of every block that was created.
MailSound ==
    /\ mail \in Seq(DestMessage)
    /\ \A i \in DOMAIN mail : mail[i].block <= windex
    /\ \A b \in (1 .. windex) \ Out!Existing :
         \E j \in DOMAIN mail : mail[j].type = "newBlock" /\ mail[j].block = b
    /\ Out!StreamedOnce

DestInv ==
    /\ Out!TypeOK /\ WorkersSound /\ PoolSound /\ Apart /\ Created /\ Pure
    /\ TuplesSound /\ Accounted /\ MailSound

-----------------------------------------------------------------------------
(* Lists of blocks *)

LEMMA Appended ==
    ASSUME NEW S, NEW s \in Seq(S), NEW e \in S
    PROVE  /\ Append(s, e) \in Seq(S)
           /\ Out!Range(Append(s, e)) = Out!Range(s) \cup {e}
           /\ Out!IsInjective(s) /\ e \notin Out!Range(s) => Out!IsInjective(Append(s, e))
<1>1. /\ Append(s, e) \in Seq(S) /\ Len(Append(s, e)) = Len(s) + 1
      /\ \A i \in 1 .. Len(s) : Append(s, e)[i] = s[i]
      /\ Append(s, e)[Len(s) + 1] = e
  BY AppendProperties
<1>2. Len(s) \in Nat /\ DOMAIN s = 1 .. Len(s) /\ DOMAIN Append(s, e) = 1 .. Len(s) + 1 BY <1>1
<1>3. Out!Range(Append(s, e)) = Out!Range(s) \cup {e}
  <2>1. \A i \in 1 .. Len(s) + 1 : i \in 1 .. Len(s) \/ i = Len(s) + 1 BY <1>2
  <2>2. \A i \in 1 .. Len(s) : i \in 1 .. Len(s) + 1 BY <1>2
  <2>3. Len(s) + 1 \in 1 .. Len(s) + 1 BY <1>2
  <2> QED BY <1>1, <1>2, <2>1, <2>2, <2>3 DEF Out!Range
<1>4. Out!IsInjective(s) /\ e \notin Out!Range(s) => Out!IsInjective(Append(s, e))
  <2> SUFFICES ASSUME Out!IsInjective(s), e \notin Out!Range(s),
                      NEW i \in 1 .. Len(s) + 1, NEW j \in 1 .. Len(s) + 1,
                      Append(s, e)[i] = Append(s, e)[j]
               PROVE  i = j
    BY <1>2 DEF Out!IsInjective
  <2>1. \A k \in 1 .. Len(s) : s[k] # e BY <1>2 DEF Out!Range
  <2>2. CASE i = Len(s) + 1 BY <1>1, <1>2, <2>1, <2>2
  <2>3. CASE j = Len(s) + 1 BY <1>1, <1>2, <2>1, <2>3
  <2>4. CASE i # Len(s) + 1 /\ j # Len(s) + 1
    <3>1. i \in 1 .. Len(s) /\ j \in 1 .. Len(s) BY <1>2, <2>4
    <3> QED BY <1>1, <1>2, <3>1 DEF Out!IsInjective
  <2> QED BY <2>2, <2>3, <2>4
<1> QED BY <1>1, <1>3, <1>4

LEMMA TakenOff ==
    ASSUME NEW S, NEW s \in Seq(S), s # <<>>
    PROVE  /\ Out!Front(s) \in Seq(S) /\ Out!Last(s) \in S /\ Out!Last(s) \in Out!Range(s)
           /\ Out!IsInjective(s) => /\ Out!IsInjective(Out!Front(s))
                                /\ Out!Range(Out!Front(s)) = Out!Range(s) \ {Out!Last(s)}
<1>1. Len(s) \in Nat /\ DOMAIN s = 1 .. Len(s) /\ Len(s) > 0 BY EmptySeq
<1>2. /\ Out!Front(s) \in Seq(S) /\ Len(Out!Front(s)) = Len(s) - 1
      /\ \A i \in 1 .. Len(s) - 1 : Out!Front(s)[i] = s[i]
  BY <1>1, SubSeqProperties DEF Out!Front
<1>3. DOMAIN Out!Front(s) = 1 .. Len(s) - 1 BY <1>1, <1>2
<1>4. Out!Last(s) = s[Len(s)] /\ Len(s) \in 1 .. Len(s) BY <1>1 DEF Out!Last
<1>5. Out!Last(s) \in S /\ Out!Last(s) \in Out!Range(s) BY <1>1, <1>4 DEF Out!Range
<1>6. ASSUME Out!IsInjective(s)
      PROVE  Out!IsInjective(Out!Front(s)) /\ Out!Range(Out!Front(s)) = Out!Range(s) \ {Out!Last(s)}
  <2>0. \A n \in Nat : /\ \A i \in 1 .. n - 1 : i \in 1 .. n /\ i # n
                       /\ \A i \in 1 .. n : i # n => i \in 1 .. n - 1
    OBVIOUS
  <2>1. \A i \in 1 .. Len(s) - 1 : i \in 1 .. Len(s) /\ i # Len(s) BY <1>1, <2>0
  <2>2. \A i \in 1 .. Len(s) : i # Len(s) => i \in 1 .. Len(s) - 1 BY <1>1, <2>0
  <2>3. Out!IsInjective(Out!Front(s)) BY <1>1, <1>2, <1>3, <1>6, <2>1 DEF Out!IsInjective
  <2>4. \A i \in 1 .. Len(s) : s[i] = Out!Last(s) <=> i = Len(s) BY <1>1, <1>4, <1>6 DEF Out!IsInjective
  <2>5. Out!Range(Out!Front(s)) = Out!Range(s) \ {Out!Last(s)}
    BY <1>1, <1>2, <1>3, <2>1, <2>2, <2>4 DEF Out!Range
  <2> QED BY <2>3, <2>5
<1> QED BY <1>2, <1>5, <1>6

\* Elements of the lists are blocks.
LEMMA InLists ==
    ASSUME Out!TypeOK, NEW p \in Partitions
    PROVE  /\ available_block_refs[p] \in Seq(OutputBlocks) /\ available_block_ids[p] \in Seq(OutputBlocks)
           /\ done_block_ids[p] \in Seq(OutputBlocks)
           /\ Refs(p) \subseteq OutputBlocks /\ Ids(p) \subseteq OutputBlocks /\ Done(p) \subseteq OutputBlocks
<1>1. /\ available_block_refs[p] \in Seq(OutputBlocks) /\ available_block_ids[p] \in Seq(OutputBlocks)
      /\ done_block_ids[p] \in Seq(OutputBlocks)
  BY DEF Out!TypeOK
<1>2. \A s \in Seq(OutputBlocks) : Out!Range(s) \subseteq OutputBlocks BY DEF Out!Range
<1> QED BY <1>1, <1>2 DEF Refs, Ids, Done

-----------------------------------------------------------------------------
(* Partitions *)

\* There is a first partition that has tuples.
LEMMA NextIsOne ==
    ASSUME Out!DestinationAssumption, NEW T \in SUBSET Tuples, T # {}
    PROVE  Out!NextPartition(T) \in Partitions
<1> DEFINE P == {p \in Partitions : Out!InPartition(T, p) # {}}
<1>1. P # {} /\ P \subseteq Nat
  <2>1. PICK x \in T : TRUE OBVIOUS
  <2>2. Out!PartitionOf(x) \in P BY <2>1 DEF Out!DestinationAssumption, Out!InPartition, Out!PartitionOf
  <2> QED BY <2>2 DEF Out!DestinationAssumption
<1> HIDE DEF P
<1>2. PICK p \in P : \A q \in P : p <= q BY <1>1, LeastNumber
<1>3. \A q \in Partitions : q < p => Out!InPartition(T, q) = {}
  <2> SUFFICES ASSUME NEW q \in Partitions, q < p, Out!InPartition(T, q) # {} PROVE FALSE OBVIOUS
  <2>1. q \in P BY DEF P
  <2>2. p \in Nat /\ q \in Nat BY <1>1, <2>1
  <2> QED BY <1>2, <2>1, <2>2
<1>4. p \in Partitions /\ Out!InPartition(T, p) # {} BY DEF P
<1>5. \E r \in Partitions :
         Out!InPartition(T, r) # {} /\ \A q \in Partitions : q < r => Out!InPartition(T, q) = {}
  BY <1>3, <1>4
<1> QED BY <1>5 DEF Out!NextPartition

-----------------------------------------------------------------------------
(* Messages *)

\* The scheduler is told of a block, the first time or that it is filled.
LEMMA Posted ==
    ASSUME NEW m \in DestMessage, mail \in Seq(DestMessage), mail' = Append(mail, m)
    PROVE  /\ mail' \in Seq(DestMessage)
           /\ DOMAIN mail' = DOMAIN mail \cup {Len(mail) + 1} /\ DOMAIN mail = 1 .. Len(mail)
           /\ Len(mail) \in Nat
           /\ \A i \in DOMAIN mail : mail'[i] = mail[i]
           /\ mail'[Len(mail) + 1] = m
           /\ Out!Streamed' = IF m.type = "pipeline" THEN Out!Streamed \cup {m.block} ELSE Out!Streamed
<1>1. /\ mail' \in Seq(DestMessage) /\ Len(mail') = Len(mail) + 1
      /\ \A i \in 1 .. Len(mail) : mail'[i] = mail[i]
      /\ mail'[Len(mail) + 1] = m
  BY AppendProperties
<1>2. Len(mail) \in Nat /\ DOMAIN mail = 1 .. Len(mail) /\ DOMAIN mail' = 1 .. Len(mail) + 1 BY <1>1
<1>3. DOMAIN mail' = DOMAIN mail \cup {Len(mail) + 1} BY <1>2
<1>4. Out!Streamed' = IF m.type = "pipeline" THEN Out!Streamed \cup {m.block} ELSE Out!Streamed
  <2>1. Len(mail) + 1 \notin DOMAIN mail BY <1>2
  <2> QED BY <1>1, <1>2, <1>3, <2>1 DEF Out!Streamed
<1> QED BY <1>1, <1>2, <1>3, <1>4

\* A new block is announced once ...
LEMMA Announced ==
    ASSUME Out!DestinationAssumption, Out!TypeOK, MailSound, NEW p \in Partitions, windex + 1 \in OutputBlocks,
           windex' = windex + 1,
           mail' = Append(mail, [type |-> "newBlock", block |-> windex + 1, partition |-> p])
    PROVE  MailSound' /\ Out!Streamed' = Out!Streamed
<1> DEFINE m == [type |-> "newBlock", block |-> windex + 1, partition |-> p]
<1>1. m \in DestMessage /\ m.type = "newBlock" /\ m.block = windex + 1 BY DEF DestMessage
<1>2. windex \in Nat BY DEF Out!DestinationAssumption, Out!TypeOK, Out!None
<1> HIDE DEF m
<1>3. mail' = Append(mail, m) BY DEF m
<1>4. /\ mail' \in Seq(DestMessage)
      /\ DOMAIN mail' = DOMAIN mail \cup {Len(mail) + 1} /\ DOMAIN mail = 1 .. Len(mail)
      /\ Len(mail) \in Nat
      /\ \A i \in DOMAIN mail : mail'[i] = mail[i]
      /\ mail'[Len(mail) + 1] = m
      /\ Out!Streamed' = Out!Streamed
  BY <1>1, <1>3, Posted DEF MailSound
<1>5. \A i \in DOMAIN mail : mail[i].block \in Nat /\ mail[i].block <= windex
  <2>1. \A i \in DOMAIN mail : mail[i] \in DestMessage BY DEF MailSound
  <2>2. \A i \in DOMAIN mail : mail[i].block \in OutputBlocks BY <2>1 DEF DestMessage
  <2> QED BY <2>2 DEF MailSound, Out!DestinationAssumption
<1>6. \A i \in DOMAIN mail' : mail'[i].block <= windex' BY <1>1, <1>2, <1>4, <1>5
<1>7. ASSUME NEW b \in (1 .. windex') \ Out!Existing
      PROVE  \E j \in DOMAIN mail' : mail'[j].type = "newBlock" /\ mail'[j].block = b
  <2>1. CASE b = windex + 1 BY <1>1, <1>4, <2>1
  <2>2. CASE b # windex + 1
    <3>1. b \in (1 .. windex) \ Out!Existing BY <1>2, <2>2
    <3> QED BY <1>4, <3>1 DEF MailSound
  <2> QED BY <2>1, <2>2
<1>8. Out!StreamedOnce'
  <2> SUFFICES ASSUME NEW i \in DOMAIN mail'
               PROVE  /\ \A j \in DOMAIN mail' : mail'[i] = mail'[j] => i = j
                      /\ mail'[i].type = "pipeline" /\ mail'[i].block \notin Out!Existing =>
                           \E j \in 1 .. i - 1 : /\ mail'[j].type = "newBlock"
                                                 /\ mail'[j].block = mail'[i].block
    BY DEF Out!StreamedOnce
  <2>1. CASE i \in DOMAIN mail
    <3>1. \A j \in 1 .. i - 1 : j \in DOMAIN mail BY <1>4, <2>1
    <3>2. mail[i] # m BY <1>1, <1>2, <1>5, <2>1
    <3> QED BY <1>4, <2>1, <3>1, <3>2 DEF MailSound, Out!StreamedOnce
  <2>2. CASE i = Len(mail) + 1
    <3>1. \A j \in DOMAIN mail : mail[j] # m BY <1>1, <1>2, <1>5
    <3> QED BY <1>1, <1>4, <2>2, <3>1
  <2> QED BY <1>4, <2>1, <2>2
<1> QED BY <1>4, <1>6, <1>7, <1>8 DEF MailSound

\* ... and streamed once, after that.
LEMMA StreamedNow ==
    ASSUME Out!DestinationAssumption, Out!TypeOK, MailSound,
           NEW b \in OutputBlocks, b <= windex, b \notin Out!Streamed,
           windex' = windex,
           mail' = Append(mail, [type |-> "pipeline", block |-> b, partition |-> Out!None])
    PROVE  MailSound' /\ Out!Streamed' = Out!Streamed \cup {b}
<1> DEFINE m == [type |-> "pipeline", block |-> b, partition |-> Out!None]
<1>1. m \in DestMessage /\ m.type = "pipeline" /\ m.block = b BY DEF DestMessage
<1>2. windex \in Nat /\ b \in Nat /\ b > 0 BY DEF Out!DestinationAssumption, Out!TypeOK, Out!None
<1> HIDE DEF m
<1>3. mail' = Append(mail, m) BY DEF m
<1>4. /\ mail' \in Seq(DestMessage)
      /\ DOMAIN mail' = DOMAIN mail \cup {Len(mail) + 1} /\ DOMAIN mail = 1 .. Len(mail)
      /\ Len(mail) \in Nat
      /\ \A i \in DOMAIN mail : mail'[i] = mail[i]
      /\ mail'[Len(mail) + 1] = m
      /\ Out!Streamed' = Out!Streamed \cup {b}
  BY <1>1, <1>3, Posted DEF MailSound
<1>5. \A i \in DOMAIN mail' : mail'[i].block <= windex' BY <1>1, <1>2, <1>4 DEF MailSound
<1>6. \A c \in (1 .. windex') \ Out!Existing :
         \E j \in DOMAIN mail' : mail'[j].type = "newBlock" /\ mail'[j].block = c
  BY <1>4 DEF MailSound
<1>7. \A j \in DOMAIN mail : mail[j] # m BY <1>1 DEF Out!Streamed
<1>8. Out!StreamedOnce'
  <2> SUFFICES ASSUME NEW i \in DOMAIN mail'
               PROVE  /\ \A j \in DOMAIN mail' : mail'[i] = mail'[j] => i = j
                      /\ mail'[i].type = "pipeline" /\ mail'[i].block \notin Out!Existing =>
                           \E j \in 1 .. i - 1 : /\ mail'[j].type = "newBlock"
                                                 /\ mail'[j].block = mail'[i].block
    BY DEF Out!StreamedOnce
  <2>1. CASE i \in DOMAIN mail
    <3>1. \A j \in 1 .. i - 1 : j \in DOMAIN mail BY <1>4, <2>1
    <3> QED BY <1>4, <1>7, <2>1, <3>1 DEF MailSound, Out!StreamedOnce
  <2>2. CASE i = Len(mail) + 1
    <3>1. \A j \in DOMAIN mail : j \in 1 .. i - 1 BY <1>4, <2>2
    <3>2. b \notin Out!Existing => \E j \in DOMAIN mail : mail[j].type = "newBlock" /\ mail[j].block = b
      BY <1>2 DEF MailSound
    <3> QED BY <1>1, <1>4, <1>7, <2>2, <3>1, <3>2
  <2> QED BY <1>4, <2>1, <2>2
<1> QED BY <1>4, <1>5, <1>6, <1>8 DEF MailSound

-----------------------------------------------------------------------------
(* The steps *)

LEMMA Ids0 ==
    ASSUME Out!DestinationAssumption
    PROVE  /\ Out!None = 0 /\ Out!None \notin OutputBlocks /\ Out!None \notin Partitions
           /\ \A b \in OutputBlocks : b \in Nat /\ b > 0
BY DEF Out!DestinationAssumption, Out!None

\* A step that leaves the lists, or the mail, alone.
LEMMA SamePool ==
    ASSUME UNCHANGED Out!pool
    PROVE  /\ \A p \in Partitions : Refs(p)' = Refs(p) /\ Ids(p)' = Ids(p) /\ Done(p)' = Done(p)
           /\ PoolSound => PoolSound'
<1>1. UNCHANGED <<available_block_refs, available_block_ids, done_block_ids>> BY DEF Out!pool
<1> QED BY <1>1 DEF Refs, Ids, Done, PoolSound

LEMMA SameMail ==
    ASSUME UNCHANGED <<mail, windex>>
    PROVE  Out!Streamed' = Out!Streamed /\ (MailSound => MailSound')
BY DEF Out!Streamed, MailSound, Out!StreamedOnce

LEMMA DestInit == Out!DestinationAssumption /\ Out!Init => DestInv
<1> SUFFICES ASSUME Out!DestinationAssumption, Out!Init PROVE DestInv OBVIOUS
<1>0. windex \in Nat /\ Out!Existing = 1 .. windex
  BY FS_CardinalityType, SameCounts DEF Out!DestinationAssumption, Out!Init
<1>e. Out!Existing \subseteq OutputBlocks BY DEF Out!Existing, Out!Range, Out!DestinationAssumption
<1>i. \A p \in Partitions : available_block_ids[p] = <<>> \/ available_block_ids[p] = ExistingBlocks[p]
  BY DEF Out!Init
<1>1. \A p \in Partitions : Refs(p) = {} /\ Done(p) = {} /\ (Ids(p) = {} \/ Ids(p) = Out!Range(ExistingBlocks[p]))
  BY <1>i DEF Out!Init, Refs, Done, Ids, Out!Range
<1>2. \A p \in Partitions : Ids(p) \subseteq 1 .. windex BY <1>0, <1>1 DEF Out!Existing
<1>3. Out!Streamed = {} BY DEF Out!Init, Out!Streamed
<1>4. Out!TypeOK
  <2>1. \A f \in {available_block_refs, available_block_ids, done_block_ids} :
          f \in [Partitions -> Seq(OutputBlocks)]
    <3>1. <<>> \in Seq(OutputBlocks) BY EmptySeq
    <3>2. available_block_ids \in [Partitions -> Seq(OutputBlocks)]
      BY <1>i, <3>1 DEF Out!Init, Out!DestinationAssumption
    <3> QED BY <3>1, <3>2 DEF Out!Init
  <2>2. windex \in OutputBlocks \cup {Out!None}
    <3>1. windex # 0 => windex \in 1 .. windex BY <1>0
    <3> QED BY <1>0, <1>e, <3>1 DEF Out!None
  <2> QED BY <2>1, <2>2 DEF Out!Init, Out!TypeOK
<1>5. WorkersSound BY DEF Out!Init, WorkersSound
<1>6. PoolSound
  <2>1. \A p \in Partitions : Out!IsInjective(available_block_refs[p]) BY DEF Out!Init, Out!IsInjective
  <2>2. \A p \in Partitions : Out!IsInjective(available_block_ids[p])
    <3> SUFFICES ASSUME NEW p \in Partitions PROVE Out!IsInjective(available_block_ids[p]) OBVIOUS
    <3>1. CASE available_block_ids[p] = <<>>
      <4>1. DOMAIN available_block_ids[p] = {} BY <3>1
      <4> QED BY <4>1 DEF Out!IsInjective
    <3>2. CASE available_block_ids[p] = ExistingBlocks[p]
      BY <3>2 DEF Out!IsInjective, Out!DestinationAssumption
    <3> QED BY <1>i, <3>1, <3>2
  <2>3. \A p, q \in Partitions : p # q => Ids(p) \cap Ids(q) = {}
    <3>1. \A p, q \in Partitions : p # q => Out!Range(ExistingBlocks[p]) \cap Out!Range(ExistingBlocks[q]) = {}
      BY DEF Out!DestinationAssumption, Out!Range
    <3> QED BY <1>1, <3>1
  <2> QED BY <1>1, <2>1, <2>2, <2>3 DEF PoolSound
<1>7. Apart
  <2>1. \A w \in Workers : wblock[w] = Out!None BY DEF Out!Init
  <2>2. \A p \in Partitions : Out!None \notin Ids(p) BY <1>0, <1>2 DEF Out!None
  <2>3. rebuild = {} BY DEF Out!Init
  <2> QED BY <1>1, <1>3, <2>1, <2>2, <2>3 DEF Apart
<1>8. Created BY <1>0, <1>1, <1>2, <1>3, Ids0 DEF Out!Init, Created
<1>9. Pure
  <2>1. \A p \in Partitions : \A b \in Ids(p) : b \in OutputBlocks
    BY <1>0, <1>2, <1>e
  <2>2. \A b \in OutputBlocks : content[b] = {} BY DEF Out!Init
  <2>3. \A w \in Workers : wblock[w] = Out!None BY DEF Out!Init
  <2> QED BY <1>1, <2>1, <2>2, <2>3 DEF Pure
<1>10. TuplesSound BY DEF Out!Init, TuplesSound
<1>11. Accounted BY DEF Out!Init, Accounted
<1>12. MailSound
  <2>1. mail \in Seq(DestMessage) /\ DOMAIN mail = {} BY EmptySeq DEF Out!Init
  <2> QED BY <1>0, <2>1 DEF MailSound, Out!StreamedOnce
<1> QED BY <1>4, <1>5, <1>6, <1>7, <1>8, <1>9, <1>10, <1>11, <1>12 DEF DestInv

\* A call begins, with tuples that no other call has.
LEMMA BulkInsert ==
    ASSUME Out!DestinationAssumption, DestInv, UNCHANGED (which = "create"),
           NEW w \in Workers, Out!bulkInsertTuples(w)
    PROVE  DestInv'
<1>s. \A x : Out!PartitionOf(x)' = Out!PartitionOf(x) BY DEF Out!PartitionOf
<1>1. PICK T \in (SUBSET waiting) \ {{}}, m \in BOOLEAN :
         /\ Out!Go(w, "idle", "get") /\ todo' = [todo EXCEPT ![w] = T]
         /\ wpart' = [wpart EXCEPT ![w] = Out!NextPartition(T)]
         /\ mark' = [mark EXCEPT ![w] = m] /\ waiting' = waiting \ T
  BY DEF Out!bulkInsertTuples
<1>2. UNCHANGED <<wblock, full, Out!pool, windex, content, mail, rebuild>> BY DEF Out!bulkInsertTuples
<1>3. T \in SUBSET Tuples /\ T # {} BY <1>1 DEF DestInv, Out!TypeOK
<1>4. Out!NextPartition(T) \in Partitions BY <1>3, NextIsOne
<1>5. UNCHANGED <<available_block_refs, available_block_ids, done_block_ids>> BY <1>2 DEF Out!pool
<1>6. Out!TypeOK' BY <1>1, <1>2, <1>3, <1>4, <1>5 DEF DestInv, Out!TypeOK, Out!Go
<1>7. WorkersSound' BY <1>1, <1>2, <1>4, Ids0 DEF DestInv, Out!TypeOK, WorkersSound, Out!Go
<1>8. \A p \in Partitions : Refs(p)' = Refs(p) /\ Ids(p)' = Ids(p) /\ Done(p)' = Done(p)
  BY <1>2, SamePool
<1>9. Out!Streamed' = Out!Streamed /\ MailSound' BY <1>2, SameMail DEF DestInv
<1>10. PoolSound' BY <1>2, SamePool DEF DestInv
<1>11. Apart' BY <1>1, <1>2, <1>8, <1>9 DEF DestInv, Out!TypeOK, Apart, Out!Go
<1>12. Created' BY <1>2, <1>8, <1>9 DEF DestInv, Created
<1>13. Pure'
  <2>1. wblock[w] = Out!None BY <1>1 DEF DestInv, WorkersSound, Out!Go
  <2> QED BY <1>s, <1>1, <1>2, <1>8, <2>1 DEF DestInv, Out!TypeOK, Pure
<1>14. TuplesSound'
  <2>1. todo[w] = {} BY <1>1 DEF DestInv, WorkersSound, Out!Go
  <2>2. \A v \in Workers : todo'[v] = IF v = w THEN T ELSE todo[v] BY <1>1 DEF DestInv, Out!TypeOK
  <2>3. T \subseteq waiting /\ waiting' = waiting \ T /\ content' = content BY <1>1, <1>2
  <2>4. \A v \in Workers : \A x \in todo'[v] :
          x \notin waiting' /\ \A u \in Workers : u # v => x \notin todo'[u]
    BY <2>2, <2>3 DEF DestInv, TuplesSound
  <2>5. \A b \in OutputBlocks : \A x \in content'[b] :
          x \notin waiting' /\ \A v \in Workers : x \notin todo'[v]
    BY <2>2, <2>3 DEF DestInv, TuplesSound
  <2>6. ASSUME NEW x \in Tuples
        PROVE  \/ x \in waiting'
               \/ \E v \in Workers : x \in todo'[v]
               \/ \E b \in OutputBlocks : x \in content'[b]
    <3>1. CASE x \in waiting BY <2>2, <2>3, <3>1
    <3>2. CASE \E v \in Workers : x \in todo[v] BY <2>1, <2>2, <3>2
    <3> QED BY <2>3, <3>1, <3>2 DEF DestInv, TuplesSound
  <2> QED BY <2>3, <2>4, <2>5, <2>6 DEF DestInv, TuplesSound
<1>15. Accounted' BY <1>2, <1>8, <1>9 DEF DestInv, Accounted
<1> QED BY <1>6, <1>7, <1>9, <1>10, <1>11, <1>12, <1>13, <1>14, <1>15 DEF DestInv

\* A worker gets a block that nobody else has, from the pool or a new one.
LEMMA Got ==
    ASSUME Out!DestinationAssumption, DestInv, UNCHANGED (which = "create"),
           NEW w \in Workers, NEW b \in OutputBlocks, Out!Go(w, "get", "insert"),
           wblock' = [wblock EXCEPT ![w] = b],
           UNCHANGED <<waiting, todo, mark, wpart, full, content, rebuild, done_block_ids>>,
           windex' \in OutputBlocks \cup {Out!None}, windex <= windex', b <= windex',
           available_block_refs' \in [Partitions -> Seq(OutputBlocks)],
           available_block_ids' \in [Partitions -> Seq(OutputBlocks)],
           \A p \in Partitions : /\ Out!IsInjective(available_block_refs'[p])
                                 /\ Out!IsInjective(available_block_ids'[p])
                                 /\ Refs(p)' = Refs(p) \ {b} /\ Ids(p)' = Ids(p) \ {b},
           Out!Streamed' = Out!Streamed, MailSound',
           b \notin rebuild \cup Out!Streamed, \A p \in Partitions : b \notin Done(p),
           \A v \in Workers : wblock[v] # b,
           \A x \in content[b] : Out!PartitionOf(x) = wpart[w]
    PROVE  DestInv'
<1>s. \A x : Out!PartitionOf(x)' = Out!PartitionOf(x) BY DEF Out!PartitionOf
<1>1. wblock[w] = Out!None BY DEF DestInv, WorkersSound, Out!Go
<1>2. \A p \in Partitions : Done(p)' = Done(p) BY DEF Done
<1>3. Out!TypeOK' BY DEF DestInv, Out!TypeOK, Out!Go
<1>4. WorkersSound' BY Ids0 DEF DestInv, Out!TypeOK, WorkersSound, Out!Go
<1>5. PoolSound' BY DEF DestInv, PoolSound
<1>6. Apart'
  <2>1. \A v \in Workers : wblock'[v] = IF v = w THEN b ELSE wblock[v] BY DEF DestInv, Out!TypeOK
  <2>2. \A v \in Workers : wpc'[v] = IF v = w THEN "insert" ELSE wpc[v] BY DEF DestInv, Out!TypeOK, Out!Go
  <2>3. \A v, u \in Workers : v # u /\ wblock'[v] # Out!None => wblock'[v] # wblock'[u]
    BY <2>1, Ids0 DEF DestInv, Apart
  <2>4. \A v \in Workers : wblock'[v] \notin rebuild' \cup Out!Streamed' BY <2>1 DEF DestInv, Apart
  <2>5. \A v \in Workers, p \in Partitions :
          /\ wblock'[v] \notin Refs(p)' \cup Ids(p)'
          /\ wblock'[v] \in Done(p)' => wpc'[v] = "send"
    <3> SUFFICES ASSUME NEW v \in Workers, NEW p \in Partitions
                 PROVE  /\ wblock'[v] \notin Refs(p)' \cup Ids(p)'
                        /\ wblock'[v] \in Done(p)' => wpc'[v] = "send"
      OBVIOUS
    <3>1. CASE v = w BY <1>2, <2>1, <3>1
    <3>2. CASE v # w BY <1>2, <2>1, <2>2, <3>2 DEF DestInv, Apart
    <3> QED BY <3>1, <3>2
  <2>6. rebuild' \cap Out!Streamed' = {} BY DEF DestInv, Apart
  <2>7. \A p \in Partitions : (rebuild' \cup Out!Streamed') \cap (Refs(p)' \cup Ids(p)') = {}
    BY DEF DestInv, Apart
  <2>8. \A p, q \in Partitions : Done(p)' \cap (Refs(q)' \cup Ids(q)') = {}
    BY <1>2 DEF DestInv, Apart
  <2> QED BY <2>3, <2>4, <2>5, <2>6, <2>7, <2>8 DEF Apart
<1>7. Created'
  <2>1. windex \in Nat /\ windex' \in Nat BY Ids0 DEF DestInv, Out!TypeOK
  <2>2. \A n \in 1 .. windex : n \in 1 .. windex' BY <2>1
  <2>3. \A v \in Workers : wblock'[v] = b \/ (wblock'[v] = wblock[v] /\ wblock[v] \in Nat)
    BY Ids0 DEF DestInv, Out!TypeOK
  <2>4. \A v \in Workers : wblock'[v] <= windex' BY <2>1, <2>3 DEF DestInv, Created
  <2>5. \A c \in OutputBlocks : content'[c] # {} => c <= windex'
    <3>1. \A c \in OutputBlocks : c \in Nat BY Ids0
    <3> QED BY <2>1, <3>1 DEF DestInv, Created
  <2> QED BY <1>2, <2>2, <2>4, <2>5 DEF DestInv, Created
<1>8. Pure' BY <1>s, <1>2 DEF DestInv, Out!TypeOK, Pure
<1>9. TuplesSound' BY DEF DestInv, TuplesSound
<1>10. Accounted'
  <2> SUFFICES ASSUME NEW c \in OutputBlocks, content[c] # {}
               PROVE  \/ c \in Out!Streamed \cup rebuild
                      \/ \E p \in Partitions : c \in Refs(p) \ {b}
                      \/ \E v \in Workers : wblock'[v] = c
    BY DEF Accounted
  <2>1. CASE c = b BY <2>1 DEF DestInv, Out!TypeOK
  <2>2. CASE \E v \in Workers : wblock[v] = c
    <3>1. PICK v \in Workers : wblock[v] = c BY <2>2
    <3>2. v # w BY <1>1, <3>1, Ids0
    <3> QED BY <3>1, <3>2 DEF DestInv, Out!TypeOK
  <2> QED BY <2>1, <2>2 DEF DestInv, Accounted
<1> QED BY <1>3, <1>4, <1>5, <1>6, <1>7, <1>8, <1>9, <1>10 DEF DestInv


LEMMA GetBlock ==
    ASSUME Out!DestinationAssumption, DestInv, UNCHANGED (which = "create"),
           NEW w \in Workers, Out!getBlockForInsertion(w)
    PROVE  DestInv'
<1>s. \A x : Out!PartitionOf(x)' = Out!PartitionOf(x) BY DEF Out!PartitionOf
<1> DEFINE p == wpart[w]
           refs == available_block_refs[p]
           ids == available_block_ids[p]
<1>1. /\ Out!Go(w, "get", "insert") /\ UNCHANGED <<waiting, todo, mark, wpart, full, content, rebuild>>
      /\ \/ Out!createNewBlock(w) /\ UNCHANGED Out!pool
         \/ /\ refs = <<>> /\ ids # <<>>
            /\ wblock' = [wblock EXCEPT ![w] = Out!Last(ids)]
            /\ available_block_ids' = [available_block_ids EXCEPT ![p] = Out!Front(@)]
            /\ UNCHANGED <<available_block_refs, done_block_ids, mail, windex>>
         \/ /\ refs # <<>>
            /\ wblock' = [wblock EXCEPT ![w] = Out!Last(refs)]
            /\ available_block_refs' = [available_block_refs EXCEPT ![p] = Out!Front(@)]
            /\ UNCHANGED <<available_block_ids, done_block_ids, mail, windex>>
  BY DEF Out!getBlockForInsertion
<1>2. p \in Partitions BY <1>1 DEF DestInv, Out!TypeOK, WorkersSound, Out!Go
<1>3. refs \in Seq(OutputBlocks) /\ ids \in Seq(OutputBlocks) BY <1>2, InLists DEF DestInv
<1>4. /\ available_block_refs \in [Partitions -> Seq(OutputBlocks)]
      /\ available_block_ids \in [Partitions -> Seq(OutputBlocks)]
  BY DEF DestInv, Out!TypeOK
<1>5. \A q \in Partitions : Out!IsInjective(available_block_refs[q]) /\ Out!IsInjective(available_block_ids[q])
  BY DEF DestInv, PoolSound
<1>6. windex \in Nat /\ windex \in OutputBlocks \cup {Out!None} BY Ids0 DEF DestInv, Out!TypeOK
<1> HIDE DEF p, refs, ids
<1>7. CASE Out!createNewBlock(w) /\ UNCHANGED Out!pool
  <2> DEFINE b == windex + 1
  <2>1. /\ b \in OutputBlocks /\ windex' = b /\ wblock' = [wblock EXCEPT ![w] = b]
        /\ mail' = Append(mail, [type |-> "newBlock", block |-> b, partition |-> p])
    BY <1>7 DEF Out!createNewBlock, p
  <2>2. UNCHANGED <<available_block_refs, available_block_ids, done_block_ids>> BY <1>7 DEF Out!pool
  <2>3. MailSound' /\ Out!Streamed' = Out!Streamed BY <1>2, <2>1, Announced DEF DestInv
  <2>4. b \in Nat /\ ~(b <= windex) /\ b \notin 1 .. windex /\ windex <= b BY <1>6
  <2>5. /\ b \notin rebuild \cup Out!Streamed
        /\ \A q \in Partitions : b \notin Refs(q) \cup Ids(q) \cup Done(q)
        /\ \A v \in Workers : wblock[v] # b
        /\ content[b] = {}
    BY <2>1, <2>4 DEF DestInv, Created
  <2>6. \A q \in Partitions : Refs(q)' = Refs(q) \ {b} /\ Ids(q)' = Ids(q) \ {b}
    BY <2>2, <2>5 DEF Refs, Ids
  <2> HIDE DEF b
  <2>7. b <= windex' BY <2>1, <2>4
  <2> QED BY <1>1, <1>4, <1>5, <2>1, <2>2, <2>3, <2>4, <2>5, <2>6, <2>7, Got
<1>8. CASE /\ refs = <<>> /\ ids # <<>>
           /\ wblock' = [wblock EXCEPT ![w] = Out!Last(ids)]
           /\ available_block_ids' = [available_block_ids EXCEPT ![p] = Out!Front(@)]
           /\ UNCHANGED <<available_block_refs, done_block_ids, mail, windex>>
  <2> DEFINE b == Out!Last(ids)
  <2>1. /\ Out!Front(ids) \in Seq(OutputBlocks) /\ b \in OutputBlocks /\ b \in Out!Range(ids)
        /\ Out!IsInjective(Out!Front(ids)) /\ Out!Range(Out!Front(ids)) = Out!Range(ids) \ {b}
    BY <1>2, <1>3, <1>5, <1>8, TakenOff DEF ids
  <2> HIDE DEF b
  <2>2. \A q \in Partitions : available_block_ids'[q] = IF q = p THEN Out!Front(ids) ELSE available_block_ids[q]
    BY <1>2, <1>4, <1>8 DEF ids
  <2>3. b \in Ids(p) /\ Ids(p) = Out!Range(ids) BY <2>1 DEF Ids, ids
  <2>4. \A q \in Partitions : b \notin Refs(q) /\ (q # p => b \notin Ids(q))
    BY <1>2, <2>3 DEF DestInv, PoolSound
  <2>5. \A q \in Partitions : Refs(q)' = Refs(q) \ {b} /\ Ids(q)' = Ids(q) \ {b}
    BY <1>8, <2>1, <2>2, <2>3, <2>4 DEF Refs, Ids
  <2>6. \A q \in Partitions :
          Out!IsInjective(available_block_refs'[q]) /\ Out!IsInjective(available_block_ids'[q])
    BY <1>5, <1>8, <2>1, <2>2
  <2>7. available_block_ids' \in [Partitions -> Seq(OutputBlocks)] BY <1>4, <1>8, <2>1, <2>2
  <2>8. MailSound' /\ Out!Streamed' = Out!Streamed BY <1>8, SameMail DEF DestInv
  <2>9. /\ b \notin rebuild \cup Out!Streamed /\ \A q \in Partitions : b \notin Done(q)
        /\ \A v \in Workers : wblock[v] # b
    BY <1>2, <2>3 DEF DestInv, Apart
  <2>10. content[b] = {} BY <1>s, <1>2, <2>3 DEF DestInv, Pure
  <2>11. b <= windex
    <3>1. b \in 1 .. windex BY <1>2, <2>3 DEF DestInv, Created
    <3> QED BY <1>6, <3>1
  <2>12. wblock' = [wblock EXCEPT ![w] = b] BY <1>8 DEF b
  <2>13. windex <= windex' BY <1>6, <1>8
  <2> QED BY <1>1, <1>4, <1>6, <1>8, <2>1, <2>5, <2>6, <2>7, <2>8, <2>9, <2>10, <2>11, <2>12, <2>13, Got
<1>9. CASE /\ refs # <<>>
           /\ wblock' = [wblock EXCEPT ![w] = Out!Last(refs)]
           /\ available_block_refs' = [available_block_refs EXCEPT ![p] = Out!Front(@)]
           /\ UNCHANGED <<available_block_ids, done_block_ids, mail, windex>>
  <2> DEFINE b == Out!Last(refs)
  <2>1. /\ Out!Front(refs) \in Seq(OutputBlocks) /\ b \in OutputBlocks /\ b \in Out!Range(refs)
        /\ Out!IsInjective(Out!Front(refs)) /\ Out!Range(Out!Front(refs)) = Out!Range(refs) \ {b}
    BY <1>2, <1>3, <1>5, <1>9, TakenOff DEF refs
  <2> HIDE DEF b
  <2>2. \A q \in Partitions :
          available_block_refs'[q] = IF q = p THEN Out!Front(refs) ELSE available_block_refs[q]
    BY <1>2, <1>4, <1>9 DEF refs
  <2>3. b \in Refs(p) /\ Refs(p) = Out!Range(refs) BY <2>1 DEF Refs, refs
  <2>4. \A q \in Partitions : b \notin Ids(q) /\ (q # p => b \notin Refs(q))
    BY <1>2, <2>3 DEF DestInv, PoolSound
  <2>5. \A q \in Partitions : Refs(q)' = Refs(q) \ {b} /\ Ids(q)' = Ids(q) \ {b}
    BY <1>9, <2>1, <2>2, <2>3, <2>4 DEF Refs, Ids
  <2>6. \A q \in Partitions :
          Out!IsInjective(available_block_refs'[q]) /\ Out!IsInjective(available_block_ids'[q])
    BY <1>5, <1>9, <2>1, <2>2
  <2>7. available_block_refs' \in [Partitions -> Seq(OutputBlocks)] BY <1>4, <1>9, <2>1, <2>2
  <2>8. MailSound' /\ Out!Streamed' = Out!Streamed BY <1>9, SameMail DEF DestInv
  <2>9. /\ b \notin rebuild \cup Out!Streamed /\ \A q \in Partitions : b \notin Done(q)
        /\ \A v \in Workers : wblock[v] # b
    BY <1>2, <2>3 DEF DestInv, Apart
  <2>10. \A x \in content[b] : Out!PartitionOf(x) = wpart[w] BY <1>s, <1>2, <2>3 DEF DestInv, Pure, p
  <2>11. b <= windex
    <3>1. b \in 1 .. windex BY <1>2, <2>3 DEF DestInv, Created
    <3> QED BY <1>6, <3>1
  <2>12. wblock' = [wblock EXCEPT ![w] = b] BY <1>9 DEF b
  <2>13. windex <= windex' BY <1>6, <1>9
  <2> QED BY <1>1, <1>4, <1>6, <1>9, <2>1, <2>5, <2>6, <2>7, <2>8, <2>9, <2>10, <2>11, <2>12, <2>13, Got
<1> QED BY <1>1, <1>7, <1>8, <1>9

\* A worker inserts as many of its tuples as fit into its block.
LEMMA Insert ==
    ASSUME Out!DestinationAssumption, DestInv, UNCHANGED (which = "create"),
           NEW w \in Workers, Out!insert(w)
    PROVE  DestInv'
<1>s. \A x : Out!PartitionOf(x)' = Out!PartitionOf(x) BY DEF Out!PartitionOf
<1> DEFINE mine == Out!InPartition(todo[w], wpart[w])
           b == wblock[w]
<1>1. PICK T \in SUBSET mine :
         /\ content' = [content EXCEPT ![b] = @ \cup T]
         /\ todo' = [todo EXCEPT ![w] = @ \ T]
         /\ full' = [full EXCEPT ![w] = T = {} \/ mark[w] \/ T # mine]
  BY DEF Out!insert
<1>2. /\ Out!Go(w, "insert", "return")
      /\ UNCHANGED <<waiting, mark, wblock, wpart, Out!pool, windex, mail, rebuild>>
  BY DEF Out!insert
<1>3. b \in OutputBlocks BY <1>2, Ids0 DEF DestInv, Out!TypeOK, WorkersSound, Out!Go
<1>4. T \subseteq todo[w] /\ \A x \in T : Out!PartitionOf(x) = wpart[w] BY DEF Out!InPartition
<1>5. (T = {} \/ mark[w] \/ T # mine) \in BOOLEAN BY DEF DestInv, Out!TypeOK
<1> HIDE DEF mine, b
<1>6. UNCHANGED <<available_block_refs, available_block_ids, done_block_ids>> BY <1>2 DEF Out!pool
<1>7. /\ \A v \in Workers : todo'[v] = IF v = w THEN todo[w] \ T ELSE todo[v]
      /\ \A c \in OutputBlocks : content'[c] = IF c = b THEN content[b] \cup T ELSE content[c]
      /\ \A v \in Workers : wpc'[v] = IF v = w THEN "return" ELSE wpc[v]
  BY <1>1, <1>2, <1>3 DEF DestInv, Out!TypeOK, Out!Go
<1>8. T \subseteq Tuples BY <1>4 DEF DestInv, Out!TypeOK
<1>9. Out!TypeOK'
  <2>1. todo' \in [Workers -> SUBSET Tuples] BY <1>1, <1>7 DEF DestInv, Out!TypeOK
  <2>2. content' \in [OutputBlocks -> SUBSET Tuples] BY <1>1, <1>3, <1>8 DEF DestInv, Out!TypeOK
  <2>3. full' \in [Workers -> BOOLEAN] BY <1>1, <1>5 DEF DestInv, Out!TypeOK
  <2>4. wpc' \in [Workers -> {"idle", "get", "insert", "return", "send"}]
    BY <1>2 DEF DestInv, Out!TypeOK, Out!Go
  <2> QED BY <1>2, <1>6, <2>1, <2>2, <2>3, <2>4 DEF DestInv, Out!TypeOK
<1>10. WorkersSound' BY <1>2, <1>7 DEF DestInv, WorkersSound, Out!Go
<1>11. \A p \in Partitions : Refs(p)' = Refs(p) /\ Ids(p)' = Ids(p) /\ Done(p)' = Done(p)
  BY <1>2, SamePool
<1>12. Out!Streamed' = Out!Streamed /\ MailSound' BY <1>2, SameMail DEF DestInv
<1>13. PoolSound' BY <1>2, SamePool DEF DestInv
<1>14. wpc[w] = "insert" /\ \A p \in Partitions : b \notin Refs(p) \cup Ids(p) \cup Done(p)
  BY <1>2 DEF DestInv, Apart, Out!Go, b
<1>15. Apart'
  <2>1. \A v \in Workers, p \in Partitions :
          /\ wblock'[v] \notin Refs(p)' \cup Ids(p)'
          /\ wblock'[v] \in Done(p)' => wpc'[v] = "send"
    BY <1>2, <1>7, <1>11, <1>14 DEF DestInv, Apart, b
  <2> QED BY <1>2, <1>11, <1>12, <2>1 DEF DestInv, Apart
<1>16. Created'
  <2>1. b <= windex BY DEF DestInv, Created, b
  <2> QED BY <1>2, <1>7, <1>11, <1>12, <2>1 DEF DestInv, Created
<1>17. Pure'
  <2>1. \A p \in Partitions : \A c \in Refs(p)' \cup Done(p)' : \A x \in content'[c] : Out!PartitionOf(x) = p
    BY <1>s, <1>7, <1>11, <1>14, InLists DEF DestInv, Pure
  <2>2. ASSUME NEW v \in Workers, wblock'[v] # Out!None, NEW x \in content'[wblock'[v]]
        PROVE  Out!PartitionOf(x) = wpart'[v]
    <3>1. wblock[v] \in OutputBlocks /\ wblock'[v] = wblock[v] /\ wpart'[v] = wpart[v]
      BY <1>2, <2>2 DEF DestInv, Out!TypeOK
    <3>2. CASE v = w BY <1>s, <1>4, <1>7, <2>2, <3>1, <3>2 DEF DestInv, Pure, b
    <3>3. CASE v # w
      <4>1. wblock[v] # b BY <2>2, <3>1, <3>3 DEF DestInv, Apart, b
      <4> QED BY <1>s, <1>7, <2>2, <3>1, <4>1 DEF DestInv, Pure
    <3> QED BY <3>2, <3>3
  <2>3. \A p \in Partitions : \A c \in Ids(p)' : content'[c] = {}
    BY <1>s, <1>7, <1>11, <1>14, InLists DEF DestInv, Pure
  <2> QED BY <1>s, <2>1, <2>2, <2>3 DEF Pure
<1>18. TuplesSound'
  <2>1. \A v \in Workers : \A x \in todo'[v] :
          x \notin waiting' /\ \A u \in Workers : u # v => x \notin todo'[u]
    BY <1>2, <1>7 DEF DestInv, TuplesSound
  <2>2. ASSUME NEW c \in OutputBlocks, NEW x \in content'[c]
        PROVE  x \notin waiting' /\ \A v \in Workers : x \notin todo'[v]
    <3>1. CASE x \in content[c] BY <1>2, <1>7, <3>1 DEF DestInv, TuplesSound
    <3>2. CASE x \in T BY <1>2, <1>4, <1>7, <3>2 DEF DestInv, TuplesSound
    <3> QED BY <1>7, <3>1, <3>2
  <2>3. ASSUME NEW c \in OutputBlocks, NEW d \in OutputBlocks, NEW x \in content'[c] \cap content'[d]
        PROVE  c = d
    <3>1. CASE x \in T
      <4>1. \A e \in OutputBlocks : x \notin content[e] BY <1>4, <3>1 DEF DestInv, TuplesSound
      <4> QED BY <1>7, <4>1
    <3>2. CASE x \notin T BY <1>7, <3>2 DEF DestInv, TuplesSound
    <3> QED BY <3>1, <3>2
  <2>4. ASSUME NEW x \in Tuples
        PROVE  \/ x \in waiting'
               \/ \E v \in Workers : x \in todo'[v]
               \/ \E c \in OutputBlocks : x \in content'[c]
    <3>1. CASE x \in T BY <1>3, <1>7, <3>1
    <3>2. CASE \E v \in Workers : x \in todo[v] /\ x \notin T BY <1>7, <3>2
    <3>3. CASE \E c \in OutputBlocks : x \in content[c] BY <1>7, <3>3
    <3> QED BY <1>2, <3>1, <3>2, <3>3 DEF DestInv, TuplesSound
  <2> QED BY <2>1, <2>2, <2>3, <2>4 DEF TuplesSound
<1>19. Accounted'
  <2> SUFFICES ASSUME NEW c \in OutputBlocks, content'[c] # {}
               PROVE  \/ c \in Out!Streamed \cup rebuild
                      \/ \E p \in Partitions : c \in Refs(p)
                      \/ \E v \in Workers : wblock[v] = c
    BY <1>2, <1>11, <1>12 DEF Accounted
  <2>1. CASE c = b BY <2>1 DEF b
  <2>2. CASE c # b BY <1>7, <2>2 DEF DestInv, Accounted
  <2> QED BY <2>1, <2>2
<1> QED BY <1>9, <1>10, <1>12, <1>13, <1>15, <1>16, <1>17, <1>18, <1>19 DEF DestInv

\* The end of a round: the worker has no block, and a partition if it has tuples.
LEMMA Round ==
    ASSUME Out!DestinationAssumption, DestInv,
           NEW w \in Workers, NEW from, Out!Continue(w, from), UNCHANGED todo
    PROVE  /\ \A v \in Workers : wblock'[v] = IF v = w THEN Out!None ELSE wblock[v]
           /\ \A v \in Workers : v # w => wpc'[v] = wpc[v] /\ wpart'[v] = wpart[v]
           /\ wpc' \in [Workers -> {"idle", "get", "insert", "return", "send"}]
           /\ wblock' \in [Workers -> OutputBlocks \cup {Out!None}]
           /\ wpart' \in [Workers -> Partitions \cup {Out!None}]
           /\ full' \in [Workers -> BOOLEAN]
           /\ WorkersSound'
<1>1. \/ todo[w] = {} /\ wpc' = [wpc EXCEPT ![w] = "idle"] /\ wpart' = [wpart EXCEPT ![w] = Out!None]
      \/ /\ todo[w] # {} /\ wpc' = [wpc EXCEPT ![w] = "get"]
         /\ wpart' = [wpart EXCEPT ![w] = Out!NextPartition(todo[w])]
  BY DEF Out!Continue, Out!Go
<1>2. wblock' = [wblock EXCEPT ![w] = Out!None] /\ full' = [full EXCEPT ![w] = FALSE] BY DEF Out!Continue
<1>3. todo[w] # {} => Out!NextPartition(todo[w]) \in Partitions BY NextIsOne DEF DestInv, Out!TypeOK
<1>4. /\ wblock \in [Workers -> OutputBlocks \cup {Out!None}]
      /\ wpart \in [Workers -> Partitions \cup {Out!None}]
      /\ wpc \in [Workers -> {"idle", "get", "insert", "return", "send"}]
      /\ full \in [Workers -> BOOLEAN]
  BY DEF DestInv, Out!TypeOK
<1>5. /\ \A v \in Workers : wblock'[v] = IF v = w THEN Out!None ELSE wblock[v]
      /\ \A v \in Workers : v # w => wpc'[v] = wpc[v] /\ wpart'[v] = wpart[v]
      /\ wpc' \in [Workers -> {"idle", "get", "insert", "return", "send"}]
      /\ wblock' \in [Workers -> OutputBlocks \cup {Out!None}]
      /\ wpart' \in [Workers -> Partitions \cup {Out!None}]
      /\ full' \in [Workers -> BOOLEAN]
  BY <1>1, <1>2, <1>3, <1>4
<1>6. WorkersSound'
  <2> SUFFICES ASSUME NEW v \in Workers
               PROVE  /\ wblock'[v] # Out!None <=> wpc'[v] \in {"insert", "return", "send"}
                      /\ wpart'[v] # Out!None <=> wpc'[v] # "idle"
                      /\ wpc'[v] = "idle" => todo[v] = {}
    BY DEF WorkersSound
  <2>1. CASE v # w BY <1>5, <2>1 DEF DestInv, WorkersSound
  <2>2. CASE v = w BY <1>1, <1>3, <1>4, <1>5, <2>2, Ids0
  <2> QED BY <2>1, <2>2
<1> QED BY <1>5, <1>6

\* A block that is full is sealed, one that is not goes back to the pool.
LEMMA ReturnBlock ==
    ASSUME Out!DestinationAssumption, DestInv, UNCHANGED (which = "create"),
           NEW w \in Workers, Out!returnBlock(w)
    PROVE  DestInv'
<1>s. \A x : Out!PartitionOf(x)' = Out!PartitionOf(x) BY DEF Out!PartitionOf
<1> DEFINE p == wpart[w]
           b == wblock[w]
<1>1. /\ wpc[w] = "return"
      /\ UNCHANGED <<waiting, todo, mark, available_block_ids, windex, content, mail, rebuild>>
      /\ \/ /\ Out!Go(w, "return", "send")
            /\ done_block_ids' = [done_block_ids EXCEPT ![p] = Append(@, b)]
            /\ UNCHANGED <<available_block_refs, wblock, wpart, full>>
         \/ /\ available_block_refs' = [available_block_refs EXCEPT ![p] = Append(@, b)]
            /\ Out!Continue(w, "return")
            /\ UNCHANGED done_block_ids
  BY DEF Out!returnBlock
<1>2. p \in Partitions /\ b \in OutputBlocks /\ b # Out!None
  BY <1>1, Ids0 DEF DestInv, Out!TypeOK, WorkersSound
<1>3. /\ b \notin rebuild \cup Out!Streamed
      /\ \A q \in Partitions : b \notin Refs(q) \cup Ids(q) \cup Done(q)
      /\ \A v \in Workers : v # w => wblock[v] # b
  BY <1>1, <1>2 DEF DestInv, Apart
<1>4. \A x \in content[b] : Out!PartitionOf(x) = p BY <1>s, <1>2 DEF DestInv, Pure
<1>5. b \in 1 .. windex
  <2>1. b <= windex /\ windex \in Nat BY Ids0 DEF DestInv, Created, Out!TypeOK
  <2> QED BY <1>2, <2>1, Ids0
<1>6. Out!Streamed' = Out!Streamed /\ MailSound' BY <1>1, SameMail DEF DestInv
<1>7. \A q \in Partitions : Ids(q)' = Ids(q) BY <1>1 DEF Ids
<1>8. TuplesSound' BY <1>1 DEF DestInv, TuplesSound
<1>t. /\ \A f \in {available_block_refs, available_block_ids, done_block_ids} :
           f \in [Partitions -> Seq(OutputBlocks)]
  BY DEF DestInv, Out!TypeOK
<1>b. wblock[w] = b /\ wpart[w] = p OBVIOUS
<1> HIDE DEF p, b
<1>9. CASE /\ Out!Go(w, "return", "send")
           /\ done_block_ids' = [done_block_ids EXCEPT ![p] = Append(@, b)]
           /\ UNCHANGED <<available_block_refs, wblock, wpart, full>>
  <2>1. /\ Append(done_block_ids[p], b) \in Seq(OutputBlocks)
        /\ Out!Range(Append(done_block_ids[p], b)) = Done(p) \cup {b}
    BY <1>2, <1>t, Appended DEF Done
  <2>2. \A q \in Partitions : /\ Refs(q)' = Refs(q)
                              /\ Done(q)' = IF q = p THEN Done(p) \cup {b} ELSE Done(q)
    BY <1>2, <1>9, <1>t, <2>1 DEF Done, Refs
  <2>3. \A v \in Workers : wpc'[v] = IF v = w THEN "send" ELSE wpc[v] BY <1>9 DEF DestInv, Out!TypeOK, Out!Go
  <2>4. Out!TypeOK'
    <3>1. done_block_ids' \in [Partitions -> Seq(OutputBlocks)] BY <1>2, <1>9, <1>t, <2>1
    <3>2. wpc' \in [Workers -> {"idle", "get", "insert", "return", "send"}]
      BY <1>9 DEF DestInv, Out!TypeOK, Out!Go
    <3> QED BY <1>1, <1>9, <3>1, <3>2 DEF DestInv, Out!TypeOK
  <2>5. WorkersSound' BY <1>1, <1>9, <2>3 DEF DestInv, WorkersSound
  <2>6. PoolSound' BY <1>1, <1>7, <1>9, <2>2 DEF DestInv, PoolSound
  <2>7. Apart'
    <3>1. \A v \in Workers, q \in Partitions :
            /\ wblock'[v] \notin Refs(q)' \cup Ids(q)'
            /\ wblock'[v] \in Done(q)' => wpc'[v] = "send"
      BY <1>3, <1>7, <1>9, <2>2, <2>3 DEF DestInv, Apart
    <3>2. \A q, r \in Partitions : Done(q)' \cap (Refs(r)' \cup Ids(r)') = {}
      BY <1>3, <1>7, <2>2 DEF DestInv, Apart
    <3> QED BY <1>1, <1>6, <1>7, <1>9, <2>2, <3>1, <3>2 DEF DestInv, Apart
  <2>8. Created' BY <1>1, <1>5, <1>6, <1>7, <1>9, <2>2 DEF DestInv, Created
  <2>9. Pure' BY <1>s, <1>1, <1>4, <1>7, <1>9, <2>2 DEF DestInv, Pure
  <2>10. Accounted' BY <1>1, <1>6, <1>9, <2>2 DEF DestInv, Accounted
  <2> QED BY <1>6, <1>8, <2>4, <2>5, <2>6, <2>7, <2>8, <2>9, <2>10 DEF DestInv
<1>10. CASE /\ available_block_refs' = [available_block_refs EXCEPT ![p] = Append(@, b)]
            /\ Out!Continue(w, "return")
            /\ UNCHANGED done_block_ids
  <2>1. /\ Append(available_block_refs[p], b) \in Seq(OutputBlocks)
        /\ Out!Range(Append(available_block_refs[p], b)) = Refs(p) \cup {b}
        /\ Out!IsInjective(available_block_refs[p]) => Out!IsInjective(Append(available_block_refs[p], b))
    BY <1>2, <1>3, <1>t, Appended DEF Refs
  <2>2. \A q \in Partitions : /\ Done(q)' = Done(q)
                              /\ Refs(q)' = IF q = p THEN Refs(p) \cup {b} ELSE Refs(q)
    BY <1>2, <1>10, <1>t, <2>1 DEF Done, Refs
  <2>3. /\ \A v \in Workers : wblock'[v] = IF v = w THEN Out!None ELSE wblock[v]
        /\ \A v \in Workers : v # w => wpc'[v] = wpc[v] /\ wpart'[v] = wpart[v]
        /\ wpc' \in [Workers -> {"idle", "get", "insert", "return", "send"}]
        /\ wblock' \in [Workers -> OutputBlocks \cup {Out!None}]
        /\ wpart' \in [Workers -> Partitions \cup {Out!None}]
        /\ full' \in [Workers -> BOOLEAN]
        /\ WorkersSound'
    BY <1>1, <1>10, Round
  <2>4. Out!TypeOK'
    <3>1. available_block_refs' \in [Partitions -> Seq(OutputBlocks)] BY <1>2, <1>10, <1>t, <2>1
    <3> QED BY <1>1, <1>10, <2>3, <3>1 DEF DestInv, Out!TypeOK
  <2>5. PoolSound'
    <3>1. \A q \in Partitions :
            Out!IsInjective(available_block_refs'[q]) /\ Out!IsInjective(available_block_ids'[q])
      BY <1>1, <1>2, <1>10, <1>t, <2>1 DEF DestInv, PoolSound
    <3>2. \A q, r \in Partitions :
            /\ Refs(q)' \cap Ids(r)' = {}
            /\ q # r => Refs(q)' \cap Refs(r)' = {} /\ Ids(q)' \cap Ids(r)' = {}
      BY <1>3, <1>7, <2>2 DEF DestInv, PoolSound
    <3> QED BY <3>1, <3>2 DEF PoolSound
  <2>6. Apart'
    <3>0. \A q \in Partitions : Out!None \notin Refs(q)' \cup Ids(q)' \cup Done(q)'
      BY <1>2, <1>7, <2>2, InLists, Ids0 DEF DestInv
    <3>n. Out!None \notin rebuild' \cup Out!Streamed'
      <4>1. \A n \in 1 .. windex : n # Out!None BY DEF Out!None
      <4> QED BY <1>1, <1>6, <4>1 DEF DestInv, Created
    <3>1. \A v, u \in Workers : v # u /\ wblock'[v] # Out!None => wblock'[v] # wblock'[u]
      BY <2>3 DEF DestInv, Apart
    <3>2. \A v \in Workers : wblock'[v] \notin rebuild' \cup Out!Streamed'
      BY <1>1, <1>6, <2>3, <3>n DEF DestInv, Apart
    <3>3. \A v \in Workers, q \in Partitions :
            /\ wblock'[v] \notin Refs(q)' \cup Ids(q)'
            /\ wblock'[v] \in Done(q)' => wpc'[v] = "send"
      BY <1>3, <1>7, <2>2, <2>3, <3>0 DEF DestInv, Apart
    <3>4. \A q \in Partitions : (rebuild' \cup Out!Streamed') \cap (Refs(q)' \cup Ids(q)') = {}
      BY <1>1, <1>3, <1>6, <1>7, <2>2 DEF DestInv, Apart
    <3>5. \A q, r \in Partitions : Done(q)' \cap (Refs(r)' \cup Ids(r)') = {}
      BY <1>3, <1>7, <2>2 DEF DestInv, Apart
    <3> QED BY <1>1, <1>6, <3>1, <3>2, <3>3, <3>4, <3>5 DEF DestInv, Apart
  <2>7. Created'
    <3>1. Out!None <= windex BY Ids0 DEF DestInv, Out!TypeOK
    <3>2. \A v \in Workers : wblock'[v] <= windex' BY <1>1, <2>3, <3>1 DEF DestInv, Created
    <3> QED BY <1>1, <1>5, <1>6, <1>7, <2>2, <3>2 DEF DestInv, Created
  <2>8. Pure'
    <3>1. \A v \in Workers :
            wblock'[v] # Out!None => \A x \in content'[wblock'[v]] : Out!PartitionOf(x) = wpart'[v]
      BY <1>s, <1>1, <2>3 DEF DestInv, Pure
    <3> QED BY <1>s, <1>1, <1>4, <1>7, <2>2, <3>1 DEF DestInv, Pure
  <2>9. Accounted'
    <3> SUFFICES ASSUME NEW c \in OutputBlocks, content[c] # {}
                 PROVE  \/ c \in Out!Streamed \cup rebuild
                        \/ \E q \in Partitions : c \in Refs(q)'
                        \/ \E v \in Workers : wblock'[v] = c
      BY <1>1, <1>6 DEF Accounted
    <3>1. CASE c = b BY <1>2, <2>2, <3>1
    <3>2. CASE c # b BY <1>b, <2>2, <2>3, <3>2 DEF DestInv, Accounted
    <3> QED BY <3>1, <3>2
  <2> QED BY <1>6, <1>8, <2>3, <2>4, <2>5, <2>6, <2>7, <2>8, <2>9 DEF DestInv
<1> QED BY <1>1, <1>9, <1>10 DEF p, b

\* A sealed block is streamed by the worker that sealed it.
LEMMA SendFilled ==
    ASSUME Out!DestinationAssumption, DestInv, UNCHANGED (which = "create"),
           NEW w \in Workers, Out!sendBlockFilledMessage(w)
    PROVE  DestInv'
<1>s. \A x : Out!PartitionOf(x)' = Out!PartitionOf(x) BY DEF Out!PartitionOf
<1> DEFINE b == wblock[w]
<1>1. /\ wpc[w] = "send" /\ Out!Continue(w, "send")
      /\ mail' = Append(mail, [type |-> "pipeline", block |-> b, partition |-> Out!None])
      /\ UNCHANGED <<waiting, todo, mark, Out!pool, windex, content, rebuild>>
  BY DEF Out!sendBlockFilledMessage, Out!Continue, Out!Go
<1>2. b \in OutputBlocks /\ b # Out!None BY <1>1, Ids0 DEF DestInv, Out!TypeOK, WorkersSound
<1>3. /\ b \notin rebuild \cup Out!Streamed
      /\ \A q \in Partitions : b \notin Refs(q) \cup Ids(q)
      /\ \A v \in Workers : v # w => wblock[v] # b
  BY <1>2 DEF DestInv, Apart
<1>4. b <= windex BY DEF DestInv, Created
<1>5. b \in 1 .. windex
  <2>1. windex \in Nat BY Ids0 DEF DestInv, Out!TypeOK
  <2> QED BY <1>2, <1>4, <2>1, Ids0
<1>b. wblock[w] = b OBVIOUS
<1> HIDE DEF b
<1>6. MailSound' /\ Out!Streamed' = Out!Streamed \cup {b} BY <1>1, <1>2, <1>3, <1>4, StreamedNow DEF DestInv
<1>7. /\ \A v \in Workers : wblock'[v] = IF v = w THEN Out!None ELSE wblock[v]
      /\ \A v \in Workers : v # w => wpc'[v] = wpc[v] /\ wpart'[v] = wpart[v]
      /\ wpc' \in [Workers -> {"idle", "get", "insert", "return", "send"}]
      /\ wblock' \in [Workers -> OutputBlocks \cup {Out!None}]
      /\ wpart' \in [Workers -> Partitions \cup {Out!None}]
      /\ full' \in [Workers -> BOOLEAN]
      /\ WorkersSound'
  BY <1>1, Round
<1>8. UNCHANGED <<available_block_refs, available_block_ids, done_block_ids>> BY <1>1 DEF Out!pool
<1>9. \A p \in Partitions : Refs(p)' = Refs(p) /\ Ids(p)' = Ids(p) /\ Done(p)' = Done(p)
  BY <1>1, SamePool
<1>10. PoolSound' BY <1>1, SamePool DEF DestInv
<1>11. Out!TypeOK' BY <1>1, <1>7, <1>8 DEF DestInv, Out!TypeOK
<1>12. TuplesSound' BY <1>1 DEF DestInv, TuplesSound
<1>13. Apart'
  <2>0. \A q \in Partitions : Out!None \notin Refs(q) \cup Ids(q) \cup Done(q) BY InLists, Ids0 DEF DestInv
  <2>n. Out!None \notin rebuild \cup Out!Streamed'
    <3>1. \A n \in 1 .. windex : n # Out!None BY DEF Out!None
    <3> QED BY <1>2, <1>6, <3>1 DEF DestInv, Created
  <2>1. \A v, u \in Workers : v # u /\ wblock'[v] # Out!None => wblock'[v] # wblock'[u]
    BY <1>7 DEF DestInv, Apart
  <2>2. \A v \in Workers : wblock'[v] \notin rebuild' \cup Out!Streamed'
    BY <1>1, <1>3, <1>6, <1>7, <2>n DEF DestInv, Apart
  <2>3. \A v \in Workers, q \in Partitions :
          /\ wblock'[v] \notin Refs(q)' \cup Ids(q)'
          /\ wblock'[v] \in Done(q)' => wpc'[v] = "send"
    BY <1>7, <1>9, <2>0 DEF DestInv, Apart
  <2>4. \A q \in Partitions : (rebuild' \cup Out!Streamed') \cap (Refs(q)' \cup Ids(q)') = {}
    BY <1>1, <1>3, <1>6, <1>9 DEF DestInv, Apart
  <2>5. rebuild' \cap Out!Streamed' = {} BY <1>1, <1>3, <1>6 DEF DestInv, Apart
  <2> QED BY <1>9, <2>1, <2>2, <2>3, <2>4, <2>5 DEF DestInv, Apart
<1>14. Created'
  <2>1. Out!None <= windex BY Ids0 DEF DestInv, Out!TypeOK
  <2>2. \A v \in Workers : wblock'[v] <= windex' BY <1>1, <1>7, <2>1 DEF DestInv, Created
  <2> QED BY <1>1, <1>5, <1>6, <1>9, <2>2 DEF DestInv, Created
<1>15. Pure'
  <2>1. \A v \in Workers :
          wblock'[v] # Out!None => \A x \in content'[wblock'[v]] : Out!PartitionOf(x) = wpart'[v]
    BY <1>s, <1>1, <1>7 DEF DestInv, Pure
  <2> QED BY <1>s, <1>1, <1>9, <2>1 DEF DestInv, Pure
<1>16. Accounted'
  <2> SUFFICES ASSUME NEW c \in OutputBlocks, content[c] # {}
               PROVE  \/ c \in Out!Streamed' \cup rebuild
                      \/ \E q \in Partitions : c \in Refs(q)
                      \/ \E v \in Workers : wblock'[v] = c
    BY <1>1, <1>9 DEF Accounted
  <2>1. CASE c = b BY <1>6, <2>1
  <2>2. CASE c # b BY <1>b, <1>6, <1>7, <2>2 DEF DestInv, Accounted
  <2> QED BY <2>1, <2>2
<1> QED BY <1>6, <1>7, <1>10, <1>11, <1>12, <1>13, <1>14, <1>15, <1>16 DEF DestInv

\* When all is inserted, what the pool still has is to be rebuilt ...
LEMMA PartiallyFilled ==
    ASSUME Out!DestinationAssumption, DestInv, UNCHANGED (which = "create"),
           Out!getPartiallyFilledBlocks
    PROVE  DestInv'
<1>s. \A x : Out!PartitionOf(x)' = Out!PartitionOf(x) BY DEF Out!PartitionOf
<1>1. /\ \A w \in Workers : wpc[w] = "idle"
      /\ rebuild = {} /\ rebuild' = UNION {Refs(p) : p \in Partitions}
      /\ available_block_refs' = [p \in Partitions |-> <<>>]
      /\ UNCHANGED <<waiting, todo, mark, Out!local, available_block_ids, done_block_ids, windex,
                     content, mail>>
  BY DEF Out!getPartiallyFilledBlocks, Out!AllInserted, Refs
<1>2. UNCHANGED <<wpc, wblock, wpart, full>> BY <1>1 DEF Out!local
<1>3. \A p \in Partitions : Refs(p)' = {} /\ Ids(p)' = Ids(p) /\ Done(p)' = Done(p)
  BY <1>1 DEF Refs, Ids, Done, Out!Range
<1>4. Out!Streamed' = Out!Streamed /\ MailSound' BY <1>1, SameMail DEF DestInv
<1>5. \A b : b \in rebuild' <=> \E p \in Partitions : b \in Refs(p) BY <1>1
<1>6. \A w \in Workers : wblock[w] = Out!None BY <1>1 DEF DestInv, WorkersSound
<1>7. Out!TypeOK'
  <2>1. available_block_refs' \in [Partitions -> Seq(OutputBlocks)]
    <3>1. <<>> \in Seq(OutputBlocks) BY EmptySeq
    <3> QED BY <1>1, <3>1
  <2>2. rebuild' \subseteq OutputBlocks BY <1>5, InLists DEF DestInv
  <2> QED BY <1>1, <1>2, <2>1, <2>2 DEF DestInv, Out!TypeOK
<1>8. WorkersSound' BY <1>1, <1>2 DEF DestInv, WorkersSound
<1>9. PoolSound'
  <2>1. \A p \in Partitions : Out!IsInjective(available_block_refs'[p]) BY <1>1 DEF Out!IsInjective
  <2> QED BY <1>1, <1>3, <2>1 DEF DestInv, PoolSound
<1>10. Apart'
  <2>1. \A w \in Workers : wblock'[w] \notin rebuild' \cup Out!Streamed'
    BY <1>2, <1>4, <1>5 DEF DestInv, Apart
  <2>2. \A w \in Workers, p \in Partitions :
          wblock'[w] \notin Refs(p)' \cup Ids(p)' /\ (wblock'[w] \in Done(p)' => wpc'[w] = "send")
    BY <1>2, <1>3 DEF DestInv, Apart
  <2>3. rebuild' \cap Out!Streamed' = {} BY <1>4, <1>5 DEF DestInv, Apart
  <2>4. \A p \in Partitions : rebuild' \cap Ids(p)' = {} BY <1>3, <1>5 DEF DestInv, PoolSound
  <2>5. \A p \in Partitions : (rebuild' \cup Out!Streamed') \cap (Refs(p)' \cup Ids(p)') = {}
    BY <1>3, <1>4, <2>4 DEF DestInv, Apart
  <2>6. \A p, q \in Partitions : Done(p)' \cap (Refs(q)' \cup Ids(q)') = {} BY <1>3 DEF DestInv, Apart
  <2>7. \A v, w \in Workers : v # w /\ wblock'[v] # Out!None => wblock'[v] # wblock'[w]
    BY <1>2, <1>6
  <2> QED BY <2>1, <2>2, <2>3, <2>5, <2>6, <2>7 DEF Apart
<1>11. Created' BY <1>1, <1>2, <1>3, <1>4, <1>5 DEF DestInv, Created
<1>12. Pure' BY <1>s, <1>1, <1>2, <1>3 DEF DestInv, Pure
<1>13. TuplesSound' BY <1>1 DEF DestInv, TuplesSound
<1>14. Accounted' BY <1>1, <1>2, <1>4, <1>5 DEF DestInv, Accounted
<1> QED BY <1>4, <1>7, <1>8, <1>9, <1>10, <1>11, <1>12, <1>13, <1>14 DEF DestInv

\* ... and rebuilding it streams it.
LEMMA Rebuild ==
    ASSUME Out!DestinationAssumption, DestInv, UNCHANGED (which = "create"),
           NEW b \in OutputBlocks, Out!executeRebuild(b)
    PROVE  DestInv'
<1>s. \A x : Out!PartitionOf(x)' = Out!PartitionOf(x) BY DEF Out!PartitionOf
<1>1. /\ b \in rebuild /\ rebuild' = rebuild \ {b}
      /\ mail' = Append(mail, [type |-> "pipeline", block |-> b, partition |-> Out!None])
      /\ UNCHANGED <<waiting, todo, mark, Out!local, Out!pool, windex, content>>
  BY DEF Out!executeRebuild
<1>2. UNCHANGED <<wpc, wblock, wpart, full>> BY <1>1 DEF Out!local
<1>3. UNCHANGED <<available_block_refs, available_block_ids, done_block_ids>> BY <1>1 DEF Out!pool
<1>4. b \notin Out!Streamed BY <1>1 DEF DestInv, Apart
<1>5. b \in 1 .. windex BY <1>1 DEF DestInv, Created
<1>6. b <= windex
  <2>1. windex \in Nat BY Ids0 DEF DestInv, Out!TypeOK
  <2> QED BY <1>5, <2>1
<1>7. MailSound' /\ Out!Streamed' = Out!Streamed \cup {b} BY <1>1, <1>4, <1>6, StreamedNow DEF DestInv
<1>8. \A p \in Partitions : Refs(p)' = Refs(p) /\ Ids(p)' = Ids(p) /\ Done(p)' = Done(p)
  BY <1>1, SamePool
<1>9. PoolSound' BY <1>1, SamePool DEF DestInv
<1>10. Out!TypeOK' BY <1>1, <1>2, <1>3 DEF DestInv, Out!TypeOK
<1>11. WorkersSound' BY <1>1, <1>2 DEF DestInv, WorkersSound
<1>12. rebuild' \cup Out!Streamed' = rebuild \cup Out!Streamed BY <1>1, <1>7
<1>13. Apart'
  <2>1. rebuild' \cap Out!Streamed' = {} BY <1>1, <1>7 DEF DestInv, Apart
  <2> QED BY <1>2, <1>8, <1>12, <2>1 DEF DestInv, Apart
<1>14. Created' BY <1>1, <1>2, <1>8, <1>12 DEF DestInv, Created
<1>15. Pure' BY <1>s, <1>1, <1>2, <1>8 DEF DestInv, Pure
<1>16. TuplesSound' BY <1>1 DEF DestInv, TuplesSound
<1>17. Accounted' BY <1>1, <1>2, <1>8, <1>12 DEF DestInv, Accounted
<1> QED BY <1>7, <1>9, <1>10, <1>11, <1>13, <1>14, <1>15, <1>16, <1>17 DEF DestInv

LEMMA NothingMoves == ASSUME DestInv, UNCHANGED Out!vars PROVE DestInv'
<1>1. UNCHANGED <<which = "create", waiting, todo, mark, wpc, wblock, wpart, full, available_block_refs,
                  available_block_ids,
                  done_block_ids, windex, content, mail, rebuild>>
  BY DEF Out!vars, Out!local, Out!pool
<1>2. \A p \in Partitions : Refs(p)' = Refs(p) /\ Ids(p)' = Ids(p) /\ Done(p)' = Done(p)
  BY <1>1 DEF Refs, Ids, Done
<1>3. Out!Streamed' = Out!Streamed /\ MailSound' BY <1>1, SameMail DEF DestInv
<1>4. Out!TypeOK' BY <1>1 DEF DestInv, Out!TypeOK
<1>5. WorkersSound' BY <1>1 DEF DestInv, WorkersSound
<1>6. PoolSound' BY <1>1, <1>2 DEF DestInv, PoolSound
<1>7. Apart' BY <1>1, <1>2, <1>3 DEF DestInv, Apart
<1>8. Created' BY <1>1, <1>2, <1>3 DEF DestInv, Created
<1>9. Pure'
  <2>1. \A x : Out!PartitionOf(x)' = Out!PartitionOf(x) BY <1>1 DEF Out!PartitionOf
  <2> QED BY <1>1, <1>2, <2>1 DEF DestInv, Pure
<1>10. TuplesSound' BY <1>1 DEF DestInv, TuplesSound
<1>11. Accounted' BY <1>1, <1>2, <1>3 DEF DestInv, Accounted
<1> QED BY <1>3, <1>4, <1>5, <1>6, <1>7, <1>8, <1>9, <1>10, <1>11 DEF DestInv

LEMMA DestStep == Out!DestinationAssumption /\ DestInv /\ (Out!Next \/ UNCHANGED Out!vars) => DestInv'
<1> SUFFICES ASSUME Out!DestinationAssumption, DestInv, Out!Next \/ UNCHANGED Out!vars PROVE DestInv' OBVIOUS
<1>1. CASE UNCHANGED Out!vars BY <1>1, NothingMoves
<1>2. CASE Out!Next /\ UNCHANGED (which = "create")
  <2>1. CASE \E w \in Workers : Out!bulkInsertTuples(w) BY <1>2, <2>1, BulkInsert
  <2>2. CASE \E w \in Workers : Out!Work(w)
    BY <1>2, <2>2, GetBlock, Insert, ReturnBlock, SendFilled DEF Out!Work
  <2>3. CASE Out!getPartiallyFilledBlocks BY <1>2, <2>3, PartiallyFilled
  <2>4. CASE \E b \in OutputBlocks : Out!executeRebuild(b) BY <1>2, <2>4, Rebuild
  <2> QED BY <1>1, <1>2, <2>1, <2>2, <2>3, <2>4 DEF Out!Next
<1> QED BY <1>1, <1>2 DEF Out!Next

-----------------------------------------------------------------------------
(* What the invariant implies *)

LEMMA Implied == Out!DestinationAssumption /\ DestInv => Out!DestinationExact
<1> SUFFICES ASSUME Out!DestinationAssumption, DestInv PROVE Out!DestinationExact OBVIOUS
<1>1. Out!TypeOK /\ Out!StreamedOnce BY DEF DestInv, MailSound
<1>2. Out!OneUser
  <2>1. \A b : b \in Out!Pooled <=> \E p \in Partitions : b \in Refs(p) \cup Ids(p)
    BY DEF Out!Pooled, Refs, Ids
  <2>2. \A w \in Workers : wblock[w] \notin Out!Pooled BY <2>1 DEF DestInv, Apart
  <2> QED BY <2>2 DEF Out!OneUser, DestInv, Apart
<1>3. Out!EveryTupleOnce
  <2> DEFINE open == waiting \cup UNION {todo[w] : w \in Workers}
  <2>1. ASSUME NEW x \in Tuples \ open PROVE Cardinality({b \in OutputBlocks : x \in content[b]}) = 1
    <3>1. PICK b \in OutputBlocks : x \in content[b] BY DEF DestInv, TuplesSound
    <3>2. {c \in OutputBlocks : x \in content[c]} = {b} BY <3>1 DEF DestInv, TuplesSound
    <3>3. Cardinality({b}) = 1 BY FS_Singleton
    <3> QED BY <3>2, <3>3
  <2>2. \A x \in open, b \in OutputBlocks : x \notin content[b] BY DEF DestInv, TuplesSound
  <2>3. ASSUME NEW p \in Partitions, NEW b \in Done(p) \cup Refs(p)
        PROVE  content[b] = Out!InPartition(content[b], p)
    BY DEF DestInv, Pure, Out!InPartition
  <2> QED BY <2>1, <2>2, <2>3, SameCounts DEF Out!EveryTupleOnce, Done, Refs
<1>4. Out!OutputComplete
  <2> SUFFICES ASSUME Out!Completed, NEW b \in OutputBlocks, content[b] # {} PROVE b \in Out!Streamed
    BY DEF Out!OutputComplete
  <2>1. \A p \in Partitions : Refs(p) = {} BY DEF Out!Completed, Refs, Out!Range
  <2>2. \A w \in Workers : wblock[w] = Out!None BY DEF Out!Completed, Out!AllInserted, DestInv, WorkersSound
  <2>3. \A w \in Workers : wblock[w] # b BY <2>2, Ids0
  <2> QED BY <2>1, <2>3 DEF DestInv, Accounted, Out!Completed
<1> QED BY <1>1, <1>2, <1>3, <1>4 DEF Out!DestinationExact

(***************************************************************************)
(* However many workers insert however many tuples into however many       *)
(* partitions, with blocks from a pool or always new ones: no block is in  *)
(* two hands, between getBlockForInsertion() and returnBlock() of one      *)
(* worker and those of another; no tuple is lost when a block fills up in  *)
(* the middle of bulkInsertTuples(), or is inserted twice; a block is      *)
(* streamed once, by the worker that filled it or by its rebuild work      *)
(* order, never before the catalog has heard of it; and when all is done   *)
(* every block that has a tuple was streamed.                              *)
(***************************************************************************)
THEOREM DestinationExactHolds == SuiteSpec => []DestinationExact
<1>1. SuiteInit => DestInv BY DestInit, DestinationAssumed DEF SuiteInit
<1>2. DestInv /\ [SuiteNext]_suite => DestInv'
  <2> SUFFICES ASSUME DestInv, [SuiteNext]_suite PROVE DestInv' OBVIOUS
  <2>1. CASE Out!Next BY <2>1, DestStep, DestinationAssumed
  <2>2. CASE UNCHANGED <<which, destination>>
    <3>1. UNCHANGED Out!vars
      BY <2>2 DEF destination, Out!vars, Out!local, Out!pool
    <3> QED BY <3>1, DestStep, DestinationAssumed
  <2> QED BY <2>1, <2>2 DEF SuiteNext, suite
<1>3. DestInv => DestinationExact BY Implied, DestinationAssumed DEF DestinationExact
<1> QED BY <1>1, <1>2, <1>3, PTL DEF SuiteSpec
=============================================================================
