--------------------------- MODULE StorageManager ---------------------------
(***************************************************************************)
(* The buffer pool: threads create, reference, modify, release, save and   *)
(* delete blocks while makeRoomForBlockOrBlob() of other threads evicts.   *)
(* A block's shard lock (ShardedLockManager) stands between a thread that  *)
(* takes a reference and one that evicts; shard_count_ keeps an evicting   *)
(* thread from waiting for a lock it holds itself.  The shard locks are    *)
(* abstract shared locks, which SpinSharedMutex implements.                *)
(***************************************************************************)
EXTENDS EvictionPolicy, FiniteSets

CONSTANTS
    Threads,
    Shards,
    Shard,              \* hash_(block) % N
    max_memory_usage    \* the soft limit, in slots; a block takes one slot

ASSUME StorageAssumption ==
    /\ IsFiniteSet(Threads)
    /\ Blocks \subseteq Nat \ {0}
    /\ Shard \in [Blocks -> Shards]
    /\ max_memory_usage \in Nat

VARIABLES
    blocks,          \* the blocks in blocks_
    dirty,           \* those of them that are marked dirty
    saved,           \* blocks whose file holds what was last written to them
    usage,           \* total_memory_usage_
    block_index,     \* block_index_
    known,           \* ids that were returned by createBlock() and not deleted
    raced,           \* history: blocks modified during a call of saveBlockOrBlob(),
                     \* after their file was written, and not written since
    shard_count,     \* shard_count_, zero where there is no entry
    reading,         \* per shard, the threads that hold its mutex shared
    writing,         \* per shard, the threads that hold its mutex exclusively
    held,            \* per thread, the blocks it has a CountedReference to
    pc, block, victim

store  == <<blocks, dirty, saved, usage, block_index, known, raced>>
shards == <<shard_count, reading, writing>>
vars   == <<policy, store, shards, held, pc, block, victim>>

None == 0

GetPlaces  == {"readLock", "find", "release", "countAgain", "writeLock", "findAgain", "insert", "refer",
               "unlock", "releaseAgain"}
RoomPlaces == {"test", "choose", "getShard", "evictionLock", "isLoaded", "getRefCount", "save",
               "markClean", "evict", "free", "releaseVictim", "unlockVictim", "fits", "gaveUp"}
Places     == {"idle", "create", "created", "saving", "dEvict", "dFree", "dEvicted", "dFile",
               "dDeleted", "thrown"} \cup GetPlaces \cup RoomPlaces

Init ==
    /\ PolicyInit
    /\ blocks = {} /\ dirty = {} /\ saved = {} /\ usage = 0 /\ block_index = 0 /\ known = {}
    /\ raced = {}
    /\ shard_count = [s \in Shards |-> 0]
    /\ reading = [s \in Shards |-> {}]
    /\ writing = [s \in Shards |-> {}]
    /\ held = [t \in Threads |-> {}]
    /\ pc = [t \in Threads |-> "idle"]
    /\ block = [t \in Threads |-> None]
    /\ victim = [t \in Threads |-> None]

Go(t, from, to) == pc[t] = from /\ pc' = [pc EXCEPT ![t] = to]

-----------------------------------------------------------------------------
(* ShardedLockManager, and the locks of its array *)

count(b)   == shard_count' = [shard_count EXCEPT ![Shard[b]] = @ + 1]
release(b) == shard_count' = [shard_count EXCEPT ![Shard[b]] = @ - 1]

lockShared(t, b) ==
    /\ writing[Shard[b]] = {}
    /\ reading' = [reading EXCEPT ![Shard[b]] = @ \cup {t}]

unlockShared(t, b) == reading' = [reading EXCEPT ![Shard[b]] = @ \ {t}]

lock(t, b) ==
    /\ writing[Shard[b]] = {} /\ reading[Shard[b]] = {}
    /\ writing' = [writing EXCEPT ![Shard[b]] = {t}]

unlock(t, b) == writing' = [writing EXCEPT ![Shard[b]] = @ \ {t}]

\* blocks_shared_mutex_ can be taken exclusively: nobody is within
\* saveBlockOrBlob(), which alone holds it, shared, for more than one step.
BlocksUnlocked == \A t \in Threads : pc[t] \notin {"markClean", "saving"}

-----------------------------------------------------------------------------
(* getBlockInternal(), getBlobInternal() *)

\* The constructor of CountedReference.
reference(t, b) ==
    /\ blockReferenced(b)
    /\ held' = [held EXCEPT ![t] = @ \cup {b}]

getBlock(t, b) ==
    /\ b \in known \ held[t]
    /\ Go(t, "idle", "readLock")
    /\ block' = [block EXCEPT ![t] = b]
    /\ count(b)
    /\ UNCHANGED <<policy, store, reading, writing, held, victim>>

readLock(t) ==
    /\ Go(t, "readLock", "find")
    /\ lockShared(t, block[t])
    /\ UNCHANGED <<policy, store, shard_count, writing, held, block, victim>>

\* The look-up, and a reference if the block is there, under the read lock.
find(t) ==
    /\ Go(t, "find", "release")
    /\ IF block[t] \in blocks THEN reference(t, block[t]) ELSE UNCHANGED <<policy, held>>
    /\ unlockShared(t, block[t])
    /\ UNCHANGED <<store, shard_count, writing, block, victim>>

\* lock_manager_.release(); with a reference getBlockInternal() returns.
releaseShard(t) ==
    /\ Go(t, "release", IF block[t] \in held[t] THEN "idle" ELSE "countAgain")
    /\ release(block[t])
    /\ block' = IF block[t] \in held[t] THEN [block EXCEPT ![t] = None] ELSE block
    /\ UNCHANGED <<policy, store, reading, writing, held, victim>>

countAgain(t) ==
    /\ Go(t, "countAgain", "writeLock")
    /\ count(block[t])
    /\ UNCHANGED <<policy, store, reading, writing, held, block, victim>>

writeLock(t) ==
    /\ Go(t, "writeLock", "findAgain")
    /\ lock(t, block[t])
    /\ UNCHANGED <<policy, store, shard_count, reading, held, block, victim>>

findAgain(t) ==
    /\ IF block[t] \in blocks
       THEN Go(t, "findAgain", "unlock") /\ reference(t, block[t])
       ELSE Go(t, "findAgain", "test") /\ UNCHANGED <<policy, held>>
    /\ UNCHANGED <<store, shards, block, victim>>

\* insertBlockHandleAfterLoad()
insert(t) ==
    /\ Go(t, "insert", "refer")
    /\ BlocksUnlocked
    /\ blocks' = blocks \cup {block[t]}
    /\ UNCHANGED <<policy, dirty, saved, usage, block_index, known, raced, shards, held, block, victim>>

refer(t) ==
    /\ Go(t, "refer", "unlock")
    /\ reference(t, block[t])
    /\ UNCHANGED <<store, shards, block, victim>>

unlockBlock(t) ==
    /\ Go(t, "unlock", "releaseAgain")
    /\ unlock(t, block[t])
    /\ UNCHANGED <<policy, store, shard_count, reading, held, block, victim>>

releaseAgain(t) ==
    /\ Go(t, "releaseAgain", "idle")
    /\ release(block[t])
    /\ block' = [block EXCEPT ![t] = None]
    /\ UNCHANGED <<policy, store, reading, writing, held, victim>>

-----------------------------------------------------------------------------
(* allocateSlots() and makeRoomForBlockOrBlob(), called by a thread that   *)
(* loads block[t] or, when block[t] is None, creates one                   *)

test(t) ==
    /\ Go(t, "test", IF usage + 1 > max_memory_usage THEN "choose" ELSE "fits")
    /\ UNCHANGED <<policy, store, shards, held, block, victim>>

chooseVictim(t) ==
    \/ /\ Candidates = {}
       /\ Go(t, "choose", "gaveUp")
       /\ UNCHANGED <<policy, store, shards, held, block, victim>>
    \/ \E b \in Candidates :
         /\ Go(t, "choose", "getShard")
         /\ chooseBlockToEvict(b)
         /\ victim' = [victim EXCEPT ![t] = b]
         /\ UNCHANGED <<store, shards, held, block>>

\* lock_manager_.get(block_to_evict, &has_collision): a shard that anybody uses
\* is a collision, and the thread gives up making room.
getShard(t) ==
    \/ /\ Go(t, "getShard", "gaveUp")
       /\ shard_count[Shard[victim[t]]] > 0
       /\ victim' = [victim EXCEPT ![t] = None]
       /\ UNCHANGED <<policy, store, shards, held, block>>
    \/ /\ Go(t, "getShard", "evictionLock")
       /\ shard_count[Shard[victim[t]]] = 0
       /\ count(victim[t])
       /\ UNCHANGED <<policy, store, reading, writing, held, block, victim>>

evictionLock(t) ==
    /\ Go(t, "evictionLock", "isLoaded")
    /\ lock(t, victim[t])
    /\ UNCHANGED <<policy, store, shard_count, reading, held, block, victim>>

\* Somebody else may have evicted the block.
isLoaded(t) ==
    /\ Go(t, "isLoaded", IF victim[t] \in blocks THEN "getRefCount" ELSE "releaseVictim")
    /\ UNCHANGED <<policy, store, shards, held, block, victim>>

\* Mutant: the count is not looked at again under the lock.
GetRefCountNot(t) ==
    /\ Go(t, "getRefCount", "save")
    /\ UNCHANGED <<policy, store, shards, held, block, victim>>

\* Somebody may have sneaked in and referenced it.
getRefCount(t) ==
    /\ Go(t, "getRefCount", IF ref_count[victim[t]] > 0 THEN "releaseVictim" ELSE "save")
    /\ UNCHANGED <<policy, store, shards, held, block, victim>>

\* saveBlockOrBlob(): a dirty block is written to its file, and then marked
\* clean.  The file has what the memory held when it was written.
Write(b) ==
    /\ b \in dirty
    /\ saved' = saved \cup {b}
    /\ raced' = raced \ {b}
    /\ UNCHANGED <<blocks, dirty, usage, block_index, known>>

markClean(b) ==
    /\ dirty' = dirty \ {b}
    /\ UNCHANGED <<blocks, saved, usage, block_index, known, raced>>

\* Mutant: the victim is evicted unsaved.
SaveNothing(t) ==
    /\ Go(t, "save", IF victim[t] \in blocks THEN "evict" ELSE "releaseVictim")
    /\ UNCHANGED <<policy, store, shards, held, block, victim>>

saveVictim(t) ==
    /\ \/ Go(t, "save", "markClean") /\ Write(victim[t])
       \/ Go(t, "save", "evict") /\ victim[t] \in blocks \ dirty /\ UNCHANGED store
       \/ Go(t, "save", "releaseVictim") /\ victim[t] \notin blocks /\ UNCHANGED store
    /\ UNCHANGED <<policy, shards, held, block, victim>>

markVictimClean(t) ==
    /\ Go(t, "markClean", "evict")
    /\ markClean(victim[t])
    /\ UNCHANGED <<policy, shards, held, block, victim>>

\* evictBlockOrBlob(): the entry is erased under blocks_shared_mutex_, and the
\* memory given back when that has been released.
Evict(b) ==
    /\ BlocksUnlocked
    /\ b \in blocks
    /\ blocks' = blocks \ {b}
    /\ dirty' = dirty \ {b}
    /\ UNCHANGED <<saved, usage, block_index, known, raced>>

deallocateSlots ==
    /\ usage' = usage - 1
    /\ UNCHANGED <<blocks, dirty, saved, block_index, known, raced>>

evictVictim(t) ==
    \/ /\ Go(t, "evict", "free")
       /\ Evict(victim[t])
       /\ UNCHANGED <<policy, shards, held, block, victim>>
    \/ /\ Go(t, "evict", "thrown")           \* BlockNotFoundInMemory
       /\ BlocksUnlocked
       /\ victim[t] \notin blocks
       /\ UNCHANGED <<policy, store, shards, held, block, victim>>

freeVictim(t) ==
    /\ Go(t, "free", "releaseVictim")
    /\ deallocateSlots
    /\ UNCHANGED <<policy, shards, held, block, victim>>

\* The count of the shard is given back before the lock.
releaseVictim(t) ==
    /\ Go(t, "releaseVictim", "unlockVictim")
    /\ release(victim[t])
    /\ UNCHANGED <<policy, store, reading, writing, held, block, victim>>

unlockVictim(t) ==
    /\ Go(t, "unlockVictim", "test")
    /\ unlock(t, victim[t])
    /\ victim' = [victim EXCEPT ![t] = None]
    /\ UNCHANGED <<policy, store, shard_count, reading, held, block>>

\* The slots are allocated; a block that is loaded is read from its file.
allocate(t) ==
    /\ pc[t] \in {"fits", "gaveUp"}
    /\ pc' = [pc EXCEPT ![t] = IF block[t] = None THEN "create" ELSE "insert"]
    /\ usage' = usage + 1
    /\ UNCHANGED <<policy, blocks, dirty, saved, block_index, known, raced, shards, held, block, victim>>

-----------------------------------------------------------------------------
(* createBlock(), createBlob(): the caller gets an id, not a reference *)

createBlock(t) ==
    /\ Go(t, "idle", "test")
    /\ UNCHANGED <<policy, store, shards, held, block, victim>>

insertNew(t) ==
    /\ block_index + 1 \in Blocks
    /\ BlocksUnlocked
    /\ Go(t, "create", "created")
    /\ block_index' = block_index + 1
    /\ block' = [block EXCEPT ![t] = block_index + 1]
    /\ blocks' = blocks \cup {block_index + 1}
    /\ dirty' = dirty \cup {block_index + 1}
    /\ UNCHANGED <<policy, saved, usage, known, raced, shards, held, victim>>

announce(t) ==
    /\ Go(t, "created", "idle")
    /\ blockCreated(block[t])
    /\ known' = known \cup {block[t]}
    /\ block' = [block EXCEPT ![t] = None]
    /\ UNCHANGED <<blocks, dirty, saved, usage, block_index, raced, shards, held, victim>>

-----------------------------------------------------------------------------
(* Uses of a reference, saveBlockOrBlob() and deleteBlockOrBlobFile() *)

\* The tuples are written and then the dirty bit, as one step: to anybody who
\* saves the block in between it is as if both were written later.
write(t, b) ==
    /\ pc[t] = "idle" /\ b \in held[t]
    /\ dirty' = dirty \cup {b}
    /\ saved' = saved \ {b}
    /\ raced' = IF \E u \in Threads : pc[u] = "saving" /\ block[u] = b THEN raced \cup {b} ELSE raced
    /\ UNCHANGED <<policy, blocks, usage, block_index, known, shards, held, pc, block, victim>>

\* The destructor of CountedReference.
unreference(t, b) ==
    /\ pc[t] = "idle" /\ b \in held[t]
    /\ blockUnreferenced(b)
    /\ held' = [held EXCEPT ![t] = @ \ {b}]
    /\ UNCHANGED <<store, shards, pc, block, victim>>

\* Nobody forces a clean block to be written.
saveBlockOrBlob(t, b) ==
    /\ b \in known
    /\ Go(t, "idle", "saving")
    /\ Write(b)
    /\ block' = [block EXCEPT ![t] = b]
    /\ UNCHANGED <<policy, shards, held, victim>>

markSaved(t) ==
    /\ Go(t, "saving", "idle")
    /\ markClean(block[t])
    /\ block' = [block EXCEPT ![t] = None]
    /\ UNCHANGED <<policy, shards, held, victim>>

\* Callers give a block up before they delete it: nobody refers to it any more,
\* or asks for it.
deleteBlockOrBlobFile(t, b) ==
    /\ b \in known
    /\ \A u \in Threads : b \notin held[u] /\ block[u] # b
    /\ Go(t, "idle", IF b \in blocks THEN "dEvict" ELSE "dFile")
    /\ block' = [block EXCEPT ![t] = b]
    /\ known' = known \ {b}
    /\ UNCHANGED <<policy, blocks, dirty, saved, usage, block_index, raced, shards, held, victim>>

\* evictBlockOrBlob() without the shard's lock.
dEvict(t) ==
    \/ /\ Go(t, "dEvict", "dFree")
       /\ Evict(block[t])
       /\ UNCHANGED <<policy, shards, held, block, victim>>
    \/ /\ Go(t, "dEvict", "thrown")          \* BlockNotFoundInMemory
       /\ BlocksUnlocked
       /\ block[t] \notin blocks
       /\ UNCHANGED <<policy, store, shards, held, block, victim>>

dFree(t) ==
    /\ Go(t, "dFree", "dEvicted")
    /\ deallocateSlots
    /\ UNCHANGED <<policy, shards, held, block, victim>>

dEvicted(t) ==
    /\ Go(t, "dEvicted", "dFile")
    /\ blockEvicted(block[t])
    /\ UNCHANGED <<store, shards, held, block, victim>>

dFile(t) ==
    /\ Go(t, "dFile", "dDeleted")
    /\ saved' = saved \ {block[t]}
    /\ UNCHANGED <<policy, blocks, dirty, usage, block_index, known, raced, shards, held, block, victim>>

dDeleted(t) ==
    /\ Go(t, "dDeleted", "idle")
    /\ blockDeleted(block[t])
    /\ block' = [block EXCEPT ![t] = None]
    /\ UNCHANGED <<store, shards, held, victim>>

-----------------------------------------------------------------------------
Creating == {t \in Threads : block[t] = None /\ pc[t] \in RoomPlaces \cup {"create"}}

\* A thread works on its own until it has finished what it began.
Get(t)  == readLock(t) \/ find(t) \/ releaseShard(t) \/ countAgain(t) \/ writeLock(t)
             \/ findAgain(t) \/ insert(t) \/ refer(t) \/ unlockBlock(t) \/ releaseAgain(t)
Room(t) == test(t) \/ chooseVictim(t) \/ getShard(t) \/ evictionLock(t) \/ isLoaded(t)
             \/ getRefCount(t) \/ saveVictim(t) \/ markVictimClean(t) \/ evictVictim(t) \/ freeVictim(t)
             \/ releaseVictim(t) \/ unlockVictim(t) \/ allocate(t)
Create(t) == insertNew(t) \/ announce(t)
Use(t, b) == write(t, b) \/ unreference(t, b) \/ saveBlockOrBlob(t, b)
Delete(t) == dEvict(t) \/ dFree(t) \/ dEvicted(t) \/ dFile(t) \/ dDeleted(t)

\* The bound on blocks: as many creations as there are ids.
Begin(t) ==
    \/ \E b \in Blocks : getBlock(t, b)
    \/ /\ block_index + Cardinality(Creating) + 1 \in Blocks
       /\ createBlock(t)

\* An exception nobody catches ends the program.
Next ==
    /\ \A t \in Threads : pc[t] # "thrown"
    /\ \E t \in Threads :
         \/ Begin(t) \/ Get(t) \/ Room(t) \/ Create(t) \/ markSaved(t) \/ Delete(t)
         \/ \E b \in Blocks : Use(t, b) \/ deleteBlockOrBlobFile(t, b)

Spec == Init /\ [][Next]_vars

-----------------------------------------------------------------------------
(* Properties *)

TypeOK ==
    /\ PolicyType
    /\ blocks \subseteq Blocks /\ dirty \subseteq blocks /\ saved \subseteq Blocks
    /\ usage \in Nat /\ block_index \in Nat /\ known \subseteq Blocks /\ raced \subseteq Blocks
    /\ shard_count \in [Shards -> Nat]
    /\ reading \in [Shards -> SUBSET Threads]
    /\ writing \in [Shards -> SUBSET Threads]
    /\ held \in [Threads -> SUBSET Blocks]
    /\ pc \in [Threads -> Places]
    /\ block \in [Threads -> Blocks \cup {None}]
    /\ victim \in [Threads -> Blocks \cup {None}]

(***************************************************************************)
(* Nobody is left with a reference to memory that was given back: a block  *)
(* that is referenced is loaded.                                           *)
(***************************************************************************)
ReferencedLoaded == \A t \in Threads : held[t] \subseteq blocks

(***************************************************************************)
(* total_memory_usage_ is what is loaded, what is allocated for blocks     *)
(* that are about to be inserted and what is about to be given back: no    *)
(* block is loaded twice, no memory is counted after it was freed.         *)
(***************************************************************************)
UsageExact ==
    usage = Cardinality(blocks)
              + Cardinality({t \in Threads : pc[t] \in {"insert", "create", "free", "dFree"}})

(***************************************************************************)
(* What was written to a block is in its file when the block is not in     *)
(* memory, and when it is in memory and not marked dirty: an eviction      *)
(* never loses it.  A call of saveBlockOrBlob() may, as markClean() wipes  *)
(* out the bit of a thread that modified the block after its file was      *)
(* written; NothingLost says that this is the one way.                     *)
(***************************************************************************)
NothingLost == \A b \in known : b \in saved \/ b \in dirty \/ b \in raced

(***************************************************************************)
(* "Check whether this block is dirty (whether it has been changed since   *)
(* being written to disk)."                                                *)
(***************************************************************************)
DirtyExact == \A b \in known : b \in saved \/ b \in dirty

(***************************************************************************)
(* A shard's entry in shard_count_ stays as long as somebody holds its     *)
(* lock or waits for it, but for an evicting thread that is about to       *)
(* unlock: that is what the test for collisions relies on.                 *)
(***************************************************************************)
ShardCountCovers ==
    (\A t \in Threads : pc[t] # "thrown") => \A s \in Shards :
        shard_count[s] =
            Cardinality({t \in Threads :
                /\ block[t] # None /\ Shard[block[t]] = s
                /\ pc[t] \in (GetPlaces \cup RoomPlaces) \ {"countAgain"}})
          + Cardinality({t \in Threads :
                /\ victim[t] # None /\ Shard[victim[t]] = s
                /\ pc[t] \in {"evictionLock", "isLoaded", "getRefCount", "save", "markClean",
                              "evict", "free", "releaseVictim"}})

(***************************************************************************)
(* "The policy will assume that the block this function returns is         *)
(* eventually evicted": a block in memory that nobody refers to is a       *)
(* candidate, or somebody is evicting it, or about to take a reference.    *)
(***************************************************************************)
NoBlockForgotten ==
    \A b \in known \cap blocks :
        \/ ref_count[b] > 0
        \/ b \in Candidates
        \/ \E t \in Threads : victim[t] = b \/ block[t] = b

(***************************************************************************)
(* "EvictionPolicy doesn't know about the block until blockReferenced is   *)
(* called": a block just loaded is not a candidate.                        *)
(***************************************************************************)
LoadedUnknown == \A t \in Threads : pc[t] = "refer" => block[t] \notin Candidates

(***************************************************************************)
(* The pool grows over its limit only when the thread was unable to evict  *)
(* enough: one that found room stays within the limit.                     *)
(***************************************************************************)
WithinLimit ==
    [][\A t \in Threads : pc[t] = "fits" /\ pc'[t] # "fits" => usage' <= max_memory_usage]_vars

(***************************************************************************)
(* A block that was deleted does not come back: an eviction that is under  *)
(* way does not write its file again, and nothing is left of it in memory  *)
(* or among the candidates.                                                *)
(***************************************************************************)
DeletedGone ==
    \A b \in Blocks :
        (b <= block_index /\ b \notin known /\ \A t \in Threads : block[t] # b)
            => b \notin blocks \cup saved \cup Candidates

(***************************************************************************)
(* deleteBlockOrBlobFile() and makeRoomForBlockOrBlob() find the block     *)
(* they evict.                                                             *)
(***************************************************************************)
NothingThrown == \A t \in Threads : pc[t] # "thrown"

(***************************************************************************)
(* The buffer pool: a block somebody uses is in memory, the memory counted *)
(* is that of the blocks, and the count of used shards covers their locks. *)
(***************************************************************************)
PoolExact == TypeOK /\ ReferencedLoaded /\ UsageExact /\ ShardCountCovers

\* No eviction loses what was written to a block, and a block that was deleted
\* is gone, in memory and on disk.
BlocksKept == NothingLost /\ DeletedGone
=============================================================================
