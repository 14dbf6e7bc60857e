# Quickstep in TLA+

TLA+ models of the concurrent core of Quickstep and of the algorithms that are
hard to test, model-checked with TLC on small instances and, where it matters
most, proved with TLAPS for every instance.

| modules | content |
|---|---|
| `QueryManager`, `Foreman` | the scheduler of one query with its workers; the event loop, admission, dispatch and shutdown above it |
| `ForemanDistributed`, `BlockLocator` | the distributed scheduler with its shiftbosses; the thread that knows where blocks are |
| `LockTable`, `LockManager`, `DeadLockDetector`, `CycleDetector` | lock modes and table; the lock manager's thread; the detector's thread beside it; the search for victims |
| `SharedLock`, `SpinSharedMutex`, `SharedMutex` | an abstract reader-writer lock and the two mutexes that implement it |
| `FifoQueue`, `ThreadSafeQueue` | an abstract queue and the one that implements it |
| `EvictionPolicy`, `StorageManager`, `InsertDestination` | the buffer pool and its eviction policy; the blocks workers insert into |
| `HashTable` | the resizable separate-chaining hash tables |
| `RelationalOperators`, `NestedLoopsJoin`, `TextScan`, `SortMergeRun`, `RunMerger` | how operators generate work orders, and two work orders that are algorithms of their own |
| `StorageBlock`, `CSBTree` | a block with its indexes; the CSB+-tree |
| `LogicalPlans`, `LogicalRules`, `UnnestSubqueries`, `LogicalGenerator` | what a logical plan means, and the rules of the logical optimizer |
| `*Proofs` | theorems about the module they are named after; `ThreadingProofs` and `StorageProofs` about all that `MCThreading` and `MCStorage` put beside each other, `DistributedProofs` about the block locator in `MCDistributed` |
| `Counting` | lemmas on how often a value occurs in a sequence, for the proofs that count messages and locks |
| `MC*` and `*.cfg` | the instances TLC runs |
| `PROJECT.json` | components, runs, source map, hazards, findings, theorems in machine-readable form |

`tlc -config X.cfg M` repeats a run, `tlapm M.tla` a proof.

## 1. Inventory of the system

Quickstep compiles SQL into a DAG of relational operators and executes it by
*work orders*, small units of work on a block, handed to worker threads by a
foreman thread over a message bus.

| component | state | operations | talks to |
|---|---|---|---|
| **Query manager** (`query_execution/QueryManager{Base,SingleNode}`) | per query: queued and rebuild counters, finished flags and their count, "done generating" flags (`QueryExecutionState`); waiting work orders (`WorkOrdersContainer`) | constructor; handlers for a completed work order, a completed rebuild, a streamed block, feedback; `getNextWorkerMessage` | called by the policy enforcer; calls the operators and the insert destinations |
| **Relational operators** (`relational_operators`) | input blocks held, whether input is complete, whether blocking dependencies are met | `feedInputBlock`, `doneFeedingInputBlocks`, `informAllBlockingDependenciesMet`, `getAllWorkOrders`, `receiveFeedbackMessage` | called by the query manager only |
| **Policy enforcer** (`PolicyEnforcer{Base,SingleNode}`) | admitted queries, waiting queries, removed ids | `admitQuery`, `admitQueries`, `processMessage`, `getWorkerMessages`, `removeQuery` | called by the foreman |
| **Foreman and worker directory** (`ForemanSingleNode`, `WorkerDirectory`) | work orders queued at each worker | event loop, `canCollectNewMessages`, `dispatchWorkerMessages`, completion message | bus: main thread and workers |
| **Worker** (`Worker`) | none between messages | execute a normal or rebuild work order, report; return on poison | bus; during execution shared storage |
| **Command-line client** (`cli`) | the request outstanding | send an admit request, wait for the completion message, broadcast poison | bus |
| **Lock manager** (`transaction/LockManager`) | incoming, inner and permitted queues | loop over incoming, loop over inner, kill victims; acquire root to leaf; release all | queues shared with transactions; both tables under a latch; victims shared with the detector |
| **Lock and transaction tables** | owned and pending locks of each resource; the same again for each transaction | `putLock`, `deleteLock`, `movePendingToOwned`; `put…Entry`, `deleteTransaction` | called by lock manager and detector |
| **Deadlock detector** (`DeadLockDetector`, `CycleDetector`, `StronglyConnectedComponents`, `DirectedGraph`) | wait-for graph, node ids of transactions, a batch of victims, a status word | own thread: build graph, find cycles, choose victims, publish | lock table under a shared latch; status and victims with the lock manager |
| **SpinSharedMutex, ThreadSafeQueue, ShardedLockManager** (`threading`, `utility`) | one atomic word; a deque under a mutex; an array of mutexes | lock and unlock, shared and exclusive; push and pop | every multi-threaded part |
| **Storage manager and eviction** (`storage/StorageManager`, `EvictionPolicy`, `CountedReference`) | blocks in memory with reference counts, memory used, least-recently-used order | load, reference, unreference, evict, save, delete | workers; shard locks |
| **Insert destinations** (`storage/InsertDestination`) | pool of partially filled blocks, full blocks, lock | get a block to insert into, return it full or not, drain the pool | workers, then the query manager's rebuild |
| **Distributed execution** (`ForemanDistributed`, `PolicyEnforcerDistributed`, `QueryManagerDistributed`, `Shiftboss`, `BlockLocator`) | initiation and rebuild in progress per shiftboss, block locations | initiate, execute, rebuild, tear down over the network | bus between processes |
| **Block locator** (`query_execution/BlockLocator`) | which host has which block in memory | register a domain, add, delete and look up locations | bus: the storage managers of all hosts |
| **Hash tables** (`storage/HashTable`, `SeparateChainingHashTable`, `SimpleScalarSeparateChainingHashTable`) | slots and buckets, a count of allocated buckets | put, upsert, their accessor forms, preallocate, resize | workers of one operator, with atomics and a shared mutex |
| **Storage blocks and indexes** (`storage/StorageBlock`, `*TupleStorageSubBlock`, `*IndexSubBlock`) | tuples, index entries, which indexes are consistent | insert, bulk insert, update, delete, rebuild, search | workers; one writer at a time |
| **Logical optimizer** (`query_optimizer/resolver`, `LogicalGenerator`, `rules`) | a plan | resolve a SELECT, unnest subqueries, push down, generate joins, collapse | one thread |
| **Parser, catalog, types, expressions, compression, physical optimizer, LIP filters** | data | computation on one thread | — |
| **Message bus (TMB)** (`third_party/tmb`) | queues | send, receive | every thread; outside the project's own code |

### What is hard

* *Interleaving.* The query manager decides that an operator is over from
  counters that change as messages of many workers arrive in any order; the
  detector's thread shares a status word and a list with the lock manager;
  workers load, evict and insert into the same blocks.
* *Ordering.* A block sent to a consumer must be seen before the producer's end;
  feedback before the completion that will act on it; the constructor visits
  operators in index order, once.
* *Recursion in the handlers.* The end of an operator is followed by a visit of
  its dependents, in the order of an `unordered_map`, which recurses when one of
  them is over as well. Two paths of a DAG then reach an operator twice.
* *Limits.* One query at a time; loads decide when to collect work orders;
  unsigned counters guarded by `DCHECK` only.
* *Liveness.* The foreman sleeps on the bus: if work becomes ready with no
  message under way nobody wakes it.

* *Algorithms at their edges.* Pairs of blocks that arrive in any order, rows at
  the edge of a segment, merges scheduled before their inputs exist, a split that
  climbs a tree, NULLs in a sort, a predicate that changes sides of an outer join.

`PROJECT.json` lists the hazards at their lines, with the properties that cover
them.

### What makes each component correct

* Query manager: dependency order of work orders; counters that count exactly
  what is outstanding; an operator finishes once, and only when nothing of it is
  left; no block is lost; every query completes.
* Foreman and policy enforcer: exact and bounded loads; no message for a removed
  query; no query dropped; one answer to each request, and only when it has
  executed; no sleep while work is ready and workers are idle; nothing abandoned
  at shutdown.
* Lock manager: compatible owners on every resource and across levels of the
  hierarchy; first come first served; both tables agree, so that a release
  releases everything; a permitted request owns its lock; a waiting lock has a
  reason to wait.
* Detector: victims break every cycle, only cycles are broken, no published
  victim is lost.
* Storage: a referenced block is never evicted; a block is loaded once; no
  deadlock between shard locks.
* Insert destinations: no block is given to two inserters, none is forgotten.
* Mutexes and queue: exclusion, exact counts, no lost wake-up, the abstract lock
  and queue as seen from outside.
* Distributed execution: the foreman's counts are those of the shiftbosses; a
  query context lives as long as its work; every request is answered.
* Block locator: its maps agree with each other and, at rest, with the hosts.
* Hash tables: chains without rings or holes, every accepted entry found, no call
  that spins for ever.
* Operators: one work order for every block, pair, row or run, and the end of the
  generation is reported.
* Blocks and trees: the tuples SQL says are there are there; an index that may be
  believed answers exactly; a tree stays sorted, linked and searchable.
* Logical optimizer: every plan is valid and means what the query means.

## 2. The models

### QueryManager: one query and its workers

| variable | code |
|---|---|
| `plan` | the DAG: links, pipeline breakers, insert destinations, output relations, and how each operator generates work (see `PlanType`); never changes |
| `cursor` | the index of the constructor's loop |
| `stack` | the recursion of `processOperator()`: each frame is the set of dependents its loop has yet to visit |
| `qm` | `QueryExecutionState`, the sizes of the `WorkOrdersContainer`, the operators' own flags |
| `partial` | partially filled blocks in each insert destination |
| `slot`, `chan` | what a worker holds; what it has sent to the foreman |

Every handler is an action: `processWorkOrderCompleteMessage`,
`processRebuildWorkOrderCompleteMessage`, `processDataPipelineMessage`,
`processFeedbackMessage`; `ConstructOperator` is one turn of the constructor's
loop and `VisitDependent` one turn of a handler's loop with the call it makes.
While `stack` is not empty the foreman thread can do nothing else, but workers
go on. `getNextWorkerMessage` always takes the unfinished operator with the
lowest index that has work, normal work before rebuild work. The helpers
(`fetchNormalWorkOrders`, `markOperatorFinished`, `checkNormalExecutionOver`, …)
keep the names of the code and are functions of the memory.

Abstractions: work orders of one operator are interchangeable, so a container is
a number; NUMA preferences pick one of them and change no number. A worker
executes a work order in one step, since until its messages reach the foreman
only the insert destination changes; it sends any number of full blocks up to
`MaxStream`, then feedback if the operator uses it, then the completion, in that
order (`Worker.cpp`), and leaves up to `MaxPartial` partially filled blocks. The bus is
external: reliable, in order from one sender, arbitrary between senders.

`WellFormed` says what the model relies on of a plan: a streaming producer has an
output relation, and an operator with several inputs tells them apart. It does
not ask for an acyclic graph or an order of the indexes; the theorems need neither.

### Foreman: many queries

The main thread sends admit requests (`Script`), waits for completion messages
when it is `Patient` as `QuickstepCli` is, and at last broadcasts the poison
message. The foreman thread is a program counter over its event loop: `receive`,
`admit` (one turn of `admitQueries()`), `collect` (`getWorkerMessages()`),
`dispatch` (one turn of `dispatchWorkerMessages()`), `signal` (the completion
message). All of `processMessage()`, including removal and the admission of the
earliest waiting query, is in the action of the message. `load` is the
`WorkerDirectory`, `queue` and `chan` the bus to and from each worker.

The query manager in it is an abstraction: a query has *stages* of work orders;
a stage becomes ready when nothing is ready or outstanding, or, when a block is
streamed, perhaps earlier; a query has executed when no stage, ready or
outstanding work order is left. That this is what `QueryManager` does is
argued here, not shown as a refinement: `QueryManager` fetches work of several operators at once,
which the stages stand for by opening early.

### LockTable and LockManager

`LockTable` holds the compatibility matrix, `putLock` and `deleteLock` as functions
of a table and their results, and the condition under which
`movePendingToOwned()` runs off the end of a list. `LockManager` is the thread:
`popIncoming`, `tryInner`, `pollEmpty`, `endLoop` are its two loops, `climb` and
`put` the two loops of `acquireLock()`, `release` and `released` those of
`releaseAllLocks()`. The transactions around it ask for the locks of a script one
after the other, each when the last one was permitted, and release at the end;
they are external, as the repository has no client of the lock manager.

The iteration that leaves the owned list in `movePendingToOwned()` reads memory
that is not an entry. Whatever it reads, the statement that moves an entry is out
of reach, so the outcomes are two: the function returns without moving anything,
or it does not return (`hung`, which also stands for a crash).
The latch of the lock table is held for the whole of `acquireLock()` and
`releaseAllLocks()`; properties of both tables are stated for when it is free.

### DeadLockDetector and CycleDetector

`DeadLockDetector` extends `LockManager` with the detector's thread. The two share
`detector_status_` (`status`) and `victim_result_` (`result`), which is written by both
without a lock; reading the status, killing each victim, clearing the vector
and storing `kNotReady` are steps of their own, and so are building the graph, swapping
the victims in and signalling. What the search for victims returns is left open
there: any set of deadlocked transactions that breaks the cycles. `CycleDetector` is that search:
Tarjan's recursion as a stack of calls, and the loop that kills a node of a component until
`hasCycle()` finds none. Containers without an order are visited in any order.

### SharedLock, SpinSharedMutex, SharedMutex

`SpinSharedMutex` has a step for each atomic operation on the word; a reader that
counts itself and then sees the write bit takes itself off again, and the word is an unsigned
integer of its width. `SharedMutex` blocks on two condition variables; a stretch under
`base_mutex_` is a step, a signal wakes one or all, and a thread may wake without
a reason. Both are shown to implement `SharedLock` (a reader enters while there is no writer, a
writer while there is nobody): the refinement mapping takes the threads whose
place in the code is past the acquisition. Memory orders are taken as sequentially consistent.

### FifoQueue and ThreadSafeQueue

The queue, its mutex and condition variable; `push`, `pushMultiple`, `popOne` and
`popOneIfAvailable`. A woken thread has to take the mutex again, and others may come first. It implements
`FifoQueue` by the identity on the contents. `pushed` and `popped` are histories.

### StorageManager and EvictionPolicy

Threads create, reference, modify, release, save and delete blocks; `makeRoomForBlockOrBlob()`
evicts for them. Each acquisition of a lock, each look at the policy and each count that is
read is a step of its own, so that everything another thread can
do between them happens. `saveBlockOrBlob()` is two steps, the write of the file and `markClean()`: it holds
`blocks_shared_mutex_` shared in between, which keeps blocks from being erased (`BlocksUnlocked`) and not a thread with a reference from
modifying one. `raced` is a history of the blocks to which that happened, during a call other than an evicting thread's, and whose file
has not been written since. `evictBlockOrBlob()` is two steps as well, the erasure under that mutex and the return of the memory after it. Shard locks are abstract shared locks (which `SpinSharedMutex` implements);
`shard_count` is the count `ShardedLockManager` keeps so that a thread does not wait for a shard it
holds. `EvictionPolicy` is the bookkeeping of LRU-K; as times only order
the candidates, any of them may be chosen. An exception that nobody catches ends the thread at `"thrown"`.

### InsertDestination

The pools of all three destinations; `always_create`, chosen in the initial state and never changed, tells the
one that has no pool from those that have. A worker gets a block, inserts what fits, returns
it full or not, and goes on with the next one; a full block is streamed, what
is left in a pool when the operator is done goes through rebuild work orders.

### ForemanDistributed and BlockLocator

`ForemanDistributed` is the event loop with the directory of shiftbosses, the policy enforcer and the query
manager of the distributed version, the shiftbosses with their query contexts, and
their workers. The foreman's handlers are functions on its memory (`fm`) that collect the
messages they send. Messages are delivered in order from one sender and in any order
between senders. `BlockLocator` is the locator with the part of a storage
manager that talks to it, for hosts with several threads; there a receiver's messages come in the order sent. A
thread that loads or evicts a block works alone on it at its host, as its shard lock ensures; one that creates a block has
no such lock, so that the block may be evicted before it is announced. A victim is written to its file if it
is dirty, as a created block is until it is saved. The destructor of a storage manager drops what is dirty. A read of a file that is not there ends
the model, as the code's `CHECK` ends the process. Three histories tell the properties what went before: `late`, the blocks evicted before
they were announced; `dropped`, those nobody had saved when their host shut down; `crossed`, the threads that received the answer to another
thread's question. Files are not deleted here (`StorageManager` has that).

### HashTable

`put`, `upsert` and the accessor forms over the two separate-chaining tables. Threads share
only atomics: the end of a chain is reserved by swapping 0 for a marker, a
bucket is allocated with an addition that is taken back when the table is full, and a
thread that lost the race goes on from the new end. `resize()` runs under the
exclusive side of a mutex and is one step, after the recheck whether it is needed.

### RelationalOperators, NestedLoopsJoin, TextScan, SortMergeRun, RunMerger

`RelationalOperators` has `getAllWorkOrders()` and `getAllWorkOrderProtos()` of every operator that
generates by block, by partition or once, between the blocks it is fed and the ends
that are announced. `NestedLoopsJoin` has the pairs of blocks, kept by two
counters; `TextScan` the cutting of a file into segments and the rows each
of them loads; `SortMergeRun` the tree of merges of a sort, scheduled while its leaves are still
missing; `RunMerger` the merge itself, tuple by tuple, with NULLs and a limit.

### StorageBlock and CSBTree

`StorageBlock` is a block under a sequence of queries, each of which ends in `rebuild()` when it
inserts in batches. The stores differ in what they do to the ids of the tuples that stay; the
indexes in what they answer and when they may be believed. A tree may
be out of room before it is full, as that depends on how its nodes are filled. `rows` is what SQL says the block holds. `CSBTree` is the tree by its
nodes and node groups: insertion with the splits of leaves, groups and the
root, removal, search, and `rebuild()` with its count of the space needed.

### The logical optimizer

`LogicalPlans` gives a plan its meaning, as a bag of rows with three-valued comparisons.
`UnnestSubqueries` and `LogicalRules` are the rules, as operators on plans. `LogicalGenerator`
has the resolver's plan of a SELECT and applies the rules to it in the order of the code, one step for each. An assertion of the
code that fails turns the plan into an invalid one.

## 3. The runs

Each run has one module and one configuration. The modules `MC…` choose, in the
initial state, one of several instances of the modules they are about; the others stay as they
are. A property of a run is the conjunction of the modules' own named properties, which say
what each part means.

| run | instances | distinct states |
|---|---|---|
| `query_manager` | every DAG of 3 operators without redundant links, each link pipelined or blocking, each operator with or without a destination and own work; 2 linked or unlinked operators with up to 2 work orders and a round of feedback; 2 workers | 475,000 |
| `foreman` | three requests, one of them without work, 2 workers; a client that waits, and one whose requests overlap | 206,000 |
| `locks` | a reader and two writers on database, relation and block; two transactions that lock crosswise, with two rounds of the detector; every wait-for graph of 4 nodes and at most 4 edges | 432,000 |
| `threading` | 4 threads on each mutex, 3 on the queue with up to 3 elements in batches | 213,000 |
| `storage` | 2 threads, 2 blocks in 2 shards, memory for one; 2 workers, 4 tuples: 2 partitions with a pool each, or a new block for every call | 326,000 |
| `distributed` | 2 shiftbosses: two queries with a rebuild and a result; 2 workers each; a shiftboss that comes late; 2 hosts with one and two threads, two blocks and two loads | 216,000 |
| `hash_table` | 2 or 3 threads with up to 3 keys each, colliding in a slot or altogether, 1 to 5 buckets at first, both implementations | 332,000 |
| `operators` | 18 operators in both versions on up to 4 blocks, the join on 4 × 4 blocks, files of up to 7 characters in segments of 2 to 4, sorts of 8 blocks by twos, merges of 3 runs, some of them empty | 1,018,000 |
| `blocks` | five combinations of stores and indexes with up to 4 tuples, trees with 2 keys per node: mixed operations, growth over several levels, rebuilds of up to 19 tuples | 33,000 |
| `optimizer` | more than 400 queries, one step for each rule, over up to 882 databases of two rows a table with NULLs | 2,155 |
| `early_end` | the plan of a hash join over a computed relation | violated |
| `flip` | a block with a CSB+-tree, literals on either side | violated |

**What they show.**

* `query_manager`: `OperatorStateExact` — the counters on which the end of an operator is
  decided are what is outstanding, a finished operator has nothing left and is
  counted once; `BlockingOrder` — no work order exists before the blocking
  dependencies have finished; `InformedWhenUnblocked`; `NothingForgotten` — no block meets
  a consumer that has stopped generating and no handler leaves work nobody will fetch;
  `QueryCompletes`.
* `foreman`: `SchedulerExact` — loads are those of the workers, whatever is under way is
  about an admitted query, none is dropped or abandoned at the end, and the
  foreman does not sleep on ready work; `LoadBounded`; `RequestsServed` — a client that waits is told of
  a completion once and only when all has executed, it is always told, and every query executes.
* `locks`: `OwnCompatible`; `LockTablesExact` — both tables agree, so that a release finds all;
  no conflict hidden between levels;
  `VictimsExact` — the search finds the components, victims are deadlocked and without them no two
  transactions wait for each other, and the detector leaves a batch alone while it is being killed; `NoOvertaking`; `DeadlocksResolved`.
* `threading`: `StateExact`, `SharedStateExact` — the words count their holders, exclusion, nobody
  forgotten by a signal; `Implements`, `ImplementsLock`, `ImplementsFifo` — the
  refinements; `ThreadsProgress` — a waiting writer gets in, somebody gets a
  contended lock, no element is stranded beside a waiting thread.
* `storage`: `PoolExact` — a block in use is in memory, the memory counted is the memory used, the counts
  of shards cover the locks; no deadlock between shards (TLC looks for deadlock in
  this run); `BlocksKept` — no eviction loses a write, and nothing else does but a call of `saveBlockOrBlob()` that a
  modification overtakes; a deleted block is gone;
  `DestinationExact` — one inserter a block, each tuple once and in its partition, each block
  streamed once; `InsertionsEnd`.
* `distributed`: `ForemanExact`, `ContextsExact`, `RequestsEnd` — see section 1; `LocationsExact` — the locator's maps mirror each other,
  it is right about a block that is at rest unless the block was evicted before it was announced, and a load fails
  only for a block its host dropped at a shutdown or with an answer meant for another thread.
* `hash_table`: `TableSound` — every chain ends, no bucket is in two, none is lost;
  `ContentExact` — the table holds what the calls were told it accepted; `EveryCallReturns`.
* `operators`: `PairsExact`, `AllPairsGenerated`, `WorkExact`, `SortExact`, `GenerationEnds`.
* `blocks`: `BlockExact`, `SearchExact`, `TreeExact`.
* `optimizer`: `PlansValid`, `MeaningPreserved`, after every rule.

**Bounds.** Three operators are the least number with a chain, a join and a
split, with every mixture of links; two workers are the least whose reports interleave.
One streamed block for each work order and one partial block for each destination
let a block race with a completion and make the rebuild happen or not. For the
foreman, seven work orders exceed what the loads and a round admit at once (at most
`MinLoad` + `MaxRound` = 3 for each of two workers), so that collection is deferred and
resumed; three queries make one run while one waits and one is yet to come. Three
transactions give an owner, a waiting request and one that comes after it, three
levels an intention lock above an intention lock; the part with the detector has two rounds, so that the
detector is in the second while the victims of the first are killed, and two
transactions that wait for each other. Two edges make a cycle, three edges a cycle with three
nodes, four edges two cycles or one with a short cut. A memory of one
block makes every load evict, and two threads that load and evict the same two blocks meet in both shards. That a thread meets its own
shard takes two blocks in one: with `Blocks = {1, 2, 3}` the pool has 6,900,000 states, with three threads on two blocks
2,700,000; both were checked, and take longer than the run should. Of the locator's hosts one with two threads is needed for
an eviction before the announcement and for crossed answers; they want two blocks. A mailbox of two messages (`MaxInbox`) reaches every exception
`LocationsExact` makes, and so does one of three, with 375,000 states. Four
blocks on each side of a join give rectangles cut out of rectangles; eight
blocks merged by twos three levels and odd rests. Files of seven characters hold rows that begin
or end at each place of a segment, and segments without a newline. Two keys
a node make a tree of several levels with a dozen tuples. Two rows a table tell an inner
from an outer join, a duplicate from a group, and NULL from a value. `CHECK_DEADLOCK FALSE` is set
where the system really may stop: a foreman without requests, transactions that wait (see
`PendingHasReason` below), a sort or plan that is finished, a block whose process has died.

What the instances leave out, because the code does not do there what the properties say, is in
section 4: redundant links, NULL keys in blocks, insertions behind the greatest key of a tree, and so on.

**Fairness.** Threads that block only on the bus, a mutex or a condition variable
are weakly fair: the foreman, each worker, each shiftboss, each thread of
a mutex, queue, hash table or insert destination. In `Foreman` and `QueryManager` nothing is assumed of
the main thread, which waits for a user; the dispatch to an idle worker is fair
because the foreman collects after every completion, which `NoStall` in `Foreman` checks. In
`ThreadSafeQueue` a thread that has begun a call goes on, but need not begin one. The
operators' liveness assumes that the query manager announces the end of the input and calls
them again, as `QueryManager` shows it does. No liveness is claimed for a
transaction that waits for a lock, nor for a reader of `SpinSharedMutex`, whom writers may
keep out for ever, nor for a load of a block.

## 4. Findings and divergences

Two runs of the project end in a counterexample that contradicts a comment of the code.

1. **An operator counted twice** (`early_end`, `ExecutedMeansAllFinished`). `markOperatorFinished()` may run
   twice for an operator that two paths of the DAG reach in one handler, as
   nothing tests whether it has finished, and `num_operators_finished_` then grows
   by two. In a hash join on a computed build side with both inputs empty the
   query is reported executed while DestroyHash still has its work order.
2. **A comparison not turned around** (`flip`, `FlippedSearchExact`). With the literal on
   the left `CSBTreeIndexSubBlock::getMatchesForPredicate()` calls `flipComparisonID()` and drops its result:
   `5 < x` is answered as `x < 5`.

The models show more places where the code departs from what a comment, an assertion or a
caller says. The passing runs stay clear of them. TLC finds each of them with the change of the
run's constants, or of an instance in its `MC` module, given here; `X!P` is the property `P` of
the instance `X`, to be given a name in the `MC` module first.

| what the code does | where | how to see it |
|---|---|---|
| a selection that waits for a LIP filter is visited before the build with the larger index finishes, and never again | `QueryManagerSingleNode.cpp:67` | `QueryManager.cfg`: `Family = "LIP"`, `N = 5`; `NothingForgotten` |
| `admitQueries()` returns at the first query that has to wait and forgets the rest (no caller has more than one) | `PolicyEnforcerBase.cpp:152` | `Foreman.cfg`: `Script <- InOneRequest`, `Clients = {"patient"}`; `SchedulerExact` |
| a query that ends without a work order is removed and no waiting one admitted; the client never has two under way | `PolicyEnforcerSingleNode.cpp:85` | `Foreman.cfg`: `Patient = FALSE`, `Clients = {"patient"}`; `EveryQueryExecutes` |
| the same in the distributed version | `PolicyEnforcerDistributed.cpp:101` | `Distributed.cfg`: `Queries = {"empty", "none", "delete"}`, `Result = {}`, `Bosses = {s1}`, `Setups = {"run"}`; `RequestsEnd` |
| success is treated as waiting and waiting as permission | `LockManager.cpp:84` | `Locks.cfg`; `PermittedOwns` |
| no pending lock is promoted: an iterator of one list is compared with the end of another | `LockTable.cpp:141` | `Locks.cfg`; `PendingHasReason` |
| a transaction that waits for itself is no cycle | `CycleDetector.cpp:49` | `Cycles!AllCyclesBroken` |
| a node that two paths reach is taken for a cycle, and one victim too many is killed | `CycleDetector.cpp:104` | `MaxEdges = 5`; `Cycles!VictimOnlyFromCycle` |
| a batch the detector swaps in after the test of the status is cleared unseen | `LockManager.cpp:234` | `Locks.cfg`; `NoBatchLost` |
| ids of transactions survive the graph they belong to | `DeadLockDetector.cpp:123` | `Locks.cfg`; `IdsOfThisGraph` |
| a victim whose eviction is broken off is lost to the policy | `StorageManager.cpp:884` | `Storage.cfg`; `NoBlockForgotten` |
| a block that is evicted can be a candidate when it is next loaded | `StorageManager.cpp:811` | `Storage.cfg`; `LoadedUnknown` |
| two threads that both find room exceed the limit without an eviction | `StorageManager.cpp:865` | `Storage.cfg`; `WithinLimit` |
| a modification between the write of the file and `markClean()` loses its dirty bit ("whether it has been changed since being written to disk", `StorageBlockBase.hpp:68`), and an eviction loses it | `StorageManager.cpp:412` | `Storage.cfg`; `DirtyExact` |
| a deletion and an eviction of one block end in an exception nobody catches | `StorageManager.cpp:450` | `Storage.cfg`; `NothingThrown` |
| a shiftboss gets more work orders than its capacity | `ShiftbossDirectory.hpp:175` | `Distributed.cfg`; `WithinCapacity` |
| a worker's index is taken for a shiftboss's when a completion is counted | `PolicyEnforcerDistributed.hpp:92` | `NumWorkers = 2`; `ForemanExact` |
| a shiftboss that registers late is waited for though it was not asked | `ForemanDistributed.cpp:192` | `Late = {s1}`; `RequestsEnd` |
| a block that is evicted before its creation is announced stays a location | `StorageManager.cpp:316` | `Distributed.cfg`: `Setups = {"locator"}`; `Locator!NothingStale` |
| a storage manager that shuts down drops its dirty blocks, and a read of them fails its check | `StorageManager.cpp:245` | `Distributed.cfg`: `Setups = {"locator"}`; `Locator!ReadsSucceed` |
| of two threads of a host each may receive the other's answer of the locator, and read a file that was never written | `StorageManager.cpp:572` | the same, with the property that a failed read is of a block in `dropped` |
| a selection on a partitioned relation without NUMA placement has no work orders | `SelectOperator.cpp:162` | `Work` with `Placements <- {"partitioned"}`; `WorkExact` |
| the distributed version finalizes a partitioned aggregation as one | `FinalizeAggregationOperator.cpp:65` | `SuiteInit` without the restriction to `"plain"` placements; `WorkExact` |
| a block that lost its toss is tossed for again until it wins, for ever with a percentage of 0 (which the model leaves out) | `SampleOperator.cpp:91` | `Work!SampleByToss` |
| after a value that cannot be parsed in the last field the next row is skipped too | `TextScanOperator.cpp:372` | `Text` with `Chars <- {"v", "b", ",", "n"}`; `WorkExact` |
| an empty line is a row or not, depending on where segments end | `TextScanOperator.cpp:285` | `Text` with `NumColumns <- 1`; `WorkExact` |
| the consumer of a sort is fed the blocks of intermediate runs | `QueryManagerBase.cpp:201` | `Sort!ConsumersFedOutput` |
| a resize between a preallocation and its insertions makes a chain a ring | `SeparateChainingHashTable.hpp:1304` | `Case = "tight"`; `TableSound` |
| a preallocation fails and the resize sees no need, for ever | `SeparateChainingHashTable.hpp:1130` | `Case = "spin"`; `EveryCallReturns` |
| a bulk insertion into a split row store with holes overwrites tuples | `SplitRowStoreTupleStorageSubBlock.cpp:316` | `Split` with `BatchCalls <- {"accessor"}`; `BlockExact` |
| an update of a block whose tree had no room ends the process | `StorageBlock.cpp:557` | `Packed!NeverFatal` |
| an update marks an index consistent that was not | `StorageBlock.cpp:695` | `Packed` with `Nullable <- TRUE` and the tree alone; `SearchExact` |
| an SMA that selects all selects NULLs | `SMAIndexSubBlock.cpp:680` | `Packed` with `Nullable <- TRUE` and the SMA alone; `SearchExact` |
| a NULL in the sort column is sorted by what the memory holds | `BasicColumnStoreTupleStorageSubBlock.cpp:299` | `Bulk` with `Nullable <- TRUE` and `<<"bloom">>`; `SearchExact` |
| a bulk deletion does not count the NULLs it deletes | `BasicColumnStoreTupleStorageSubBlock.cpp:518` | `Sorted` with `Nullable <- TRUE` and `<<"bloom">>`; `SearchExact` |
| the last leaf of the tree is looked for one place too far right after a split | `CSBTreeIndexSubBlock.cpp:1172` | `Grow` with `NewKeys <- {0, 1, 3}`; `TreeExact` |
| with an even number of children the node in the middle is split in the wrong group | `CSBTreeIndexSubBlock.cpp:1166` | `Grow` with `MaxKeysInternal <- 3`; `TreeExact` |
| a filter is pushed below a LIMIT | `PushDownFilter.cpp:80` | `Queries <- LimitQueries`; `MeaningPreserved` |
| … below a window aggregate | the same | `WindowQueries`; `MeaningPreserved` |
| … without attributes below an aggregate of everything | the same | `HavingQueries`; `MeaningPreserved` |
| an outer join beside a semi-join that is pushed down is dropped | `PushDownSemiAntiJoin.cpp:43` | `SemiBesideOuterQueries`; `PlansValid` |
| an outer join on a predicate of one side has neither attributes nor a predicate | `GenerateJoins.cpp:478` | `OnRightQueries`; `PlansValid` |
| an outer reference in the ON clause of an outer join is taken out of a `HashJoin`, for which `copyWithNewInputExpressions()` is the default that takes no expressions (`Logical.hpp:83`) | `UnnestSubqueries.cpp:299` | `OuterOnQueries`; `PlansValid` |
| a scalar subquery with several rows multiplies the rows around it | `UnnestSubqueries.cpp:487` | `ScalarQueries`; `MeaningPreserved` |
| a correlated scalar subquery drops the rows without a partner | `UnnestSubqueries.cpp:498` | `SelectListQueries`; `MeaningPreserved` |

## 5. The proofs

All theorems hold for every value of the constants that satisfies the named
assumptions of the modules: any number of operators, workers, transactions and
queries, any well-formed plan, any script, any limits. They have the usual shape:
an inductive invariant, a lemma that `Init` establishes it, a lemma that a
step preserves it with one step of the proof for each action, and a temporal step.
Every inductive invariant was first checked by TLC on the instances of the run.
Four theorems have a further hypothesis, which the theorem states and this section
explains; each is true of the instances of the run that checks the property.

* **QueryManagerProofs** — first `TypeCorrect`, `BlockingOrderHolds`, `InformedHolds`.
  `BlockingOrder` alone is not inductive: it says nothing of the messages on the
  bus, and a completion taken off it makes the handler start a rebuild, which is
  new work of the operator. `IInv` is `TypeOK`, `Sound` (no work order is waiting,
  queued or to be rebuilt before the blocking dependencies have finished, and an
  operator the constructor has passed has been informed if it is unblocked) and
  `OutstandingOrdered` (the same for work at the workers and
  messages on the bus). `Sound` is a predicate of the memory, so that each helper
  (`fetchNormalWorkOrders`, `finishIfOver`, …) has a lemma of its own that it
  preserves it, and an action's proof cites the helpers it calls. The assumptions
  are `NAssumption`, `PlansAssumption` and `BoundsAssumption`; the graph need not be acyclic.

  Then the state on which the end of an operator is decided, for every plan:
  `CountersExactHolds` (the counters are the work orders at the workers and the reports on the bus),
  `FinishedIsQuiescentHolds` (nothing is left of a finished operator) and `NoBlockLostHolds` (no
  block reaches a consumer that has stopped generating). Workers and places on the bus are counted as sets of
  pairs. `XInv` adds to `IInv`: `Balanced`, the counters themselves; `Trailed`, every block and
  feedback message has the completion of its work order behind it in its channel; `MemoryExact`, an operator that is done
  generating has no input left and finished producers, a rebuild starts after the last normal
  work order, and a finished operator has nothing outstanding; and `Drained`, an operator that rebuilds has no partial block.

  `OperatorStateExactHolds` needs that no link of the plan is redundant (`Irredundant`): with a second,
  longer path `markOperatorFinished()` may run twice, which is the first finding of section 4,
  so the hypothesis is the exact border and not a convenience. It is stated as the existence of a transitive relation
  that contains the links and closes none of them by a detour, which needs no recursion. `CInv` says that no frame of the
  recursion's stack holds an operator that has finished, because the frames are the dependents of operators
  further and further down, so that each operator is marked once.
  `NothingForgottenHolds` needs that links go from lower to higher indices (`Upward`), as
  `ExecutionGenerator` numbers them except for LIP filters (section 4): the constructor visits each operator once, in the
  order of the indices. `WInv` says who will fetch the work of an
  unblocked operator that still holds input: a completion of its own on the bus, or a frame of the recursion.
  `FamilyShape` in `MCQueryManager` has TLC confirm that the plans of the passing run satisfy both
  hypotheses, and that those of `early_end` and of the LIP filters violate the one in question.
* **ForemanProofs** — `ForemanTypeCorrect`, `LoadBoundedHolds`. A worker's load is
  bounded because a round is collected only when the least loaded worker has at
  most `MinLoad`. This must be carried through the dispatch of the round: `RoundFits`
  says that while `k` messages are still to go some worker has a load of at most
  `MinLoad + MaxRound - k`; the least loaded one is then below the bound.
  `Admitting` says that the request at hand is still first in the mail.

  `WorkAccountedFor` proves, with no further hypothesis, `LoadsExact`, `MessagesOfAdmitted`, `NothingAbandoned` and
  `NoStall`. `FInv` links the policy enforcer to the directory: the number of outstanding work orders
  of the one admitted query is the length of the round not yet dispatched plus the sum of all loads (`OutExact`; the sum is
  the cardinality of a set of `Tokens`, one for each unit of load). A query is removed only with nothing
  outstanding, so then no worker has or has sent anything, and the next query starts from zero. Reports other than completions
  have a completion behind them in their channel (`LoadsAre`), so they cannot be the last. `Awake` carries
  `NoStall` through collect and dispatch, and `Conversation` with `PoisonLast` says where a client that waits can be.
  `SchedulerExactHolds` adds `NoQueryLost`, and `CompletionHolds` shows that a client that waits gets one
  answer a request and finds everything executed. Both assume `SingleRequests`: a request names
  at most one query, as both callers of `ConstructAndSendAdmitRequestMessage()` do, which takes a single handle; with more,
  `admitQueries()` forgets the rest (section 4). `CompletionHolds` also assumes `Patient`.
* **LockManagerProofs** — `LockManagerTypeCorrect`, `OwnCompatibleHolds`,
  `NoOvertakingHolds`. `putLock()` tests the new lock against the owned ones and never the
  other way round, so `OwnCompatible` rests on the symmetry of the matrix, a lemma
  of its own; that `deleteLock()` preserves it rests on lemmas on removing an
  element of a sequence. `InnerAtHand` (the inner loop's request is still in its
  queue) is needed for the types alone. `NoOvertaking` is an action property: the
  owned list grows only in `put`, and there only if nothing is pending.

  `LockTablesExactHolds`: with the latch free both tables hold the same locks, every release finds what
  it is to delete, and no two owned locks conflict across levels. `LInv` adds to `IInv` that each lock occurs equally often
  in both tables (`CountsAgree`), but for the transaction that `releaseAllLocks()` is at work on, whose locks
  are those still to be released (`ReleaseCounts`); that who owns a lock owns the intention lock on the
  parent (`Covered`); and that `acquireLock()` goes down from the root (`Stacked`, `ParentFirst`).
* **StorageProofs** — about `MCStorage`, which puts the buffer pool and the insert destinations beside each other.
  * Buffer pool: `PoolExactHolds` and `BlocksKeptHolds`, from `StorageAssumption` alone: any number of
    threads, blocks and shards, any assignment of blocks to shards, any limit. What runs are told of the pool (a referenced
    block is loaded, memory is what the blocks take, nothing written is lost, deleted blocks are gone)
    holds because nobody gets at a block between the test of its reference count and its eviction, and that is a matter of who holds
    which lock. `Inner` spells it out: the readers and writers of a shard are the threads at certain places (`LocksExact`), the
    counter of a shard is the number of threads between counting and uncounting (`CountsExact`), and a thread that makes room for a block never
    waits for its own shard (`OwnShardSpared`). With those the policy's count is the number of
    references (`RefCountExact`), what a thread saw of its block under the lock stays so (`LoadsExact`), and a block about to be
    evicted has no holder, so that what is written to its file stays what the memory holds until it is erased (`VictimsFree`). A caller of
    `saveBlockOrBlob()` has no such protection: `NothingLost` excepts the blocks of `raced`, and `DirtyExact` of section 4 shows that it must. An exception leaves the process with locks taken, so that `Inner` is
    only claimed while none was thrown: `IInv` is `Outer /\ (NothingThrown => Inner)`, where `Outer` is what is to be shown.
  * Insert destinations: `DestinationExactHolds`, for a destination with a pool and for one that always creates (`which` says
    which), any number of workers, tuples, partitions and blocks. That a block has one user needs that a block is in one
    place only: with a worker, in one list of the pool and there once, to be rebuilt, or streamed (`Apart`, `PoolSound`). That no
    tuple is lost or doubled needs where a block with tuples can be (`Accounted`) and where a tuple can be (`TuplesSound`); that partitions do not
    mix, that a list, the worker that took a block from it and the block's tuples have the same partition (`Pure`); and that a streamed
    block is known to the catalog, that every id given out was announced before (`MailSound`). The conjunction is
    `DestInv`. The assumption is `DestinationAssumed`, which TLC evaluates on the run's constants.
* **ThreadingProofs** — about `MCThreading`, which puts the two mutexes and the queue beside each other.
  * Spin mutex: `MutexTypeCorrect`, `StateExactHolds`, `MutualExclusionHolds`, and
    the refinement `MutexImplements`. Exclusion does not follow from the word alone: `StateExact` says that the
    word is the number of readers, those about to back off included, plus the
    write bit when a thread claims it, and `OneClaim` that at most one thread does. With both, the
    drain loop's test that only the bit is left means that no reader is in, and a reader
    that saw no bit met no writer. The steps rest on lemmas on the cardinality of a set
    that gains or loses a thread; `ThreadsAssumption` (fewer threads than the write
    bit) keeps the count out of the bit.
  * Blocking mutex: the argument is the same, but its threads wait on condition variables. `BlockInv` says that the word is exact,
    that one thread has the bit, that a thread that holds the lock exclusively is alone, and that
    nobody waits without a reason: while somebody waits there is a holder whose release will wake it.
  * Queue: `QueueTypeCorrect`, `FifoExactHolds`, `HolderAloneHolds`,
    `NoLostWakeupHolds`, `WaitersExactHolds`. `BatchReady` (a thread
    in the middle of a push has something to push) is needed for the types. A thread waits only if it saw the queue
    empty under the mutex, and every push that ends the emptiness signals, so that
    beside an element some waiting thread has been signalled or somebody is inside.
  * All of them: `SharedStateExactHolds`, `ImplementsLockHolds` (both mutexes implement `SharedLock`: each step is a step of
    it or leaves its sets unchanged) and `ImplementsFifoHolds`, for the specification that the run checks.
* **DistributedProofs** — about the block locator, which `MCDistributed` has beside the scheduler.
  `LocationsAgreeHold`, for any number of hosts, threads and blocks: the locator's two maps mirror each other, and it is right
  about every block that no call and no message is about, but for those in `late`. That says nothing of the time in between, so the core of `IInv` is
  `ToldSound`: the last message about a block that is on its way, or the locator's map when there is none, says what its host has told or
  is about to tell (`Present`: a host adds itself before a load puts the block into memory, and deletes itself before an eviction
  takes it out; a thread that creates a block has said nothing yet, and once it has, it will have said "add" last even if the
  block was evicted in the meantime, which is what `late` records). It needs that a domain belongs to one host (`DomainsSound`, `AnswersSound`), that an
  unregistration is its host's last word (`InboxSound`), that the locator knows nothing of domains without a
  host (`NothingElse`), that of the threads of a host at most one creates a block and at most one has its shard's lock (`ThreadsSound`), and that a block stays in
  its creator's memory until it is saved or dropped (`KnownSound`).

  `LocationsExactHolds` adds that a load finds its block but in two cases, with no hypothesis on the number of threads. `PullsSound` says
  that until a block is saved or dropped nothing is on its way behind a question for it that would take its creator's location away, so that the creator is among the
  addresses of the answer, and among the peers still to be asked of the thread that asked. An answer does
  not say which block it is about, so of two threads that wait at one host each may take the other's: those are `crossed`, and
  section 4 shows that both exceptions happen.
* **NestedLoopsJoinProofs** — `JoinTypeCorrect`, `PairsExactHolds`, `AllPairsGeneratedHolds`, for
  any number of blocks fed in any order. The conjunction is inductive: lemmas on rectangles say
  that the new pairs are an L, disjoint from what has been generated, and that one of
  two counters at zero means an empty rectangle.
* **Counting** holds what several of them need: how `Append`, `Tail`, concatenation and the erasure of one place change the
  number of occurrences of a value, how a set's cardinality changes with one element, and that a set of numbers has a least one.

**Model-checked only.** Liveness and everything under fairness is outside what the
prover handles (`QueryCompletes`, `RequestsServed` but for its first part, `DeadlocksResolved`, …). What recursive
definitions compute — the meaning of a plan, the tree of an index, a merge of runs, the victims
of a wait-for graph — needs induction over data and stays with TLC, and so do the modules that are built on
RECURSIVE operators. The invariants of the hash tables, the distributed scheduler, the deadlock detector and the operators
other than the join are checked and not proved.

## 6. Not modelled

* **Parser, generated code, catalog, types, expressions, compression**: computation on data without
  a protocol, in the larger part of the source; there is no state machine to check and the
  values are out of reach of explicit-state checking. They are also why the source map covers a
  small share of all lines (about a twelfth): the lexer and parser, the tables of primes,
  the functions on types and the tests make up most of the rest.
* **Physical optimizer and cost model**: choices between plans that are all correct. The plans it hands to
  the scheduler are in `MCQueryManager`.
* **LIP filters and query context**: filters on data, and the construction of objects from
  protocol buffers. What filters do to the links of a plan is modelled.
* **Storage formats**: compressed stores, BitWeaving, the layout of bytes, composite and
  compressed keys of the tree; open-addressing hash tables, variable-length keys.
* **Sampling**: the tosses of `SampleOperator` for one block are one step, and percentages are left out.
* **Storage manager**: I/O errors, blocks of several slots, the two policies only tests use.
* Profiling, logging, CPU affinity and NUMA hints are left out of the modelled parts.
* The code persists nothing it would recover from after a crash, and the message bus is reliable, so
  there is no model of crashes, restarts or lost messages. Delays and reordering between
  senders are modelled wherever there are several.

## 7. What is left

* **Theorems**: `ForemanExact` of the distributed scheduler, whose
  counters are those of `Foreman` once more for each shiftboss.
* **Refinement**: `QueryManager` implements the stages of `Foreman`, and the shard locks of
  `StorageManager` composed with `SpinSharedMutex`.
* **Models**: the aggregation state's partitions, `FastHashTable`, the BitWeaving indexes.
