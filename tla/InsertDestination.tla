-------------------------- MODULE InsertDestination --------------------------
(***************************************************************************)
(* InsertDestination: workers insert tuples into the blocks of an output   *)
(* relation, one set of tuples per call.  A block that is full is sealed   *)
(* and streamed to the scheduler by the worker; what is left partially     *)
(* filled is streamed by rebuild work orders when the operator is done.    *)
(* BlockPoolInsertDestination is the case of one partition, and            *)
(* PartitionAwareInsertDestination has a pool per partition.               *)
(***************************************************************************)
EXTENDS Naturals, Sequences, SequencesExt, FiniteSets

CONSTANTS
    Workers,
    Tuples,          \* the tuples that the work orders of the operator insert
    Partitions,      \* 1 .. n
    PartitionId,     \* getPartitionId() of every tuple
    ExistingBlocks,  \* per partition, the ids the pool is constructed with
    Slots,           \* how many more tuples each block takes
    Blocks           \* all block ids, numbers from 1; new ones follow the existing

None == 0
Existing == UNION {Range(ExistingBlocks[p]) : p \in Partitions}

\* Every existing id is in the pool once, and those of new blocks follow.
DestinationAssumption ==
    /\ 1 \in Partitions /\ Partitions \subseteq Nat \ {None} /\ Blocks \subseteq Nat \ {None}
    /\ PartitionId \in [Tuples -> Partitions]
    /\ Slots \in [Blocks -> Nat]
    /\ ExistingBlocks \in [Partitions -> Seq(Blocks)]
    /\ \A p, q \in Partitions :
         \A i \in DOMAIN ExistingBlocks[p], j \in DOMAIN ExistingBlocks[q] :
             ExistingBlocks[p][i] = ExistingBlocks[q][j] => p = q /\ i = j
    /\ IsFiniteSet(Existing) /\ Existing = 1 .. Cardinality(Existing)

VARIABLES
    always_create,         \* AlwaysCreateBlockInsertDestination, or a pool
    waiting,               \* tuples that no call has been made for yet
    todo,                  \* per worker, the rest of the accessor of its call
    mark,                  \* per worker, always_mark_full of its call
    pc, block, part,       \* where a worker is, with which block, in which partition
    full,                  \* the flag it is going to return the block with
    available_block_refs, available_block_ids, done_block_ids,
    block_index,           \* the last block id created
    content,               \* per block, the tuples inserted
    mail,                  \* messages to the scheduler, in order
    rebuild                \* partially filled blocks with a rebuild work order

pool  == <<available_block_refs, available_block_ids, done_block_ids>>
local == <<pc, block, part, full>>
vars  == <<always_create, waiting, todo, mark, local, pool, block_index, content, mail, rebuild>>

Init ==
    /\ always_create \in BOOLEAN
    /\ waiting = Tuples
    /\ todo = [w \in Workers |-> {}]
    /\ mark = [w \in Workers |-> FALSE]
    /\ pc = [w \in Workers |-> "idle"]
    /\ block = [w \in Workers |-> None]
    /\ part = [w \in Workers |-> None]
    /\ full = [w \in Workers |-> FALSE]
    /\ available_block_refs = [p \in Partitions |-> <<>>]
    /\ available_block_ids = [p \in Partitions |-> IF always_create THEN <<>> ELSE ExistingBlocks[p]]
    /\ done_block_ids = [p \in Partitions |-> <<>>]
    /\ block_index = Cardinality(Existing)
    /\ content = [b \in Blocks |-> {}]
    /\ mail = <<>>
    /\ rebuild = {}

Go(w, from, to) == pc[w] = from /\ pc' = [pc EXCEPT ![w] = to]

-----------------------------------------------------------------------------
(* bulkInsertTuples() and the other insertions *)

\* Only a pool is partitioned.
PartitionOf(x)    == IF always_create THEN 1 ELSE PartitionId[x]
InPartition(T, p) == {x \in T : PartitionOf(x) = p}

\* Partitions are served in their order, and a worker that has inserted all its
\* tuples of one goes on with the next that has any.
NextPartition(T) == CHOOSE p \in Partitions :
    InPartition(T, p) # {} /\ \A q \in Partitions : q < p => InPartition(T, q) = {}

bulkInsertTuples(w) ==
    /\ rebuild = {}
    /\ \E T \in (SUBSET waiting) \ {{}}, m \in BOOLEAN :
         /\ Go(w, "idle", "get")
         /\ todo' = [todo EXCEPT ![w] = T]
         /\ part' = [part EXCEPT ![w] = NextPartition(T)]
         /\ mark' = [mark EXCEPT ![w] = m]
         /\ waiting' = waiting \ T
    /\ UNCHANGED <<block, full, pool, block_index, content, mail, rebuild>>

\* createBlock() of the storage manager, and the message to the catalog.
createNewBlock(w) ==
    /\ block_index + 1 \in Blocks
    /\ block_index' = block_index + 1
    /\ block' = [block EXCEPT ![w] = block_index + 1]
    /\ mail' = Append(mail, [type |-> "newBlock", block |-> block_index + 1,
                             partition |-> part[w]])

\* Under the mutex: a block in use before, then one the pool was given, then a new one.
getBlockForInsertion(w) ==
    LET p    == part[w]
        refs == available_block_refs[p]
        ids  == available_block_ids[p]
    IN  /\ Go(w, "get", "insert")
        /\ \/ /\ always_create \/ (refs = <<>> /\ ids = <<>>)
              /\ createNewBlock(w)
              /\ UNCHANGED pool
           \/ /\ ~always_create /\ refs = <<>> /\ ids # <<>>
              /\ block' = [block EXCEPT ![w] = Last(ids)]
              /\ available_block_ids' = [available_block_ids EXCEPT ![p] = Front(@)]
              /\ UNCHANGED <<available_block_refs, done_block_ids, mail, block_index>>
           \/ /\ ~always_create /\ refs # <<>>
              /\ block' = [block EXCEPT ![w] = Last(refs)]
              /\ available_block_refs' = [available_block_refs EXCEPT ![p] = Front(@)]
              /\ UNCHANGED <<available_block_ids, done_block_ids, mail, block_index>>
        /\ UNCHANGED <<waiting, todo, mark, part, full, content, rebuild>>

Least(a, b) == IF a <= b THEN a ELSE b

\* Mutant: a block in which nothing fits is not taken for full.
InsertNothingFits(w) ==
    LET mine == InPartition(todo[w], part[w])
        left == Slots[block[w]] - Cardinality(content[block[w]])
    IN  /\ Go(w, "insert", "return")
        /\ \E T \in SUBSET mine :
             /\ Cardinality(T) = Least(left, Cardinality(mine))
             /\ content' = [content EXCEPT ![block[w]] = @ \cup T]
             /\ todo' = [todo EXCEPT ![w] = @ \ T]
             /\ full' = [full EXCEPT ![w] = T # {} /\ (mark[w] \/ T # mine)]
        /\ UNCHANGED <<waiting, mark, block, part, pool, block_index, mail, rebuild>>

\* As many tuples as fit; the block is full if none did, or some are left.
insert(w) ==
    LET mine == InPartition(todo[w], part[w])
        left == Slots[block[w]] - Cardinality(content[block[w]])
    IN  /\ Go(w, "insert", "return")
        /\ \E T \in SUBSET mine :
             /\ Cardinality(T) = Least(left, Cardinality(mine))
             /\ content' = [content EXCEPT ![block[w]] = @ \cup T]
             /\ todo' = [todo EXCEPT ![w] = @ \ T]
             /\ full' = [full EXCEPT ![w] = T = {} \/ mark[w] \/ T # mine]
        /\ UNCHANGED <<waiting, mark, block, part, pool, block_index, mail, rebuild>>

\* The end of a round of the loop: the next block, the next partition, or the end.
Continue(w, from) ==
    /\ Go(w, from, IF todo[w] = {} THEN "idle" ELSE "get")
    /\ part' = [part EXCEPT ![w] = IF todo[w] = {} THEN None ELSE NextPartition(todo[w])]
    /\ block' = [block EXCEPT ![w] = None]
    /\ full' = [full EXCEPT ![w] = FALSE]

\* Mutant: the block that is not full is dropped.
ReturnForgets(w) ==
    /\ pc[w] = "return"
    /\ IF full[w]
       THEN /\ Go(w, "return", "send")
            /\ done_block_ids' = [done_block_ids EXCEPT ![part[w]] = Append(@, block[w])]
            /\ UNCHANGED <<available_block_refs, block, part, full>>
       ELSE Continue(w, "return") /\ UNCHANGED <<done_block_ids, available_block_refs>>
    /\ UNCHANGED <<waiting, todo, mark, available_block_ids, block_index, content, mail, rebuild>>

\* Under the mutex: sealed, or back to the pool.
returnBlock(w) ==
    /\ pc[w] = "return"
    /\ IF always_create \/ full[w]
       THEN /\ Go(w, "return", "send")
            /\ done_block_ids' = [done_block_ids EXCEPT ![part[w]] = Append(@, block[w])]
            /\ UNCHANGED <<available_block_refs, block, part, full>>
       ELSE /\ available_block_refs' = [available_block_refs EXCEPT ![part[w]] = Append(@, block[w])]
            /\ Continue(w, "return")
            /\ UNCHANGED done_block_ids
    /\ UNCHANGED <<waiting, todo, mark, available_block_ids, block_index, content, mail, rebuild>>

\* The block is rebuilt, and the scheduler told.
sendBlockFilledMessage(w) ==
    /\ mail' = Append(mail, [type |-> "pipeline", block |-> block[w], partition |-> None])
    /\ Continue(w, "send")
    /\ UNCHANGED <<waiting, todo, mark, pool, block_index, content, rebuild>>

-----------------------------------------------------------------------------
(* The end of the operator: getRebuildWorkOrders() of the query manager,   *)
(* when every work order has been executed, and RebuildWorkOrder           *)

AllInserted == waiting = {} /\ \A w \in Workers : pc[w] = "idle"

getPartiallyFilledBlocks ==
    /\ AllInserted /\ rebuild = {}
    /\ \E p \in Partitions : available_block_refs[p] # <<>>
    /\ rebuild' = UNION {Range(available_block_refs[p]) : p \in Partitions}
    /\ available_block_refs' = [p \in Partitions |-> <<>>]
    /\ UNCHANGED <<waiting, todo, mark, local, available_block_ids, done_block_ids, block_index,
                   content, mail>>

executeRebuild(b) ==
    /\ b \in rebuild
    /\ mail' = Append(mail, [type |-> "pipeline", block |-> b, partition |-> None])
    /\ rebuild' = rebuild \ {b}
    /\ UNCHANGED <<waiting, todo, mark, local, pool, block_index, content>>

-----------------------------------------------------------------------------
Streamed  == {mail[i].block : i \in {j \in DOMAIN mail : mail[j].type = "pipeline"}}
Completed ==
    /\ AllInserted /\ rebuild = {}
    /\ \A p \in Partitions : available_block_refs[p] = <<>>

Work(w) == getBlockForInsertion(w) \/ insert(w) \/ returnBlock(w) \/ sendBlockFilledMessage(w)

Next ==
    /\ UNCHANGED always_create
    /\ \/ \E w \in Workers : bulkInsertTuples(w) \/ Work(w)
       \/ getPartiallyFilledBlocks
       \/ \E b \in Blocks : executeRebuild(b)
       \/ Completed /\ UNCHANGED vars

Spec == Init /\ [][Next]_vars

\* Workers run, and the query manager executes what it has work orders for.
FairSpec ==
    /\ Spec
    /\ \A w \in Workers : WF_vars(bulkInsertTuples(w) \/ Work(w))
    /\ WF_vars(getPartiallyFilledBlocks)
    /\ WF_vars(\E b \in Blocks : executeRebuild(b))

-----------------------------------------------------------------------------
(* Properties *)

TypeOK ==
    /\ waiting \subseteq Tuples /\ todo \in [Workers -> SUBSET Tuples]
    /\ mark \in [Workers -> BOOLEAN] /\ full \in [Workers -> BOOLEAN]
    /\ pc \in [Workers -> {"idle", "get", "insert", "return", "send"}]
    /\ block \in [Workers -> Blocks \cup {None}]
    /\ part \in [Workers -> Partitions \cup {None}]
    /\ \A f \in {available_block_refs, available_block_ids, done_block_ids} :
         f \in [Partitions -> Seq(Blocks)]
    /\ block_index \in Blocks \cup {None}
    /\ content \in [Blocks -> SUBSET Tuples]
    /\ rebuild \subseteq Blocks

Pooled == UNION {Range(available_block_refs[p]) \cup Range(available_block_ids[p]) : p \in Partitions}

(***************************************************************************)
(* A block has one user: no two workers insert into it, and none does      *)
(* while it is in the pool.                                                *)
(***************************************************************************)
OneUser ==
    /\ \A w \in Workers : block[w] \notin Pooled \cup rebuild
    /\ \A v, w \in Workers : v # w /\ block[v] # None => block[v] # block[w]

(***************************************************************************)
(* Every tuple whose insertion is over is in exactly one block, and the    *)
(* blocks of a partition hold only its tuples.                             *)
(***************************************************************************)
EveryTupleOnce ==
    LET open == waiting \cup UNION {todo[w] : w \in Workers}
    IN  /\ \A x \in Tuples \ open : Cardinality({b \in Blocks : x \in content[b]}) = 1
        /\ \A x \in open, b \in Blocks : x \notin content[b]
        /\ \A p \in Partitions :
             \A b \in Range(done_block_ids[p]) \cup Range(available_block_refs[p]) :
                 content[b] = InPartition(content[b], p)

(***************************************************************************)
(* The scheduler hears of a block once, and of a new block before it is    *)
(* told that the block is filled, by whichever worker that is.             *)
(***************************************************************************)
StreamedOnce ==
    \A i \in DOMAIN mail :
        /\ \A j \in DOMAIN mail : mail[i] = mail[j] => i = j
        /\ mail[i].type = "pipeline" /\ mail[i].block \notin Existing =>
             \E j \in 1 .. i - 1 : mail[j].type = "newBlock" /\ mail[j].block = mail[i].block

(***************************************************************************)
(* When the operator is complete, every block that has a tuple has been    *)
(* streamed: the consumers see all of the output.                          *)
(***************************************************************************)
OutputComplete == Completed => \A b \in Blocks : content[b] # {} => b \in Streamed

(***************************************************************************)
(* The destination: no two workers insert into one block, every tuple is   *)
(* inserted once and into its partition, every block is streamed once and  *)
(* in the end all of them are.                                             *)
(***************************************************************************)
DestinationExact == TypeOK /\ OneUser /\ EveryTupleOnce /\ StreamedOnce /\ OutputComplete

\* Every call returns and everything is streamed in the end, also when workers
\* take blocks from the pool in which nothing more fits.
InsertionsEnd == <>Completed
=============================================================================
