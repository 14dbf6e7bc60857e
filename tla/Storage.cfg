SPECIFICATION SuiteSpec
CONSTANTS
    Parts = {"pool", "destination", "create"}
    Threads = {t1, t2}
    Blocks = {1, 2}
    Shards = {0, 1}
    Shard <- MCShard
    max_memory_usage = 1
    Workers = {w1, w2}
    Tuples = {1, 2, 3, 4}
    Partitions = {1, 2}
    PartitionId <- MCPartitionId
    ExistingBlocks <- MCExistingBlocks
    Slots <- MCSlots
    OutputBlocks = {1, 2, 3, 4, 5, 6, 7, 8}
INVARIANTS
    PoolExact
    BlocksKept
    DestinationExact
PROPERTIES
    InsertionsEnd
