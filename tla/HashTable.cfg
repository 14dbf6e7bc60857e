\* Concurrent put() and upsert() of equal keys into a table that grows, and the table of
\* a join: insertions key by key, and whole accessors while nothing resizes.
CONSTANTS
    Threads = {1, 2, 3}
    Keys <- MCKeys
    Hash <- MCHash
    Workloads <- MCWorkloads
    kHashTableLoadFactor = 2
    Case = "all"
SPECIFICATION FairSpec
INVARIANTS
    TableSound
    ContentExact
PROPERTIES
    EveryCallReturns
