SPECIFICATION SuiteSpec
CONSTANTS
    Threads = {t1, t2, t3, t4}
    QueueThreads = {t1, t2, t3}
    kWriteBit = 8
    Elements = {1, 2}
    Batches <- MCBatches
    MaxPushed = 3
INVARIANTS
    StateExact
    SharedStateExact
PROPERTIES
    Implements
    ImplementsLock
    ImplementsFifo
    ThreadsProgress
