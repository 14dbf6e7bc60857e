SPECIFICATION SuiteSpec
CONSTANTS
    t1 = t1
    t2 = t2
    t3 = t3
    db = db
    rel = rel
    blk = blk
    NoParent = NoParent
    Transactions = {t1, t2, t3}
    Resources = {db, rel, blk}
    Parent <- Levels
    Script <- ReaderAndWriters
    MaxTry = 2
    MaxRounds = 2
    MaxEdges = 4
    Parts = {"levels", "detector", "cycles"}
CHECK_DEADLOCK FALSE
INVARIANTS
    OwnCompatible
    LockTablesExact
    VictimsExact
PROPERTIES
    NoOvertaking
    DeadlocksResolved
