SPECIFICATION SuiteSpec
CONSTANTS
    Setups = {"run", "two", "late", "locator"}
    Hosts = {1, 2}
    NumThreads <- MCNumThreads
    MaxBlocks <- MCMaxBlocks
    MaxLoads = 2
    MaxInbox = 2
    Bosses = {s1, s2}
    Late = {}
    NumWorkers = 1
    Queries = {"select", "delete"}
    Result = {"select"}
    MaxPartial = 2
    MaxRound = 2
    Ops <- MCOps
INVARIANTS
    ForemanExact
    ContextsExact
    LocationsExact
PROPERTIES
    RequestsEnd
CHECK_DEADLOCK FALSE
