SPECIFICATION FairSpec
CONSTANTS
    N = 3
    Plans <- MCPlans
    Family = "all"
    Workers = {w1, w2}
    MaxStream = 1
    MaxPartial = 1
    MaxStored = 2
    MaxRounds = 1
INVARIANTS
    OperatorStateExact
    BlockingOrder
    InformedWhenUnblocked
    NothingForgotten
PROPERTIES
    QueryCompletes
