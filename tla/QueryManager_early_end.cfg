SPECIFICATION Spec
CONSTANTS
    N = 4
    Plans <- MCPlans
    Family = "hash join"
    Workers = {w1, w2}
    MaxStream = 1
    MaxPartial = 1
    MaxStored = 2
    MaxRounds = 0
INVARIANTS
    ExecutedMeansAllFinished
CHECK_DEADLOCK FALSE
