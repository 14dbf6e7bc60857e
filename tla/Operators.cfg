SPECIFICATION SuiteSpec
CONSTANTS
    MaxBlocks = 4
    Parts = {"join", "work", "text", "sort", "single", "generic"}
INVARIANTS
    PairsExact
    AllPairsGenerated
    WorkExact
    SortExact
PROPERTIES
    GenerationEnds
CHECK_DEADLOCK FALSE
