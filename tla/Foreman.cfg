SPECIFICATION SuiteSpec
CONSTANTS
    a = a
    b = b
    c = c
    Clients = {"patient", "impatient"}
    Queries = {a, b, c}
    Stages <- ThreeStages
    Script <- OneByOne
    Patient = TRUE
    NumWorkers = 2
    MinLoad = 1
    MaxRound = 2
INVARIANTS
    SchedulerExact
    LoadBounded
PROPERTIES
    RequestsServed
