SPECIFICATION Spec
CONSTANTS
    Columns <- MCColumns
    Queries <- AllQueries
    Databases <- MCDatabases
INVARIANTS
    PlansValid
PROPERTY MeaningPreserved
CHECK_DEADLOCK FALSE
