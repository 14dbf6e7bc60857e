\* A block dies with its process, and a tree has no room for an insertion: both may stop.
SPECIFICATION SuiteSpec
CONSTANT Cases = {"split", "packed", "sorted", "bulk", "group", "grow", "rebuild"}
INVARIANTS
    BlockExact
    SearchExact
    TreeExact
CHECK_DEADLOCK FALSE
