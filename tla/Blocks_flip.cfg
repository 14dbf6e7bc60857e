\* The key on the right of the literal: what the CSB+-tree and a scan answer.
SPECIFICATION SuiteSpec
CONSTANT Cases = {"flip"}
INVARIANT FlippedSearchExact
CHECK_DEADLOCK FALSE
