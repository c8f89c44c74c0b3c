\* Two home pages one after the other, or one with rebuilds.
CONSTANT MaxRequests = 8
SPECIFICATION Spec
INVARIANTS TypeOK RestsOnLatest
PROPERTIES NeverOlder BrokenOnlyAtFirst FeedsSettle
\* The page may be gone and everything answered.
CHECK_DEADLOCK FALSE
