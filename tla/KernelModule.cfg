SPECIFICATION Spec
INVARIANTS LeaksExplained DoubleReleaseExplained ThreadsOutlived
PROPERTIES UnloadEnds
CHECK_DEADLOCK FALSE
