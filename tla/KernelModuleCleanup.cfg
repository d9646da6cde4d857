SPECIFICATION Spec
INVARIANT CleanupComplete
CHECK_DEADLOCK FALSE
