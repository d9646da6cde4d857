SPECIFICATION Spec
INVARIANTS NothingLeft NoUseAfterDestroy
PROPERTIES ExitEnds ScanRecurs
CHECK_DEADLOCK FALSE
