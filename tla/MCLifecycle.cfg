CONSTANT MaxResults = 2
SPECIFICATION Spec
INVARIANT FilesClosed
PROPERTIES BeginsToWriteOpen QuitEnds
CHECK_DEADLOCK FALSE
