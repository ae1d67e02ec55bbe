SPECIFICATION FairSpec
CONSTANT ErrorLists <- Lists
INVARIANTS HeapSound AllIsPrinted LinesComplete
PROPERTY PrintEnds
CHECK_DEADLOCK FALSE
