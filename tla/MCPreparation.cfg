SPECIFICATION Spec
CONSTANTS
    NIn = 2
    NOut = 1
    Machines <- All
INVARIANTS ReachablePartRenamed MarkedIsPropagated MatrixCorrect TableCorrect
PROPERTIES PreparationEnds
CHECK_DEADLOCK FALSE
