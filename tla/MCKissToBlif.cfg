SPECIFICATION Spec
CONSTANTS
    NIn = 1
    NOut = 1
    A = A
    B = B
    Star = Star
    NoState = NoState
    StateNames <- AB
    Files <- MCFiles
INVARIANTS ParsedAsWritten
PROPERTIES ImplementsGiven
CHECK_DEADLOCK FALSE
