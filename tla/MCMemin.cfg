SPECIFICATION MeMin
CONSTANTS
    NIn = 1
    NOut = 1
    Machines <- All
INVARIANTS SuccessorsFound Smallest
PROPERTIES ImplementsGiven SearchEnds
CHECK_DEADLOCK FALSE
