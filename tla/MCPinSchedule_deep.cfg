SPECIFICATION Spec
CONSTANTS
    NTimeFrame = 3
    NPi = 1
    NCo = 3
INVARIANTS NextSlotExists PermLegal LeastPins ReadBeforeShown
PROPERTIES SchedulingEnds
