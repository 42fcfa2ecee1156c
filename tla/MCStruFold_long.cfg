SPECIFICATION Spec
CONSTANTS
    NTimeFrame = 4
    NPi = 1
    Circuits <- LongStrashed
INVARIANTS OneLoadPerFrame
PROPERTIES NoMoreLatsThanNeeded ImplementsFold
