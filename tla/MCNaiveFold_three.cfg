SPECIFICATION NaiveSpec
CONSTANTS
    NTimeFrame = 3
    NPi = 2
    Circuits <- SixInputs
INVARIANTS RingCountsFrames StoreKeepsBatch
PROPERTIES NaiveImplementsFold
