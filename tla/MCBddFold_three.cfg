SPECIFICATION FairSpec
CONSTANTS
    NTimeFrame = 3
    NPi = 1
    Circuits <- ThreeFrames
INVARIANTS StatesPartition StatesCounted Minimal
PROPERTIES ImplementsFold FoldEnds
