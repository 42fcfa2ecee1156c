SPECIFICATION FairSpec
CONSTANTS
    NTimeFrame = 3
    NPi = 1
    Circuits <- SmallStrashed
INVARIANTS EarliestFrame PermLegal
PROPERTIES ImplementsFold FoldingEnds
