SPECIFICATION Spec
CONSTANTS
    NTimeFrame = 3
    NPi = 1
    Reord = TRUE
    Circuits <- ThreeInputs
INVARIANTS CheckAgrees
PROPERTIES ImplementsFold
