SPECIFICATION Spec
CONSTANTS
    NTimeFrame = 2
    NPi = 2
    Circuits <- TwoPins
INVARIANTS OneTransition CheckAgrees
PROPERTIES ImplementsFold
