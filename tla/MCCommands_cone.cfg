SPECIFICATION SessionSpec
CONSTANTS
    Circuits <- Machines
    Sizes = {0, 1, 2, 3}
    Parts <- TwoParts
    MaxCi = 6
    MaxPermuted = 3
    MaxCommands = 2
INVARIANTS ConeInRange
CHECK_DEADLOCK FALSE
