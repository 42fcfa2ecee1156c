SPECIFICATION SessionSpec
CONSTANTS
    Circuits <- Machines
    Sizes = {0, 1, 2, 3, 4}
    Parts <- TwoParts
    MaxCi = 8
    MaxPermuted = 3
    MaxCommands = 3
INVARIANTS CascadeResets VoterCounts MergedApart InputsPlaced
CHECK_DEADLOCK FALSE
