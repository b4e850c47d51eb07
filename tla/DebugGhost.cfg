CONSTANTS
    Lines = {"line"}
    Addresses = {"address"}
    MaxNumber = 2
    MaxCommands = 2
    MaxPosts = 2
SPECIFICATION Spec
INVARIANTS NoGhost
CHECK_DEADLOCK FALSE
