CONSTANTS
    Lines = {"line"}
    Addresses = {"address"}
    MaxNumber = 2
    MaxCommands = 2
    MaxPosts = 2
SPECIFICATION FairSpec
INVARIANTS TypeOK StateAgrees ListedIsSet StopComing ViewCurrent
PROPERTY InterruptEnds
CHECK_DEADLOCK FALSE
