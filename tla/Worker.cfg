CONSTANTS
    MaxPosts = 3
    MaxSignals = 2
    MaxStale = 2
SPECIFICATION FairSpec
INVARIANTS TypeOK OneChain NoStaleRange OneAnswer HaltedForGdb UiAgrees
PROPERTY InterruptAnswered
