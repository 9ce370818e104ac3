SPECIFICATION FairSpec
CONSTANTS
    c1 = c1
    c2 = c2
    elder = elder
    Commands <- MCCommands
    Elder = elder
    Layouts <- MCLayouts
    Nobody = Nobody
    Dead = Dead
    None = None
    MaxFaults = 1
INVARIANT TypeOK
INVARIANT KeysKept
INVARIANT NothingLost
PROPERTY Converges
CHECK_DEADLOCK FALSE
