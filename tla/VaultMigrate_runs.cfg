SPECIFICATION FairSpec
CONSTANTS
    None = None
    v1 = v1
    v2 = v2
    own = own
    Vals = {v1, v2, own}
    Fresh = own
    Names = {"a", "b"}
    Paths <- MCPaths
    Keys <- MCKeys
    FirstInc <- MCFirstInc
    FirstProd <- MCFirstProd
    Envs <- MCEnvs
    MaxFaults = 2
    MaxWrites = 1
    MaxDry = 1
INVARIANT TypeOK
INVARIANT SecretsSurvive
PROPERTY Converges
CHECK_DEADLOCK FALSE
