CONSTANTS
    Providers = {"pve", "aws"}
    Modes = {"all", "bastion"}
    MaxId = 3
    MaxFaults = 2
    MaxRollbacks = 1
    MaxRebuilds = 1
    MaxTries = 2
SPECIFICATION FairSpec
INVARIANT TypeOK
INVARIANT NoLeftovers
PROPERTY BuildsWhatItClaims
PROPERTY UsedDisksStay
PROPERTY Converges
