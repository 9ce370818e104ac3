CONSTANTS
    Providers = {"pve"}
    Modes = {"all"}
    MaxId = 2
    MaxFaults = 1
    MaxRollbacks = 1
    MaxRebuilds = 0
    MaxTries = 1
SPECIFICATION Spec
PROPERTY RollbackSparesEarlierRuns
