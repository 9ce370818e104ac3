SPECIFICATION Spec
CONSTANTS
    workload = workload
    infra = infra
    bosh = bosh
    proxy = proxy
    a1 = a1
    a2 = a2
    a3 = a3
    s1 = s1
    s2 = s2
    None = None
    Records <- MCRecords
    Complete <- MCComplete
    Keys <- MCKeys
    Addrs <- MCAddrs
    Schemes <- MCSchemes
    Tables <- MCTables
    MaxFaults = 1
INVARIANT TypeOK
INVARIANT LiveAddressKept
INVARIANT StampIsTrue
INVARIANT DryRunPredicts
