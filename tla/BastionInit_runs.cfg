SPECIFICATION FairSpec
CONSTANTS
  bastion_keys = bastion_keys
  packages = packages
  binary_tools = binary_tools
  cpan_modules = cpan_modules
  vault_inception = vault_inception
  custom_scripts = custom_scripts
  verification = verification
  Keys <- KeyList
  Pre <- PreList
  Batch <- BatchList
  Post <- PostList
  MarkerPhase = custom_scripts
  Workers = 2
  MaxFaults = 2
  MaxRebuilds = 1
INVARIANT TypeOK
INVARIANT ClaimsAreTrue
INVARIANT SuccessMeansProvisioned
PROPERTY OrderKept
PROPERTY Converges
