SPECIFICATION Spec
CONSTANTS
  vm = vm
  art = art
  disk = disk
  bkt = bkt
  grp = grp
  fvm = fvm
  xvm = xvm
  xip = xip
  NoOptions = NoOptions
  NoItem = NoItem
  Res <- Resources
  KindOf <- KindTable
  HostOf <- HostTable
  Foreign <- Others
  BlocNamed <- Names
  Unfiltered <- Addresses
  Reads404 <- Odd
  Recordable <- Entries
  KeyedById <- Synced
  Preserved <- Disks
  Options <- CommandLines
  MaxRetryAttempts = 2
  MaxMishaps = 0
PROPERTY PreservedSurvives
