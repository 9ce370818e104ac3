SPECIFICATION Spec
CONSTANTS
  p1 = p1
  p2 = p2
  p3 = p3
  p4 = p4
  p5 = p5
  k0 = k0
  k1 = k1
  k2 = k2
  k3 = k3
  Nobody = Nobody
  Resource <- Keys
  Process <- Commands
  Role <- CommandsRole
  Job <- CommandsJob
  Initial <- First
  Forcing <- Forced
  Together <- Teardowns
  Faults = {"crash", "rename", "write", "backup", "replace", "clock"}
  MaxFaults = 1
  MaxClock = 1
  MaxBackups = 1
INVARIANT TypeOK
INVARIANT NothingForgotten
INVARIANT CopyKept
INVARIANT Exclusive
