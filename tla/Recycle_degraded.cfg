SPECIFICATION Spec
CONSTANTS
  VM = {v1, v2, v3}
  Nobody = Nobody
  First = v1
  Operator = {op1}
  Mechanisms = {"reassign", "detach"}
  MaxInterrupts = 1
  MaxRefusals = 1
  MaxBlinks = 1
  MaxLosses = 1
INVARIANTS
  OneBastionName
PROPERTIES
  RetiredAfterHandover
