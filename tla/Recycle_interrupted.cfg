SPECIFICATION FairSpec
CONSTANTS
  VM = {v1, v2, v3}
  Nobody = Nobody
  First = v1
  Operator = {op1}
  Mechanisms = {"reassign"}
  MaxInterrupts = 4
  MaxRefusals = 0
  MaxBlinks = 0
  MaxLosses = 0
INVARIANTS
  TypeOK
  DataDiskSurvives
  RecordIsTrue
PROPERTIES
  KeepsCustody
  NoReturnFinishes
