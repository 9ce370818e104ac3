SPECIFICATION Spec
CONSTANTS
  i1 = i1
  i2 = i2
  vm = vm
  bucket = bucket
  NoEntry = NoEntry
  Id <- Ids2
  Name <- Names
  Kind <- Kinds
  Category <- Categories
  KindOf <- KindTable
  Calls <- CallTable
  MaxVersion = 1
  MaxEvents = 4
INVARIANT TypeOK
INVARIANT LivingStaysKnown
INVARIANT StrategyKept
INVARIANT OrderFree
