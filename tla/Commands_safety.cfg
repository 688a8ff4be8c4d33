CONSTANTS
  k1 = k1
  k2 = k2
  a = a
  b = b
  Client = {c1, c2}
  Key = {k1, k2}
  Block = {a, b}
  Arg <- MCArg
  KeyList <- MCKeyList
  NoValue = NoValue
  KLen <- MCKeyLen
  VLen <- MCLen
  MaxSize = 4
SYMMETRY ClientSymmetry
SPECIFICATION Spec
INVARIANT TypeOK
PROPERTIES
  GetFresh
  ConditionsKept
