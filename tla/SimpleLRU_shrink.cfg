CONSTANTS
  k1 = k1
  k2 = k2
  k3 = k3
  v0 = v0
  v1 = v1
  v4 = v4
  Key = {k1, k2, k3}
  Value = {v0, v1, v4}
  KLen <- MCKeyLen
  VLen <- MCValueLen
  Addr = {a1, a2, a3}
  Null = Null
  MaxSize = 5
  WORD = 16
SYMMETRY AddrSymmetry
SPECIFICATION Spec
INVARIANT PutReplaces
