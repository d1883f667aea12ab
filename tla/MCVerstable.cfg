CONSTANTS
  k1 = k1
  k2 = k2
  k3 = k3
  k4 = k4
  k5 = k5
  v1 = v1
  v2 = v2
  Keys = {k1, k2, k3, k4, k5}
  Values = {v1, v2}
  Pairs <- MCPairs
  Hash <- MCHash
  FragUnit = 16
  MinBuckets = 4
  Reserves = {4}
  Platforms <- MCPlatforms
  End = End
SPECIFICATION Spec
INVARIANTS TypeOK ChainsWellFormed
PROPERTY ImplementsMap
