SPECIFICATION AnySpec
CONSTANTS
  k1 = k1
  k2 = k2
  k3 = k3
  k4 = k4
  Addresses = {a1, a2, a3, a4}
  ListVals <- TwoVals
  ListIndices <- FiveIndices
  NULL = NULL
  Keys <- FourKeys
  Values = {v1, v2}
  Hash <- Hashes
  Buckets = 8
INVARIANTS
  MapWellFormed
  HeapSafe
  CallsKeepPromise
  NumbersCorrect
  TextsCorrect
  ObjectsCorrect
PROPERTIES
  MapImplementsDictionary
  NothingLost
SYMMETRY AnyAddress
