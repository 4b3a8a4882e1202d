SPECIFICATION Spec
CONSTANTS
  A = A
  B = B
  x = x
  y = y
  tiny = tiny
  k1 = k1
  k2 = k2
  k3 = k3
  call1 = call1
  call2 = call2
  NoCall = NoCall
  Raw = raw
  Unset = Unset
  Infinity = 9
  Contents = {x, y, tiny}
  Ineligible = {tiny}
  CandidateHash <- CollidingHashes
  Operations <- SomeOperations
  MaxReplacements = 1
  MaxOperations = 4
  CompressStale = TRUE
  CompressSuperseded = TRUE
  MaxHistory = 5
  MaxRows = 2
  LastLine = 4
CHECK_DEADLOCK FALSE
INVARIANTS
  MarkersConsistent
  HiddenIsObsolete
