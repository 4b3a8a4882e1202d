SPECIFICATION Spec
CONSTANTS
  sA = sA
  sB = sB
  w1 = w1
  w2 = w2
  raw = raw
  marker = marker
  pointer = pointer
  SessionIDs = {sA, sB}
  Parts = {1, 2}
  SessionOf <- AllOfA
  Windows = {w1, w2}
  Raw = raw
  Forms = {marker, pointer}
  Chars <- FormChars
  Requests <- SomeRequests
  MaxSessions = 1
  MaxParts = 1
  MaxChars = 2
  MaxVersion = 1
  MaxConflicts = 1
SYMMETRY WindowSymmetry
INVARIANTS
  RecordsConsistent
PROPERTIES
  OverlapRollsBack
  InUseNeverEvicted
