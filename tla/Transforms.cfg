SPECIFICATION Spec
CONSTANTS
  t1 = t1
  t2 = t2
  d1 = d1
  sA = sA
  sB = sB
  raw = raw
  marker = marker
  pointer = pointer
  None = None
  Transforms = {t1, t2}
  Cleanups = {d1}
  SessionIDs = {sA, sB}
  Parts = {1}
  SessionOf <- OnePartOfA
  Raw = raw
  Forms = {marker}
  Chars <- FormChars
  Requests <- ContendedRequests
  MaxSessions = 1
  MaxParts = 1
  MaxChars = 3
  MaxVersion = 1
  MaxConflicts = 1
SYMMETRY TransformSymmetry
CHECK_DEADLOCK FALSE
INVARIANTS
  RepresentationStable
  RecordIsLastSent
PROPERTY ImplementsLocks
