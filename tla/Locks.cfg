SPECIFICATION FairSpec
CONSTANTS
  t1 = t1
  t2 = t2
  t3 = t3
  d1 = d1
  d2 = d2
  sA = sA
  sB = sB
  None = None
  SessionIDs = {sA, sB}
  Transforms = {t1, t2}
  Cleanups = {d1, d2}
  MaxSessions = 1
CHECK_DEADLOCK FALSE
INVARIANTS
  TypeOK
  SerializedWindows
  DeletionIsExclusive
  DisposedIsQuiet
  QueuesBounded
  NeverSpins
PROPERTIES
  EverybodyFinishes
