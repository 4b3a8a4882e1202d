SPECIFICATION Spec
CONSTANTS
  p1 = p1
  p2 = p2
  s1 = s1
  s2 = s2
  c1 = c1
  c2 = c2
  k1 = k1
  k2 = k2
  k3 = k3
  AnySession = AnySession
  Processes = {p1}
  Sessions = {s1, s2}
  Contents = {c1, c2}
  Hashes = {k1, k2, k3}
  CandidateHash <- PairHashes
  Ttls = {1, 2}
  MaxEntries = 2
  Databases <- NewOrOld
  MaxAttempts = 2
  MaxRows = 4
  MaxTime = 2
  MaxRetrievals = 0
INVARIANTS
  FileConsistent
  MarkerRecoversOriginal
PROPERTY KeepsContract
