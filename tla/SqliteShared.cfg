SPECIFICATION Spec
CONSTANTS
  p1 = p1
  p2 = p2
  s1 = s1
  s2 = s2
  c1 = c1
  c2 = c2
  k1 = k1
  k2 = k2
  k3 = k3
  AnySession = AnySession
  Processes = {p1, p2}
  Sessions = {s1}
  Contents = {c1, c2}
  Hashes = {k1, k2}
  CandidateHash <- OwnHashes
  Ttls = {1}
  MaxEntries = 2
  Databases <- NewOrUsed
  MaxAttempts = 0
  MaxRows = 3
  MaxTime = 1
  MaxRetrievals = 1
SYMMETRY ProcessSymmetry
PROPERTY KeepsContract
