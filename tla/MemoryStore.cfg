SPECIFICATION Spec
CONSTANTS
  s1 = s1
  s2 = s2
  c1 = c1
  c2 = c2
  c3 = c3
  k1 = k1
  k2 = k2
  k3 = k3
  k4 = k4
  AnySession = AnySession
  Sessions = {s1, s2}
  Contents = {c1, c2, c3}
  Hashes = {k1, k2, k3, k4}
  CandidateHash <- CollidingHashes
  Ttls = {1, 2}
  MaxEntries = 2
  MaxPuts = 4
  MaxTime = 1
  MaxRetrievals = 1
INVARIANTS
  StoreConsistent
  AllocationTerminates
  MarkerRecoversOriginal
PROPERTY RefinesContract
