SPECIFICATION Spec
CONSTANTS
  plain = plain
  mixed = mixed
  broken = broken
  K = K
  L = L
  k1 = k1
  k2 = k2
  k3 = k3
  a1 = a1
  a2 = a2
  sA = sA
  sB = sB
  None = None
  Calls = {a1, a2}
  Sessions = {sA, sB}
  Contents = {plain, mixed, broken}
  Hashes = {k1, k2, k3}
  Kinds = {K, L}
  Intents = {"ask"}
  NoIntent = "none"
  MaxIntents = 1
  CandidateHash <- CandidateHashes
  Sections <- SectionsOf
  Chars <- ResultChars
  Similar <- SimilarContents
  Short = {plain}
  RowTtl = 1
  MaxRows = 2
  MaxSessions = 1
  MaxEntriesPerSession = 1
  CacheTtl = 1
  MaxEntries = 2
  MaxResultChars = 2
  MaxSingleResultChars = 2
  FailureThreshold = 1
  Cooldown = 1
  MaxEvents = 4
  MaxTime = 1
SYMMETRY Symmetry
CHECK_DEADLOCK FALSE
INVARIANTS
  EngineConsistent
  CacheTransparent
  RowsReversible
  CircuitOpensOnStreak
PROPERTIES
  OpenCircuitShields
