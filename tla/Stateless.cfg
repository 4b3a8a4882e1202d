SPECIFICATION Spec
CONSTANTS
  ka = ka
  kb = kb
  kz = kz
  i1 = i1
  i2 = i2
  dir = dir
  in = in
  in2 = in2
  out = out
  Keys = {ka, kb, kz}
  Trivial = {kz}
  NoNumber = NoNumber
  Null = Null
  LineChars <- MCLineChars
  PointerChars = 4
  MinLines = 2
  MinChars = 3
  MaxAnchorCandidates = 2
  NotGiven = NotGiven
  HeaderChars = 2
  NoteChars = 1
  SuffixChars = 5
  DefaultLines = 2
  DefaultContextLines = 1
  DefaultMaxMatches = 2
  DefaultMaxChars = 16
  Nothing = Nothing
  Bias = 15
  SmallItems = 2
  AnalysisFloor = 3
  MinLogLines = 3
  MinSearchMatches = 3
  MaxTraceScanLines = 2
  MaxErrors = 2
  MaxStackTraces = 1
  StackTraceMaxLines = 1
  MaxWarnings = 1
  MaxTotalLines = 3
  ContextLines = 1
  MaxFiles = 1
  MatchesPerFile = 3
  MaxMatches = 2
  MaxItems = 4
  MaxObjectFields = 3
  MinDiffLines = 5
  MaxDiffFiles = 1
  MaxHunksPerFile = 3
  MaxContextLines = 1
  HeadroomTools = {"headroom_stats"}
  ContextTools = {"ctx_search"}
  ExactTools = {"Read"}
  Unset = Unset
  DefaultStrength = "balanced"
  Names = {in, in2, out}
  Inside = {in, in2}
  Candidate = in
  Files = {i1, i2, dir}
  Regular = {i1, i2}
  Nowhere = Nowhere
  NoFile = NoFile
  MaxOutputChars = 2
  ChunkBytes = 2
  MaxSize = 4
  MaxChanges = 2
  SpanRequests <- MCSpanRequests
  Retrievals <- MCRetrievals
  Logs <- MCLogs
  Searches <- MCSearches
  Arrays <- MCArrays
  Objects <- MCObjects
  Measures <- MCMeasures
  Diffs <- MCDiffs
  Policies <- MCPolicies
  SkipLists <- MCSkipLists
  Tools <- MCTools
  FileSystems <- MCFileSystems
CHECK_DEADLOCK FALSE
INVARIANTS
  PointersResolve
  ReplayFoldsAlike
  RetrievalExact
  SelectionKeepsRequired
  DiffAccounted
  PolicyPrecedence
  FileReadTrusted
