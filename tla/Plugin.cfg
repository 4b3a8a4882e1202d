SPECIFICATION Spec
CONSTANTS
  s1 = s1
  s2 = s2
  t1 = t1
  t2 = t2
  h1 = h1
  Sessions = {s1, s2}
  Calls = {1, 2, 9}
  SessionOf <- MCSessionOf
  Unchangeable = {2}
  Aborted = {9}
  Transforms = {t1, t2}
  Hooks = {h1}
  HookSession <- MCHookSession
  MaxPendingSessions = 1
  MaxPendingCalls = 1
  Decisions <- MCDecisions
  RetrievalCalls <- MCRetrievalCalls
  MaxEvents = 2
  TelemetryReasons = {"compressed", "no_savings", "hook_error"}
  Modes = {"full", "summary"}
  NotGiven = NotGiven
CHECK_DEADLOCK FALSE
INVARIANTS
  TypeOK
  OncePerCall
  NoCallLost
  TelemetryBalanced
PROPERTIES
  SettledLeavesNothing
SYMMETRY TransformSymmetry
