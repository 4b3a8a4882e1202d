-------------------------- MODULE MCTransformLocks --------------------------
(* Small instances of TransformLocks.                                      *)
EXTENDS TransformLocks, TLC

CONSTANTS t1, t2, t3, d1, d2, sA, sB

(* Calls are interchangeable, and so are sessions: acquireTransformLocks   *)
(* orders the latter by name only to choose whom to admit, which Admitted  *)
(* leaves open.                                                            *)
Symmetry ==
  Permutations(Transforms) \cup Permutations(Cleanups) \cup Permutations(SessionIDs)
=============================================================================
