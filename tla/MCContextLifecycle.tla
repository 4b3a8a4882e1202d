------------------------- MODULE MCContextLifecycle -------------------------
(* A small instance of ContextLifecycle.                                   *)
EXTENDS ContextLifecycle, TLC

CONSTANTS sA, sB, w1, w2, raw, marker, pointer

(* A long and a short changed form: a budget of two characters holds the   *)
(* short one and is too small for the long one.                            *)
FormChars == [f \in Forms |-> IF f = marker THEN 3 ELSE 2]

AllOfA == [p \in {1, 2} |-> sA]

Request(ids, parts, pinned) == [ids |-> ids, parts |-> parts, pinned |-> pinned]

(* Requests of either session, growing in the first, or of both.            *)
SomeRequests ==
  {Request(<<sA>>, {}, {}), Request(<<sA>>, {1}, {}), Request(<<sA>>, {1, 2}, {}),
   Request(<<sB>>, {}, {}), Request(<<sB, sA>>, {1}, {})}

(* Windows are interchangeable.                                            *)
WindowSymmetry == Permutations(Windows)
=============================================================================
