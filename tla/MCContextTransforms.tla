------------------------- MODULE MCContextTransforms -------------------------
(* Small instances of ContextTransforms.                                    *)
EXTENDS ContextTransforms, TLC

CONSTANTS t1, t2, d1, sA, sB, raw, marker, pointer

FormChars == [f \in Forms |-> IF f = marker THEN 2 ELSE 1]
OnePartOfA == [p \in {1} |-> sA]

Request(ids, parts, pinned) == [ids |-> ids, parts |-> parts, pinned |-> pinned]

(* Requests of two sessions for one slot; one of them carries a cache mark. *)
ContendedRequests ==
  {Request(<<sA>>, {}, {}), Request(<<sA>>, {1}, {}), Request(<<sA>>, {1}, {1}),
   Request(<<sB>>, {}, {})}

TransformSymmetry == Permutations(Transforms)
=============================================================================
