--------------------------- MODULE MCNativeEngine ---------------------------
(* Small instances of NativeEngine: two outputs that share the content     *)
(* hash, one of them mixed and without savings under an intent, and   *)
(* one that makes its strategy throw.                                      *)
EXTENDS NativeEngine, TLC

CONSTANTS plain, mixed, broken, K, L, k1, k2, k3, a1, a2, sA, sB

CandidateHashes ==
  [c \in Contents |-> CASE c = plain -> <<k1, k2, k3>>
                        [] c = mixed -> <<k1, k3, k2>>
                        [] c = broken -> <<k2, k3, k1>>]

Sec(k, o) == [kind |-> k, outcome |-> o]
SectionsOf ==
  [r \in Requests |->
     CASE r.content = plain -> <<Sec(K, "saves")>>
       [] r.content = broken -> <<Sec(K, "throws")>>
       [] r.content = mixed /\ r.query = NoIntent -> <<Sec(K, "saves"), Sec(L, "saves")>>
       [] r.content = mixed /\ r.query # NoIntent -> <<Sec(K, "keeps"), Sec(L, "keeps")>>]
ResultChars == [r \in Requests |-> IF r.content = mixed THEN 2 ELSE 1]
SimilarContents == {<<mixed, broken>>, <<broken, mixed>>}

Symmetry == Permutations(Calls) \cup Permutations(Sessions)
=============================================================================
