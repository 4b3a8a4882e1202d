-------------------------- MODULE MCMemoryCCRStore --------------------------
(* A small instance of MemoryCCRStore.                                      *)
EXTENDS MemoryCCRStore

CONSTANTS s1, s2, c1, c2, c3, k1, k2, k3, k4

(* All three originals collide on their base hash k1, and c2 and c3 again  *)
(* on their first collision hash.                                          *)
CollidingHashes ==
  [c \in {c1, c2, c3} |->
     [n \in 0 .. 2 |-> CASE c = c1 -> (<<k1, k2, k3>>)[n + 1]
                         [] c = c2 -> (<<k1, k3, k4>>)[n + 1]
                         [] c = c3 -> (<<k1, k3, k2>>)[n + 1]]]
=============================================================================
