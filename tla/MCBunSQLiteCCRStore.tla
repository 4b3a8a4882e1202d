------------------------- MODULE MCBunSQLiteCCRStore -------------------------
(* Small instances of BunSQLiteCCRStore.                                   *)
EXTENDS BunSQLiteCCRStore, TLC

CONSTANTS p1, p2, s1, s2, c1, c2, k1, k2, k3

(* c1 and c2 collide on their base hash.                                   *)
PairHashes ==
  [c \in {c1, c2} |->
     [n \in 0 .. 2 |-> IF c = c1 THEN (<<k1, k2, k3>>)[n + 1]
                                 ELSE (<<k1, k3, k2>>)[n + 1]]]

(* No collisions.                                                          *)
OwnHashes == [c \in {c1, c2} |-> [n \in 0 .. 0 |-> IF c = c1 THEN k1 ELSE k2]]

Stored(i, h, s, c, expiry) ==
  [id |-> i, hash |-> h, sessionID |-> s, originalContent |-> c,
   createdAt |-> 0, expiresAt |-> expiry]

NewFile == [rows |-> {}, history |-> {}, legacy |-> FALSE, nextId |-> 1]

(* A version 1 file with a larger limit: two colliding originals, a row    *)
(* about to expire, and the history of a row that is long gone.            *)
OldFile ==
  [rows |-> {Stored(1, k1, s1, c1, 2), Stored(2, k3, s1, c2, 2),
             Stored(3, k1, s1, c1, 1)},
   history |-> {<<k1, c1>>, <<k3, c2>>, <<k2, c1>>},
   legacy |-> TRUE, nextId |-> 4]

(* The file of an orderly shutdown.                                        *)
UsedFile ==
  [rows |-> {Stored(1, k1, s1, c1, 2)}, history |-> {<<k1, c1>>}, legacy |-> FALSE,
   nextId |-> 2]

NewOrOld == {NewFile, OldFile}
NewOrUsed == {NewFile, UsedFile}
OnlyUsed == {UsedFile}

ProcessSymmetry == Permutations(Processes)
=============================================================================
