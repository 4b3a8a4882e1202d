---------------------------- MODULE Subsequences ----------------------------
(***************************************************************************)
(* The elements of a sequence at some of its positions, in their order:    *)
(* what a scan of a JavaScript array, Map or Set keeps.  SelectSeq, which  *)
(* says the same by recursion, is beyond the provers.                      *)
(***************************************************************************)
EXTENDS Integers, FiniteSets, Sequences

Picked(s, I) ==
  [n \in 1 .. Cardinality(I) |->
     s[CHOOSE i \in I : Cardinality({j \in I : j <= i}) = n]]
=============================================================================
