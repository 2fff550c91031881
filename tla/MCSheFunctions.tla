--------------------------- MODULE MCSheFunctions ---------------------------
(* Instances of SheFunctions for TLC.                                      *)
EXTENDS SheFunctions, TLC

Symmetry == Permutations(Calls)

(* A bound: with two records the clock goes one less far.                  *)
EarlierWithTwo == Cardinality(coming \cup records) = 2 => now < MaxTime
=============================================================================
