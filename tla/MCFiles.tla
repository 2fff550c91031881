------------------------------ MODULE MCFiles ------------------------------
(* One name, so that uploads contend for ids; users but the owner and      *)
(* requests are interchangeable.                                           *)
EXTENDS Files, FiniteSets, TLC
Symmetry == Permutations(Requests) \cup Permutations(Users \ {owner})

(* Bound: requests overlap or are lost on one file, the other is as it     *)
(* would be by itself.                                                     *)
OneDisturbed == Cardinality(disturbed) <= 1
=============================================================================
