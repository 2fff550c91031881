----------------------------- MODULE MCRichData -----------------------------
(* Instances of RichData for TLC.                                          *)
EXTENDS RichData, TLC

Symmetry == Permutations(Requests) \cup Permutations(Users)
              \cup Permutations(Endpoints) \cup Permutations(Hashes)
=============================================================================
