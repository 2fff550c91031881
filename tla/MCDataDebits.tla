---------------------------- MODULE MCDataDebits ----------------------------
(* Instances of DataDebits for TLC.  Keys, bundles, users and request      *)
(* slots are model values, interchangeable: no operator compares them but  *)
(* by equality.                                                            *)
EXTENDS DataDebits, TLC

Symmetry == Permutations(Requests) \cup Permutations(Keys)
              \cup Permutations(Bundles) \cup Permutations(Users)

(* A bound: once a grant of the owner's role has failed or overlapped with *)
(* another, at most two permissions are inserted.                          *)
FewRowsOnceUnsettled == unsettled # {} => lastId <= 2
=============================================================================
