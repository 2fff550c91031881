---------------------------- MODULE MCHatServers ----------------------------
(* Instances of HatServers for TLC.  The symmetry is for the run without   *)
(* liveness properties.                                                    *)
EXTENDS HatServers, TLC

Symmetry == Permutations(Hats) \cup Permutations(Callers)
=============================================================================
