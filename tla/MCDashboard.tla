----------------------------- MODULE MCDashboard -----------------------------
EXTENDS Dashboard, TLC

CONSTANTS icon

(* Every build has its own main script; the icon changes with every second *)
(* build only, so that two builds share a file.                            *)
MCHash == [n \in Names |-> [b \in Builds |-> IF n = icon THEN b \div 2 ELSE b]]
Symmetry == Permutations(Pages)
=============================================================================
