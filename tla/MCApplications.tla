--------------------------- MODULE MCApplications ---------------------------
(* Instances of Applications for TLC: one application with a data debit;   *)
(* and one that depends on another, plug, and on a tool.                   *)
EXTENDS Applications, Naturals, FiniteSets, TLC

CONSTANTS theApp, plug, fn

OneApp == {theApp}
NoDependencies == [a \in {theApp} |-> {}]
TwoApps == {theApp, plug}
AppOnBoth == [a \in {theApp, plug} |-> IF a = theApp THEN {plug, fn} ELSE {}]
Symmetry == Permutations(Requests)

(* Bounds: at any time one change at most is lost, missed by a copy or     *)
(* apart; or none is, nobody asks for the list, and one status at most is  *)
(* being stored by a call that nobody waits for.                           *)
Mishaps == Cardinality(abandoned) + Cardinality(missed) + Cardinality(apart)
OneMishap == Mishaps <= 1
NoMishap == /\ Mishaps = 0 /\ Cardinality(storing) <= 1
            /\ \A r \in Requests : pc[r] # "listGet"
=============================================================================
