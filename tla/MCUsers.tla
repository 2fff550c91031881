------------------------------ MODULE MCUsers ------------------------------
(* Two or three accounts, the first of which is the owner's.               *)
EXTENDS Users, TLC
CONSTANTS debit, e1, e2, e3, pass1, pass2
Account(u, email, pass, roles) ==
    [userId |-> u, email |-> email, pass |-> pass, roles |-> roles, enabled |-> TRUE]
MCAccounts == [u \in UserIds |-> IF u = 1 THEN Account(1, e1, pass1, {Owner})
                                 ELSE Account(u, e2, pass1, {debit})]
MCContracts == [u \in UserIds |-> {}]
Symmetry == Permutations(Requests)
LeanBodies == {Account(1, e2, pass1, {}), Account(2, e2, pass1, {Owner})}
MCBodies == {Account(1, e3, pass1, {}), Account(2, e3, pass1, {debit}), Account(2, e2, pass1, {Owner})}
=============================================================================
