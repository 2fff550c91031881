SPECIFICATION Spec
CONSTANTS
  e1 = e1  e3 = e3  pass2 = pass2  e2 = e2  pass1 = pass1  debit = debit

  UserIds = {1, 2}
  Emails = {e1, e2}
  Passes = {pass1}
  Roles = {Owner, debit}
  Owner = Owner
  Privileged = {Owner}
  Requests = {r1, r2}
  NoUser = NoUser
  Accounts0 <- MCAccounts
  ContractRoles <- MCContracts
  Bodies <- LeanBodies
  Kinds = {"create", "update", "delete", "password"}
INVARIANTS TypeOK PrivilegesFixed
SYMMETRY Symmetry
