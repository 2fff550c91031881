SPECIFICATION Spec
CONSTANTS
  e1 = e1  e2 = e2  e3 = e3  pass1 = pass1  pass2 = pass2  debit = debit

  UserIds = {1, 2}
  Emails = {e1, e2, e3}
  Passes = {pass1, pass2}
  Roles = {Owner, debit}
  Owner = Owner
  Privileged = {Owner}
  Requests = {r1}
  NoUser = NoUser
  Accounts0 <- MCAccounts
  ContractRoles <- MCContracts
  Bodies <- MCBodies
  Kinds = {"create", "update", "enable", "disable", "delete", "read", "password", "grant"}
INVARIANTS CachesAgree
PROPERTIES StaysDeleted
