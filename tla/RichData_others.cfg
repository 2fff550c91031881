SPECIFICATION Spec
CONSTANTS
  Users = {u1, u2}
  Endpoints = {e1}
  Hashes = {h1, h2, h3}
  Requests = {r1, r2}
  MaxRecords = 3
  MaxGroups = 1
INVARIANTS
  SelectsEmptyGroups
SYMMETRY Symmetry
