SPECIFICATION Spec
CONSTANTS
  Names = {n}
  MaxCopies = 1
  Spaced = {n}
  owner = owner
  Users = {owner, u}
  Requests = {r1, r2}
INVARIANT OneUploader
SYMMETRY Symmetry
