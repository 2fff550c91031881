SPECIFICATION Spec
CONSTANTS
  Names = {n}
  MaxCopies = 1
  Spaced = {}
  owner = owner
  Users = {owner, u}
  Requests = {r1, r2}
INVARIANTS TypeOK CompletedWasUploaded OneUploader Settled
SYMMETRY Symmetry
CONSTRAINT OneDisturbed
