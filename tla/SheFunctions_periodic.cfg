SPECIFICATION Spec
CONSTANTS
  Calls = {c1, c2}
  MaxTime = 5
  MaxRecords = 2
  Period = 1
  Timeout = 1
INVARIANTS
  TypeOK
  
SYMMETRY Symmetry
CONSTRAINT EarlierWithTwo
CHECK_DEADLOCK FALSE
