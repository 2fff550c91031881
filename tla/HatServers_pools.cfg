SPECIFICATION FairSpec
CONSTANTS
  Hats = {h1}
  Callers = {c1, c2, c3}
  MaxDatabases = 2
  SlowResolves = TRUE
  MaxNotices = 2
INVARIANTS
  TypeOK
  OpenOwned
  CounterExact
PROPERTIES
  Consumed
\* The HAT of a connection that crashed stays connecting: nothing happens any
\* more once every request has gone to its stash.
CHECK_DEADLOCK FALSE
