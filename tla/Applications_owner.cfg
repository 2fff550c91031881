SPECIFICATION FairSpec
CONSTANTS
  theApp = theApp
  plug = plug
  fn = fn
  Apps <- OneApp
  Tools = {}
  Dependencies <- NoDependencies
  DebitApps <- OneApp
  Requests = {r1, r2}
CONSTRAINT OneMishap
INVARIANTS
  TypeOK
  DebitFollowsStatus
  ActiveHasDebit
  CachesAgree
PROPERTIES
  TruthReturns
