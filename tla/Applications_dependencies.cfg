SPECIFICATION Spec
CONSTANTS
  theApp = theApp
  plug = plug
  fn = fn
  Apps <- TwoApps
  Tools = {fn}
  Dependencies <- AppOnBoth
  DebitApps = {}
  Requests = {r1, r2}
SYMMETRY Symmetry
CONSTRAINT NoMishap
INVARIANTS
  DependenciesReady
