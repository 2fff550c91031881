SPECIFICATION Spec
CONSTANTS
  Keys = {k1, k2}
  Bundles = {b1, b2}
  NoBundle = none
  Users = {u1}
  Requests = {r1, r2}
  MaxRows = 3
INVARIANTS
  TypeOK
  BundleOwnership
  ServedWithConsent
  RolesForDebits
  
  OneBundleAccepted
PROPERTIES
  ActivatedByEnable
  KeepsPromise
SYMMETRY Symmetry
CONSTRAINT FewRowsOnceUnsettled
