CONSTANTS
  Accounts = {a1, a2}
  Keys = {k1, k2, k3}
  NoKey = nokey
  NoAccount = none
  MaxSticky = 2
  StickyTTL = 2
  MaxBackoff = 4
  MaxFailures = 4
SPECIFICATION Spec
SYMMETRY Symmetry
INVARIANTS
  TypeOK
  ListMatchesMap
  ListByExpiry
  PickedIsUsable
PROPERTIES
  SessionsStay
  FailuresOnlyLengthen
