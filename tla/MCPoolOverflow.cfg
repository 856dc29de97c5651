CONSTANTS
  Accounts = {a1}
  Keys = {}
  NoKey = nokey
  NoAccount = none
  MaxSticky = 1
  StickyTTL = 1
  MaxBackoff = 40
  MaxFailures = 60
SPECIFICATION Spec
PROPERTY FailureCools
