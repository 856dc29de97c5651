CONSTANTS
  Requests = {r1, r2, r3}
  Gateways = {v1, bare}
  Concurrencies = {0, 1}
  DefaultConcurrency = 2
  Rpms = {0, 1}
  RateWindow = 2
  MaxClock = 3
  NoChan = none
SPECIFICATION Spec
SYMMETRY Symmetry
INVARIANTS
  TypeOK
  TokensAreHolders
  GatewayConcurrency
PROPERTIES
  RateIsExact

