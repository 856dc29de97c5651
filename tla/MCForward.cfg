CONSTANTS
  Requests = {r1, r2}
  Accounts = {a1, a2}
  NoAccount = none
  MaxConc = 1
  MaxCapacityRetries = 1
SPECIFICATION Spec
SYMMETRY Symmetry
INVARIANTS
  TypeOK
  SlotAccounting
  InflightBounded
  StatusIsTrue
PROPERTIES
  ImplementsSlots
  
