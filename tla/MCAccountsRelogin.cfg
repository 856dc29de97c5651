CONSTANTS
  Identities = {i1}
  Ids = {id1}
  Admins = {m1}
  Callers = {k1}
  MaxIssued = 2
  None = none
SPECIFICATION Spec
INVARIANTS
  AddedTokenUsed
