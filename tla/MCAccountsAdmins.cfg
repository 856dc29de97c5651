CONSTANTS
  Identities = {i1}
  Ids = {id1, id2}
  Admins = {m1, m2}
  Callers = {k1}
  MaxIssued = 2
  None = none
SPECIFICATION Spec
SYMMETRY Symmetry
INVARIANTS
  PoolFollowsTable
  OneAccountEach
PROPERTIES
  ClientsKept
