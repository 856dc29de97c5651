CONSTANTS
  Identities = {i1, i2}
  Ids = {id1, id2}
  Admins = {m1}
  Callers = {k1, k2}
  MaxIssued = 2
  None = none
SPECIFICATION Spec
SYMMETRY Symmetry
INVARIANTS
  TypeOK
  TokensStayHome
  TokenWrittenBack
PROPERTIES
  DeletedStaysDeleted
