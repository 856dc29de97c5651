CONSTANTS
  Logs = {l1, l2, l3}
  Keyed = {l1, l2}
  FlushBatch = 2
  Loop = loop
  Closer = closer
  NoLog = none
SPECIFICATION FairSpec
INVARIANTS
  TypeOK
  BilledOnce
  BufferBounded
  NothingLostByStop
PROPERTIES
  ImplementsLedger
  EventuallySettled
