CONSTANTS
  Requests = {r1}
  Accounts = {a1, a2, a3}
  NoAccount = none
  MaxConc = 1
  MaxCapacityRetries = 1
  SystemLimit = 5
  PrefixLength = 4
SPECIFICATION FairSpec
INVARIANTS
  TwoRefusalsAtMost
  
  ConversationSticks
  StreamsCounted
PROPERTIES
  NoSecondTry
  GoneClientsDrain
