CONSTANTS
  Requests = {r1}
  Accounts = {a1, a2}
  NoAccount = none
  MaxConc = 1
  MaxCapacityRetries = 0
SPECIFICATION Spec
PROPERTIES
  NoRetryOnceGone
