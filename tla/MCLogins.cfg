CONSTANTS
  Emails = {e1}
  Providers = {"github", "google", "email", "manual"}
  OAuthProviders = {"github", "google"}
  FlowIDs = {f1, f2}
  Handlers = {h1, h2}
  MaxRestarts = 1
  Failed = failed
  None = none
SPECIFICATION FairSpec
INVARIANTS
  TypeOK
  ListenersOwned
  
PROPERTIES
  AnswersOnlyAdvance
  PortsFreed
