SPECIFICATION FairSpec
CONSTANTS
  AgentKey = "agent"
  Authorized = {"client", "agent"}
  Clients <- MCClients
  Blocks <- MCBlocks
  MaxFaults = 3
  MaxAttempt = 3
  None = None
INVARIANTS
  OnlyMutualTrustIsServed
  GivesUpOnlyOverKeys
PROPERTIES
  LinkSettles
CHECK_DEADLOCK FALSE
