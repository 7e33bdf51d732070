SPECIFICATION FairSpec
CONSTANTS
  AgentKey = "agent"
  Authorized = {"client", "agent"}
  Clients <- MCClients
  Blocks <- MCBlocks
  MaxFaults = 3
  MaxAttempt = 3
  None = None
PROPERTY
  FlapsBackOff
CHECK_DEADLOCK FALSE
