SPECIFICATION FairSpec
CONSTANTS
  ServerOrder <- MCServerOrder
  ValidLabels <- MCValidLabels
  Lower <- MCLower
  LocalPortBase <- MCLocalPortBase
  All = "all"
  NoKey = "no key"
  Procs = {"first", "second"}
  Env <- MCEnv
  OwnedDir = {"/tmp"}
  Files <- MCFiles
  Commands <- MCCommands
  Blocks = 2
  Foreign = {42001}
  MaxStarts = 3
  None = "none"
INVARIANTS
  StaleSocketIsReclaimed
  ListenersAreWhole
  ValidatedIsServable
PROPERTIES
  OnlyARaceDisplaces
  StartEnds
CHECK_DEADLOCK FALSE
