SPECIFICATION Spec
CONSTANTS
  ServerOrder <- MCServerOrder
  ValidLabels <- MCValidLabels
  Lower <- MCLower
  LocalPortBase <- MCLocalPortBase
  All = "all"
  NoKey = "no key"
  Procs = {"first", "second"}
  Env <- MCEnv
  OwnedDir = {"/tmp"}
  Files <- MCFiles
  Commands <- MCCommands
  Blocks = 2
  Foreign = {42001}
  MaxStarts = 3
  None = "none"
INVARIANT
  ExactlyOneOwner
CHECK_DEADLOCK FALSE
