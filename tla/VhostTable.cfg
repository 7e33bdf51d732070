SPECIFICATION Spec
CONSTANTS
    Publishers = {d1, d2}
    Labels <- MCLabels
    Hosts <- MCHosts
    Ports <- MCPorts
    Config <- MCConfig
    MaxVhosts = 4
    AllowMutation = TRUE
    MaxCalls = 3
    MaxRestarts = 1
INVARIANTS
    CallsExplainTable
    RetryIsSafe
    WithdrawTellsTheTruth
    AuditAccountsForTable
SYMMETRY PublisherSymmetry
CHECK_DEADLOCK FALSE
