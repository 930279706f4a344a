CONSTANTS
    MAX = 3
    Input = 2
    Amount = 3
    Amounts = {1, 2, 3}
    Values = {0, 2}
    Targets = {"depository", "proxy", "receiver", "router", "stranger"}
    Prior <- MCPrior
    MaxItems = 3
    MaxCalls = 4
SPECIFICATION Spec
INVARIANTS TypeOK WithinQuote NothingStranded OnePayment OrderMatches
CHECK_DEADLOCK FALSE
