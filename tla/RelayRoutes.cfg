SPECIFICATION FairSpec
CONSTANTS
    Payers = {p1, p2}
    Tokens <- MCTokens
    NATIVE = "native"
    DIRECT_TOKENS <- MCDirect
    Lists <- MCLists
    decimals <- MCDecimals
    Foreign <- MCForeign
    Probing = FALSE
    ChainsTtl = 2
    CHAINS_BACKOFF = 1
    STATUS_TTL = 2
    Quotes = 2
    Slice = 1
    Final = 1
INVARIANTS RoutesTypeOK NoHerd RightDecimals
PROPERTIES OldListDies FinalStatusStays NoDepositStarves
