\* A paused account is copied to: the planner does not look at its status.
CONSTANTS
    Sessions = {1, 2}
    ExchangeOf <- TwoExchanges
    ForeignKeys = FALSE
    MaxEdits = 1
    Venues = {"OKX", "BINANCE", "BYBIT", "COINBASE", "KRAKEN", "BITMEX", "GATEIO"}
    Requests <- SixRequests
    CommandIds = {1, 2}
    Quantity = 2
    MaxOthers = 2
    Den = 2
    Accounts <- EightAccounts
    Sizes <- FromShortToLong
    MaxFills = 3
    Tolerance = 1
    MaxRepairs = 1
    MaxFaults = 1
SPECIFICATION DeskSpec
\* Operators and masters may stop at any time.
CHECK_DEADLOCK FALSE
INVARIANT PausedAccountsRest
