\* The registry, the manual commands and the follower's book, one at a time.
CONSTANTS
    Sessions = {1, 2}
    ExchangeOf <- TwoExchanges
    ForeignKeys = FALSE
    MaxEdits = 1
    Venues = {"OKX", "BINANCE", "BYBIT", "COINBASE", "KRAKEN", "BITMEX", "GATEIO"}
    Requests <- SixRequests
    CommandIds = {1, 2}
    Quantity = 2
    MaxOthers = 2
    Den = 2
    Accounts <- EightAccounts
    Sizes <- FromShortToLong
    MaxFills = 3
    Tolerance = 1
    MaxRepairs = 2
    MaxFaults = 1
SPECIFICATION DeskSpec
\* Operators and masters may stop at any time.
CHECK_DEADLOCK FALSE
INVARIANTS OneVerdict RefusedAccountsRest BadKeysAreRefused RouteReportHolds StopIsPlacedOrReported LoggedIsWhatHappened DriftStaysBounded PositionsAreReadRight
PROPERTIES CloseNeverReverses InOrderCopiesFill ShrinkingFillsOnlyReduce RepairReachesTarget AnswersAreReadRight
