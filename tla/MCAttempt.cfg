\* One fill, one route, no fault.
CONSTANTS
    d1 = d1 d2 = d2 d3 = d3 r1 = r1 r2 = r2 a1 = a1 a2 = a2 s1 = s1 e1 = e1 e2 = e2
    None = None
    Deliveries = {d1}
    Replays = {}
    Routes = {r1}
    Events = {e1}
    Registered = {d1}
    Accounts = {a1, a2}
    Symbols = {s1}
    EventOf <- SameFill
    Host <- BothInWorker
    AccountOf <- OwnAccount
    SymbolOf <- OneSymbol
    ActionOf <- Opens
    Backend = "sqs"
    MaxFaults = 0
SPECIFICATION FairSpec
CHECK_DEADLOCK FALSE
PROPERTY EveryTaskAttempted
