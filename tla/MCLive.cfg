\* Three API deliveries of one fill, two routes: sessions that wait for each other.
CONSTANTS
    d1 = d1 d2 = d2 d3 = d3 r1 = r1 r2 = r2 a1 = a1 a2 = a2 s1 = s1 e1 = e1 e2 = e2
    None = None
    Deliveries = {d1, d2, d3}
    Replays = {}
    Routes = {r1, r2}
    Events = {e1}
    Registered = {d1, d2, d3}
    Accounts = {a1, a2}
    Symbols = {s1}
    EventOf <- SameFill
    Host <- BothInApi
    AccountOf <- OwnAccount
    SymbolOf <- OneSymbol
    ActionOf <- Opens
    Backend = "memory"
    MaxFaults = 1
SPECIFICATION FairSpec
CHECK_DEADLOCK FALSE
PROPERTY EveryDeliveryEnds
