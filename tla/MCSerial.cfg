\* An OPEN and a CLOSE of one account and symbol: two lanes.
CONSTANTS
    d1 = d1 d2 = d2 d3 = d3 r1 = r1 r2 = r2 a1 = a1 a2 = a2 s1 = s1 e1 = e1 e2 = e2
    None = None
    Deliveries = {d1, d2}
    Replays = {}
    Routes = {r1}
    Events = {e1, e2}
    Registered = {d1, d2}
    Accounts = {a1, a2}
    Symbols = {s1}
    EventOf <- TwoFills
    Host <- OneEach
    AccountOf <- OwnAccount
    SymbolOf <- OneSymbol
    ActionOf <- OpenThenClose
    Backend = "sqs"
    MaxFaults = 0
SPECIFICATION Spec
CHECK_DEADLOCK FALSE
INVARIANT SerialPerSlot
