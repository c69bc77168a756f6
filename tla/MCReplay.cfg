\* A fill delivered to the API and to the stream at once, two replays of it, SQS, one fault.
CONSTANTS
    d1 = d1 d2 = d2 d3 = d3 r1 = r1 r2 = r2 a1 = a1 a2 = a2 s1 = s1 e1 = e1 e2 = e2
    None = None
    Deliveries = {d1, d2}
    Replays = {p1, p2}
    Routes = {r1}
    Events = {e1}
    Registered = {d1, d2}
    Accounts = {a1, a2}
    Symbols = {s1}
    EventOf <- SameFill
    Host <- OneEach
    AccountOf <- OwnAccount
    SymbolOf <- OneSymbol
    ActionOf <- Opens
    Backend = "sqs"
    MaxFaults = 1
SPECIFICATION Spec
CHECK_DEADLOCK FALSE
SYMMETRY Operators
INVARIANTS TypeOK OneTaskPerFill NoDuplicateCopies OneOrderPerMessage SettledIsBacked
PROPERTY FilledIsFinal
