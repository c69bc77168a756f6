\* Queues and stores in the worker's memory, lost when it stops.
CONSTANTS
    d1 = d1 d2 = d2 d3 = d3 r1 = r1 r2 = r2 a1 = a1 a2 = a2 s1 = s1 e1 = e1 e2 = e2
    None = None
    Deliveries = {d1, d2}
    Replays = {p1}
    Routes = {r1}
    Events = {e1}
    Registered = {d1, d2}
    Accounts = {a1, a2}
    Symbols = {s1}
    EventOf <- SameFill
    Host <- BothInWorker
    AccountOf <- OwnAccount
    SymbolOf <- OneSymbol
    ActionOf <- Opens
    Backend = "memory"
    MaxFaults = 2
SPECIFICATION Spec
CHECK_DEADLOCK FALSE
INVARIANT NoDuplicateCopies
PROPERTY KeepsPromise
