\* A source read by REST calls, two symbols, three failures, fair.
CONSTANTS
    s1 = s1 s2 = s2 y1 = y1 y2 = y2
    Sources = {s1}
    Symbols = {y1, y2}
    Feed <- FeedOrders
    Quantities <- AnySide
    MaxMoves = 2
    MaxDrops = 3
    MaxLosses = 0
    MaxCrashes = 0
SPECIFICATION FairSpec
INVARIANT TypeOK
INVARIANT StatusTellsTheMode
PROPERTIES MirrorsMaster CatchesUp
