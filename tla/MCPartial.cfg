\* The positions that changed, two symbols.
CONSTANTS
    s1 = s1 s2 = s2 y1 = y1 y2 = y2
    Sources = {s1}
    Symbols = {y1, y2}
    Feed <- FeedChanges
    Quantities <- FlatOrLong
    MaxMoves = 1
    MaxDrops = 0
    MaxLosses = 0
    MaxCrashes = 0
SPECIFICATION FairSpec
PROPERTY MirrorsMaster
