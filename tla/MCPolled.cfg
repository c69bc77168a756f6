\* OKX: changed positions, order messages, errors answered like an empty account; a lost emission, a restart.
CONSTANTS
    s1 = s1 s2 = s2 y1 = y1 y2 = y2
    Sources = {s1}
    Symbols = {y1, y2}
    Feed <- FeedBoth
    Quantities <- FlatOrLong
    MaxMoves = 2
    MaxDrops = 2
    MaxLosses = 1
    MaxCrashes = 1
SPECIFICATION FairSpec
PROPERTY PollingHeals
