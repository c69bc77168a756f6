\* Six services, one at a time: see MCServices.tla.
CONSTANTS
    l1 = l1 l2 = l2 k1 = k1 c1 = c1 c2 = c2
    Loops = {l1, l2}
    Keys = {k1}
    Capacity <- TwoTokens
    Refill <- HalfAToken
    Unit = 2
    MaxCalls = 5
    MaxClock = 6
    Callers = {c1, c2}
    Exchanges = {"OKX", "KRAKEN", "GATEIO"}
    Listing <- Listed
    Hyphenated <- Endings
    Questions <- ThreeQuestions
    Defaults <- OneOfEach
    Ttl = 2
    LoadTime = 1
    MaxMinute = 3
    Processes = {"api", "worker"}
    Tables <- TwoTables
    Columns <- ThreeColumns
    TableOf <- Placed
    DateTimes = {"validated_at"}
    MaxStops = 1
    Interval = 2
    MaxAge = 4
    MaxLag = 1
    MaxStarts = 3
    Kinds = {"signal", "execution"}
    Times = {1, 2, 3}
    Limit = 2
    MaxRows = 4
    MaxTasks = 2
    MaxCommits = 5
SPECIFICATION MCSpec
CHECK_DEADLOCK FALSE
INVARIANTS LimiterTypeOK PacesEveryWindow AnswersAreRecent ResolvesToThePair UpIsComplete BadgeTellsTheWorker NothingIsSkipped QuietRoundShowsTheRows
PROPERTY EveryProcessIsUp
