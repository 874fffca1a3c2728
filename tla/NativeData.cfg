SPECIFICATION DataSpec
CONSTANTS
    K = 2
    MaxEntries = 3
    MaxRecords = 2
    Limit = 2
    MaxOutput = 40000
    HeaderLen = 2
    MaxPayload = 2
    MaxFrames = 3
    DayLength = 2
    HourLength = 1
    RowLimit = 2
    PageLimit = 2
    DayLimit = 2
    Ranges <- DataTickRanges
    TickPrices = {0, 1}
    LastTime = 2
    MaxTicks = 3
    BarDay = 2
    BarPages = 3
    BarRanges <- DataBarRanges
    LastMinute = 4
    Tickets = {1, 2}
    Times = {0, 1}
    Windows <- DataWindows
    MaxBuckets = 2
    Listing <- DataListing
    AtLogin <- DataAtLogin
    Home = "z"
    SubscribeLists <- DataSubscribeLists
    QuoteLimit = 1
    DepthLimit = 2
    MaxHops = 3
    BookTickets = {1, 2}
    MaxPushes = 3
    MaxWire = 1
    MaxVersion = 1
    MaxPrice = 1
    HostNames <- DataNames
    Valid <- DataValid
    SeedLists <- DataSeedLists
    Lookup <- DataLookup
    Peers = {"remote", "other", "local", "lan", "reliable"}
    Private = {"local", "lan"}
    Reliable = {"reliable"}
    NoPeer = NoPeer
    Points <- DataPoints
    MaxSeeds = 3
    MaxRoutes = 4
    MaxTargets = 4
    Attempts = 2
    MaxSections = 3
    Repeats = {0, 3}
    Carriers = {7, 36, 37}
    MaxPushed = 3
    Tails = {0, 4, 16, 1212}
    Missing <- DataMissing
    Terms <- DataTerms
    Leverage = 2
    AccountGroups <- DataGroups
    PendingRates <- DataPendingRates
    Volumes = {1, 2}
    Fills <- DataFills
    MaxUnits = 3
    MaxExposures = 3
    Years <- DataYears
INVARIANTS
    CodecsSurvive
    MarginIsTrue
    PrivateBySeedOnly
    TicksComplete
    BarsComplete
    TradesComplete
    ClientIsTrue
PROPERTIES
    PositionsStreamed
    NothingStaysOpen
CHECK_DEADLOCK FALSE
