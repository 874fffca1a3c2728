SPECIFICATION DataSpec
CONSTANTS
    Senders = {p1}
    Looks = 3
    MaxTickets = 3
    Quoted = {"eurusd"}
    Zone = 3
    MaxQuotes = 3
    MaxMoments = 3
    MaxSockets = 2
    QuoteWire = 2
    Instruments = {1, 2, 3, 4, 5}
    Specified <- DataInstruments
    Deposit = "USD"
    Sought = {1, 2}
    PairQuotes <- DataPairQuotes
    MaxReplied = 3
    Appended = {8, 1200}
    Lost = {1, 4, 100, 343, 344, 345, 355, 356, 357, 388, 526, 700, 717, 718, 723, 730}
    KnownIds = {1, 3}
    Shifts <- DataShifts
    Span = 3
    Spare = 1
    Weekend = 1
    Counts = {1, 2}
    AskedTimes <- DataAskedTimes
    LastUnit = 6
    ServerNames <- DataNames
    AccessTexts <- DataTexts
    MaxServers = 2
    MaxAccess = 3
INVARIANTS
    ReceiptIsNew
    EntryIsFound
    ShownOnce
    QuotesAreCurrent
    TickValuesTrue
    AnswersSurvive
    WindowsAreTrue

    
CHECK_DEADLOCK FALSE
