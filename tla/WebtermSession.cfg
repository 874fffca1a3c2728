SPECIFICATION FairSpec
CONSTANTS
    host = host
    app = app
    stream = stream
    eurusd = eurusd
    gbpusd = gbpusd
    Callers = {host}
    Streams = {stream}
    Allowed <- OneHost
    Wanted <- OneStream
    Symbols = {eurusd, gbpusd}
    Asks <- HostAsks
    Lists <- NoneOrAll
    Free = Free
    Backoff <- Pauses
    MaxAge = 1
    MaxDials = 2
INVARIANTS
    NoteIsTrue
    StreamsHear
PROPERTIES
    SnapshotTrusted
    BackoffKept
    StreamsFollow
