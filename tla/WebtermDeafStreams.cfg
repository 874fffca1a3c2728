SPECIFICATION Spec
CONSTANTS
    host = host
    app = app
    stream = stream
    eurusd = eurusd
    gbpusd = gbpusd
    Callers = {host, app}
    Streams = {stream}
    Allowed <- TwoSnapshotters
    Wanted <- OneStream
    Symbols = {eurusd}
    Asks <- NothingAsked
    Lists <- AllListed
    Free = Free
    Backoff <- Pauses
    MaxAge = 1
    MaxDials = 2
INVARIANTS
    NotedOnClient
