SPECIFICATION FairSpec
CONSTANTS
    Requests = {r1, r2}
    Subscribers = {}
    Commands = {trade}
    Symbols = {eurusd}
    Nobody = Nobody
    QueueSize = 1
    WireSize = 1
PROPERTIES
    RequestsReturn
    AbandonedEnds
CHECK_DEADLOCK FALSE
