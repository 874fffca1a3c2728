SPECIFICATION Spec
CONSTANTS
    Requests = {r1, r2}
    Subscribers = {}
    Commands = {trade}
    Symbols = {eurusd}
    Nobody = Nobody
    QueueSize = 1
    WireSize = 1
INVARIANTS
    ReceiptIsOwn
CHECK_DEADLOCK FALSE
