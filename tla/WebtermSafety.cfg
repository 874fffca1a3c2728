SPECIFICATION Spec
CONSTANTS
    Requests = {r1, r2}
    Subscribers = {s1, s2}
    Commands = {trade, positions}
    Symbols = {eurusd, gbpusd}
    Nobody = Nobody
    QueueSize = 1
    WireSize = 1
SYMMETRY Symmetry
INVARIANTS
    WaiterRegistered
    AnswersAreOwn
    SubscribedInTurn
CHECK_DEADLOCK FALSE
