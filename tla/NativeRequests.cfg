SPECIFICATION Spec
CONSTANTS
    Trades = {}
    SequenceMod = 5
    Keepalive = 2
    ReceiveDeadline = 9
    CallDeadline = 4
    PollTimes = {1}
    Gap = 1
    Latency = 3
    Answered = {"keepalive", "subscribe"}
    Pushes = {"unquoted", "malformed"}
    MaxWire = 2
PROPERTIES
    AnswersOwn
    LiveNotPresumedDead
