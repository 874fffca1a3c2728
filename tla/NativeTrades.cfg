SPECIFICATION FairSpec
CONSTANTS
    Trades = {1, 2}
    SequenceMod = 2
    Keepalive = 1
    ReceiveDeadline = 2
    CallDeadline = 1
    PollTimes = {1}
    Gap = 1
    Latency = 1
    Answered = {"keepalive"}
    Pushes = {"malformed", "unquoted", "restrict", "unreadable"}
    MaxWire = 1
PROPERTIES
    OutcomeRefined
    SilenceDetected
    CallsEnd
