SPECIFICATION Spec
CONSTANTS
    k1 = k1
    empty = empty
    Material <- MCMaterial
    EmptyMaterial = empty
    NoKey = NoKey
    Garbled <- MCGarbled
    MaxMessage = 2
    MaxPending = 2
    Login = 1
    OtherLogin = 2
    SequenceMod = 4
    BrokerSequences = {0, 1}
    Chunks <- MessageContent
    AuthReplies <- OneAuthReply
    AppCommands = {"SYMBOLS", "OTHER"}
    MaxRequests = 0
    MaxPushes = 4
    MaxInFlight = 0
PROPERTIES
    ChannelRefined
CHECK_DEADLOCK FALSE
