SPECIFICATION FairSpec
CONSTANTS
    k1 = k1
    empty = empty
    Material <- MCMaterial
    EmptyMaterial = empty
    NoKey = NoKey
    Garbled <- MCGarbled
    MaxMessage = 2
    MaxPending = 1
    Login = 1
    OtherLogin = 2
    SequenceMod = 4
    BrokerSequences = {0}
    Chunks <- AccountContent
    AuthReplies <- MCAuthReplies
    AppCommands = {"SYMBOLS", "OTHER"}
    MaxRequests = 2
    MaxPushes = 2
    MaxInFlight = 1
INVARIANTS
    CiphersInStep
    NothingAfterTornWrite
    RequestsDistinct
    OwnAccountOnly
PROPERTIES
    NoMutationOnceReadOnly
    ConsumedForGood
    CallsReturn
CHECK_DEADLOCK FALSE
