SPECIFICATION FairSpec
CONSTANTS
    NumSlots = 2
    MaxBlocks = 3
    MsgBlocks = 2
    TxTimeout = 1
    None = None
INVARIANTS
    AnswersReach
    CountersAtRest
    CommandsInCmdMode
    OneStream
    SourceHeld
PROPERTIES
    RequestsAreAnswered
