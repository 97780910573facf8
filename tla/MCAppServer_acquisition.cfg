SPECIFICATION Spec
CONSTANTS
    MaxRequests = 2
    MaxFrames = 3
    PipeFrames = 1
    MaxCuts = 1
    OrderedItems = 3
    MessageItems = 1
    Vocabulary <- FramesOfATurn
INVARIANTS
    TypeOK
    EvidenceIsWhole
    CleanCutIsComplete
    AnswerFollowsRequest
PROPERTIES
    TurnOutputIsKept
    QuiesceEnds
CHECK_DEADLOCK FALSE
