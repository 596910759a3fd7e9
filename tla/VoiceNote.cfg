SPECIFICATION Spec
CONSTANTS
    Lacing = 2
    MaxSegments = 3
    MuxingDelay = 6
    FrameSize = 2
    DecisionDelay = 2
    BufferSamples = 11
    LpcInput = 1
    LpcPadding = 1
    Preskip = 1
    Latency = 2
    Ratio = 2
    HeadSize = 1
    TagsSize = 2
    Sizes <- OneOrTwo
    Period = 3
    BufferSizes <- ThreeOrFour
    InRate = 3
    OutRate = 2
    Held = 2
    Extra = 1
    MaxSamples = 13
    MaxPresses = 2
    Memory <- ZeroOrFar
    None = None
INVARIANTS TypeOK NoteIsWhole PagesKeepUp BufferHasRoom
CHECK_DEADLOCK FALSE
