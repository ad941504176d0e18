SPECIFICATION Spec
CONSTANTS
    None = None
    Base = 2
    Places = 2
    MaxRaw = 31
    Bps = 10
    Byte = 2
    LengthPrefixBytes = 2
    Prices = {1, 2, 3}
    Quantities = {1, 2}
    MaxId = 4
    Operands <- MCOperands
    Literals <- MCLiterals
    Messages <- MCMessages
    ChannelLists <- MCChannelLists
    RecordLists <- MCRecordLists
    Inputs <- MCInputs
    References <- MCReferences
    InbandInputs <- MCInbandInputs
    Truth <- MCTruth
    Files <- MCFiles
    Depths = {1, 2}
INVARIANTS
    FixedIsExact
    LoopsMatch
    FramingIsFaithful
    StreamsComeBack
    CompleteStreamsMatch
    EveryFrameIsCounted
    VerifyJudgesTheRebuilt
CHECK_DEADLOCK FALSE
