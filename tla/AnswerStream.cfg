SPECIFICATION StreamSpec
CONSTANTS
    ToolId <- ToolIds
    Content <- Mixed
    FrameLen = 4
    PreludeLen = 2
    MaxErrors = 2
    MaxBuffer = 20
    MaxWeight = 5
INVARIANTS
    StreamTypeOK
    NothingSwallowed
    SameWords
    SameStopReason
    DecoderKeepsIntact
    DecoderCatchesUp
    VerdictsAgree
PROPERTIES
    ImplementsGrammar
    WordsBeforeTools
CHECK_DEADLOCK FALSE
