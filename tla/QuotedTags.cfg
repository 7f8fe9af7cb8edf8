SPECIFICATION StreamSpec
CONSTANTS
    ToolId <- NoTools
    Content <- Quoted
    FrameLen = 4
    PreludeLen = 2
    MaxErrors = 2
    MaxBuffer = 16
    MaxWeight = 4
INVARIANT
    QuotedTagIsText
CHECK_DEADLOCK FALSE
