SPECIFICATION FairSpec
CONSTANTS
    g_msg_id_length = 2
    Nine = 1
    MaxRegenerations = 2
    Request <- MCRequest
    ErrorReply <- MCErrorReply
    SentId <- MCSentId
    SlackByte = {0, 3}
    MaxFrames = 2
CHECK_DEADLOCK FALSE
INVARIANTS
    TypeOK
    FirstRoundStaysInString
    WholeFramesDecoded
    FramesInFrontDecoded
PROPERTIES
    IdsCountUp
    DecodeEndsUnlessMisled
