CONSTANTS
    Terms <- MCTerms
    Votes <- MCVotes
    NoFile = NoFile
    MaxCalls = 2
    MaxCrashes = 2
    EncodeState <- MCEncodeState
    DecodeState <- MCDecodeState
SPECIFICATION Spec
PROPERTIES
    AckedIsLive
CHECK_DEADLOCK FALSE
