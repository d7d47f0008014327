CONSTANTS
    OptionChoices <- MCOptionChoices
    MaxOptions = 2
    Tick = 25
    MaxDelay = 25
    Horizon = 900
SPECIFICATION Spec
INVARIANT NoElectionUnderLiveLeader
CHECK_DEADLOCK FALSE
