CONSTANTS
    OptionChoices <- MCOptionChoices
    MaxOptions = 2
    Tick = 25
    MaxDelay = 25
    Horizon = 900
SPECIFICATION Spec
INVARIANT TimelyHeartbeatsPreventElection
CHECK_DEADLOCK FALSE
