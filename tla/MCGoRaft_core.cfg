\* Two servers, two terms, two log entries, two messages in flight.
CONSTANTS
    s1 = s1
    s2 = s2
    v1 = v1
    v2 = v2
    Nil = Nil
    Server <- MCServer
    Values <- MCValues
    MaxTerm = 2
    MaxLogLen = 2
    MaxInFlight = 2
SPECIFICATION Spec
INVARIANTS TypeOK VoteCountBounded NextIndexPositive
PROPERTY VoteLedgerRefined
SYMMETRY Symmetry
CHECK_DEADLOCK FALSE
