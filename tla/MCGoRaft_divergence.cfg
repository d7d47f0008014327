\* Two servers, two terms, two payloads: the two leaders of term 2 apply different operations.
CONSTANTS
    s1 = s1
    s2 = s2
    v1 = v1
    v2 = v2
    Nil = Nil
    Server <- MCServer
    Values <- MCTwoValues
    MaxTerm = 2
    MaxLogLen = 2
    MaxInFlight = 2
SPECIFICATION Spec
INVARIANT AppliedAgree
SYMMETRY Symmetry
CHECK_DEADLOCK FALSE
