\* Two servers, two terms: a late self-vote makes a second leader in a term.
CONSTANTS
    s1 = s1
    s2 = s2
    v1 = v1
    v2 = v2
    Nil = Nil
    Server <- MCServer
    Values <- MCValues
    MaxTerm = 2
    MaxLogLen = 2
    MaxInFlight = 2
SPECIFICATION Spec
INVARIANT ElectionSafety
SYMMETRY Symmetry
CHECK_DEADLOCK FALSE
