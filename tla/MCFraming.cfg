CONSTANT MaxEntries = 3
SPECIFICATION Spec
INVARIANT EntriesRoundTrip
CHECK_DEADLOCK FALSE
