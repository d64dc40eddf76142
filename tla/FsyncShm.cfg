SPECIFICATION Spec
CONSTANTS
    Processes = {1, 2}
    Threads = {1, 2, 3}
    Process <- Shared
    Objects = {a, b}
    a = a
    b = b
    Uses <- SharedUses
    WordBits = 2
    InitialWords = 1
    GrowBy = 1
    MaxWords = 2
    Uninitialized = {0}
    ClosedDuring = {"load", "request", "check", "recheck", "use", "wait", "put", "sub", "free"}
    Mortal = {1}
INVARIANTS RefsExact SlotsExact
CHECK_DEADLOCK FALSE
