SPECIFICATION FairSpec
CONSTANTS
    Threads = {1}
    Callers = {c1}
    e1 = e1
    e2 = e2
    Nothing = Nothing
    Objects = {e1, e2}
    AutoReset = {e1}
    Calls <- Mixed
    MaxSuspend = 1
    MaxUserApcs = 1
    Done <- Acts
INVARIANTS ReplyExact  ContextExact
PROPERTIES SuspendedStops ApcAnswered
