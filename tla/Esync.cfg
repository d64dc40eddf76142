SPECIFICATION FairSpec
CONSTANTS
    Threads = {1, 2, 3}
    sem = sem
    mtx = mtx
    auto = auto
    man = man
    Semaphores = {sem}
    Mutexes = {mtx}
    AutoEvents = {auto}
    ManualEvents = {man}
    Initial = {}
    SemMax = 1
    UIntSize = 4
    ReleaseCounts = {1}
    AnyWaits <- MCAny
    AllWaits <- MCAll
    Timeouts = {"finite"}
    Roles <- MCRoles
    Mortal = {1}
    MaxNesting = 3
INVARIANT UnitsExact
PROPERTIES ImplementsNtSync  AbandonedIsTaken
CHECK_DEADLOCK FALSE
