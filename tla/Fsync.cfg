SPECIFICATION FairSpec
CONSTANTS
    Threads = {1, 2, 3}
    sem = sem
    mtx = mtx
    auto = auto
    man = man
    Semaphores = {sem}
    Mutexes = {mtx}
    AutoEvents = {}
    ManualEvents = {man}
    SemMax = 1
    UIntSize = 4
    ReleaseCounts = {1}
    AnyWaits <- ThreeOrOne
    Role <- Roles
    Timeouts = {"finite"}
    AlertableWaits = {TRUE}
    ApcTargets = {2}
    MaxNesting = 2
INVARIANTS TypeOK MutexExact NoLostWakeup
PROPERTIES ImplementsNtSync SignaledIsTaken
