SPECIFICATION WFairSpec
CONSTANTS
    Threads = {1, 2, 3}
    sem = sem
    mtx = mtx
    auto = auto
    man = man
    Semaphores = {sem}
    Mutexes = {mtx}
    AutoEvents = {auto}
    ManualEvents = {}
    SemMax = 1
    UIntSize = 4
    ReleaseCounts = {1}
    AnyWaits <- MutexOnly
    AllWaits <- WithEvents
    Role <- MixedRoles
    Timeouts = {"finite"}
    AlertableWaits = {FALSE}
    ApcTargets = {}
    MaxNesting = 1
    Mortal = {1}
INVARIANT GrabsExact
 
