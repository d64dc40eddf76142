SPECIFICATION AFairSpec
CONSTANTS
    Threads = {1, 2, 3}
    m1 = m1
    m2 = m2
    Semaphores = {}
    Mutexes = {m1, m2}
    AutoEvents = {}
    ManualEvents = {}
    SemMax = 1
    UIntSize = 8
    ReleaseCounts = {1}
    AnyWaits <- First
    Role <- HeirRoles
    Timeouts = {"infinite"}
    AlertableWaits = {TRUE}
    ApcTargets = {3}
    MaxNesting = 2
    Mortal = {1}
INVARIANT OwnersExact
PROPERTY AbandonedIsTaken
