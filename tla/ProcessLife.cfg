CONSTANTS
  p1 = p1
  p2 = p2
  j1 = j1
  j2 = j2
  Procs <- MCProcs
  First = p1
  Jobs <- MCJobs
  MaxThreads = 1
  Attempts = 2
  Programs <- MCPrograms
  Limits <- MCLimits
  LateThreads = FALSE
SPECIFICATION FairSpec

INVARIANTS NoAssertFails JobsExact CountsExact
PROPERTIES JobTerminated ShutdownEnds DeathNoticed
CHECK_DEADLOCK FALSE
