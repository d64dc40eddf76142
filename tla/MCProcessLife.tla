--------------------------- MODULE MCProcessLife ---------------------------
EXTENDS ProcessLife
CONSTANTS p1, p2, j1, j2
MCProcs == {p1, p2}
MCJobs == {j1, j2}
MCLimits == {"kill", "breakaway"}
By(p, requests) == {<<p, r>> : r \in requests}
Creation == {"newProcess", "newThread", "createJob"}
\* Processes that are moved into jobs, and jobs into jobs, and are terminated there.
Moving == By(p1, Creation \cup {"assignJob", "terminateJob"})
\* Processes that break away from the job of their parent.
Leaving == By(p1, Creation \cup {"breakaway", "assignJob"})
\* Jobs whose processes are killed with the last handle.
Closing == By(p1, Creation \cup {"kill", "closeHandle"})
\* Host processes that die while the server shuts down.
Dying == By(p1, {"newProcess", "newThread", "openProcess", "terminateProcess", "makeSystem",
                 "die", "shutDown"})
         \cup By(p2, {"newThread", "makeSystem", "die"})
MCPrograms == {Moving, Leaving, Closing, Dying}
=============================================================================
