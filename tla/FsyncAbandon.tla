---------------------------- MODULE FsyncAbandon ----------------------------
(***************************************************************************)
(* What fsync does when a thread dies: fsync_abandon_mutexes of            *)
(* server/fsync_pro10.c walks over every mutex of the system and marks     *)
(* those whose tid is the dead thread's, while the clients go on using     *)
(* them.  The server's two plain stores race with the clients' atomics and *)
(* with mutex->count; nothing orders them for the compiler, so they are    *)
(* done in either order.                                                   *)
(***************************************************************************)
EXTENDS FsyncWait

CONSTANTS Mortal    \* the threads that may exit

ASSUME MortalAssumption == Mortal \subseteq Threads

VARIABLES
    victim,   \* the dead thread whose mutexes the server is abandoning, or 0
    todo,     \* the mutexes of mutex_list it has not come to yet
    marking,  \* the mutex it is at, as a set of at most one
    stores,   \* what it still has to do to it: "tid", "count", "wake"
    overwritten \* ghost: the mutexes whose new owner had its count overwritten

sweep  == <<victim, todo, marking, stores, overwritten>>
avars  == <<vars, sweep>>

AInit ==
    /\ Init
    /\ victim = 0 /\ todo = {} /\ marking = {} /\ stores = {} /\ overwritten = {}

\* The thread leaves, between two calls, with the mutexes it holds; the server
\* sees it die in kill_thread.
Exit(t) ==
    /\ pc[t] = "idle" /\ t \in Mortal
    /\ victim = 0 /\ server = 0
    /\ Goto(t, "dead")
    /\ victim' = t /\ todo' = Mutexes
    /\ UNCHANGED <<shared, call, i, expect, ret, held, marking, stores, overwritten>>

Pass(m) ==
    /\ m \in todo /\ marking = {}
    /\ word[m] # victim
    /\ todo' = todo \ {m}
    /\ UNCHANGED <<vars, victim, marking, stores, overwritten>>

Mark(m) ==
    /\ m \in todo /\ marking = {}
    /\ word[m] = victim
    /\ todo' = todo \ {m}
    /\ marking' = {m} /\ stores' = {"tid", "count", "wake"}
    /\ UNCHANGED <<vars, victim, overwritten>>

StoreTid(m) ==
    /\ m \in marking /\ "tid" \in stores
    /\ word'   = [word EXCEPT ![m] = Abandoned]
    /\ stores' = stores \ {"tid"}
    /\ UNCHANGED <<count, apc, server, pc, call, i, expect, ret, held,
                   victim, todo, marking, overwritten>>

\* Somebody may have taken the mutex already, and counted.
Counted(m) == word[m] \in Threads \ {victim} /\ held[word[m]][m] > 0

StoreCount(m) ==
    /\ m \in marking /\ "count" \in stores
    /\ count'  = [count EXCEPT ![m] = 0]
    /\ stores' = stores \ {"count"}
    /\ overwritten' = IF Counted(m) THEN overwritten \union {m} ELSE overwritten
    /\ UNCHANGED <<word, apc, server, pc, call, i, expect, ret, held, victim, todo, marking>>

\* Mutant: the futex_wake is forgotten.
WakeNobody(m) ==
    /\ m \in marking /\ stores = {"wake"}
    /\ marking' = {} /\ stores' = {}
    /\ UNCHANGED <<vars, victim, todo, overwritten>>

WakeSleepers(m) ==
    /\ m \in marking /\ stores = {"wake"}
    /\ pc' = [t \in Threads |-> IF t \in Sleepers(m) THEN "awake" ELSE pc[t]]
    /\ marking' = {} /\ stores' = {}
    /\ UNCHANGED <<shared, call, i, expect, ret, held, victim, todo, overwritten>>

\* Mutant: the loop ends with the first mutex it has dealt with.
SweptAfterOne ==
    /\ victim # 0 /\ todo # Mutexes /\ marking = {}
    /\ victim' = 0 /\ todo' = {}
    /\ UNCHANGED <<vars, marking, stores, overwritten>>

Swept ==
    /\ victim # 0 /\ todo = {} /\ marking = {}
    /\ victim' = 0
    /\ UNCHANGED <<vars, todo, marking, stores, overwritten>>

Sweep ==
    \/ \E m \in Mutexes :
         Pass(m) \/ Mark(m) \/ StoreTid(m) \/ StoreCount(m) \/ WakeSleepers(m)
    \/ Swept

-----------------------------------------------------------------------------
(* What a wait for any object does with an abandoned mutex.                *)

\* The first compare-and-swap, 0 -> tid, has found ~0.
SeeAbandoned(t) ==
    /\ pc[t] = "try"
    /\ obj(t) \in Mutexes
    /\ word[obj(t)] = Abandoned
    /\ Goto(t, "try_abandoned")
    /\ UNCHANGED <<shared, call, i, expect, ret, held, sweep>>

\* The second one, ~0 -> tid; if it fails the wait will sleep on what it read.
TryAbandonedMutex(t) ==
    LET m == obj(t) IN
    /\ pc[t] = "try_abandoned"
    /\ word[m] = Abandoned
    /\ word' = [word EXCEPT ![m] = t]
    /\ Goto(t, "own_abandoned")
    /\ UNCHANGED <<count, apc, server, call, i, expect, ret, held, sweep>>

-----------------------------------------------------------------------------

\* The server is one thread: it queues and hands out APCs between two sweeps.
AStep(t) ==
    \/ Step(t) /\ (pc[t] = "user_apc" => victim = 0) /\ UNCHANGED sweep
    \/ SeeAbandoned(t)
    \/ TryAbandonedMutex(t)

ANext ==
    \/ \E t \in Threads :
         \/ AStep(t)
         \/ (Calls(t) \/ TimedOut(t) \/ Interrupted(t)) /\ UNCHANGED sweep
         \/ Exit(t)
    \/ QueueApc /\ victim = 0 /\ UNCHANGED sweep
    \/ WakeApc /\ UNCHANGED sweep
    \/ Sweep

ASpec == AInit /\ [][ANext]_avars

AFairness ==
    /\ \A t \in Threads : WF_avars(AStep(t))
    /\ WF_avars(WakeApc /\ UNCHANGED sweep)
    /\ WF_avars(Sweep)

AFairSpec == ASpec /\ AFairness

-----------------------------------------------------------------------------

Alive(t) == pc[t] # "dead"

\* Every variable stays in its range while threads die.
ATypeOK ==
    /\ word \in [Objects -> Int]
    /\ \A m \in Mutexes : word[m] \in Owners
    /\ count \in [Mutexes -> Int]
    /\ pc \in [Threads -> PCs \union {"dead"}]
    /\ expect \in [Threads -> [Mutexes -> Owners]]
    /\ victim \in Threads \union {0}
    /\ todo \subseteq Mutexes /\ marking \subseteq Mutexes
    /\ Cardinality(marking) <= 1
    /\ stores \subseteq {"tid", "count", "wake"} /\ overwritten \subseteq Mutexes

\* A living thread that was told it owns a mutex is the one in mutex->tid, and
\* mutex->count is what it owes, whatever the server does to the mutexes of the
\* dead: fsync_abandon_mutexes takes none away from a living thread. But
\* mutex->count = 0 may come when another thread has the mutex already; from
\* then on that mutex is freed too early or never.
AbandonedOnlyFromTheDead ==
    \A m \in Mutexes \ overwritten, t \in Threads :
        Alive(t) /\ held[t][m] > 0 => word[m] = t /\ count[m] = held[t][m]

\* No mutex stays with the dead: once the server is done with a thread, no
\* mutex->tid names it, not even one it was waiting for a moment before.
DeadOwnNothing ==
    \A t \in Threads, m \in Mutexes :
        ~Alive(t) /\ word[m] = t => victim = t /\ (m \in todo \/ m \in marking)

\* mutex->tid is whom the clients and the server take for the owner, while threads
\* die at any time: the three parts above.
OwnersExact == ATypeOK /\ AbandonedOnlyFromTheDead /\ DeadOwnNothing

\* Somebody who waits for an abandoned mutex gets it, or somebody else does.
AbandonedIsTaken ==
    \A t \in Threads, m \in Mutexes :
        Waiting(t, m) /\ call[t].op = "any" /\ word[m] = Abandoned
            ~> ~Waiting(t, m) \/ word[m] # Abandoned

=============================================================================
