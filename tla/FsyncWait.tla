------------------------------ MODULE FsyncWait ------------------------------
(***************************************************************************)
(* The client half of fsync (dlls/ntdll/unix/fsync_pro10.c): semaphores,   *)
(* mutexes and events are pairs of 32-bit words in memory shared by every  *)
(* process, changed with atomic instructions and slept on with futexes;    *)
(* the server takes no part in an uncontended operation.                   *)
(*                                                                         *)
(* One action is one access to shared memory or one system call, so that   *)
(* the threads interleave where the code lets them.  A compare-and-swap    *)
(* loop is one action (the iteration that succeeds, or gives up).          *)
(*                                                                         *)
(* This module has the signalling calls, the wait for any object and the   *)
(* server's side of user APCs.  FsyncAbandon adds the death of a thread,   *)
(* FsyncWaitAll the wait for all objects.                                  *)
(***************************************************************************)
EXTENDS Integers, Sequences, FiniteSets

CONSTANTS
    Threads,        \* the thread ids, as they are stored in a mutex
    Semaphores, Mutexes, AutoEvents, ManualEvents,  \* the objects, by type
    SemMax,         \* semaphore->max of every semaphore
    UIntSize,       \* how many values a ULONG has (2^32 in the code)
    ReleaseCounts,  \* the counts callers pass to fsync_release_semaphore
    AnyWaits,       \* the handle arrays passed to a wait for any object
    Timeouts,       \* a subset of {"zero", "finite", "infinite"}
    AlertableWaits, \* a subset of BOOLEAN
    Role,           \* the calls each thread makes
    ApcTargets,     \* the threads somebody queues user APCs to
    MaxNesting      \* bound: how often a thread may own one mutex

Events  == AutoEvents \union ManualEvents
Objects == Semaphores \union Mutexes \union Events

Abandoned == -1     \* ~0 in mutex->tid
Owners    == Threads \union {0, Abandoned}

ASSUME ThreadsAssumption == Threads \subseteq Nat \ {0}
ASSUME ObjectsAssumption ==
    /\ Semaphores \intersect Mutexes = {}
    /\ (Semaphores \union Mutexes) \intersect Events = {}
    /\ AutoEvents \intersect ManualEvents = {}
ASSUME SemaphoreAssumption ==
    /\ SemMax \in Nat \ {0}
    /\ UIntSize \in Nat /\ SemMax < UIntSize
    /\ ReleaseCounts \subseteq 0..(UIntSize - 1)
ASSUME WaitsAssumption ==
    /\ AnyWaits \subseteq Seq(Objects) \ {<<>>}
    /\ Timeouts \subseteq {"zero", "finite", "infinite"}
    /\ AlertableWaits \subseteq BOOLEAN
    /\ Role \in [Threads -> SUBSET {"semaphore", "mutex", "set", "reset", "pulse", "any", "all"}]
    /\ ApcTargets \subseteq Threads
    /\ MaxNesting \in Nat \ {0}

VARIABLES
    word,    \* the futex word: semaphore->count, mutex->tid, event->signaled
    count,   \* mutex->count, the recursion count
    apc,     \* the word of fsync_apc_futex, one per thread, owned by the server
    server,  \* the thread whose APC futex the server is about to wake, or 0
    pc,      \* where a thread is
    call,    \* the call a thread is in
    i,       \* the index of the loop over the objects
    expect,  \* the value a wait read from mutex->tid and will sleep on
    ret,     \* the status the last call returned
    held     \* ghost: how often a thread was told that it owns a mutex

shared  == <<word, count, apc, server>>
vars    == <<word, count, apc, server, pc, call, i, expect, ret, held>>

Call(op, objs, alertable, timeout) ==
    [op |-> op, objs |-> objs, alertable |-> alertable, timeout |-> timeout]
NoCall == Call("none", <<>>, FALSE, "infinite")

ToObject(op, o) == Call(op, <<o>>, FALSE, "infinite")

obj(t) == call[t].objs[i[t]]      \* objs[i]
Waited(t) == {call[t].objs[k] : k \in 1..Len(call[t].objs)}

Init ==
    /\ word \in {w \in [Objects -> 0..SemMax] :
                   /\ \A e \in Events : w[e] \in {0, 1}
                   /\ \A m \in Mutexes : w[m] = 0}
    /\ count  = [m \in Mutexes |-> 0]
    /\ apc    = [t \in Threads |-> 0]
    /\ server = 0
    /\ pc     = [t \in Threads |-> "idle"]
    /\ call   = [t \in Threads |-> NoCall]
    /\ i      = [t \in Threads |-> 1]
    /\ expect = [t \in Threads |-> [m \in Mutexes |-> 0]]
    /\ ret    = [t \in Threads |-> "none"]
    /\ held   = [t \in Threads |-> [m \in Mutexes |-> 0]]

-----------------------------------------------------------------------------
(* Steps every call is built from.                                         *)

Goto(t, l) == pc' = [pc EXCEPT ![t] = l]

Return(t, status) ==
    /\ Goto(t, "done")
    /\ ret' = [ret EXCEPT ![t] = status]

Enter(t, l, c) ==
    /\ pc[t] = "idle"
    /\ c.op \in Role[t]
    /\ Goto(t, l)
    /\ call' = [call EXCEPT ![t] = c]
    /\ UNCHANGED <<shared, i, expect, ret, held>>

\* The caller has the result and forgets the call.
Leave(t) ==
    /\ pc[t] = "done"
    /\ Goto(t, "idle")
    /\ call'   = [call EXCEPT ![t] = NoCall]
    /\ i'      = [i EXCEPT ![t] = 1]
    /\ expect' = [expect EXCEPT ![t] = [m \in Mutexes |-> 0]]
    /\ ret'    = [ret EXCEPT ![t] = "none"]
    /\ UNCHANGED <<shared, held>>

\* What a sleeping thread waits on: the wait for all objects sleeps on one
\* object at a time (do_single_wait).
SleepsOn(t) == IF call[t].op = "all" THEN {obj(t)} ELSE Waited(t)
Sleepers(o) == {t \in Threads : pc[t] = "asleep" /\ o \in SleepsOn(t)}

\* The value a word must still have for the kernel to put the thread to sleep.
Expected(t, o) == IF o \in Mutexes THEN expect[t][o] ELSE 0

\* Where a signalling call goes on once the object is signalled.
Signalled(t) == IF call[t].op = "pulse" THEN "pulse" ELSE "done"

\* futex_wake( addr, INT_MAX ): every sleeper on the word goes on.
Wake(t) ==
    /\ pc[t] = "wake"
    /\ pc' = [u \in Threads |->
                IF u = t THEN Signalled(t)
                ELSE IF u \in Sleepers(obj(t)) THEN "awake" ELSE pc[u]]
    /\ UNCHANGED <<shared, call, i, expect, ret, held>>

\* futex_waitv: sleep if no word has changed since it was read (EAGAIN
\* otherwise); with no time left the answer is ETIMEDOUT.
Unchanged(t) ==
    /\ \A o \in SleepsOn(t) : word[o] = Expected(t, o)
    /\ call[t].alertable => apc[t] = 0

FutexWait(t) ==
    /\ pc[t] = "sleep"
    /\ Goto(t, IF Unchanged(t) THEN "asleep" ELSE "again")
    /\ UNCHANGED <<shared, call, i, expect, ret, held>>

\* The deadline of a finite wait passes before anything wakes the sleeper.
TimedOut(t) ==
    /\ pc[t] = "asleep"
    /\ call[t].op = "any" /\ call[t].timeout = "finite"
    /\ Return(t, "timeout")
    /\ UNCHANGED <<shared, call, i, expect, held>>

\* A signal ends the sleep (EINTR).
Interrupted(t) ==
    /\ pc[t] = "asleep"
    /\ Goto(t, "again")
    /\ UNCHANGED <<shared, call, i, expect, ret, held>>

-----------------------------------------------------------------------------
(* The signalling calls.                                                   *)

CallReleaseSemaphore(t) ==
    \E s \in Semaphores : Enter(t, "release_semaphore", ToObject("semaphore", s))

\* count + current and max are compared as 32-bit unsigned numbers.
Plus(a, b) == (a + b) % UIntSize

ReleaseSemaphore(t) ==
    /\ pc[t] = "release_semaphore"
    /\ \E n \in ReleaseCounts :
         LET s   == obj(t)
             new == Plus(word[s], n)
         IN  \/ /\ new > SemMax
                /\ Return(t, "limit_exceeded")
                /\ UNCHANGED word
             \/ /\ new <= SemMax
                /\ word' = [word EXCEPT ![s] = new]
                /\ Goto(t, "wake")
                /\ UNCHANGED ret
    /\ UNCHANGED <<count, apc, server, call, i, expect, held>>

CallSetEvent(t) ==
    \E e \in Events, op \in {"set", "pulse"} : Enter(t, "set", ToObject(op, e))

CallResetEvent(t) ==
    \E e \in Events : Enter(t, "reset", ToObject("reset", e))

\* fsync_set_event, and the first half of fsync_pulse_event: only the exchange
\* that finds the event reset has anyone to wake.
SetEvent(t) ==
    /\ pc[t] = "set"
    /\ word' = [word EXCEPT ![obj(t)] = 1]
    /\ Goto(t, IF word[obj(t)] = 0 THEN "wake" ELSE Signalled(t))
    /\ UNCHANGED <<count, apc, server, call, i, expect, ret, held>>

\* fsync_reset_event, and the last store of fsync_pulse_event.
ResetEvent(t) ==
    /\ pc[t] \in {"reset", "pulse"}
    /\ word' = [word EXCEPT ![obj(t)] = 0]
    /\ Goto(t, "done")
    /\ UNCHANGED <<count, apc, server, call, i, expect, ret, held>>

\* A thread releases a mutex once for every time it was given it, or tries to
\* release one that is not its own.
CallReleaseMutex(t) ==
    \E m \in Mutexes :
        /\ held[t][m] > 0 \/ word[m] # t
        /\ Enter(t, "release_mutex", ToObject("mutex", m))

NotOwned(t) ==
    /\ pc[t] = "release_mutex"
    /\ word[obj(t)] # t
    /\ Return(t, "not_owned")
    /\ UNCHANGED <<shared, call, i, expect, held>>

\* Mutant: the first release frees the mutex, however often it is owned.
ReleaseMutexAtOnce(t) ==
    LET m == obj(t) IN
    /\ pc[t] = "release_mutex" /\ word[m] = t
    /\ count' = [count EXCEPT ![m] = @ - 1]
    /\ held'  = [held EXCEPT ![t][m] = @ - 1]
    /\ Goto(t, "unlock")
    /\ UNCHANGED <<word, apc, server, call, i, expect, ret>>

\* --mutex->count, which only the owner touches.
ReleaseMutex(t) ==
    LET m == obj(t) IN
    /\ pc[t] = "release_mutex"
    /\ word[m] = t
    /\ count' = [count EXCEPT ![m] = @ - 1]
    /\ held'  = [held EXCEPT ![t][m] = @ - 1]
    /\ Goto(t, IF count[m] = 1 THEN "unlock" ELSE "done")
    /\ UNCHANGED <<word, apc, server, call, i, expect, ret>>

\* Mutant: the futex_wake is forgotten.
UnlockSilently(t) ==
    /\ pc[t] = "unlock"
    /\ word' = [word EXCEPT ![obj(t)] = 0]
    /\ Goto(t, "done")
    /\ UNCHANGED <<count, apc, server, call, i, expect, ret, held>>

UnlockMutex(t) ==
    /\ pc[t] = "unlock"
    /\ word' = [word EXCEPT ![obj(t)] = 0]
    /\ Goto(t, "wake")
    /\ UNCHANGED <<count, apc, server, call, i, expect, ret, held>>

-----------------------------------------------------------------------------
(* __fsync_wait_objects, waiting for any object of the array.              *)

CallWaitAny(t) ==
    \E objs \in AnyWaits, alertable \in AlertableWaits, timeout \in Timeouts :
        /\ \A k \in DOMAIN objs :
              objs[k] \in Mutexes => held[t][objs[k]] < MaxNesting
        /\ Enter(t, "again", Call("any", objs, alertable, timeout))

\* The head of the loop: "We must check this first!"
CheckApc(t) ==
    /\ pc[t] \in {"again", "awake"}
    /\ call[t].op = "any"
    /\ Goto(t, IF call[t].alertable /\ apc[t] = 1 THEN "user_apc" ELSE "try")
    /\ i' = [i EXCEPT ![t] = 1]
    /\ UNCHANGED <<shared, call, expect, ret, held>>

Acquired(t, m) == held' = [held EXCEPT ![t][m] = @ + 1]

\* Mutants: a unit is taken without a look whether there is one; a
\* manual-reset event is reset by the wait it ends.
TryUnchecked(t) ==
    /\ pc[t] = "try" /\ obj(t) \notin Mutexes
    /\ word' = [word EXCEPT ![obj(t)] = @ - 1]
    /\ Return(t, "signaled")
    /\ UNCHANGED <<count, apc, server, call, i, expect, held>>

TryAsAutoReset(t) == pc[t] = "try" /\ word[obj(t)] > 0 /\ TryUnchecked(t)

\* A semaphore or an auto-reset event gives up one unit, a manual-reset event
\* stays as it is.
TrySignaled(t) ==
    LET o == obj(t) IN
    /\ pc[t] = "try"
    /\ o \notin Mutexes
    /\ word[o] > 0
    /\ word' = [word EXCEPT ![o] = IF o \in ManualEvents THEN @ ELSE @ - 1]
    /\ Return(t, "signaled")
    /\ UNCHANGED <<count, apc, server, call, i, expect, held>>

TryOwnMutex(t) ==
    LET m == obj(t) IN
    /\ pc[t] = "try"
    /\ m \in Mutexes
    /\ word[m] = t
    /\ count' = [count EXCEPT ![m] = @ + 1]
    /\ Acquired(t, m)
    /\ Return(t, "signaled")
    /\ UNCHANGED <<word, apc, server, call, i, expect>>

\* The first compare-and-swap, 0 -> tid.
TryFreeMutex(t) ==
    LET m == obj(t) IN
    /\ pc[t] = "try"
    /\ m \in Mutexes
    /\ word[m] = 0
    /\ word' = [word EXCEPT ![m] = t]
    /\ Goto(t, "own")
    /\ UNCHANGED <<count, apc, server, call, i, expect, ret, held>>

\* mutex->count = 1, a store of its own after the compare-and-swap.
OwnMutex(t) ==
    LET m == obj(t) IN
    /\ pc[t] \in {"own", "own_abandoned"}
    /\ count' = [count EXCEPT ![m] = 1]
    /\ Acquired(t, m)
    /\ Return(t, IF pc[t] = "own" THEN "signaled" ELSE "abandoned")
    /\ UNCHANGED <<word, apc, server, call, i, expect>>

\* The loop over the objects goes on; after the last one it has nothing left
\* to do but wait, or report that a zero timeout is over.
NextObject(t) ==
    LET last == i[t] = Len(call[t].objs) IN
    /\ i' = [i EXCEPT ![t] = IF last THEN @ ELSE @ + 1]
    /\ IF ~last THEN Goto(t, "try") /\ UNCHANGED ret
       ELSE IF call[t].timeout = "zero" THEN Return(t, "timeout")
       ELSE Goto(t, "sleep") /\ UNCHANGED ret

SkipUnsignaled(t) ==
    /\ pc[t] = "try"
    /\ obj(t) \notin Mutexes
    /\ word[obj(t)] = 0
    /\ NextObject(t)
    /\ UNCHANGED <<shared, call, expect, held>>

SkipMutex(t) ==
    LET m == obj(t) IN
    /\ \/ pc[t] = "try" /\ m \in Mutexes /\ word[m] \notin {0, t, Abandoned}
       \/ pc[t] = "try_abandoned" /\ word[m] # Abandoned
    /\ expect' = [expect EXCEPT ![t][m] = word[m]]
    /\ NextObject(t)
    /\ UNCHANGED <<shared, call, held>>

-----------------------------------------------------------------------------
(* User APCs.  The server, one thread, sets the word of the thread it      *)
(* queued an APC to and wakes it; it clears the word when it hands out the *)
(* last APC of the queue.                                                  *)

QueueApc ==
    \E t \in ApcTargets :
        /\ server = 0
        /\ apc' = [apc EXCEPT ![t] = 1]
        /\ server' = IF apc[t] = 0 THEN t ELSE 0
        /\ UNCHANGED <<word, count, pc, call, i, expect, ret, held>>

WakeApc ==
    /\ server # 0
    /\ server' = 0
    /\ pc' = IF pc[server] = "asleep" /\ call[server].alertable
             THEN [pc EXCEPT ![server] = "awake"] ELSE pc
    /\ UNCHANGED <<word, count, apc, call, i, expect, ret, held>>

\* userapc: the server call that runs the APC; more may be queued behind it.
UserApc(t) ==
    /\ pc[t] = "user_apc"
    /\ server = 0
    /\ apc' \in {apc, [apc EXCEPT ![t] = 0]}
    /\ Return(t, "user_apc")
    /\ UNCHANGED <<word, count, server, call, i, expect, held>>

-----------------------------------------------------------------------------

Calls(t) ==
    \/ CallReleaseSemaphore(t) \/ CallReleaseMutex(t)
    \/ CallSetEvent(t) \/ CallResetEvent(t)
    \/ CallWaitAny(t)

Signal(t) ==
    \/ ReleaseSemaphore(t)
    \/ SetEvent(t) \/ ResetEvent(t)
    \/ NotOwned(t) \/ ReleaseMutex(t) \/ UnlockMutex(t)
    \/ Wake(t)

WaitAny(t) ==
    \/ CheckApc(t)
    \/ TrySignaled(t) \/ SkipUnsignaled(t)
    \/ TryOwnMutex(t) \/ TryFreeMutex(t) \/ OwnMutex(t) \/ SkipMutex(t)
    \/ FutexWait(t)
    \/ UserApc(t)

\* What a thread does as long as it is scheduled, once it is in a call.
Step(t) == Signal(t) \/ WaitAny(t) \/ Leave(t)

Next ==
    \/ \E t \in Threads : Calls(t) \/ Step(t) \/ TimedOut(t) \/ Interrupted(t)
    \/ QueueApc \/ WakeApc

Spec == Init /\ [][Next]_vars

\* The kernel schedules every thread that can run and the server serves; no
\* thread has to make a call, no deadline or signal has to come.
Fairness == (\A t \in Threads : WF_vars(Step(t))) /\ WF_vars(WakeApc)

FairSpec == Spec /\ Fairness

-----------------------------------------------------------------------------

PCs == {"idle", "release_semaphore", "set", "reset", "pulse", "release_mutex",
        "unlock", "wake", "again", "awake", "try", "try_abandoned", "own",
        "own_abandoned", "sleep", "asleep", "user_apc", "done"}
Statuses == {"none", "limit_exceeded", "not_owned", "signaled", "abandoned",
             "timeout", "user_apc"}

CallRecords == [op : {"none", "semaphore", "mutex", "set", "reset", "pulse", "any", "all"},
                objs : Seq(Objects), alertable : BOOLEAN,
                timeout : {"zero", "finite", "infinite"}]

\* Every variable stays in its range: no semaphore exceeds its maximum, no
\* event is anything but 0 or 1, no recursion count drops below 0.
TypeOK ==
    /\ word \in [Objects -> Int]
    /\ \A s \in Semaphores : word[s] \in 0..SemMax
    /\ \A e \in Events : word[e] \in {0, 1}
    /\ \A m \in Mutexes : word[m] \in Owners
    /\ count \in [Mutexes -> Nat]
    /\ apc \in [Threads -> {0, 1}]
    /\ server \in Threads \union {0}
    /\ pc \in [Threads -> PCs]
    /\ call \in [Threads -> CallRecords]
    /\ i \in [Threads -> Nat \ {0}]
    /\ expect \in [Threads -> [Mutexes -> Owners]]
    /\ ret \in [Threads -> Statuses]
    /\ held \in [Threads -> [Mutexes -> Nat]]

\* The thread is between taking a mutex and returning, or between its last
\* release and the store that frees it: it is in the mutex's own code.
Entering(t, m) == pc[t] \in {"own", "own_abandoned"} /\ obj(t) = m
Leaving(t, m)  == pc[t] = "unlock" /\ obj(t) = m

\* Mutual exclusion, with recursion: a thread that was told it owns a mutex
\* is the thread in mutex->tid, mutex->count is exactly the number of releases
\* it still owes, and a mutex nobody was told of is free or in transit
\* (fsync_release_mutex and the mutex case of __fsync_wait_objects).
MutexExact ==
    \A m \in Mutexes, t \in Threads :
        /\ held[t][m] > 0 => word[m] = t /\ count[m] = held[t][m]
        /\ word[m] = t => held[t][m] > 0 \/ Entering(t, m) \/ Leaving(t, m)

\* Someone has changed the word and has still to wake those who sleep on it.
WakePending(o) == \E t \in Threads : pc[t] = "wake" /\ obj(t) = o

Available(o) == IF o \in Mutexes THEN word[o] \in {0, Abandoned} ELSE word[o] > 0

\* No wakeup is lost: a thread sleeps on an object it could have, or on its
\* APC word with an APC queued, only until the futex_wake of whoever made it
\* so; "Looks like everything is contended, so wait" stays true in between.
NoLostWakeup ==
    \A t \in Threads : pc[t] = "asleep" =>
        /\ \A o \in SleepsOn(t) : Available(o) => WakePending(o)
        /\ call[t].alertable /\ apc[t] = 1 => server = t

Waiting(t, o) ==
    /\ pc[t] \notin {"idle", "done"}
    /\ call[t].op \in {"any", "all"}
    /\ o \in Waited(t)

\* A wait for any object does not stay blocked on an object that stays
\* signaled: it returns, or somebody else takes the object.
SignaledIsTaken ==
    \A t \in Threads, o \in Objects :
        Waiting(t, o) /\ call[t].op = "any" /\ Available(o)
            ~> ~Waiting(t, o) \/ ~Available(o)
=============================================================================
