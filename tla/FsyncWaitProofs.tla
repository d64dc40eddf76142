-------------------------- MODULE FsyncWaitProofs ---------------------------
(***************************************************************************)
(* Theorems about FsyncWait, for any threads, objects and waits; then      *)
(* about FsyncAbandon and FsyncWaitAll: the mutexes of the dead, and the   *)
(* wait for all objects among waits for any, signalling calls, and deaths. *)
(***************************************************************************)
EXTENDS FsyncRefinement, FsyncWaitAll, FiniteSetTheorems, TLAPS

-----------------------------------------------------------------------------
(* The inductive invariant.                                                *)

WaitPCs == {"again", "awake", "try", "sleep", "asleep", "user_apc", "own"}
SignalPCs == {"idle", "release_semaphore", "set", "reset", "pulse", "release_mutex",
              "unlock", "wake"}

\* What a thread's place says about the call it is in: the object it works on
\* and the type that object has.
PlaceOK(place, c, k) ==
    LET o == c.objs[k] IN
    /\ place = "idle" => k = 1
    /\ place \notin {"idle", "done"} => k \in 1..Len(c.objs)
    /\ place = "release_semaphore" => o \in Semaphores
    /\ place \in {"set", "reset", "pulse"} => o \in Events
    /\ place \in {"set", "wake"} /\ c.op = "pulse" => o \in Events
    /\ place \in {"release_mutex", "unlock", "own"} => o \in Mutexes
    /\ place \in {"release_semaphore", "release_mutex", "unlock"} => c.op # "pulse"
    /\ place \in WaitPCs => c.op = "any"
    /\ place \in SignalPCs => c.op # "any"

CallOK == \A t \in Threads : PlaceOK(pc[t], call[t], i[t])

\* No thread dies in this module, so no mutex is ever abandoned.
NothingAbandoned ==
    /\ \A m \in Mutexes : word[m] # Abandoned
    /\ \A t \in Threads : pc[t] \notin {"try_abandoned", "own_abandoned"}

\* A mutex is free, held, being entered or being left, each in its own way.
OwnedOK(m, t) ==
    /\ held[t][m] > 0 => word[m] = t /\ count[m] = held[t][m]
    /\ Entering(t, m) => word[m] = t /\ held[t][m] = 0 /\ count[m] = 0
    /\ Leaving(t, m)  => word[m] = t /\ held[t][m] = 0 /\ count[m] = 0
    /\ word[m] = t => held[t][m] > 0 \/ Entering(t, m) \/ Leaving(t, m)

OwnerOK ==
    \A m \in Mutexes :
        /\ word[m] = 0 => count[m] = 0
        /\ \A t \in Threads : OwnedOK(m, t)

\* What a wait has read from the mutexes it passed names another thread.
SeenOwned(c, n, e) ==
    \A k \in 1..n : c.objs[k] \in Mutexes => e[c.objs[k]] # 0

ReadOK(place, c, k, e) ==
    /\ place = "try" => SeenOwned(c, k - 1, e)
    /\ place \in {"sleep", "asleep"} => SeenOwned(c, Len(c.objs), e)

ExpectOK == \A t \in Threads : ReadOK(pc[t], call[t], i[t], expect[t])

\* The wakeup of a thread whose word has changed is still to come.
SleepOK ==
    \A t \in Threads : pc[t] = "asleep" =>
        /\ \A o \in Waited(t) : word[o] # Expected(t, o) => WakePending(o)
        /\ call[t].alertable /\ apc[t] = 1 => server = t

IInv == TypeOK /\ CallOK /\ NothingAbandoned /\ OwnerOK /\ ExpectOK /\ SleepOK
-----------------------------------------------------------------------------

\* The object a thread works on is one of the objects.
LEMMA ObjectInRange ==
    ASSUME TypeOK, CallOK, NEW t \in Threads, pc[t] \notin {"idle", "done"}
    PROVE  obj(t) \in Objects /\ call[t].objs \in Seq(Objects)
  BY DEF TypeOK, CallOK, PlaceOK, CallRecords, obj

\* Init establishes the invariant.
LEMMA InitIInv == Init => IInv
  <1> SUFFICES ASSUME Init PROVE IInv
    OBVIOUS
  <1> USE ThreadsAssumption, ObjectsAssumption, SemaphoreAssumption DEF Init
  <1>1. TypeOK
    <2>1. NoCall \in CallRecords
      BY DEF NoCall, Call, CallRecords
    <2>2. /\ word \in [Objects -> Int]
          /\ \A s \in Semaphores : word[s] \in 0..SemMax
          /\ \A e \in Events : word[e] \in {0, 1}
          /\ \A m \in Mutexes : word[m] \in Owners
      BY DEF Objects, Owners
    <2>3. /\ pc \in [Threads -> PCs]
          /\ call \in [Threads -> CallRecords]
          /\ i \in [Threads -> Nat \ {0}]
      BY <2>1 DEF PCs
    <2>4. /\ expect \in [Threads -> [Mutexes -> Owners]]
          /\ ret \in [Threads -> Statuses]
          /\ held \in [Threads -> [Mutexes -> Nat]]
      BY DEF Owners, Statuses
    <2> QED
      BY <2>2, <2>3, <2>4 DEF TypeOK
  <1>2. CallOK
    BY DEF CallOK, PlaceOK, WaitPCs, SignalPCs, NoCall, Call
  <1>3. NothingAbandoned
    BY DEF NothingAbandoned, Abandoned, Objects
  <1>4. OwnerOK
    BY DEF OwnerOK, OwnedOK, Entering, Leaving, Objects
  <1>5. ExpectOK /\ SleepOK
    BY DEF ExpectOK, ReadOK, SeenOwned, SleepOK
  <1> QED
    BY <1>1, <1>2, <1>3, <1>4, <1>5 DEF IInv
\* A 32-bit sum is a natural number.
LEMMA PlusNat == \A a, b \in Nat : Plus(a, b) \in Nat
  BY SemaphoreAssumption DEF Plus

\* The call a thread is in when it is in none.
LEMMA NoCallRecord == NoCall \in CallRecords
  BY DEF NoCall, Call, CallRecords

\* The loop over the objects moves to another object, or leaves the loop.
LEMMA NextObjectType ==
    ASSUME TypeOK, NEW t \in Threads, NextObject(t)
    PROVE  /\ i' \in [Threads -> Nat \ {0}]
           /\ pc' \in [Threads -> PCs]
           /\ ret' \in [Threads -> Statuses]
  <1>1. i' \in [Threads -> Nat \ {0}]
    BY DEF TypeOK, NextObject
  <1>2. pc' \in [Threads -> PCs] /\ ret' \in [Threads -> Statuses]
    BY DEF TypeOK, NextObject, Goto, Return, PCs, Statuses
  <1> QED
    BY <1>1, <1>2

\* One word takes a value its object may have.
WordOK ==
    /\ word \in [Objects -> Int]
    /\ \A s \in Semaphores : word[s] \in 0..SemMax
    /\ \A e \in Events : word[e] \in {0, 1}
    /\ \A m \in Mutexes : word[m] \in Owners

LEMMA OneWord ==
    ASSUME WordOK, NEW o \in Objects, NEW v \in Int, word' = [word EXCEPT ![o] = v],
           o \in Semaphores => v \in 0..SemMax,
           o \in Events => v \in {0, 1},
           o \in Mutexes => v \in Owners
    PROVE  WordOK'
  <1>1. word' \in [Objects -> Int] /\ \A x \in Objects : word'[x] = IF x = o THEN v ELSE word[x]
    BY DEF WordOK
  <1>2. \A s \in Semaphores : word'[s] \in 0..SemMax
    BY <1>1 DEF WordOK, Objects
  <1>3. \A e \in Events : word'[e] \in {0, 1}
    BY <1>1 DEF WordOK, Objects
  <1>4. \A m \in Mutexes : word'[m] \in Owners
    BY <1>1 DEF WordOK, Objects
  <1> QED
    BY <1>1, <1>2, <1>3, <1>4 DEF WordOK

\* Every step keeps every variable in its range.
LEMMA StepTypeOK == IInv /\ [Next]_vars => TypeOK'
  <1> SUFFICES ASSUME IInv, [Next]_vars PROVE TypeOK'
    OBVIOUS
  <1> USE ThreadsAssumption, ObjectsAssumption, SemaphoreAssumption, WaitsAssumption
      DEF TypeOK, shared
  <1>o. \A t \in Threads : pc[t] \notin {"idle", "done"} =>
           obj(t) \in Objects /\ call[t].objs \in Seq(Objects)
    BY ObjectInRange DEF IInv
  <1>1. ASSUME NEW t \in Threads, CallReleaseSemaphore(t) PROVE TypeOK'
    BY <1>1, <1>o DEF CallReleaseSemaphore, Enter, Goto, Call, CallRecords, ToObject, IInv, CallOK, PlaceOK, PCs, Statuses, Objects, Events, Owners
  <1>2. ASSUME NEW t \in Threads, CallReleaseMutex(t) PROVE TypeOK'
    BY <1>2, <1>o DEF CallReleaseMutex, Enter, Goto, Call, CallRecords, ToObject, IInv, CallOK, PlaceOK, PCs, Statuses, Objects, Events, Owners
  <1>3. ASSUME NEW t \in Threads, CallSetEvent(t) PROVE TypeOK'
    BY <1>3, <1>o DEF CallSetEvent, Enter, Goto, Call, CallRecords, ToObject, IInv, CallOK, PlaceOK, PCs, Statuses, Objects, Events, Owners
  <1>4. ASSUME NEW t \in Threads, CallResetEvent(t) PROVE TypeOK'
    BY <1>4, <1>o DEF CallResetEvent, Enter, Goto, Call, CallRecords, ToObject, IInv, CallOK, PlaceOK, PCs, Statuses, Objects, Events, Owners
  <1>5. ASSUME NEW t \in Threads, CallWaitAny(t) PROVE TypeOK'
    BY <1>5, <1>o DEF CallWaitAny, Enter, Goto, Call, CallRecords, IInv, CallOK, PlaceOK, PCs, Statuses, Objects, Events, Owners
  <1>6. ASSUME NEW t \in Threads, ReleaseSemaphore(t) PROVE TypeOK'
    <2> DEFINE o == obj(t)
    <2>1. PICK n \in ReleaseCounts :
             \/ word' = word /\ ret' \in [Threads -> Statuses]
             \/ word' = [word EXCEPT ![o] = Plus(word[o], n)] /\ Plus(word[o], n) <= SemMax
      BY <1>6 DEF ReleaseSemaphore, Return, IInv, Statuses
    <2>2. o \in Semaphores /\ o \in Objects /\ word[o] \in Nat /\ n \in Nat
      <3>1. o \in Semaphores
        BY <1>6 DEF ReleaseSemaphore, IInv, CallOK, PlaceOK, obj
      <3> QED
        BY <3>1 DEF IInv, Objects
    <2>3. Plus(word[o], n) \in Nat
      BY <2>2, PlusNat
    <2>4. WordOK'
      <3>1. CASE word' = word
        BY <3>1 DEF WordOK, IInv
      <3>2. CASE word' = [word EXCEPT ![o] = Plus(word[o], n)] /\ Plus(word[o], n) <= SemMax
        <4>1. o \notin Mutexes /\ o \notin Events
          BY <2>2
        <4> QED
          BY <3>2, <4>1, <2>2, <2>3, OneWord DEF WordOK, IInv
      <3> QED
        BY <2>1, <3>1, <3>2
    <2>5. pc' \in [Threads -> PCs] /\ ret' \in [Threads -> Statuses]
      BY <1>6 DEF ReleaseSemaphore, Return, Goto, IInv, PCs, Statuses
    <2> QED
      BY <1>6, <2>4, <2>5 DEF ReleaseSemaphore, WordOK, IInv
  <1>7. ASSUME NEW t \in Threads, SetEvent(t) PROVE TypeOK'
    <2>1. obj(t) \in Events
      BY <1>7 DEF SetEvent, IInv, CallOK, PlaceOK, obj
    <2>2. WordOK'
      BY <1>7, <2>1, OneWord DEF SetEvent, WordOK, Objects, IInv
    <2>3. pc' \in [Threads -> PCs]
      BY <1>7 DEF SetEvent, Goto, Signalled, PCs, IInv
    <2> QED
      BY <1>7, <2>1, <2>2, <2>3 DEF SetEvent, WordOK, IInv
  <1>8. ASSUME NEW t \in Threads, ResetEvent(t) PROVE TypeOK'
    <2>1. obj(t) \in Events
      BY <1>8 DEF ResetEvent, IInv, CallOK, PlaceOK, obj
    <2>2. WordOK'
      BY <1>8, <2>1, OneWord DEF ResetEvent, WordOK, Objects, IInv
    <2>3. pc' \in [Threads -> PCs]
      BY <1>8 DEF ResetEvent, Goto, PCs, IInv
    <2> QED
      BY <1>8, <2>1, <2>2, <2>3 DEF ResetEvent, WordOK, IInv
  <1>9. ASSUME NEW t \in Threads, NotOwned(t) PROVE TypeOK'
    BY <1>9, <1>o DEF NotOwned, Return, Goto, IInv, CallOK, PlaceOK, PCs, Statuses, Objects, Events, Owners
  <1>10. ASSUME NEW t \in Threads, ReleaseMutex(t) PROVE TypeOK'
    <2>1. obj(t) \in Mutexes
      BY <1>10 DEF ReleaseMutex, IInv, CallOK, PlaceOK, obj
    <2>2. held[t][obj(t)] > 0 /\ count[obj(t)] > 0
      BY <1>10, <2>1 DEF ReleaseMutex, IInv, OwnerOK, OwnedOK, Entering, Leaving
    <2> QED
      BY <1>10, <2>1, <2>2 DEF ReleaseMutex, Goto, IInv, PCs
  <1>11. ASSUME NEW t \in Threads, UnlockMutex(t) PROVE TypeOK'
    <2>1. obj(t) \in Mutexes
      BY <1>11 DEF UnlockMutex, IInv, CallOK, PlaceOK, obj
    <2> QED
      BY <1>11, <1>o, <2>1 DEF UnlockMutex, Goto, IInv, PCs, Owners
  <1>12. ASSUME NEW t \in Threads, Wake(t) PROVE TypeOK'
    BY <1>12, <1>o DEF Wake, Signalled, IInv, CallOK, PlaceOK, PCs, Statuses, Objects, Events, Owners
  <1>13. ASSUME NEW t \in Threads, CheckApc(t) PROVE TypeOK'
    BY <1>13, <1>o DEF CheckApc, Goto, IInv, CallOK, PlaceOK, PCs, Statuses, Objects, Events, Owners
  <1>14. ASSUME NEW t \in Threads, TrySignaled(t) PROVE TypeOK'
    BY <1>14, <1>o DEF TrySignaled, Return, Goto, IInv, CallOK, PlaceOK, PCs, Statuses, Objects, Events, Owners
  <1>15. ASSUME NEW t \in Threads, SkipUnsignaled(t) PROVE TypeOK'
    BY <1>15, NextObjectType DEF SkipUnsignaled, IInv
  <1>16. ASSUME NEW t \in Threads, TryOwnMutex(t) PROVE TypeOK'
    BY <1>16, <1>o DEF TryOwnMutex, Return, Goto, Acquired, IInv, CallOK, PlaceOK, PCs, Statuses, Objects, Events, Owners
  <1>17. ASSUME NEW t \in Threads, TryFreeMutex(t) PROVE TypeOK'
    <2>1. obj(t) \in Mutexes
      BY <1>17 DEF TryFreeMutex
    <2>2. WordOK'
      BY <1>17, <2>1, OneWord DEF TryFreeMutex, WordOK, Objects, Owners, IInv
    <2>3. pc' \in [Threads -> PCs]
      BY <1>17 DEF TryFreeMutex, Goto, PCs, IInv
    <2> QED
      BY <1>17, <2>1, <2>2, <2>3 DEF TryFreeMutex, WordOK, IInv
  <1>20. ASSUME NEW t \in Threads, OwnMutex(t) PROVE TypeOK'
    BY <1>20, <1>o DEF OwnMutex, Return, Goto, Acquired, IInv, NothingAbandoned, CallOK, PlaceOK, obj, PCs, Statuses
  <1>21. ASSUME NEW t \in Threads, SkipMutex(t) PROVE TypeOK'
    BY <1>21, <1>o, NextObjectType DEF SkipMutex, IInv, NothingAbandoned, Owners
  <1>22. ASSUME NEW t \in Threads, FutexWait(t) PROVE TypeOK'
    BY <1>22, <1>o DEF FutexWait, Goto, IInv, CallOK, PlaceOK, PCs, Statuses, Objects, Events, Owners
  <1>23. ASSUME NEW t \in Threads, UserApc(t) PROVE TypeOK'
    BY <1>23, <1>o DEF UserApc, Return, Goto, IInv, CallOK, PlaceOK, PCs, Statuses, Objects, Events, Owners
  <1>24. ASSUME NEW t \in Threads, Leave(t) PROVE TypeOK'
    BY <1>24, NoCallRecord DEF Leave, Goto, IInv, PCs, Statuses, Owners
  <1>25. ASSUME NEW t \in Threads, TimedOut(t) PROVE TypeOK'
    BY <1>25, <1>o DEF TimedOut, Return, Goto, IInv, CallOK, PlaceOK, PCs, Statuses, Objects, Events, Owners
  <1>26. ASSUME NEW t \in Threads, Interrupted(t) PROVE TypeOK'
    BY <1>26, <1>o DEF Interrupted, Goto, IInv, CallOK, PlaceOK, PCs, Statuses, Objects, Events, Owners
  <1>27. CASE QueueApc
    BY <1>27 DEF QueueApc, IInv, PCs
  <1>28. CASE WakeApc
    BY <1>28 DEF WakeApc, IInv, PCs
  <1>29. CASE UNCHANGED vars
    BY <1>29 DEF vars, IInv
  <1> QED
    BY <1>1, <1>2, <1>3, <1>4, <1>5, <1>6, <1>7, <1>8, <1>9, <1>10, <1>11, <1>12, <1>13, <1>14, <1>15, <1>16, <1>17, <1>20, <1>21, <1>22, <1>23, <1>24, <1>25, <1>26, <1>27, <1>28, <1>29
       DEF Next, Calls, Step, Signal, WaitAny

\* Everything a thread does but wake others.
Alone(t) ==
    \/ Calls(t)
    \/ ReleaseSemaphore(t) \/ SetEvent(t) \/ ResetEvent(t)
    \/ NotOwned(t) \/ ReleaseMutex(t) \/ UnlockMutex(t)
    \/ WaitAny(t) \/ Leave(t) \/ TimedOut(t) \/ Interrupted(t)

\* It leaves the other threads where they are.
LEMMA OthersStay ==
    ASSUME TypeOK, NEW t \in Threads, Alone(t), NEW u \in Threads, u # t
    PROVE  /\ pc'[u] = pc[u] /\ call'[u] = call[u] /\ i'[u] = i[u]
           /\ expect'[u] = expect[u] /\ held'[u] = held[u] /\ apc'[u] = apc[u]
  <1> USE DEF shared, Goto, Return, Enter
  <1>1. CASE Calls(t)
    BY <1>1 DEF Calls, CallReleaseSemaphore, CallReleaseMutex, CallSetEvent, CallResetEvent, CallWaitAny, TypeOK
  <1>2. CASE ReleaseSemaphore(t) \/ SetEvent(t) \/ ResetEvent(t)
          \/ NotOwned(t) \/ ReleaseMutex(t) \/ UnlockMutex(t)
    BY <1>2 DEF ReleaseSemaphore, SetEvent, ResetEvent, NotOwned, ReleaseMutex, UnlockMutex, TypeOK
  <1>3. CASE CheckApc(t) \/ FutexWait(t) \/ UserApc(t) \/ Leave(t) \/ TimedOut(t) \/ Interrupted(t)
    BY <1>3 DEF CheckApc, FutexWait, UserApc, Leave, TimedOut, Interrupted, TypeOK
  <1>4. CASE TrySignaled(t) \/ SkipUnsignaled(t) \/ SkipMutex(t)
    BY <1>4 DEF TrySignaled, SkipUnsignaled, SkipMutex, NextObject, TypeOK
  <1>5. CASE TryOwnMutex(t) \/ TryFreeMutex(t) \/ OwnMutex(t)
    BY <1>5 DEF TryOwnMutex, TryFreeMutex, OwnMutex, Acquired, TypeOK
  <1> QED
    BY <1>1, <1>2, <1>3, <1>4, <1>5 DEF Alone, WaitAny

\* So only its own place has to be looked at.
LEMMA OnlyItsPlace ==
    ASSUME TypeOK, CallOK, NEW t \in Threads, Alone(t), PlaceOK(pc'[t], call'[t], i'[t])
    PROVE  CallOK'
  <1>1. SUFFICES ASSUME NEW u \in Threads PROVE PlaceOK(pc'[u], call'[u], i'[u])
    BY DEF CallOK, PlaceOK
  <1>2. CASE u = t
    BY <1>2
  <1>3. CASE u # t
    <2>1. PlaceOK(pc[u], call[u], i[u])
      BY DEF CallOK
    <2> QED
      BY <1>3, <2>1, OthersStay
  <1> QED
    BY <1>2, <1>3

\* Where a new call starts.
LEMMA EnterEffect ==
    ASSUME TypeOK, CallOK, NEW t \in Threads, NEW l, NEW c, Enter(t, l, c)
    PROVE  pc[t] = "idle" /\ pc'[t] = l /\ call'[t] = c /\ i'[t] = 1
  BY DEF Enter, Goto, TypeOK, CallOK, PlaceOK

\* Every step keeps a thread's place in line with the call it is in.
LEMMA StepCallOK == IInv /\ TypeOK' /\ [Next]_vars => CallOK'
  <1> SUFFICES ASSUME IInv, TypeOK', [Next]_vars PROVE CallOK'
    OBVIOUS
  <1>i. TypeOK /\ CallOK /\ NothingAbandoned /\ OwnerOK /\ ExpectOK /\ SleepOK
    BY DEF IInv
  <1> USE <1>i,  ThreadsAssumption, ObjectsAssumption, WaitsAssumption
      DEF shared
  <1>1. ASSUME NEW t \in Threads, CallReleaseSemaphore(t) PROVE CallOK'
    <2>1. PlaceOK(pc'[t], call'[t], i'[t])
      <3>1. PICK s \in Semaphores : Enter(t, "release_semaphore", ToObject("semaphore", s))
        BY <1>1 DEF CallReleaseSemaphore
      <3>2. pc'[t] = "release_semaphore" /\ call'[t] = ToObject("semaphore", s) /\ i'[t] = 1
        BY <3>1, EnterEffect
      <3> QED
        BY <3>2 DEF ToObject, Call, PlaceOK, WaitPCs, SignalPCs
    <2>2. Alone(t)
      BY <1>1 DEF Alone, Calls
    <2> QED
      BY <2>1, <2>2, OnlyItsPlace
  <1>2. ASSUME NEW t \in Threads, CallReleaseMutex(t) PROVE CallOK'
    <2>1. PlaceOK(pc'[t], call'[t], i'[t])
      <3>1. PICK m \in Mutexes : Enter(t, "release_mutex", ToObject("mutex", m))
        BY <1>2 DEF CallReleaseMutex
      <3>2. pc'[t] = "release_mutex" /\ call'[t] = ToObject("mutex", m) /\ i'[t] = 1
        BY <3>1, EnterEffect
      <3> QED
        BY <3>2 DEF ToObject, Call, PlaceOK, WaitPCs, SignalPCs
    <2>2. Alone(t)
      BY <1>2 DEF Alone, Calls
    <2> QED
      BY <2>1, <2>2, OnlyItsPlace
  <1>3. ASSUME NEW t \in Threads, CallSetEvent(t) PROVE CallOK'
    <2>1. PlaceOK(pc'[t], call'[t], i'[t])
      <3>1. PICK e \in Events, op \in {"set", "pulse"} : Enter(t, "set", ToObject(op, e))
        BY <1>3 DEF CallSetEvent
      <3>2. pc'[t] = "set" /\ call'[t] = ToObject(op, e) /\ i'[t] = 1
        BY <3>1, EnterEffect
      <3> QED
        BY <3>2 DEF ToObject, Call, PlaceOK, WaitPCs, SignalPCs
    <2>2. Alone(t)
      BY <1>3 DEF Alone, Calls
    <2> QED
      BY <2>1, <2>2, OnlyItsPlace
  <1>4. ASSUME NEW t \in Threads, CallResetEvent(t) PROVE CallOK'
    <2>1. PlaceOK(pc'[t], call'[t], i'[t])
      <3>1. PICK e \in Events : Enter(t, "reset", ToObject("reset", e))
        BY <1>4 DEF CallResetEvent
      <3>2. pc'[t] = "reset" /\ call'[t] = ToObject("reset", e) /\ i'[t] = 1
        BY <3>1, EnterEffect
      <3> QED
        BY <3>2 DEF ToObject, Call, PlaceOK, WaitPCs, SignalPCs
    <2>2. Alone(t)
      BY <1>4 DEF Alone, Calls
    <2> QED
      BY <2>1, <2>2, OnlyItsPlace
  <1>5. ASSUME NEW t \in Threads, CallWaitAny(t) PROVE CallOK'
    <2>1. PlaceOK(pc'[t], call'[t], i'[t])
      BY <1>5 DEF CallWaitAny, Enter, Call, Goto, PlaceOK, NothingAbandoned, WaitPCs, SignalPCs, CallRecords, CallOK, obj, TypeOK
    <2>2. Alone(t)
      BY <1>5 DEF Alone, Calls
    <2> QED
      BY <2>1, <2>2, OnlyItsPlace
  <1>6. ASSUME NEW t \in Threads, ReleaseSemaphore(t) PROVE CallOK'
    <2>1. PlaceOK(pc'[t], call'[t], i'[t])
      <3>1. call'[t] = call[t] /\ i'[t] = i[t] /\ pc'[t] \in {"wake", "done"}
        BY <1>6 DEF ReleaseSemaphore, Return, Goto, TypeOK
      <3> QED
        BY <1>6, <3>1 DEF ReleaseSemaphore, CallOK, PlaceOK, WaitPCs, SignalPCs
    <2>2. Alone(t)
      BY <1>6 DEF Alone
    <2> QED
      BY <2>1, <2>2, OnlyItsPlace
  <1>7. ASSUME NEW t \in Threads, SetEvent(t) PROVE CallOK'
    <2>1. PlaceOK(pc'[t], call'[t], i'[t])
      <3>1. call'[t] = call[t] /\ i'[t] = i[t] /\ pc'[t] \in {"wake", Signalled(t)}
        BY <1>7 DEF SetEvent, Goto, TypeOK
      <3> QED
        BY <1>7, <3>1 DEF SetEvent, Signalled, CallOK, PlaceOK, WaitPCs, SignalPCs
    <2>2. Alone(t)
      BY <1>7 DEF Alone
    <2> QED
      BY <2>1, <2>2, OnlyItsPlace
  <1>8. ASSUME NEW t \in Threads, ResetEvent(t) PROVE CallOK'
    <2>1. PlaceOK(pc'[t], call'[t], i'[t])
      BY <1>8 DEF ResetEvent, Goto, PlaceOK, NothingAbandoned, WaitPCs, SignalPCs, CallRecords, CallOK, obj, TypeOK
    <2>2. Alone(t)
      BY <1>8 DEF Alone
    <2> QED
      BY <2>1, <2>2, OnlyItsPlace
  <1>9. ASSUME NEW t \in Threads, NotOwned(t) PROVE CallOK'
    <2>1. PlaceOK(pc'[t], call'[t], i'[t])
      BY <1>9 DEF NotOwned, Return, Goto, PlaceOK, NothingAbandoned, WaitPCs, SignalPCs, CallRecords, CallOK, obj, TypeOK
    <2>2. Alone(t)
      BY <1>9 DEF Alone
    <2> QED
      BY <2>1, <2>2, OnlyItsPlace
  <1>10. ASSUME NEW t \in Threads, ReleaseMutex(t) PROVE CallOK'
    <2>1. PlaceOK(pc'[t], call'[t], i'[t])
      <3>1. call'[t] = call[t] /\ i'[t] = i[t] /\ pc'[t] \in {"unlock", "done"}
        BY <1>10 DEF ReleaseMutex, Goto, TypeOK
      <3> QED
        BY <1>10, <3>1 DEF ReleaseMutex, CallOK, PlaceOK, WaitPCs, SignalPCs
    <2>2. Alone(t)
      BY <1>10 DEF Alone
    <2> QED
      BY <2>1, <2>2, OnlyItsPlace
  <1>11. ASSUME NEW t \in Threads, UnlockMutex(t) PROVE CallOK'
    <2>1. PlaceOK(pc'[t], call'[t], i'[t])
      <3>1. call'[t] = call[t] /\ i'[t] = i[t] /\ pc'[t] \in {"wake"}
        BY <1>11 DEF UnlockMutex, Goto, TypeOK
      <3> QED
        BY <1>11, <3>1 DEF UnlockMutex, CallOK, PlaceOK, WaitPCs, SignalPCs
    <2>2. Alone(t)
      BY <1>11 DEF Alone
    <2> QED
      BY <2>1, <2>2, OnlyItsPlace
  <1>12. ASSUME NEW t \in Threads, Wake(t) PROVE CallOK'
    <2>1. \A u \in Threads : /\ call'[u] = call[u] /\ i'[u] = i[u]
                             /\ \/ pc'[u] = pc[u]
                                \/ u = t /\ pc'[u] = Signalled(t)
                                \/ pc[u] = "asleep" /\ pc'[u] = "awake"
      BY <1>12 DEF Wake, Sleepers, TypeOK
    <2> QED
      BY <1>12, <2>1 DEF Wake, Signalled, TypeOK, PlaceOK, WaitPCs, SignalPCs, CallOK, obj
  <1>13. ASSUME NEW t \in Threads, CheckApc(t) PROVE CallOK'
    <2>1. PlaceOK(pc'[t], call'[t], i'[t])
      <3>1. call'[t] = call[t] /\ i'[t] = 1 /\ pc'[t] \in {"user_apc", "try"}
        BY <1>13 DEF CheckApc, Goto, TypeOK
      <3>2. i[t] \in 1..Len(call[t].objs)
        BY <1>13 DEF CheckApc, CallOK, PlaceOK
      <3>3. 1 \in 1..Len(call[t].objs) /\ call[t].op = "any"
        BY <1>13, <3>2 DEF CheckApc
      <3> QED
        BY <3>1, <3>3 DEF PlaceOK, WaitPCs, SignalPCs
    <2>2. Alone(t)
      BY <1>13 DEF Alone, WaitAny
    <2> QED
      BY <2>1, <2>2, OnlyItsPlace
  <1>14. ASSUME NEW t \in Threads, TrySignaled(t) PROVE CallOK'
    <2>1. PlaceOK(pc'[t], call'[t], i'[t])
      BY <1>14 DEF TrySignaled, Return, Goto, PlaceOK, NothingAbandoned, WaitPCs, SignalPCs, CallRecords, CallOK, obj, TypeOK
    <2>2. Alone(t)
      BY <1>14 DEF Alone, WaitAny
    <2> QED
      BY <2>1, <2>2, OnlyItsPlace
  <1>15. ASSUME NEW t \in Threads, SkipUnsignaled(t) PROVE CallOK'
    <2>1. PlaceOK(pc'[t], call'[t], i'[t])
      BY <1>15 DEF SkipUnsignaled, NextObject, Return, Goto, PlaceOK, NothingAbandoned, WaitPCs, SignalPCs, CallRecords, CallOK, obj, TypeOK
    <2>2. Alone(t)
      BY <1>15 DEF Alone, WaitAny
    <2> QED
      BY <2>1, <2>2, OnlyItsPlace
  <1>16. ASSUME NEW t \in Threads, TryOwnMutex(t) PROVE CallOK'
    <2>1. PlaceOK(pc'[t], call'[t], i'[t])
      BY <1>16 DEF TryOwnMutex, Return, Goto, PlaceOK, NothingAbandoned, WaitPCs, SignalPCs, CallRecords, CallOK, obj, TypeOK
    <2>2. Alone(t)
      BY <1>16 DEF Alone, WaitAny
    <2> QED
      BY <2>1, <2>2, OnlyItsPlace
  <1>17. ASSUME NEW t \in Threads, TryFreeMutex(t) PROVE CallOK'
    <2>1. PlaceOK(pc'[t], call'[t], i'[t])
      BY <1>17 DEF TryFreeMutex, Goto, PlaceOK, NothingAbandoned, WaitPCs, SignalPCs, CallRecords, CallOK, obj, TypeOK
    <2>2. Alone(t)
      BY <1>17 DEF Alone, WaitAny
    <2> QED
      BY <2>1, <2>2, OnlyItsPlace
  <1>20. ASSUME NEW t \in Threads, OwnMutex(t) PROVE CallOK'
    <2>1. PlaceOK(pc'[t], call'[t], i'[t])
      BY <1>20 DEF OwnMutex, Return, Goto, PlaceOK, NothingAbandoned, WaitPCs, SignalPCs, CallRecords, CallOK, obj, TypeOK
    <2>2. Alone(t)
      BY <1>20 DEF Alone, WaitAny
    <2> QED
      BY <2>1, <2>2, OnlyItsPlace
  <1>21. ASSUME NEW t \in Threads, SkipMutex(t) PROVE CallOK'
    <2>1. PlaceOK(pc'[t], call'[t], i'[t])
      BY <1>21 DEF SkipMutex, NextObject, Return, Goto, PlaceOK, NothingAbandoned, WaitPCs, SignalPCs, CallRecords, CallOK, obj, TypeOK
    <2>2. Alone(t)
      BY <1>21 DEF Alone, WaitAny
    <2> QED
      BY <2>1, <2>2, OnlyItsPlace
  <1>22. ASSUME NEW t \in Threads, FutexWait(t) PROVE CallOK'
    <2>1. PlaceOK(pc'[t], call'[t], i'[t])
      <3>1. call'[t] = call[t] /\ i'[t] = i[t] /\ pc'[t] \in {"asleep", "again"}
        BY <1>22 DEF FutexWait, Goto, TypeOK
      <3> QED
        BY <1>22, <3>1 DEF FutexWait, CallOK, PlaceOK, WaitPCs, SignalPCs
    <2>2. Alone(t)
      BY <1>22 DEF Alone, WaitAny
    <2> QED
      BY <2>1, <2>2, OnlyItsPlace
  <1>23. ASSUME NEW t \in Threads, UserApc(t) PROVE CallOK'
    <2>1. PlaceOK(pc'[t], call'[t], i'[t])
      BY <1>23 DEF UserApc, Return, Goto, PlaceOK, NothingAbandoned, WaitPCs, SignalPCs, CallRecords, CallOK, obj, TypeOK
    <2>2. Alone(t)
      BY <1>23 DEF Alone, WaitAny
    <2> QED
      BY <2>1, <2>2, OnlyItsPlace
  <1>24. ASSUME NEW t \in Threads, Leave(t) PROVE CallOK'
    <2>1. PlaceOK(pc'[t], call'[t], i'[t])
      BY <1>24 DEF Leave, Goto, NoCall, Call, PlaceOK, NothingAbandoned, WaitPCs, SignalPCs, CallRecords, CallOK, obj, TypeOK
    <2>2. Alone(t)
      BY <1>24 DEF Alone
    <2> QED
      BY <2>1, <2>2, OnlyItsPlace
  <1>25. ASSUME NEW t \in Threads, TimedOut(t) PROVE CallOK'
    <2>1. PlaceOK(pc'[t], call'[t], i'[t])
      BY <1>25 DEF TimedOut, Return, Goto, PlaceOK, NothingAbandoned, WaitPCs, SignalPCs, CallRecords, CallOK, obj, TypeOK
    <2>2. Alone(t)
      BY <1>25 DEF Alone
    <2> QED
      BY <2>1, <2>2, OnlyItsPlace
  <1>26. ASSUME NEW t \in Threads, Interrupted(t) PROVE CallOK'
    <2>1. PlaceOK(pc'[t], call'[t], i'[t])
      <3>1. call'[t] = call[t] /\ i'[t] = i[t] /\ pc'[t] \in {"again"}
        BY <1>26 DEF Interrupted, Goto, TypeOK
      <3> QED
        BY <1>26, <3>1 DEF Interrupted, CallOK, PlaceOK, WaitPCs, SignalPCs
    <2>2. Alone(t)
      BY <1>26 DEF Alone
    <2> QED
      BY <2>1, <2>2, OnlyItsPlace
  <1>27. CASE QueueApc
    BY <1>27 DEF QueueApc, CallOK
  <1>28. CASE WakeApc
    <2>1. \A u \in Threads : /\ call'[u] = call[u] /\ i'[u] = i[u]
                             /\ pc'[u] = pc[u] \/ (pc[u] = "asleep" /\ pc'[u] = "awake")
      BY <1>28 DEF WakeApc, TypeOK
    <2>2. SUFFICES ASSUME NEW u \in Threads PROVE PlaceOK(pc'[u], call'[u], i'[u])
      BY DEF CallOK, PlaceOK
    <2>3. PlaceOK(pc[u], call[u], i[u])
      BY DEF CallOK
    <2>4. CASE pc'[u] = pc[u]
      BY <2>1, <2>3, <2>4
    <2>5. CASE pc[u] = "asleep" /\ pc'[u] = "awake"
      <3>1. PlaceOK("asleep", call[u], i[u])
        BY <2>3, <2>5
      <3>2. PlaceOK("awake", call[u], i[u])
        BY <3>1 DEF PlaceOK, WaitPCs, SignalPCs
      <3>3. pc'[u] = "awake" /\ call'[u] = call[u] /\ i'[u] = i[u]
        BY <2>1, <2>5
      <3> QED
        BY <3>2, <3>3 DEF PlaceOK
    <2> QED
      BY <2>1, <2>4, <2>5
  <1>29. CASE UNCHANGED vars
    BY <1>29 DEF vars, CallOK
  <1> QED
    BY <1>1, <1>2, <1>3, <1>4, <1>5, <1>6, <1>7, <1>8, <1>9, <1>10, <1>11, <1>12, <1>13, <1>14, <1>15, <1>16, <1>17, <1>20, <1>21, <1>22, <1>23, <1>24, <1>25, <1>26, <1>27, <1>28, <1>29
       DEF Next, Calls, Step, Signal, WaitAny

InMutex == {"own", "own_abandoned", "unlock"}

MutexOK == NothingAbandoned /\ OwnerOK

\* A step that touches no mutex and is not in the code of one changes nothing
\* for anyone.
LEMMA MutexUntouched ==
    ASSUME TypeOK, MutexOK, count' = count, held' = held,
           \A m \in Mutexes : word'[m] = word[m],
           \A u \in Threads : \/ pc'[u] = pc[u] /\ call'[u] = call[u] /\ i'[u] = i[u]
                             \/ /\ pc[u] \notin InMutex
                                /\ pc'[u] \notin InMutex \union {"try_abandoned"}
    PROVE  MutexOK'
  <1>1. \A u \in Threads, m \in Mutexes : /\ Entering(u, m)' <=> Entering(u, m)
                                        /\ Leaving(u, m)' <=> Leaving(u, m)
    BY DEF Entering, Leaving, InMutex, obj
  <1>2. NothingAbandoned'
    BY DEF MutexOK, NothingAbandoned, InMutex
  <1>3. OwnerOK'
    <2>1. ASSUME NEW m \in Mutexes PROVE (word[m] = 0 => count[m] = 0)'
      BY DEF MutexOK, OwnerOK
    <2>2. ASSUME NEW m \in Mutexes, NEW u \in Threads PROVE OwnedOK(m, u)'
      <3>1. OwnedOK(m, u)
        BY DEF MutexOK, OwnerOK
      <3> QED
        BY <3>1 DEF OwnedOK, Entering, Leaving, obj, InMutex
    <2> QED
      BY <2>1, <2>2 DEF OwnerOK
  <1> QED
    BY <1>2, <1>3 DEF MutexOK

\* The same of a step of one thread, which leaves the places of the others.
LEMMA AloneUntouched ==
    ASSUME TypeOK, NothingAbandoned, OwnerOK, NEW t \in Threads, Alone(t),
           count' = count, held' = held, \A m \in Mutexes : word'[m] = word[m],
           pc[t] \notin InMutex, pc'[t] \notin InMutex \union {"try_abandoned"}
    PROVE  MutexOK'
  <1>1. MutexOK
    BY DEF MutexOK
  <1>2. ASSUME NEW u \in Threads
        PROVE  \/ pc'[u] = pc[u] /\ call'[u] = call[u] /\ i'[u] = i[u]
               \/ /\ pc[u] \notin InMutex
                  /\ pc'[u] \notin InMutex \union {"try_abandoned"}
    <2>1. CASE u # t
      BY <2>1, OthersStay
    <2> QED
      BY <2>1
  <1> QED
    BY <1>1, <1>2, MutexUntouched

\* Every step keeps every mutex exact.
LEMMA StepMutexOK == IInv /\ TypeOK' /\ [Next]_vars => MutexOK'
  <1> SUFFICES ASSUME IInv, TypeOK', [Next]_vars PROVE MutexOK'
    OBVIOUS
  <1>i. TypeOK /\ CallOK /\ NothingAbandoned /\ OwnerOK /\ ExpectOK /\ SleepOK
    BY DEF IInv
  <1> USE <1>i,  ThreadsAssumption, ObjectsAssumption, WaitsAssumption
      DEF shared
  <1>1. ASSUME NEW t \in Threads, CallReleaseSemaphore(t) PROVE MutexOK'
    <2>1. count' = count /\ held' = held /\ \A m \in Mutexes : word'[m] = word[m]
      BY <1>1 DEF CallReleaseSemaphore, Enter
    <2>2. pc[t] \notin InMutex /\ pc'[t] \notin InMutex \union {"try_abandoned"}
      BY <1>1 DEF CallReleaseSemaphore, Enter, Goto, InMutex, TypeOK
    <2>3. Alone(t)
      BY <1>1 DEF Alone, Calls
    <2> QED
      BY <2>1, <2>2, <2>3, AloneUntouched
  <1>2. ASSUME NEW t \in Threads, CallReleaseMutex(t) PROVE MutexOK'
    <2>1. count' = count /\ held' = held /\ \A m \in Mutexes : word'[m] = word[m]
      BY <1>2 DEF CallReleaseMutex, Enter
    <2>2. pc[t] \notin InMutex /\ pc'[t] \notin InMutex \union {"try_abandoned"}
      BY <1>2 DEF CallReleaseMutex, Enter, Goto, InMutex, TypeOK
    <2>3. Alone(t)
      BY <1>2 DEF Alone, Calls
    <2> QED
      BY <2>1, <2>2, <2>3, AloneUntouched
  <1>3. ASSUME NEW t \in Threads, CallSetEvent(t) PROVE MutexOK'
    <2>1. count' = count /\ held' = held /\ \A m \in Mutexes : word'[m] = word[m]
      BY <1>3 DEF CallSetEvent, Enter
    <2>2. pc[t] \notin InMutex /\ pc'[t] \notin InMutex \union {"try_abandoned"}
      BY <1>3 DEF CallSetEvent, Enter, Goto, InMutex, TypeOK
    <2>3. Alone(t)
      BY <1>3 DEF Alone, Calls
    <2> QED
      BY <2>1, <2>2, <2>3, AloneUntouched
  <1>4. ASSUME NEW t \in Threads, CallResetEvent(t) PROVE MutexOK'
    <2>1. count' = count /\ held' = held /\ \A m \in Mutexes : word'[m] = word[m]
      BY <1>4 DEF CallResetEvent, Enter
    <2>2. pc[t] \notin InMutex /\ pc'[t] \notin InMutex \union {"try_abandoned"}
      BY <1>4 DEF CallResetEvent, Enter, Goto, InMutex, TypeOK
    <2>3. Alone(t)
      BY <1>4 DEF Alone, Calls
    <2> QED
      BY <2>1, <2>2, <2>3, AloneUntouched
  <1>5. ASSUME NEW t \in Threads, CallWaitAny(t) PROVE MutexOK'
    <2>1. count' = count /\ held' = held /\ \A m \in Mutexes : word'[m] = word[m]
      BY <1>5 DEF CallWaitAny, Enter
    <2>2. pc[t] \notin InMutex /\ pc'[t] \notin InMutex \union {"try_abandoned"}
      BY <1>5 DEF CallWaitAny, Enter, Goto, InMutex, TypeOK
    <2>3. Alone(t)
      BY <1>5 DEF Alone, Calls
    <2> QED
      BY <2>1, <2>2, <2>3, AloneUntouched
  <1>6. ASSUME NEW t \in Threads, ReleaseSemaphore(t) PROVE MutexOK'
    <2>1. count' = count /\ held' = held /\ \A m \in Mutexes : word'[m] = word[m]
      BY <1>6 DEF ReleaseSemaphore, TypeOK, CallOK, PlaceOK, obj, Objects, Events
    <2>2. pc[t] \notin InMutex /\ pc'[t] \notin InMutex \union {"try_abandoned"}
      BY <1>6 DEF ReleaseSemaphore, Return, Goto, InMutex, TypeOK
    <2>3. Alone(t)
      BY <1>6 DEF Alone
    <2> QED
      BY <2>1, <2>2, <2>3, AloneUntouched
  <1>7. ASSUME NEW t \in Threads, SetEvent(t) PROVE MutexOK'
    <2>1. count' = count /\ held' = held /\ \A m \in Mutexes : word'[m] = word[m]
      <3>1. obj(t) \in Events
        BY <1>7 DEF SetEvent, CallOK, PlaceOK, obj
      <3> QED
        BY <1>7, <3>1 DEF SetEvent, TypeOK, Objects
    <2>2. pc[t] \notin InMutex /\ pc'[t] \notin InMutex \union {"try_abandoned"}
      BY <1>7 DEF SetEvent, Goto, Signalled, InMutex, TypeOK
    <2>3. Alone(t)
      BY <1>7 DEF Alone
    <2> QED
      BY <2>1, <2>2, <2>3, AloneUntouched
  <1>8. ASSUME NEW t \in Threads, ResetEvent(t) PROVE MutexOK'
    <2>1. count' = count /\ held' = held /\ \A m \in Mutexes : word'[m] = word[m]
      BY <1>8 DEF ResetEvent, TypeOK, CallOK, PlaceOK, obj, Objects, Events
    <2>2. pc[t] \notin InMutex /\ pc'[t] \notin InMutex \union {"try_abandoned"}
      BY <1>8 DEF ResetEvent, Goto, InMutex, TypeOK
    <2>3. Alone(t)
      BY <1>8 DEF Alone
    <2> QED
      BY <2>1, <2>2, <2>3, AloneUntouched
  <1>9. ASSUME NEW t \in Threads, NotOwned(t) PROVE MutexOK'
    <2>1. count' = count /\ held' = held /\ \A m \in Mutexes : word'[m] = word[m]
      BY <1>9 DEF NotOwned
    <2>2. pc[t] \notin InMutex /\ pc'[t] \notin InMutex \union {"try_abandoned"}
      BY <1>9 DEF NotOwned, Return, Goto, InMutex, TypeOK
    <2>3. Alone(t)
      BY <1>9 DEF Alone
    <2> QED
      BY <2>1, <2>2, <2>3, AloneUntouched
  <1>10. ASSUME NEW t \in Threads, ReleaseMutex(t) PROVE MutexOK'
    <2> DEFINE m == obj(t)
    <2>1. m \in Mutexes
      BY <1>10 DEF ReleaseMutex, CallOK, PlaceOK, NothingAbandoned, obj
    <2>2. word[m] = t /\ pc[t] = "release_mutex" /\ held[t][m] > 0 /\ count[m] = held[t][m]
      BY <1>10, <2>1 DEF ReleaseMutex, OwnerOK, OwnedOK, Entering, Leaving, NothingAbandoned, TypeOK
    <2>3. /\ word' = word
          /\ count' = [count EXCEPT ![m] = @ - 1]
          /\ held' = [held EXCEPT ![t][m] = @ - 1]
      BY <1>10 DEF ReleaseMutex, Goto, NothingAbandoned
    <2>4. /\ obj(t)' = m /\ pc'[t] = IF count[m] = 1 THEN "unlock" ELSE "done"
          /\ \A u \in Threads \ {t} : pc'[u] = pc[u] /\ obj(u)' = obj(u)
      BY <1>10, <2>2 DEF ReleaseMutex, Return, Goto, NothingAbandoned, obj, TypeOK
    <2>5. OwnerOK'
      <3>1. ASSUME NEW n \in Mutexes PROVE (word[n] = 0 => count[n] = 0)'
        BY <2>1, <2>2, <2>3 DEF OwnerOK, TypeOK, Objects
      <3>2. ASSUME NEW n \in Mutexes, NEW u \in Threads PROVE OwnedOK(n, u)'
        <4>1. OwnedOK(n, u) /\ OwnedOK(n, t)
          BY DEF OwnerOK
        <4>2. CASE n # m
          BY <4>1, <4>2, <2>1, <2>2, <2>3, <2>4 DEF OwnedOK, Entering, Leaving, TypeOK
        <4>3. CASE n = m /\ u # t
          BY <4>1, <4>3, <2>1, <2>2, <2>3, <2>4 DEF OwnedOK, Entering, Leaving, TypeOK, Objects
        <4>4. CASE n = m /\ u = t
          BY <4>1, <4>4, <2>1, <2>2, <2>3, <2>4 DEF OwnedOK, Entering, Leaving, TypeOK, Objects
        <4> QED
          BY <4>2, <4>3, <4>4
      <3> QED
        BY <3>1, <3>2 DEF OwnerOK
    <2>6. NothingAbandoned'
      BY <2>1, <2>2, <2>3, <2>4 DEF NothingAbandoned, Abandoned, TypeOK, Objects
    <2> QED
      BY <2>5, <2>6 DEF MutexOK
  <1>11. ASSUME NEW t \in Threads, UnlockMutex(t) PROVE MutexOK'
    <2> DEFINE m == obj(t)
    <2>1. m \in Mutexes
      BY <1>11 DEF UnlockMutex, CallOK, PlaceOK, NothingAbandoned, obj
    <2>2. word[m] = t /\ pc[t] = "unlock" /\ held[t][m] = 0 /\ count[m] = 0
      BY <1>11, <2>1 DEF UnlockMutex, OwnerOK, OwnedOK, Entering, Leaving, NothingAbandoned, TypeOK
    <2>3. /\ word' = [word EXCEPT ![m] = 0]
          /\ count' = count
          /\ held' = held
      BY <1>11 DEF UnlockMutex, Goto, NothingAbandoned
    <2>4. /\ obj(t)' = m /\ pc'[t] = "wake"
          /\ \A u \in Threads \ {t} : pc'[u] = pc[u] /\ obj(u)' = obj(u)
      BY <1>11, <2>2 DEF UnlockMutex, Return, Goto, NothingAbandoned, obj, TypeOK
    <2>5. OwnerOK'
      <3>1. ASSUME NEW n \in Mutexes PROVE (word[n] = 0 => count[n] = 0)'
        BY <2>1, <2>2, <2>3 DEF OwnerOK, TypeOK, Objects
      <3>2. ASSUME NEW n \in Mutexes, NEW u \in Threads PROVE OwnedOK(n, u)'
        <4>1. OwnedOK(n, u) /\ OwnedOK(n, t)
          BY DEF OwnerOK
        <4>2. CASE n # m
          BY <4>1, <4>2, <2>1, <2>2, <2>3, <2>4 DEF OwnedOK, Entering, Leaving, TypeOK
        <4>3. CASE n = m /\ u # t
          BY <4>1, <4>3, <2>1, <2>2, <2>3, <2>4 DEF OwnedOK, Entering, Leaving, TypeOK, Objects
        <4>4. CASE n = m /\ u = t
          BY <4>1, <4>4, <2>1, <2>2, <2>3, <2>4 DEF OwnedOK, Entering, Leaving, TypeOK, Objects
        <4> QED
          BY <4>2, <4>3, <4>4
      <3> QED
        BY <3>1, <3>2 DEF OwnerOK
    <2>6. NothingAbandoned'
      BY <2>1, <2>2, <2>3, <2>4 DEF NothingAbandoned, Abandoned, TypeOK, Objects
    <2> QED
      BY <2>5, <2>6 DEF MutexOK
  <1>12. ASSUME NEW t \in Threads, Wake(t) PROVE MutexOK'
    <2>1. word' = word /\ count' = count /\ held' = held
      BY <1>12 DEF Wake
    <2>2. \A u \in Threads : \/ pc'[u] = pc[u] /\ call'[u] = call[u] /\ i'[u] = i[u]
                             \/ /\ pc[u] \in {"wake", "asleep"}
                                /\ pc'[u] \in {"awake", "done", "pulse"}
      BY <1>12 DEF Wake, Sleepers, Signalled, TypeOK
    <2> QED
      BY <2>1, <2>2, MutexUntouched DEF MutexOK, InMutex
  <1>13. ASSUME NEW t \in Threads, CheckApc(t) PROVE MutexOK'
    <2>1. count' = count /\ held' = held /\ \A m \in Mutexes : word'[m] = word[m]
      BY <1>13 DEF CheckApc
    <2>2. pc[t] \notin InMutex /\ pc'[t] \notin InMutex \union {"try_abandoned"}
      BY <1>13 DEF CheckApc, Goto, InMutex, TypeOK
    <2>3. Alone(t)
      BY <1>13 DEF Alone, WaitAny
    <2> QED
      BY <2>1, <2>2, <2>3, AloneUntouched
  <1>14. ASSUME NEW t \in Threads, TrySignaled(t) PROVE MutexOK'
    <2>1. count' = count /\ held' = held /\ \A m \in Mutexes : word'[m] = word[m]
      BY <1>14 DEF TrySignaled, TypeOK, CallOK, PlaceOK, obj, Objects, Events
    <2>2. pc[t] \notin InMutex /\ pc'[t] \notin InMutex \union {"try_abandoned"}
      BY <1>14 DEF TrySignaled, Return, Goto, InMutex, TypeOK
    <2>3. Alone(t)
      BY <1>14 DEF Alone, WaitAny
    <2> QED
      BY <2>1, <2>2, <2>3, AloneUntouched
  <1>15. ASSUME NEW t \in Threads, SkipUnsignaled(t) PROVE MutexOK'
    <2>1. count' = count /\ held' = held /\ \A m \in Mutexes : word'[m] = word[m]
      BY <1>15 DEF SkipUnsignaled
    <2>2. pc[t] \notin InMutex /\ pc'[t] \notin InMutex \union {"try_abandoned"}
      BY <1>15 DEF SkipUnsignaled, NextObject, Return, Goto, InMutex, TypeOK
    <2>3. Alone(t)
      BY <1>15 DEF Alone, WaitAny
    <2> QED
      BY <2>1, <2>2, <2>3, AloneUntouched
  <1>16. ASSUME NEW t \in Threads, TryOwnMutex(t) PROVE MutexOK'
    <2> DEFINE m == obj(t)
    <2>1. m \in Mutexes
      BY <1>16 DEF TryOwnMutex, CallOK, PlaceOK, NothingAbandoned, obj
    <2>2. word[m] = t /\ pc[t] = "try" /\ held[t][m] > 0 /\ count[m] = held[t][m]
      BY <1>16, <2>1 DEF TryOwnMutex, OwnerOK, OwnedOK, Entering, Leaving, NothingAbandoned, TypeOK
    <2>3. /\ word' = word
          /\ count' = [count EXCEPT ![m] = @ + 1]
          /\ held' = [held EXCEPT ![t][m] = @ + 1]
      BY <1>16 DEF TryOwnMutex, Acquired, NothingAbandoned
    <2>4. /\ obj(t)' = m /\ pc'[t] = "done"
          /\ \A u \in Threads \ {t} : pc'[u] = pc[u] /\ obj(u)' = obj(u)
      BY <1>16, <2>2 DEF TryOwnMutex, Return, Goto, NothingAbandoned, obj, TypeOK
    <2>5. OwnerOK'
      <3>1. ASSUME NEW n \in Mutexes PROVE (word[n] = 0 => count[n] = 0)'
        BY <2>1, <2>2, <2>3 DEF OwnerOK, TypeOK, Objects
      <3>2. ASSUME NEW n \in Mutexes, NEW u \in Threads PROVE OwnedOK(n, u)'
        <4>1. OwnedOK(n, u) /\ OwnedOK(n, t)
          BY DEF OwnerOK
        <4>2. CASE n # m
          BY <4>1, <4>2, <2>1, <2>2, <2>3, <2>4 DEF OwnedOK, Entering, Leaving, TypeOK
        <4>3. CASE n = m /\ u # t
          BY <4>1, <4>3, <2>1, <2>2, <2>3, <2>4 DEF OwnedOK, Entering, Leaving, TypeOK, Objects
        <4>4. CASE n = m /\ u = t
          BY <4>1, <4>4, <2>1, <2>2, <2>3, <2>4 DEF OwnedOK, Entering, Leaving, TypeOK, Objects
        <4> QED
          BY <4>2, <4>3, <4>4
      <3> QED
        BY <3>1, <3>2 DEF OwnerOK
    <2>6. NothingAbandoned'
      BY <2>1, <2>2, <2>3, <2>4 DEF NothingAbandoned, Abandoned, TypeOK, Objects
    <2> QED
      BY <2>5, <2>6 DEF MutexOK
  <1>17. ASSUME NEW t \in Threads, TryFreeMutex(t) PROVE MutexOK'
    <2> DEFINE m == obj(t)
    <2>1. m \in Mutexes
      BY <1>17 DEF TryFreeMutex, CallOK, PlaceOK, NothingAbandoned, obj
    <2>2. word[m] = 0 /\ pc[t] = "try" /\ held[t][m] = 0 /\ count[m] = 0
      BY <1>17, <2>1 DEF TryFreeMutex, OwnerOK, OwnedOK, Entering, Leaving, NothingAbandoned, TypeOK
    <2>3. /\ word' = [word EXCEPT ![m] = t]
          /\ count' = count
          /\ held' = held
      BY <1>17 DEF TryFreeMutex, Goto, NothingAbandoned
    <2>4. /\ obj(t)' = m /\ pc'[t] = "own"
          /\ \A u \in Threads \ {t} : pc'[u] = pc[u] /\ obj(u)' = obj(u)
      BY <1>17, <2>2 DEF TryFreeMutex, Return, Goto, NothingAbandoned, obj, TypeOK
    <2>5. OwnerOK'
      <3>1. ASSUME NEW n \in Mutexes PROVE (word[n] = 0 => count[n] = 0)'
        BY <2>1, <2>2, <2>3 DEF OwnerOK, TypeOK, Objects
      <3>2. ASSUME NEW n \in Mutexes, NEW u \in Threads PROVE OwnedOK(n, u)'
        <4>1. OwnedOK(n, u) /\ OwnedOK(n, t)
          BY DEF OwnerOK
        <4>2. CASE n # m
          BY <4>1, <4>2, <2>1, <2>2, <2>3, <2>4 DEF OwnedOK, Entering, Leaving, TypeOK
        <4>3. CASE n = m /\ u # t
          BY <4>1, <4>3, <2>1, <2>2, <2>3, <2>4 DEF OwnedOK, Entering, Leaving, TypeOK, Objects
        <4>4. CASE n = m /\ u = t
          BY <4>1, <4>4, <2>1, <2>2, <2>3, <2>4 DEF OwnedOK, Entering, Leaving, TypeOK, Objects
        <4> QED
          BY <4>2, <4>3, <4>4
      <3> QED
        BY <3>1, <3>2 DEF OwnerOK
    <2>6. NothingAbandoned'
      BY <2>1, <2>2, <2>3, <2>4 DEF NothingAbandoned, Abandoned, TypeOK, Objects
    <2> QED
      BY <2>5, <2>6 DEF MutexOK
  <1>20. ASSUME NEW t \in Threads, OwnMutex(t) PROVE MutexOK'
    <2> DEFINE m == obj(t)
    <2>1. m \in Mutexes
      BY <1>20 DEF OwnMutex, CallOK, PlaceOK, NothingAbandoned, obj
    <2>2. word[m] = t /\ pc[t] = "own" /\ held[t][m] = 0 /\ count[m] = 0
      BY <1>20, <2>1 DEF OwnMutex, OwnerOK, OwnedOK, Entering, Leaving, NothingAbandoned, TypeOK
    <2>3. /\ word' = word
          /\ count' = [count EXCEPT ![m] = 1]
          /\ held' = [held EXCEPT ![t][m] = @ + 1]
      BY <1>20 DEF OwnMutex, Acquired, NothingAbandoned
    <2>4. /\ obj(t)' = m /\ pc'[t] = "done"
          /\ \A u \in Threads \ {t} : pc'[u] = pc[u] /\ obj(u)' = obj(u)
      BY <1>20, <2>2 DEF OwnMutex, Return, Goto, NothingAbandoned, obj, TypeOK
    <2>5. OwnerOK'
      <3>1. ASSUME NEW n \in Mutexes PROVE (word[n] = 0 => count[n] = 0)'
        BY <2>1, <2>2, <2>3 DEF OwnerOK, TypeOK, Objects
      <3>2. ASSUME NEW n \in Mutexes, NEW u \in Threads PROVE OwnedOK(n, u)'
        <4>1. OwnedOK(n, u) /\ OwnedOK(n, t)
          BY DEF OwnerOK
        <4>2. CASE n # m
          BY <4>1, <4>2, <2>1, <2>2, <2>3, <2>4 DEF OwnedOK, Entering, Leaving, TypeOK
        <4>3. CASE n = m /\ u # t
          BY <4>1, <4>3, <2>1, <2>2, <2>3, <2>4 DEF OwnedOK, Entering, Leaving, TypeOK, Objects
        <4>4. CASE n = m /\ u = t
          BY <4>1, <4>4, <2>1, <2>2, <2>3, <2>4 DEF OwnedOK, Entering, Leaving, TypeOK, Objects
        <4> QED
          BY <4>2, <4>3, <4>4
      <3> QED
        BY <3>1, <3>2 DEF OwnerOK
    <2>6. NothingAbandoned'
      BY <2>1, <2>2, <2>3, <2>4 DEF NothingAbandoned, Abandoned, TypeOK, Objects
    <2> QED
      BY <2>5, <2>6 DEF MutexOK
  <1>21. ASSUME NEW t \in Threads, SkipMutex(t) PROVE MutexOK'
    <2>1. count' = count /\ held' = held /\ \A m \in Mutexes : word'[m] = word[m]
      BY <1>21 DEF SkipMutex
    <2>2. pc[t] \notin InMutex /\ pc'[t] \notin InMutex \union {"try_abandoned"}
      BY <1>21 DEF SkipMutex, NextObject, Return, Goto, InMutex, TypeOK, NothingAbandoned
    <2>3. Alone(t)
      BY <1>21 DEF Alone, WaitAny
    <2> QED
      BY <2>1, <2>2, <2>3, AloneUntouched
  <1>22. ASSUME NEW t \in Threads, FutexWait(t) PROVE MutexOK'
    <2>1. count' = count /\ held' = held /\ \A m \in Mutexes : word'[m] = word[m]
      BY <1>22 DEF FutexWait
    <2>2. pc[t] \notin InMutex /\ pc'[t] \notin InMutex \union {"try_abandoned"}
      BY <1>22 DEF FutexWait, Goto, InMutex, TypeOK
    <2>3. Alone(t)
      BY <1>22 DEF Alone, WaitAny
    <2> QED
      BY <2>1, <2>2, <2>3, AloneUntouched
  <1>23. ASSUME NEW t \in Threads, UserApc(t) PROVE MutexOK'
    <2>1. count' = count /\ held' = held /\ \A m \in Mutexes : word'[m] = word[m]
      BY <1>23 DEF UserApc
    <2>2. pc[t] \notin InMutex /\ pc'[t] \notin InMutex \union {"try_abandoned"}
      BY <1>23 DEF UserApc, Return, Goto, InMutex, TypeOK
    <2>3. Alone(t)
      BY <1>23 DEF Alone, WaitAny
    <2> QED
      BY <2>1, <2>2, <2>3, AloneUntouched
  <1>24. ASSUME NEW t \in Threads, Leave(t) PROVE MutexOK'
    <2>1. count' = count /\ held' = held /\ \A m \in Mutexes : word'[m] = word[m]
      BY <1>24 DEF Leave
    <2>2. pc[t] \notin InMutex /\ pc'[t] \notin InMutex \union {"try_abandoned"}
      BY <1>24 DEF Leave, Goto, InMutex, TypeOK
    <2>3. Alone(t)
      BY <1>24 DEF Alone
    <2> QED
      BY <2>1, <2>2, <2>3, AloneUntouched
  <1>25. ASSUME NEW t \in Threads, TimedOut(t) PROVE MutexOK'
    <2>1. count' = count /\ held' = held /\ \A m \in Mutexes : word'[m] = word[m]
      BY <1>25 DEF TimedOut
    <2>2. pc[t] \notin InMutex /\ pc'[t] \notin InMutex \union {"try_abandoned"}
      BY <1>25 DEF TimedOut, Return, Goto, InMutex, TypeOK
    <2>3. Alone(t)
      BY <1>25 DEF Alone
    <2> QED
      BY <2>1, <2>2, <2>3, AloneUntouched
  <1>26. ASSUME NEW t \in Threads, Interrupted(t) PROVE MutexOK'
    <2>1. count' = count /\ held' = held /\ \A m \in Mutexes : word'[m] = word[m]
      BY <1>26 DEF Interrupted
    <2>2. pc[t] \notin InMutex /\ pc'[t] \notin InMutex \union {"try_abandoned"}
      BY <1>26 DEF Interrupted, Goto, InMutex, TypeOK
    <2>3. Alone(t)
      BY <1>26 DEF Alone
    <2> QED
      BY <2>1, <2>2, <2>3, AloneUntouched
  <1>27. CASE QueueApc
    BY <1>27 DEF QueueApc, MutexOK, NothingAbandoned, OwnerOK, OwnedOK, Entering, Leaving, obj
  <1>28. CASE WakeApc
    <2>1. word' = word /\ count' = count /\ held' = held
      BY <1>28 DEF WakeApc
    <2>2. \A u \in Threads : \/ pc'[u] = pc[u] /\ call'[u] = call[u] /\ i'[u] = i[u]
                             \/ pc[u] = "asleep" /\ pc'[u] = "awake"
      BY <1>28 DEF WakeApc, TypeOK
    <2> QED
      BY <2>1, <2>2, MutexUntouched DEF MutexOK, InMutex
  <1>29. CASE UNCHANGED vars
    BY <1>29 DEF vars, MutexOK, NothingAbandoned, OwnerOK, OwnedOK, Entering, Leaving, obj
  <1> QED
    BY <1>1, <1>2, <1>3, <1>4, <1>5, <1>6, <1>7, <1>8, <1>9, <1>10, <1>11, <1>12, <1>13, <1>14, <1>15, <1>16, <1>17, <1>20, <1>21, <1>22, <1>23, <1>24, <1>25, <1>26, <1>27, <1>28, <1>29
       DEF Next, Calls, Step, Signal, WaitAny

\* Of what the waits have read, only what this thread has read can change.
LEMMA OnlyWhatItRead ==
    ASSUME TypeOK, ExpectOK, NEW t \in Threads, Alone(t),
           ReadOK(pc'[t], call'[t], i'[t], expect'[t])
    PROVE  ExpectOK'
  <1>1. SUFFICES ASSUME NEW u \in Threads PROVE ReadOK(pc'[u], call'[u], i'[u], expect'[u])
    BY DEF ExpectOK, ReadOK, SeenOwned
  <1>2. CASE u = t
    BY <1>2
  <1>3. CASE u # t
    <2>1. ReadOK(pc[u], call[u], i[u], expect[u])
      BY DEF ExpectOK
    <2> QED
      BY <1>3, <2>1, OthersStay
  <1> QED
    BY <1>2, <1>3

\* The loop goes on, or sleeps, with one more object seen not to be free.
LEMMA OneMoreSeen ==
    ASSUME TypeOK, NEW t \in Threads, i[t] \in 1..Len(call[t].objs), NextObject(t),
           call'[t] = call[t], SeenOwned(call[t], i[t] - 1, expect'[t]),
           obj(t) \in Mutexes => expect'[t][obj(t)] # 0
    PROVE  ReadOK(pc'[t], call'[t], i'[t], expect'[t])
  <1>1. SeenOwned(call[t], i[t], expect'[t])
    <2>1. \A k \in 1..i[t] : k \in 1..(i[t] - 1) \/ k = i[t]
      OBVIOUS
    <2> QED
      BY <2>1 DEF SeenOwned, obj
  <1>2. CASE i[t] = Len(call[t].objs)
    <2>1. pc'[t] \in {"done", "sleep"}
      BY <1>2 DEF NextObject, Goto, Return, TypeOK
    <2> QED
      BY <1>1, <1>2, <2>1 DEF ReadOK
  <1>3. CASE i[t] # Len(call[t].objs)
    <2>1. pc'[t] = "try" /\ i'[t] = i[t] + 1
      BY <1>3 DEF NextObject, Goto, TypeOK
    <2>2. i'[t] - 1 = i[t]
      BY <2>1 DEF TypeOK
    <2> QED
      BY <1>1, <2>1, <2>2 DEF ReadOK
  <1> QED
    BY <1>2, <1>3

\* Every step keeps what the waits have read.
LEMMA StepExpectOK == IInv /\ TypeOK' /\ [Next]_vars => ExpectOK'
  <1> SUFFICES ASSUME IInv, TypeOK', [Next]_vars PROVE ExpectOK'
    OBVIOUS
  <1>i. TypeOK /\ CallOK /\ NothingAbandoned /\ OwnerOK /\ ExpectOK /\ SleepOK
    BY DEF IInv
  <1> USE <1>i,  ThreadsAssumption, ObjectsAssumption, WaitsAssumption
      DEF shared
  <1>1. ASSUME NEW t \in Threads, CallReleaseSemaphore(t) PROVE ExpectOK'
    <2>1. pc'[t] \notin {"try", "sleep", "asleep"}
      BY <1>1 DEF CallReleaseSemaphore, Enter, Goto, TypeOK
    <2>2. ReadOK(pc'[t], call'[t], i'[t], expect'[t])
      BY <2>1 DEF ReadOK
    <2>3. Alone(t)
      BY <1>1 DEF Alone, Calls
    <2> QED
      BY <2>2, <2>3, OnlyWhatItRead
  <1>2. ASSUME NEW t \in Threads, CallReleaseMutex(t) PROVE ExpectOK'
    <2>1. pc'[t] \notin {"try", "sleep", "asleep"}
      BY <1>2 DEF CallReleaseMutex, Enter, Goto, TypeOK
    <2>2. ReadOK(pc'[t], call'[t], i'[t], expect'[t])
      BY <2>1 DEF ReadOK
    <2>3. Alone(t)
      BY <1>2 DEF Alone, Calls
    <2> QED
      BY <2>2, <2>3, OnlyWhatItRead
  <1>3. ASSUME NEW t \in Threads, CallSetEvent(t) PROVE ExpectOK'
    <2>1. pc'[t] \notin {"try", "sleep", "asleep"}
      BY <1>3 DEF CallSetEvent, Enter, Goto, TypeOK
    <2>2. ReadOK(pc'[t], call'[t], i'[t], expect'[t])
      BY <2>1 DEF ReadOK
    <2>3. Alone(t)
      BY <1>3 DEF Alone, Calls
    <2> QED
      BY <2>2, <2>3, OnlyWhatItRead
  <1>4. ASSUME NEW t \in Threads, CallResetEvent(t) PROVE ExpectOK'
    <2>1. pc'[t] \notin {"try", "sleep", "asleep"}
      BY <1>4 DEF CallResetEvent, Enter, Goto, TypeOK
    <2>2. ReadOK(pc'[t], call'[t], i'[t], expect'[t])
      BY <2>1 DEF ReadOK
    <2>3. Alone(t)
      BY <1>4 DEF Alone, Calls
    <2> QED
      BY <2>2, <2>3, OnlyWhatItRead
  <1>5. ASSUME NEW t \in Threads, CallWaitAny(t) PROVE ExpectOK'
    <2>1. pc'[t] \notin {"try", "sleep", "asleep"}
      BY <1>5 DEF CallWaitAny, Enter, Goto, TypeOK
    <2>2. ReadOK(pc'[t], call'[t], i'[t], expect'[t])
      BY <2>1 DEF ReadOK
    <2>3. Alone(t)
      BY <1>5 DEF Alone, Calls
    <2> QED
      BY <2>2, <2>3, OnlyWhatItRead
  <1>6. ASSUME NEW t \in Threads, ReleaseSemaphore(t) PROVE ExpectOK'
    <2>1. pc'[t] \notin {"try", "sleep", "asleep"}
      BY <1>6 DEF ReleaseSemaphore, Return, Goto, TypeOK
    <2>2. ReadOK(pc'[t], call'[t], i'[t], expect'[t])
      BY <2>1 DEF ReadOK
    <2>3. Alone(t)
      BY <1>6 DEF Alone
    <2> QED
      BY <2>2, <2>3, OnlyWhatItRead
  <1>7. ASSUME NEW t \in Threads, SetEvent(t) PROVE ExpectOK'
    <2>1. pc'[t] \notin {"try", "sleep", "asleep"}
      BY <1>7 DEF SetEvent, Goto, Signalled, TypeOK
    <2>2. ReadOK(pc'[t], call'[t], i'[t], expect'[t])
      BY <2>1 DEF ReadOK
    <2>3. Alone(t)
      BY <1>7 DEF Alone
    <2> QED
      BY <2>2, <2>3, OnlyWhatItRead
  <1>8. ASSUME NEW t \in Threads, ResetEvent(t) PROVE ExpectOK'
    <2>1. pc'[t] \notin {"try", "sleep", "asleep"}
      BY <1>8 DEF ResetEvent, Goto, TypeOK
    <2>2. ReadOK(pc'[t], call'[t], i'[t], expect'[t])
      BY <2>1 DEF ReadOK
    <2>3. Alone(t)
      BY <1>8 DEF Alone
    <2> QED
      BY <2>2, <2>3, OnlyWhatItRead
  <1>9. ASSUME NEW t \in Threads, NotOwned(t) PROVE ExpectOK'
    <2>1. pc'[t] \notin {"try", "sleep", "asleep"}
      BY <1>9 DEF NotOwned, Return, Goto, TypeOK
    <2>2. ReadOK(pc'[t], call'[t], i'[t], expect'[t])
      BY <2>1 DEF ReadOK
    <2>3. Alone(t)
      BY <1>9 DEF Alone
    <2> QED
      BY <2>2, <2>3, OnlyWhatItRead
  <1>10. ASSUME NEW t \in Threads, ReleaseMutex(t) PROVE ExpectOK'
    <2>1. pc'[t] \notin {"try", "sleep", "asleep"}
      BY <1>10 DEF ReleaseMutex, Goto, TypeOK
    <2>2. ReadOK(pc'[t], call'[t], i'[t], expect'[t])
      BY <2>1 DEF ReadOK
    <2>3. Alone(t)
      BY <1>10 DEF Alone
    <2> QED
      BY <2>2, <2>3, OnlyWhatItRead
  <1>11. ASSUME NEW t \in Threads, UnlockMutex(t) PROVE ExpectOK'
    <2>1. pc'[t] \notin {"try", "sleep", "asleep"}
      BY <1>11 DEF UnlockMutex, Goto, TypeOK
    <2>2. ReadOK(pc'[t], call'[t], i'[t], expect'[t])
      BY <2>1 DEF ReadOK
    <2>3. Alone(t)
      BY <1>11 DEF Alone
    <2> QED
      BY <2>2, <2>3, OnlyWhatItRead
  <1>12. ASSUME NEW t \in Threads, Wake(t) PROVE ExpectOK'
    <2>1. \A u \in Threads : /\ call'[u] = call[u] /\ i'[u] = i[u] /\ expect'[u] = expect[u]
                             /\ pc'[u] \in {pc[u], "awake", "done", "pulse"}
      BY <1>12 DEF Wake, Signalled, TypeOK
    <2>2. SUFFICES ASSUME NEW u \in Threads PROVE ReadOK(pc'[u], call'[u], i'[u], expect'[u])
      BY DEF ExpectOK, ReadOK, SeenOwned
    <2>3. ReadOK(pc[u], call[u], i[u], expect[u])
      BY DEF ExpectOK
    <2>4. CASE pc'[u] = pc[u]
      BY <2>1, <2>3, <2>4
    <2>5. CASE pc'[u] \in {"awake", "done", "pulse"}
      BY <2>5 DEF ReadOK
    <2> QED
      BY <2>1, <2>4, <2>5
  <1>13. ASSUME NEW t \in Threads, CheckApc(t) PROVE ExpectOK'
    <2>1. pc'[t] \in {"try", "user_apc"} /\ i'[t] = 1
      BY <1>13 DEF CheckApc, Goto, TypeOK
    <2>2. ReadOK(pc'[t], call'[t], i'[t], expect'[t])
      BY <2>1 DEF ReadOK, SeenOwned
    <2>3. Alone(t)
      BY <1>13 DEF Alone, WaitAny
    <2> QED
      BY <2>2, <2>3, OnlyWhatItRead
  <1>14. ASSUME NEW t \in Threads, TrySignaled(t) PROVE ExpectOK'
    <2>1. pc'[t] \notin {"try", "sleep", "asleep"}
      BY <1>14 DEF TrySignaled, Return, Goto, TypeOK
    <2>2. ReadOK(pc'[t], call'[t], i'[t], expect'[t])
      BY <2>1 DEF ReadOK
    <2>3. Alone(t)
      BY <1>14 DEF Alone, WaitAny
    <2> QED
      BY <2>2, <2>3, OnlyWhatItRead
  <1>15. ASSUME NEW t \in Threads, SkipUnsignaled(t) PROVE ExpectOK'
    <2>1. i[t] \in 1..Len(call[t].objs) /\ call'[t] = call[t] /\ NextObject(t)
      BY <1>15 DEF SkipUnsignaled, CallOK, PlaceOK, NothingAbandoned
    <2>2. SeenOwned(call[t], i[t] - 1, expect[t])
      BY <1>15 DEF SkipUnsignaled, ExpectOK, ReadOK, NothingAbandoned
    <2>3. /\ SeenOwned(call[t], i[t] - 1, expect'[t])
          /\ obj(t) \in Mutexes => expect'[t][obj(t)] # 0
      BY <1>15, <2>2 DEF SkipUnsignaled, SeenOwned, NothingAbandoned, TypeOK
    <2>4. Alone(t)
      BY <1>15 DEF Alone, WaitAny
    <2> QED
      BY <2>1, <2>3, <2>4, OneMoreSeen, OnlyWhatItRead
  <1>16. ASSUME NEW t \in Threads, TryOwnMutex(t) PROVE ExpectOK'
    <2>1. pc'[t] \notin {"try", "sleep", "asleep"}
      BY <1>16 DEF TryOwnMutex, Return, Goto, TypeOK
    <2>2. ReadOK(pc'[t], call'[t], i'[t], expect'[t])
      BY <2>1 DEF ReadOK
    <2>3. Alone(t)
      BY <1>16 DEF Alone, WaitAny
    <2> QED
      BY <2>2, <2>3, OnlyWhatItRead
  <1>17. ASSUME NEW t \in Threads, TryFreeMutex(t) PROVE ExpectOK'
    <2>1. pc'[t] \notin {"try", "sleep", "asleep"}
      BY <1>17 DEF TryFreeMutex, Goto, TypeOK
    <2>2. ReadOK(pc'[t], call'[t], i'[t], expect'[t])
      BY <2>1 DEF ReadOK
    <2>3. Alone(t)
      BY <1>17 DEF Alone, WaitAny
    <2> QED
      BY <2>2, <2>3, OnlyWhatItRead
  <1>20. ASSUME NEW t \in Threads, OwnMutex(t) PROVE ExpectOK'
    <2>1. pc'[t] \notin {"try", "sleep", "asleep"}
      BY <1>20 DEF OwnMutex, Return, Goto, TypeOK
    <2>2. ReadOK(pc'[t], call'[t], i'[t], expect'[t])
      BY <2>1 DEF ReadOK
    <2>3. Alone(t)
      BY <1>20 DEF Alone, WaitAny
    <2> QED
      BY <2>2, <2>3, OnlyWhatItRead
  <1>21. ASSUME NEW t \in Threads, SkipMutex(t) PROVE ExpectOK'
    <2>1. i[t] \in 1..Len(call[t].objs) /\ call'[t] = call[t] /\ NextObject(t)
      BY <1>21 DEF SkipMutex, CallOK, PlaceOK, NothingAbandoned
    <2>2. SeenOwned(call[t], i[t] - 1, expect[t])
      BY <1>21 DEF SkipMutex, ExpectOK, ReadOK, NothingAbandoned
    <2>3. /\ SeenOwned(call[t], i[t] - 1, expect'[t])
          /\ obj(t) \in Mutexes => expect'[t][obj(t)] # 0
      BY <1>21, <2>2 DEF SkipMutex, SeenOwned, NothingAbandoned, TypeOK
    <2>4. Alone(t)
      BY <1>21 DEF Alone, WaitAny
    <2> QED
      BY <2>1, <2>3, <2>4, OneMoreSeen, OnlyWhatItRead
  <1>22. ASSUME NEW t \in Threads, FutexWait(t) PROVE ExpectOK'
    <2>1. /\ pc[t] = "sleep" /\ pc'[t] \in {"asleep", "again"}
          /\ call'[t] = call[t] /\ i'[t] = i[t] /\ expect'[t] = expect[t]
      BY <1>22 DEF FutexWait, Goto, TypeOK
    <2>2. ReadOK(pc[t], call[t], i[t], expect[t])
      BY DEF ExpectOK
    <2>3. ReadOK(pc'[t], call'[t], i'[t], expect'[t])
      BY <2>1, <2>2 DEF ReadOK
    <2>4. Alone(t)
      BY <1>22 DEF Alone, WaitAny
    <2> QED
      BY <2>3, <2>4, OnlyWhatItRead
  <1>23. ASSUME NEW t \in Threads, UserApc(t) PROVE ExpectOK'
    <2>1. pc'[t] \notin {"try", "sleep", "asleep"}
      BY <1>23 DEF UserApc, Return, Goto, TypeOK
    <2>2. ReadOK(pc'[t], call'[t], i'[t], expect'[t])
      BY <2>1 DEF ReadOK
    <2>3. Alone(t)
      BY <1>23 DEF Alone, WaitAny
    <2> QED
      BY <2>2, <2>3, OnlyWhatItRead
  <1>24. ASSUME NEW t \in Threads, Leave(t) PROVE ExpectOK'
    <2>1. pc'[t] \notin {"try", "sleep", "asleep"}
      BY <1>24 DEF Leave, Goto, TypeOK
    <2>2. ReadOK(pc'[t], call'[t], i'[t], expect'[t])
      BY <2>1 DEF ReadOK
    <2>3. Alone(t)
      BY <1>24 DEF Alone
    <2> QED
      BY <2>2, <2>3, OnlyWhatItRead
  <1>25. ASSUME NEW t \in Threads, TimedOut(t) PROVE ExpectOK'
    <2>1. pc'[t] \notin {"try", "sleep", "asleep"}
      BY <1>25 DEF TimedOut, Return, Goto, TypeOK
    <2>2. ReadOK(pc'[t], call'[t], i'[t], expect'[t])
      BY <2>1 DEF ReadOK
    <2>3. Alone(t)
      BY <1>25 DEF Alone
    <2> QED
      BY <2>2, <2>3, OnlyWhatItRead
  <1>26. ASSUME NEW t \in Threads, Interrupted(t) PROVE ExpectOK'
    <2>1. pc'[t] \notin {"try", "sleep", "asleep"}
      BY <1>26 DEF Interrupted, Goto, TypeOK
    <2>2. ReadOK(pc'[t], call'[t], i'[t], expect'[t])
      BY <2>1 DEF ReadOK
    <2>3. Alone(t)
      BY <1>26 DEF Alone
    <2> QED
      BY <2>2, <2>3, OnlyWhatItRead
  <1>27. CASE QueueApc
    BY <1>27 DEF QueueApc, ExpectOK
  <1>28. CASE WakeApc
    <2>1. \A u \in Threads : /\ call'[u] = call[u] /\ i'[u] = i[u] /\ expect'[u] = expect[u]
                             /\ pc'[u] \in {pc[u], "awake", "done", "pulse"}
      BY <1>28 DEF WakeApc, Signalled, TypeOK
    <2>2. SUFFICES ASSUME NEW u \in Threads PROVE ReadOK(pc'[u], call'[u], i'[u], expect'[u])
      BY DEF ExpectOK, ReadOK, SeenOwned
    <2>3. ReadOK(pc[u], call[u], i[u], expect[u])
      BY DEF ExpectOK
    <2>4. CASE pc'[u] = pc[u]
      BY <2>1, <2>3, <2>4
    <2>5. CASE pc'[u] \in {"awake", "done", "pulse"}
      BY <2>5 DEF ReadOK
    <2> QED
      BY <2>1, <2>4, <2>5
  <1>29. CASE UNCHANGED vars
    BY <1>29 DEF vars, ExpectOK
  <1> QED
    BY <1>1, <1>2, <1>3, <1>4, <1>5, <1>6, <1>7, <1>8, <1>9, <1>10, <1>11, <1>12, <1>13, <1>14, <1>15, <1>16, <1>17, <1>20, <1>21, <1>22, <1>23, <1>24, <1>25, <1>26, <1>27, <1>28, <1>29
       DEF Next, Calls, Step, Signal, WaitAny

\* What another thread sleeps on, and for which value, is not this thread's.
LEMMA SleepersStay ==
    ASSUME TypeOK, NEW t \in Threads, Alone(t), NEW u \in Threads, u # t
    PROVE  /\ Waited(u)' = Waited(u) /\ obj(u)' = obj(u)
           /\ \A o : Expected(u, o)' = Expected(u, o)
  BY OthersStay DEF Waited, obj, Expected

\* A step that changes the word of an object and has sleepers to disturb is
\* followed by the futex_wake that disturbs them.
LEMMA SleepersKept ==
    ASSUME TypeOK, CallOK, SleepOK, NEW t \in Threads, Alone(t),
           pc[t] # "wake", pc'[t] # "asleep", server' = server,
           \A o \in Objects :
              \/ word'[o] = word[o]
              \/ pc'[t] = "wake" /\ obj(t)' = o
              \/ o \notin Mutexes /\ word'[o] = 0
              \/ \A u \in Threads :
                    pc[u] = "asleep" /\ o \in Waited(u) => word[o] # Expected(u, o)
    PROVE  SleepOK'
  <1>1. SUFFICES ASSUME NEW u \in Threads, pc'[u] = "asleep"
        PROVE  /\ \A o \in Waited(u)' : word'[o] # Expected(u, o)' => WakePending(o)'
               /\ call'[u].alertable /\ apc'[u] = 1 => server' = u
    BY DEF SleepOK
  <1>2. u # t /\ pc[u] = "asleep"
    BY <1>1, OthersStay
  <1>3. call'[u] = call[u] /\ apc'[u] = apc[u]
    BY <1>2, OthersStay
  <1>4. Waited(u)' = Waited(u) /\ \A o : Expected(u, o)' = Expected(u, o)
    BY <1>2, SleepersStay
  <1>5. Waited(u) \subseteq Objects
    BY <1>2 DEF TypeOK, CallRecords, Waited
  <1>6. ASSUME NEW o, WakePending(o) PROVE WakePending(o)'
    <2>1. PICK w \in Threads : pc[w] = "wake" /\ obj(w) = o
      BY <1>6 DEF WakePending
    <2>2. w # t
      BY <2>1
    <2>3. pc'[w] = "wake" /\ obj(w)' = o
      BY <2>1, <2>2, OthersStay, SleepersStay
    <2> QED
      BY <2>3 DEF WakePending
  <1>7. ASSUME NEW o \in Waited(u), word'[o] # Expected(u, o) PROVE WakePending(o)'
    <2>1. CASE word[o] # Expected(u, o)
      <3>1. WakePending(o)
        BY <1>2, <1>7, <2>1 DEF SleepOK
      <3> QED
        BY <3>1, <1>6
    <2>2. CASE word[o] = Expected(u, o)
      <3>1. \/ pc'[t] = "wake" /\ obj(t)' = o
            \/ o \notin Mutexes /\ word'[o] = 0
        BY <1>2, <1>5, <1>7, <2>2
      <3>2. pc'[t] = "wake" /\ obj(t)' = o
        BY <1>7, <3>1 DEF Expected
      <3> QED
        BY <3>2 DEF WakePending
    <2> QED
      BY <2>1, <2>2
  <1>8. call'[u].alertable /\ apc'[u] = 1 => server' = u
    BY <1>2, <1>3 DEF SleepOK
  <1> QED
    BY <1>4, <1>7, <1>8

\* Every step that changes a word leaves a wakeup pending for its sleepers.
LEMMA StepSleepOK == IInv /\ TypeOK' /\ [Next]_vars => SleepOK'
  <1> SUFFICES ASSUME IInv, TypeOK', [Next]_vars PROVE SleepOK'
    OBVIOUS
  <1>i. TypeOK /\ CallOK /\ NothingAbandoned /\ OwnerOK /\ ExpectOK /\ SleepOK
    BY DEF IInv
  <1> USE <1>i,  ThreadsAssumption, ObjectsAssumption, WaitsAssumption
      DEF shared
  <1>1. ASSUME NEW t \in Threads, CallReleaseSemaphore(t) PROVE SleepOK'
    <2>1. word' = word /\ server' = server
      BY <1>1 DEF CallReleaseSemaphore, Enter
    <2>2. pc[t] # "wake" /\ pc'[t] # "asleep"
      BY <1>1 DEF CallReleaseSemaphore, Enter, Goto, TypeOK
    <2>3. Alone(t)
      BY <1>1 DEF Alone, Calls
    <2> QED
      BY <2>1, <2>2, <2>3, SleepersKept
  <1>2. ASSUME NEW t \in Threads, CallReleaseMutex(t) PROVE SleepOK'
    <2>1. word' = word /\ server' = server
      BY <1>2 DEF CallReleaseMutex, Enter
    <2>2. pc[t] # "wake" /\ pc'[t] # "asleep"
      BY <1>2 DEF CallReleaseMutex, Enter, Goto, TypeOK
    <2>3. Alone(t)
      BY <1>2 DEF Alone, Calls
    <2> QED
      BY <2>1, <2>2, <2>3, SleepersKept
  <1>3. ASSUME NEW t \in Threads, CallSetEvent(t) PROVE SleepOK'
    <2>1. word' = word /\ server' = server
      BY <1>3 DEF CallSetEvent, Enter
    <2>2. pc[t] # "wake" /\ pc'[t] # "asleep"
      BY <1>3 DEF CallSetEvent, Enter, Goto, TypeOK
    <2>3. Alone(t)
      BY <1>3 DEF Alone, Calls
    <2> QED
      BY <2>1, <2>2, <2>3, SleepersKept
  <1>4. ASSUME NEW t \in Threads, CallResetEvent(t) PROVE SleepOK'
    <2>1. word' = word /\ server' = server
      BY <1>4 DEF CallResetEvent, Enter
    <2>2. pc[t] # "wake" /\ pc'[t] # "asleep"
      BY <1>4 DEF CallResetEvent, Enter, Goto, TypeOK
    <2>3. Alone(t)
      BY <1>4 DEF Alone, Calls
    <2> QED
      BY <2>1, <2>2, <2>3, SleepersKept
  <1>5. ASSUME NEW t \in Threads, CallWaitAny(t) PROVE SleepOK'
    <2>1. word' = word /\ server' = server
      BY <1>5 DEF CallWaitAny, Enter
    <2>2. pc[t] # "wake" /\ pc'[t] # "asleep"
      BY <1>5 DEF CallWaitAny, Enter, Goto, TypeOK
    <2>3. Alone(t)
      BY <1>5 DEF Alone, Calls
    <2> QED
      BY <2>1, <2>2, <2>3, SleepersKept
  <1>6. ASSUME NEW t \in Threads, ReleaseSemaphore(t) PROVE SleepOK'
    <2>1. obj(t) \in Semaphores
      BY <1>6 DEF ReleaseSemaphore, CallOK, PlaceOK, obj
    <2>2. \A o \in Objects : word'[o] = word[o] \/ (pc'[t] = "wake" /\ obj(t)' = o)
      BY <1>6, <2>1 DEF ReleaseSemaphore, Return, Goto, obj, TypeOK
    <2>3. pc[t] # "wake" /\ pc'[t] # "asleep" /\ server' = server
      BY <1>6 DEF ReleaseSemaphore, Return, Goto, TypeOK
    <2>4. Alone(t)
      BY <1>6 DEF Alone
    <2> QED
      BY <2>2, <2>3, <2>4, SleepersKept
  <1>7. ASSUME NEW t \in Threads, SetEvent(t) PROVE SleepOK'
    <2>1. obj(t) \in Events
      BY <1>7 DEF SetEvent, CallOK, PlaceOK, obj
    <2>2. \A o \in Objects : word'[o] = word[o] \/ (pc'[t] = "wake" /\ obj(t)' = o)
      BY <1>7, <2>1 DEF SetEvent, Goto, Signalled, obj, TypeOK
    <2>3. pc[t] # "wake" /\ pc'[t] # "asleep" /\ server' = server
      BY <1>7 DEF SetEvent, Goto, Signalled, TypeOK
    <2>4. Alone(t)
      BY <1>7 DEF Alone
    <2> QED
      BY <2>2, <2>3, <2>4, SleepersKept
  <1>8. ASSUME NEW t \in Threads, ResetEvent(t) PROVE SleepOK'
    <2>1. obj(t) \in Events
      BY <1>8 DEF ResetEvent, CallOK, PlaceOK, obj
    <2>2. \A o \in Objects : word'[o] = word[o] \/ (o \notin Mutexes /\ word'[o] = 0)
      BY <1>8, <2>1 DEF ResetEvent, TypeOK
    <2>3. pc[t] # "wake" /\ pc'[t] # "asleep" /\ server' = server
      BY <1>8 DEF ResetEvent, Goto, TypeOK
    <2>4. Alone(t)
      BY <1>8 DEF Alone
    <2> QED
      BY <2>2, <2>3, <2>4, SleepersKept
  <1>9. ASSUME NEW t \in Threads, NotOwned(t) PROVE SleepOK'
    <2>1. word' = word /\ server' = server
      BY <1>9 DEF NotOwned
    <2>2. pc[t] # "wake" /\ pc'[t] # "asleep"
      BY <1>9 DEF NotOwned, Return, Goto, TypeOK
    <2>3. Alone(t)
      BY <1>9 DEF Alone
    <2> QED
      BY <2>1, <2>2, <2>3, SleepersKept
  <1>10. ASSUME NEW t \in Threads, ReleaseMutex(t) PROVE SleepOK'
    <2>1. word' = word /\ server' = server
      BY <1>10 DEF ReleaseMutex
    <2>2. pc[t] # "wake" /\ pc'[t] # "asleep"
      BY <1>10 DEF ReleaseMutex, Goto, TypeOK
    <2>3. Alone(t)
      BY <1>10 DEF Alone
    <2> QED
      BY <2>1, <2>2, <2>3, SleepersKept
  <1>11. ASSUME NEW t \in Threads, UnlockMutex(t) PROVE SleepOK'
    <2>1. obj(t) \in Mutexes
      BY <1>11 DEF UnlockMutex, CallOK, PlaceOK, obj
    <2>2. \A o \in Objects : word'[o] = word[o] \/ (pc'[t] = "wake" /\ obj(t)' = o)
      BY <1>11, <2>1 DEF UnlockMutex, Goto, obj, TypeOK
    <2>3. pc[t] # "wake" /\ pc'[t] # "asleep" /\ server' = server
      BY <1>11 DEF UnlockMutex, Goto, TypeOK
    <2>4. Alone(t)
      BY <1>11 DEF Alone
    <2> QED
      BY <2>2, <2>3, <2>4, SleepersKept
  <1>12. ASSUME NEW t \in Threads, Wake(t) PROVE SleepOK'
    <2>1. SUFFICES ASSUME NEW u \in Threads, pc'[u] = "asleep"
          PROVE  /\ \A o \in Waited(u)' : word'[o] # Expected(u, o)' => WakePending(o)'
                 /\ call'[u].alertable /\ apc'[u] = 1 => server' = u
      BY DEF SleepOK
    <2>2. /\ word' = word /\ server' = server /\ apc' = apc
          /\ call' = call /\ i' = i /\ expect' = expect
      BY <1>12 DEF Wake, shared
    <2>3. Waited(u)' = Waited(u) /\ \A o : Expected(u, o)' = Expected(u, o)
      BY <2>2 DEF Waited, Expected
    <2>4. pc[u] = "asleep" /\ u \notin Sleepers(obj(t))
      BY <1>12, <2>1 DEF Wake, Signalled, TypeOK
    <2>5. obj(t) \notin Waited(u)
      BY <2>4 DEF Sleepers, SleepsOn, CallOK, PlaceOK, WaitPCs
    <2>6. ASSUME NEW o \in Waited(u), WakePending(o) PROVE WakePending(o)'
      <3>1. PICK w \in Threads : pc[w] = "wake" /\ obj(w) = o
        BY <2>6 DEF WakePending
      <3>2. w # t
        BY <3>1, <2>5, <2>6
      <3>3. pc'[w] = "wake" /\ obj(w)' = o
        BY <1>12, <3>1, <3>2, <2>2 DEF Wake, Sleepers, obj, TypeOK
      <3> QED
        BY <3>3 DEF WakePending
    <2> QED
      BY <2>2, <2>3, <2>4, <2>6 DEF SleepOK
  <1>13. ASSUME NEW t \in Threads, CheckApc(t) PROVE SleepOK'
    <2>1. word' = word /\ server' = server
      BY <1>13 DEF CheckApc
    <2>2. pc[t] # "wake" /\ pc'[t] # "asleep"
      BY <1>13 DEF CheckApc, Goto, TypeOK
    <2>3. Alone(t)
      BY <1>13 DEF Alone, WaitAny
    <2> QED
      BY <2>1, <2>2, <2>3, SleepersKept
  <1>14. ASSUME NEW t \in Threads, TrySignaled(t) PROVE SleepOK'
    <2>1. \A o \in Objects :
             \/ word'[o] = word[o]
             \/ \A u \in Threads :
                   pc[u] = "asleep" /\ o \in Waited(u) => word[o] # Expected(u, o)
      BY <1>14 DEF TrySignaled, Expected, TypeOK
    <2>2. pc[t] # "wake" /\ pc'[t] # "asleep" /\ server' = server
      BY <1>14 DEF TrySignaled, Return, Goto, TypeOK
    <2>3. Alone(t)
      BY <1>14 DEF Alone, WaitAny
    <2> QED
      BY <2>1, <2>2, <2>3, SleepersKept
  <1>15. ASSUME NEW t \in Threads, SkipUnsignaled(t) PROVE SleepOK'
    <2>1. word' = word /\ server' = server
      BY <1>15 DEF SkipUnsignaled
    <2>2. pc[t] # "wake" /\ pc'[t] # "asleep"
      BY <1>15 DEF SkipUnsignaled, NextObject, Return, Goto, TypeOK
    <2>3. Alone(t)
      BY <1>15 DEF Alone, WaitAny
    <2> QED
      BY <2>1, <2>2, <2>3, SleepersKept
  <1>16. ASSUME NEW t \in Threads, TryOwnMutex(t) PROVE SleepOK'
    <2>1. word' = word /\ server' = server
      BY <1>16 DEF TryOwnMutex
    <2>2. pc[t] # "wake" /\ pc'[t] # "asleep"
      BY <1>16 DEF TryOwnMutex, Return, Goto, TypeOK
    <2>3. Alone(t)
      BY <1>16 DEF Alone, WaitAny
    <2> QED
      BY <2>1, <2>2, <2>3, SleepersKept
  <1>17. ASSUME NEW t \in Threads, TryFreeMutex(t) PROVE SleepOK'
    <2>1. ASSUME NEW u \in Threads, pc[u] = "asleep", obj(t) \in Waited(u)
          PROVE  expect[u][obj(t)] # 0
      <3>1. SeenOwned(call[u], Len(call[u].objs), expect[u])
        BY <2>1 DEF ExpectOK, ReadOK
      <3>2. obj(t) \in Mutexes
        BY <1>17 DEF TryFreeMutex
      <3> QED
        BY <2>1, <3>1, <3>2 DEF SeenOwned, Waited
    <2>2. \A o \in Objects :
             \/ word'[o] = word[o]
             \/ \A u \in Threads :
                   pc[u] = "asleep" /\ o \in Waited(u) => word[o] # Expected(u, o)
      BY <1>17, <2>1 DEF TryFreeMutex, Expected, TypeOK
    <2>3. pc[t] # "wake" /\ pc'[t] # "asleep" /\ server' = server
      BY <1>17 DEF TryFreeMutex, Goto, TypeOK
    <2>4. Alone(t)
      BY <1>17 DEF Alone, WaitAny
    <2> QED
      BY <2>2, <2>3, <2>4, SleepersKept
  <1>20. ASSUME NEW t \in Threads, OwnMutex(t) PROVE SleepOK'
    <2>1. word' = word /\ server' = server
      BY <1>20 DEF OwnMutex
    <2>2. pc[t] # "wake" /\ pc'[t] # "asleep"
      BY <1>20 DEF OwnMutex, Return, Goto, TypeOK
    <2>3. Alone(t)
      BY <1>20 DEF Alone, WaitAny
    <2> QED
      BY <2>1, <2>2, <2>3, SleepersKept
  <1>21. ASSUME NEW t \in Threads, SkipMutex(t) PROVE SleepOK'
    <2>1. word' = word /\ server' = server
      BY <1>21 DEF SkipMutex
    <2>2. pc[t] # "wake" /\ pc'[t] # "asleep"
      BY <1>21 DEF SkipMutex, NextObject, Return, Goto, TypeOK
    <2>3. Alone(t)
      BY <1>21 DEF Alone, WaitAny
    <2> QED
      BY <2>1, <2>2, <2>3, SleepersKept
  <1>22. ASSUME NEW t \in Threads, FutexWait(t) PROVE SleepOK'
    <2>1. SUFFICES ASSUME NEW u \in Threads, pc'[u] = "asleep"
          PROVE  /\ \A o \in Waited(u)' : word'[o] # Expected(u, o)' => WakePending(o)'
                 /\ call'[u].alertable /\ apc'[u] = 1 => server' = u
      BY DEF SleepOK
    <2>2. /\ word' = word /\ server' = server /\ apc' = apc
          /\ call' = call /\ i' = i /\ expect' = expect
          /\ pc[t] = "sleep" /\ \A w \in Threads \ {t} : pc'[w] = pc[w]
      BY <1>22 DEF FutexWait, Goto, TypeOK
    <2>3. Waited(u)' = Waited(u) /\ \A o : Expected(u, o)' = Expected(u, o)
      BY <2>2 DEF Waited, Expected
    <2>4. CASE u # t
      <3>1. pc[u] = "asleep"
        BY <2>1, <2>2, <2>4
      <3>2. ASSUME NEW o, WakePending(o) PROVE WakePending(o)'
        <4>1. PICK w \in Threads : pc[w] = "wake" /\ obj(w) = o
          BY <3>2 DEF WakePending
        <4>2. pc'[w] = "wake" /\ obj(w)' = o
          BY <4>1, <2>2 DEF obj
        <4> QED
          BY <4>2 DEF WakePending
      <3> QED
        BY <3>1, <3>2, <2>2, <2>3 DEF SleepOK
    <2>5. CASE u = t
      <3>1. Unchanged(t)
        BY <1>22, <2>1, <2>5 DEF FutexWait, Goto, TypeOK
      <3>2. call[t].op = "any"
        BY <2>2 DEF CallOK, PlaceOK, WaitPCs
      <3>3. SleepsOn(t) = Waited(t)
        BY <3>2 DEF SleepsOn
      <3> QED
        BY <3>1, <3>3, <2>2, <2>3, <2>5 DEF Unchanged
    <2> QED
      BY <2>4, <2>5
  <1>23. ASSUME NEW t \in Threads, UserApc(t) PROVE SleepOK'
    <2>1. word' = word /\ server' = server
      BY <1>23 DEF UserApc
    <2>2. pc[t] # "wake" /\ pc'[t] # "asleep"
      BY <1>23 DEF UserApc, Return, Goto, TypeOK
    <2>3. Alone(t)
      BY <1>23 DEF Alone, WaitAny
    <2> QED
      BY <2>1, <2>2, <2>3, SleepersKept
  <1>24. ASSUME NEW t \in Threads, Leave(t) PROVE SleepOK'
    <2>1. word' = word /\ server' = server
      BY <1>24 DEF Leave
    <2>2. pc[t] # "wake" /\ pc'[t] # "asleep"
      BY <1>24 DEF Leave, Goto, TypeOK
    <2>3. Alone(t)
      BY <1>24 DEF Alone
    <2> QED
      BY <2>1, <2>2, <2>3, SleepersKept
  <1>25. ASSUME NEW t \in Threads, TimedOut(t) PROVE SleepOK'
    <2>1. word' = word /\ server' = server
      BY <1>25 DEF TimedOut
    <2>2. pc[t] # "wake" /\ pc'[t] # "asleep"
      BY <1>25 DEF TimedOut, Return, Goto, TypeOK
    <2>3. Alone(t)
      BY <1>25 DEF Alone
    <2> QED
      BY <2>1, <2>2, <2>3, SleepersKept
  <1>26. ASSUME NEW t \in Threads, Interrupted(t) PROVE SleepOK'
    <2>1. word' = word /\ server' = server
      BY <1>26 DEF Interrupted
    <2>2. pc[t] # "wake" /\ pc'[t] # "asleep"
      BY <1>26 DEF Interrupted, Goto, TypeOK
    <2>3. Alone(t)
      BY <1>26 DEF Alone
    <2> QED
      BY <2>1, <2>2, <2>3, SleepersKept
  <1>27. CASE QueueApc
    <2>1. SUFFICES ASSUME NEW u \in Threads, pc'[u] = "asleep"
          PROVE  /\ \A o \in Waited(u)' : word'[o] # Expected(u, o)' => WakePending(o)'
                 /\ call'[u].alertable /\ apc'[u] = 1 => server' = u
      BY DEF SleepOK
    <2>2. PICK t \in Threads :
             /\ server = 0 /\ apc' = [apc EXCEPT ![t] = 1]
             /\ server' = IF apc[t] = 0 THEN t ELSE 0
             /\ UNCHANGED <<word, pc, call, i, expect>>
      BY <1>27 DEF QueueApc
    <2>3. /\ Waited(u)' = Waited(u)
          /\ \A o : Expected(u, o)' = Expected(u, o)
          /\ \A o : WakePending(o) => WakePending(o)'
      BY <2>2 DEF Waited, Expected, WakePending, obj
    <2>4. \A o \in Waited(u) : word[o] # Expected(u, o) => WakePending(o)
      BY <2>1, <2>2 DEF SleepOK
    <2>5. call[u].alertable => apc[u] # 1
      BY <2>1, <2>2 DEF SleepOK
    <2>6. call'[u].alertable /\ apc'[u] = 1 => server' = u
      BY <2>2, <2>5 DEF TypeOK
    <2> QED
      BY <2>2, <2>3, <2>4, <2>6
  <1>28. CASE WakeApc
    <2>1. SUFFICES ASSUME NEW u \in Threads, pc'[u] = "asleep"
          PROVE  /\ \A o \in Waited(u)' : word'[o] # Expected(u, o)' => WakePending(o)'
                 /\ call'[u].alertable /\ apc'[u] = 1 => server' = u
      BY DEF SleepOK
    <2>2. /\ server # 0 /\ UNCHANGED <<word, apc, call, i, expect>>
          /\ \A w \in Threads : pc'[w] = IF w = server /\ pc[w] = "asleep" /\ call[w].alertable
                                         THEN "awake" ELSE pc[w]
      BY <1>28 DEF WakeApc, TypeOK
    <2>3. Waited(u)' = Waited(u) /\ \A o : Expected(u, o)' = Expected(u, o)
      BY <2>2 DEF Waited, Expected
    <2>4. pc[u] = "asleep" /\ ~(u = server /\ call[u].alertable)
      BY <2>1, <2>2
    <2>5. ASSUME NEW o, WakePending(o) PROVE WakePending(o)'
      <3>1. PICK w \in Threads : pc[w] = "wake" /\ obj(w) = o
        BY <2>5 DEF WakePending
      <3>2. pc'[w] = "wake" /\ obj(w)' = o
        BY <3>1, <2>2 DEF obj
      <3> QED
        BY <3>2 DEF WakePending
    <2> QED
      BY <2>2, <2>3, <2>4, <2>5 DEF SleepOK
  <1>29. CASE UNCHANGED vars
    BY <1>29 DEF vars, SleepOK, Waited, Expected, WakePending, obj
  <1> QED
    BY <1>1, <1>2, <1>3, <1>4, <1>5, <1>6, <1>7, <1>8, <1>9, <1>10, <1>11, <1>12, <1>13, <1>14, <1>15, <1>16, <1>17, <1>20, <1>21, <1>22, <1>23, <1>24, <1>25, <1>26, <1>27, <1>28, <1>29
       DEF Next, Calls, Step, Signal, WaitAny

-----------------------------------------------------------------------------

\* The invariant is inductive.
LEMMA StepIInv == IInv /\ [Next]_vars => IInv'
  BY StepTypeOK, StepCallOK, StepMutexOK, StepExpectOK, StepSleepOK DEF IInv, MutexOK

LEMMA Inductive == Spec => []IInv
  BY InitIInv, StepIInv, PTL DEF Spec

\* In every reachable state every variable is in its range; above all, no
\* interleaving of fsync_release_semaphore and the waits takes a semaphore
\* past its maximum or below 0, and none drives a recursion count below 0.
THEOREM TypeCorrect == Spec => []TypeOK
  <1>1. IInv => TypeOK
    BY DEF IInv
  <1> QED
    BY <1>1, Inductive, PTL

\* The mutexes of fsync exclude each other's owners, however many threads and
\* objects there are: mutex->tid names the one thread that was told it owns
\* the mutex and mutex->count is what that thread still has to release.
THEOREM MutualExclusion == Spec => []MutexExact
  <1>1. IInv => MutexExact
    BY DEF IInv, OwnerOK, OwnedOK, MutexExact
  <1> QED
    BY <1>1, Inductive, PTL

\* No thread sleeps through the change it waits for: between the last look at
\* the words and futex_waitv nothing can be missed, for semaphores, mutexes,
\* events and the user APC word alike.
THEOREM NoWakeupIsLost == Spec => []NoLostWakeup
  <1>1. IInv => NoLostWakeup
    <2> SUFFICES ASSUME IInv, NEW t \in Threads, pc[t] = "asleep"
                 PROVE  /\ \A o \in SleepsOn(t) : Available(o) => WakePending(o)
                        /\ call[t].alertable /\ apc[t] = 1 => server = t
      BY DEF NoLostWakeup
    <2>1. SleepsOn(t) = Waited(t)
      BY DEF IInv, CallOK, PlaceOK, WaitPCs, SleepsOn
    <2>2. ASSUME NEW o \in Waited(t), Available(o) PROVE word[o] # Expected(t, o)
      <3>1. SeenOwned(call[t], Len(call[t].objs), expect[t])
        BY DEF IInv, ExpectOK, ReadOK
      <3>2. o \in Mutexes => expect[t][o] # 0
        BY <3>1, <2>2 DEF SeenOwned, Waited
      <3>3. o \in Mutexes => word[o] = 0
        BY <2>2 DEF Available, IInv, NothingAbandoned
      <3>4. o \notin Mutexes => word[o] # 0
        BY <2>2 DEF Available, IInv, TypeOK
      <3> QED
        BY <3>2, <3>3, <3>4 DEF Expected
    <2> QED
      BY <2>1, <2>2 DEF IInv, SleepOK
  <1> QED
    BY <1>1, Inductive, PTL

-----------------------------------------------------------------------------
(* fsync implements NtSync: the initial states map to initial states and     *)
(* every step of FsyncWait maps to a step of NtSync or to none.              *)

(* The counts programs release a semaphore by: no sum of one of them and a  *)
(* count in range wraps around.  With one that does, semaphores go down.    *)
CountsFit == \A n \in ReleaseCounts : SemMax + n < UIntSize

(* The state of NtSync that a state of FsyncWait stands for.               *)
Sig == [o \in Objects \ Mutexes |-> word[o]]
Own == [m \in Mutexes |-> word[m]]
Nst == [m \in Mutexes |-> Nesting(m)]
Wants(t) == IF Wanting(t) THEN Waited(t) ELSE {}
Wnt == [t \in Threads |-> Wants(t)]

Same == Sig' = Sig /\ Own' = Own /\ Nst' = Nst /\ Wnt' = Wnt

\* The names the two modules give to the objects are for the same sets.
LEMMA MappedObjects ==
    /\ Nt!Objects = Objects
    /\ Nt!nvars = <<Sig, Own, Nst, Wnt, {}>>
  BY DEF Nt!Objects, Objects, Events, Nt!nvars, Sig, Own, Nst, Wnt, Wants

\* The initial states are initial states of NtSync.
LEMMA InitMapped == Init => Nt!NInit
  <1> SUFFICES ASSUME Init PROVE Nt!NInit
    OBVIOUS
  <1>1. \A o \in Objects \ Mutexes : word[o] \in 0..SemMax
    BY SemaphoreAssumption DEF Init, Objects
  <1>2. \A m \in Mutexes : word[m] = 0 /\ count[m] = 0
    BY DEF Init
  <1>3. \A m \in Mutexes : Nesting(m) = 0
    BY <1>2 DEF Init, Nesting, Entering, Leaving
  <1>4. \A t \in Threads : ~Wanting(t)
    BY DEF Init, Wanting
  <1> QED
    BY <1>1, <1>2, <1>3, <1>4, MappedObjects DEF Nt!NInit, Nt!Objects, Objects, Events

-----------------------------------------------------------------------------
(* What a step of one thread changes of the mapped state.                  *)

\* A thread that enters or leaves a mutex is the one its word names.
LEMMA InsideOwns ==
    ASSUME IInv, NEW m \in Mutexes, NEW t \in Threads, Entering(t, m) \/ Leaving(t, m)
    PROVE  word[m] = t /\ count[m] = 0
  BY DEF IInv, OwnerOK, OwnedOK

\* The recursion count of NtSync, told by the thread in the word alone.
LEMMA NestingIs ==
    ASSUME IInv, NEW m \in Mutexes, NEW t \in Threads
    PROVE  /\ Entering(t, m) \/ Leaving(t, m) => Nesting(m) = 1
           /\ word[m] = t /\ ~Entering(t, m) /\ ~Leaving(t, m) => Nesting(m) = count[m]
           /\ word[m] = 0 => Nesting(m) = 0
  <1>1. ASSUME word[m] = 0 PROVE Nesting(m) = 0
    <2>1. count[m] = 0
      BY <1>1 DEF IInv, OwnerOK
    <2>2. ~\E u \in Threads : Entering(u, m) \/ Leaving(u, m)
      BY <1>1, InsideOwns, ThreadsAssumption
    <2> QED
      BY <2>1, <2>2 DEF Nesting
  <1>2. ASSUME word[m] = t, ~Entering(t, m), ~Leaving(t, m) PROVE Nesting(m) = count[m]
    BY <1>2, InsideOwns DEF Nesting
  <1> QED
    BY <1>1, <1>2 DEF Nesting

Inside(t) == pc[t] \in {"own", "own_abandoned", "unlock"}

\* Outside the code of a mutex a thread changes the recursion count of NtSync
\* only where it changes mutex->count.
LEMMA NestKept ==
    ASSUME IInv, NEW t \in Threads, Alone(t), ~Inside(t), ~Inside(t)'
    PROVE  \A m \in Mutexes : count'[m] = count[m] => Nesting(m)' = Nesting(m)
  <1> SUFFICES ASSUME NEW m \in Mutexes, count'[m] = count[m]
               PROVE  Nesting(m)' = Nesting(m)
    OBVIOUS
  <1>1. ASSUME NEW u \in Threads
        PROVE  /\ Entering(u, m)' <=> Entering(u, m)
               /\ Leaving(u, m)' <=> Leaving(u, m)
    <2>1. CASE u = t
      BY <2>1 DEF Inside, Entering, Leaving
    <2>2. CASE u # t
      BY <2>2, OthersStay DEF IInv, Entering, Leaving, obj
    <2> QED
      BY <2>1, <2>2
  <1> QED
    BY <1>1 DEF Nesting

LEMMA NestSame ==
    ASSUME IInv, NEW t \in Threads, Alone(t), ~Inside(t), ~Inside(t)', count' = count
    PROVE  Nst' = Nst
  BY NestKept DEF Nst

\* No step of a thread touches what the others wait for.
LEMMA WantsKept ==
    ASSUME IInv, NEW t \in Threads, Alone(t)
    PROVE  /\ \A u \in Threads \ {t} : Wants(u)' = Wants(u)
           /\ Wnt' = [Wnt EXCEPT ![t] = Wants(t)']
  <1>1. ASSUME NEW u \in Threads, u # t PROVE Wants(u)' = Wants(u)
    <2>1. call'[u] = call[u] /\ pc'[u] = pc[u]
      BY <1>1, OthersStay DEF IInv
    <2> QED
      BY <2>1 DEF Wants, Wanting, Waited
  <1> QED
    BY <1>1 DEF Wnt

LEMMA WantsSame ==
    ASSUME IInv, NEW t \in Threads, Alone(t), Wants(t)' = Wants(t)
    PROVE  Wnt' = Wnt
  BY WantsKept DEF Wnt

\* One word changes: that of a mutex is an owner, that of any other object are
\* its units.
LEMMA OneSignal ==
    ASSUME TypeOK, NEW o \in Objects \ Mutexes, NEW v, word' = [word EXCEPT ![o] = v]
    PROVE  Own' = Own /\ Sig' = [Sig EXCEPT ![o] = v] /\ Sig[o] = word[o]
  BY DEF TypeOK, Own, Sig, Objects

LEMMA OneOwner ==
    ASSUME TypeOK, NEW m \in Mutexes, NEW v, word' = [word EXCEPT ![m] = v]
    PROVE  Own' = [Own EXCEPT ![m] = v] /\ Sig' = Sig /\ Own[m] = word[m] /\ word'[m] = v
  BY DEF TypeOK, Own, Sig, Objects

\* One mutex is entered, left, taken once more or given back once.
LEMMA OneNesting ==
    ASSUME NEW m \in Mutexes, \A n \in Mutexes \ {m} : Nesting(n)' = Nesting(n),
           NEW v, \A n \in Mutexes : n = m => Nesting(n)' = v
    PROVE  Nst' = [Nst EXCEPT ![m] = v] /\ Nst[m] = Nesting(m)
  BY DEF Nst

\* A sum that fits does not wrap.
LEMMA ModSmall ==
    ASSUME NEW n \in Nat \ {0}, NEW x \in 0..(n - 1)
    PROVE  x % n = x
  OBVIOUS

\* The steps of NtSync, of the mapped state.
ReleaseStep ==
    \E s \in Semaphores, n \in 0..SemMax :
        /\ Sig[s] + n <= SemMax
        /\ Sig' = [Sig EXCEPT ![s] = @ + n]
        /\ Own' = Own /\ Nst' = Nst /\ Wnt' = Wnt
EventStep ==
    \E e \in Events, value \in {0, 1} :
        /\ Sig' = [Sig EXCEPT ![e] = value]
        /\ Own' = Own /\ Nst' = Nst /\ Wnt' = Wnt
DisownStep(t) ==
    \E m \in Mutexes :
        /\ Own[m] = t
        /\ Nst' = [Nst EXCEPT ![m] = @ - 1]
        /\ Own' = [Own EXCEPT ![m] = IF Nst[m] = 1 THEN 0 ELSE t]
        /\ Sig' = Sig /\ Wnt' = Wnt
WaitStep(t) ==
    /\ Wnt[t] = {}
    /\ \E objs \in SUBSET Objects : Wnt' = [Wnt EXCEPT ![t] = objs]
    /\ Sig' = Sig /\ Own' = Own /\ Nst' = Nst
UnitStep(t) ==
    \E o \in Wnt[t] \ Mutexes :
        /\ Sig[o] > 0
        /\ Sig' = [Sig EXCEPT ![o] = IF o \in ManualEvents THEN @ ELSE @ - 1]
        /\ Wnt' = [Wnt EXCEPT ![t] = {}]
        /\ Own' = Own /\ Nst' = Nst
OwnStep(t) ==
    \E m \in Wnt[t] \intersect Mutexes :
        /\ Own[m] \in {0, t}
        /\ Own' = [Own EXCEPT ![m] = t]
        /\ Nst' = [Nst EXCEPT ![m] = @ + 1]
        /\ Wnt' = [Wnt EXCEPT ![t] = {}]
        /\ Sig' = Sig
EndStep(t) ==
    Wnt' = [Wnt EXCEPT ![t] = {}] /\ Sig' = Sig /\ Own' = Own /\ Nst' = Nst

Promised ==
    \/ Same \/ ReleaseStep \/ EventStep
    \/ \E t \in Threads :
         DisownStep(t) \/ WaitStep(t) \/ UnitStep(t) \/ OwnStep(t) \/ EndStep(t)

LEMMA PromisedIsNt == Promised => [Nt!NNext]_(Nt!nvars)
  <1>1. Same => UNCHANGED Nt!nvars
    BY MappedObjects DEF Same, Sig, Own, Nst, Wnt, Wants, Nt!nvars
  <1>2. ReleaseStep => Nt!NRelease
    BY DEF ReleaseStep, Sig, Own, Nst, Wnt, Wants, Nt!NRelease
  <1>3. EventStep => Nt!NSetReset
    BY DEF EventStep, Sig, Own, Nst, Wnt, Wants, Nt!NSetReset, Events
  <1>4. \A t \in Threads : DisownStep(t) => Nt!NReleaseMutex(t)
    BY DEF DisownStep, Sig, Own, Nst, Wnt, Wants, Nt!NReleaseMutex
  <1>5. \A t \in Threads : WaitStep(t) => Nt!NWait(t)
    BY MappedObjects DEF WaitStep, Sig, Own, Nst, Wnt, Wants, Nt!NWait
  <1>6. \A t \in Threads : UnitStep(t) => Nt!NTakeUnit(t)
    BY DEF UnitStep, Sig, Own, Nst, Wnt, Wants, Nt!NTakeUnit, Nt!Satisfied
  <1>7. \A t \in Threads : OwnStep(t) => Nt!NTakeMutex(t)
    BY DEF OwnStep, Sig, Own, Nst, Wnt, Wants, Nt!NTakeMutex, Nt!Satisfied
  <1>8. \A t \in Threads : EndStep(t) => Nt!NGiveUp(t)
    BY DEF EndStep, Sig, Own, Nst, Wnt, Wants, Nt!NGiveUp, Nt!Satisfied
  <1> QED
    BY <1>1, <1>2, <1>3, <1>4, <1>5, <1>6, <1>7, <1>8 DEF Promised, Nt!NNext

-----------------------------------------------------------------------------
(* Every step of FsyncWait is a promised one.                              *)

\* A step that leaves the words and counts alone and the mutexes' code aside.
LEMMA Quiet ==
    ASSUME IInv, NEW t \in Threads, Alone(t), ~Inside(t), ~Inside(t)',
           word' = word, count' = count,
           Wants(t)' = Wants(t) \/ Wants(t)' = {}
    PROVE  Promised
  <1>1. Sig' = Sig /\ Own' = Own
    BY DEF Sig, Own
  <1>2. Nst' = Nst
    BY NestSame
  <1>3. CASE Wants(t)' = Wants(t)
    BY <1>1, <1>2, <1>3, WantsSame DEF Promised, Same
  <1>4. CASE Wants(t)' = {}
    BY <1>1, <1>2, <1>4, WantsKept DEF Promised, EndStep
  <1> QED
    BY <1>3, <1>4

\* The place a new call starts at decides what it wants.
LEMMA EnterPromised ==
    ASSUME IInv, NEW t \in Threads, Alone(t), NEW l, NEW c, Enter(t, l, c),
           c.op # "any", l \notin {"own", "own_abandoned", "unlock"}
    PROVE  Promised
  <1>1. pc[t] = "idle" /\ pc'[t] = l /\ call'[t] = c
    BY EnterEffect DEF IInv
  <1>2. word' = word /\ count' = count
    BY DEF Enter, shared
  <1>3. ~Inside(t) /\ ~Inside(t)' /\ Wants(t)' = {}
    BY <1>1 DEF Inside, Wants, Wanting
  <1> QED
    BY <1>2, <1>3, Quiet

LEMMA StepPromised == CountsFit /\ IInv /\ IInv' /\ [Next]_vars => Promised
  <1> SUFFICES ASSUME CountsFit, IInv, IInv', [Next]_vars PROVE Promised
    OBVIOUS
  <1>1. ASSUME NEW t \in Threads, CallReleaseSemaphore(t) PROVE Promised
    <2>1. Alone(t)
      BY <1>1 DEF Alone, Calls
    <2> QED
      BY <1>1, <2>1, EnterPromised DEF CallReleaseSemaphore, ToObject, Call
  <1>2. ASSUME NEW t \in Threads, CallReleaseMutex(t) PROVE Promised
    <2>1. Alone(t)
      BY <1>2 DEF Alone, Calls
    <2> QED
      BY <1>2, <2>1, EnterPromised DEF CallReleaseMutex, ToObject, Call
  <1>3. ASSUME NEW t \in Threads, CallSetEvent(t) PROVE Promised
    <2>1. Alone(t)
      BY <1>3 DEF Alone, Calls
    <2> QED
      BY <1>3, <2>1, EnterPromised DEF CallSetEvent, ToObject, Call
  <1>4. ASSUME NEW t \in Threads, CallResetEvent(t) PROVE Promised
    <2>1. Alone(t)
      BY <1>4 DEF Alone, Calls
    <2> QED
      BY <1>4, <2>1, EnterPromised DEF CallResetEvent, ToObject, Call
  <1>5. ASSUME NEW t \in Threads, CallWaitAny(t) PROVE Promised
    <2>1. PICK objs \in AnyWaits, alertable \in AlertableWaits, timeout \in Timeouts :
             Enter(t, "again", Call("any", objs, alertable, timeout))
      BY <1>5 DEF CallWaitAny
    <2>2. Alone(t)
      BY <1>5 DEF Alone, Calls
    <2>3. pc[t] = "idle" /\ pc'[t] = "again" /\ call'[t] = Call("any", objs, alertable, timeout)
      BY <2>1, EnterEffect DEF IInv
    <2>4. word' = word /\ count' = count
      BY <2>1 DEF Enter, shared
    <2>5. Sig' = Sig /\ Own' = Own /\ Nst' = Nst
      BY <2>2, <2>3, <2>4, NestSame DEF Inside, Sig, Own
    <2>6. Wnt[t] = {}
      BY <2>3 DEF Wnt, Wants, Wanting
    <2>7. Wants(t)' \in SUBSET Objects
      BY <2>3, WaitsAssumption DEF Wants, Wanting, Waited, Call
    <2> QED
      BY <2>2, <2>5, <2>6, <2>7, WantsKept DEF WaitStep, Promised
  <1>6. ASSUME NEW t \in Threads, ReleaseSemaphore(t) PROVE Promised
    <2> DEFINE s == obj(t)
    <2>1. s \in Semaphores /\ call[t].op # "any"
      BY <1>6 DEF ReleaseSemaphore, IInv, CallOK, PlaceOK, SignalPCs, obj
    <2>2. Alone(t)
      BY <1>6 DEF Alone
    <2>3. call' = call /\ count' = count /\ ~Inside(t) /\ ~Inside(t)'
      BY <1>6 DEF ReleaseSemaphore, Return, Goto, Inside, IInv, TypeOK
    <2>4. Wants(t) = {} /\ Wants(t)' = {}
      BY <2>1, <2>3 DEF Wants, Wanting
    <2>5. Wnt' = Wnt /\ Nst' = Nst
      BY <2>2, <2>3, <2>4, WantsSame, NestSame
    <2>6. CASE word' = word
      BY <2>5, <2>6 DEF Sig, Own, Same, Promised
    <2>7. CASE word' # word
      <3>1. PICK n \in ReleaseCounts :
               /\ Plus(word[s], n) <= SemMax
               /\ word' = [word EXCEPT ![s] = Plus(word[s], n)]
        BY <1>6, <2>7 DEF ReleaseSemaphore
      <3>2. n \in Nat /\ word[s] \in 0..SemMax /\ SemMax \in Nat
        BY <2>1, SemaphoreAssumption DEF IInv, TypeOK
      <3>3. Plus(word[s], n) = word[s] + n
        <4>1. SemMax + n < UIntSize /\ UIntSize \in Nat
          BY SemaphoreAssumption DEF CountsFit
        <4>2. word[s] + n \in 0..(UIntSize - 1)
          BY <4>1, <3>2
        <4> HIDE DEF s
        <4> QED
          BY <4>1, <4>2, <3>2, ModSmall DEF Plus
      <3>4. n \in 0..SemMax /\ word[s] + n <= SemMax
        BY <3>1, <3>2, <3>3
      <3>5. s \in Objects \ Mutexes
        BY <2>1, ObjectsAssumption DEF Objects
      <3>6. Own' = Own
        BY <3>1, <3>5 DEF Own, IInv, TypeOK, Objects
      <3>7. Sig' = [Sig EXCEPT ![s] = @ + n] /\ Sig[s] + n <= SemMax
        BY <3>1, <3>3, <3>4, <3>5 DEF Sig, IInv, TypeOK
      <3> QED
        BY <2>1, <2>5, <3>4, <3>6, <3>7 DEF ReleaseStep, Promised
    <2> QED
      BY <2>6, <2>7
  <1>7. ASSUME NEW t \in Threads, SetEvent(t) \/ ResetEvent(t) PROVE Promised
    <2> DEFINE e == obj(t)
    <2>1. e \in Events /\ call[t].op # "any"
      BY <1>7 DEF SetEvent, ResetEvent, IInv, CallOK, PlaceOK, SignalPCs, obj
    <2>2. Alone(t)
      BY <1>7 DEF Alone
    <2>3. call' = call /\ count' = count /\ ~Inside(t) /\ ~Inside(t)'
      BY <1>7 DEF SetEvent, ResetEvent, Goto, Signalled, Inside, IInv, TypeOK
    <2>4. Wants(t) = {} /\ Wants(t)' = {}
      BY <2>1, <2>3 DEF Wants, Wanting
    <2>5. Wnt' = Wnt /\ Nst' = Nst
      BY <2>2, <2>3, <2>4, WantsSame, NestSame
    <2>6. PICK value \in {0, 1} : word' = [word EXCEPT ![e] = value]
      BY <1>7 DEF SetEvent, ResetEvent
    <2>7. e \in Objects \ Mutexes
      BY <2>1, ObjectsAssumption DEF Objects
    <2>8. Own' = Own /\ Sig' = [Sig EXCEPT ![e] = value]
      BY <2>6, <2>7, OneSignal DEF IInv
    <2> QED
      BY <2>1, <2>5, <2>8 DEF EventStep, Promised
  <1>9. ASSUME NEW t \in Threads, NotOwned(t) PROVE Promised
    <2>1. Alone(t)
      BY <1>9 DEF Alone
    <2>2. ~Inside(t) /\ ~Inside(t)' /\ Wants(t)' = {}
      BY <1>9 DEF NotOwned, Return, Goto, Inside, Wants, Wanting, IInv, TypeOK
    <2> QED
      BY <1>9, <2>1, <2>2, Quiet DEF NotOwned, shared
  <1>10. ASSUME NEW t \in Threads, ReleaseMutex(t) \/ UnlockMutex(t) PROVE Promised
    <2> DEFINE m == obj(t)
    <2>1. m \in Mutexes /\ m \in Objects /\ word[m] = t /\ call[t].op # "any"
      BY <1>10 DEF ReleaseMutex, UnlockMutex, IInv, CallOK, PlaceOK, SignalPCs, OwnerOK,
                   OwnedOK, Leaving, Objects, obj
    <2>2. Alone(t)
      BY <1>10 DEF Alone
    <2>3. call' = call /\ i' = i
      BY <1>10 DEF ReleaseMutex, UnlockMutex
    <2>4. Wnt' = Wnt
      BY <2>1, <2>2, <2>3, WantsSame DEF Wants, Wanting
    <2>5. Sig' = Sig
      BY <1>10, <2>1 DEF ReleaseMutex, UnlockMutex, Sig, IInv, TypeOK
    <2>6. ASSUME NEW n \in Mutexes, n # m PROVE Nesting(n)' = Nesting(n)
      <3>1. count'[n] = count[n]
        BY <1>10, <2>6 DEF ReleaseMutex, UnlockMutex, IInv, TypeOK
      <3>2. ASSUME NEW u \in Threads
            PROVE  /\ Entering(u, n)' <=> Entering(u, n)
                   /\ Leaving(u, n)' <=> Leaving(u, n)
        <4>1. CASE u = t
          BY <4>1, <1>10, <2>3, <2>6 DEF ReleaseMutex, UnlockMutex, Goto, Entering, Leaving, IInv, TypeOK, obj
        <4>2. CASE u # t
          BY <4>2, <2>2, OthersStay DEF IInv, Entering, Leaving, obj
        <4> QED
          BY <4>1, <4>2
      <3> QED
        BY <3>1, <3>2 DEF Nesting
    <2>7. CASE UnlockMutex(t)
      <3>1. Nesting(m) = 1
        BY <2>1, <2>7, NestingIs DEF UnlockMutex, Leaving
      <3>2. word' = [word EXCEPT ![m] = 0]
        BY <2>7 DEF UnlockMutex
      <3>3. word'[m] = 0 /\ Own' = [Own EXCEPT ![m] = 0]
        BY <3>2, <2>1, OneOwner DEF IInv
      <3>4. Nesting(m)' = 0
        <4>1. count'[m] = 0
          BY <3>3, <2>1 DEF IInv, OwnerOK
        <4>2. \A u \in Threads : ~Entering(u, m)' /\ ~Leaving(u, m)'
          <5>1. ASSUME NEW u \in Threads PROVE ~Entering(u, m)' /\ ~Leaving(u, m)'
            <6>1. OwnedOK(m, u)'
              <7> HIDE DEF m
              <7>1. \A n \in Mutexes : OwnedOK(n, u)'
                BY DEF IInv, OwnerOK
              <7>2. m' = m
                BY <2>3 DEF obj, m
              <7> QED
                BY <7>1, <7>2, <2>1
            <6>2. m' = m
              BY <2>3 DEF obj
            <6> HIDE DEF m
            <6> QED
              BY <6>1, <6>2, <3>3, <2>1, ThreadsAssumption DEF OwnedOK
          <5> QED
            BY <5>1
        <4> HIDE DEF m
        <4>3. m' = m
          BY <2>3 DEF obj, m
        <4> QED
          BY <4>1, <4>2, <4>3 DEF Nesting
      <3>5. Nst[m] = 1 /\ Nst' = [Nst EXCEPT ![m] = @ - 1] /\ Own[m] = t
        <4> HIDE DEF m
        <4>1. m' = m
          BY <2>3 DEF obj, m
        <4> QED
          BY <4>1, <2>1, <2>6, <3>1, <3>4, OneNesting DEF Own
      <3> QED
        BY <2>1, <2>4, <2>5, <3>3, <3>5 DEF DisownStep, Promised
    <2>8. CASE ReleaseMutex(t)
      <3>1. Own' = Own
        BY <2>8 DEF ReleaseMutex, Own
      <3>2. ~Entering(t, m) /\ ~Leaving(t, m) /\ count[m] = held[t][m] /\ held[t][m] \in Nat \ {0}
        BY <2>8, <2>1 DEF ReleaseMutex, Entering, Leaving, IInv, OwnerOK, OwnedOK, TypeOK
      <3>3. Nesting(m) = count[m]
        BY <3>2, <2>1, NestingIs
      <3>4. count'[m] = count[m] - 1
        BY <2>8, <2>1 DEF ReleaseMutex, IInv, TypeOK
      <3>5. word'[m] = t
        BY <2>8, <2>1 DEF ReleaseMutex
      <3>6. CASE count[m] = 1
        <4>1. Leaving(t, m)'
          BY <3>6, <2>8, <2>3 DEF ReleaseMutex, Goto, Leaving, IInv, TypeOK, obj
        <4>2. Nesting(m)' = 1
          BY <4>1 DEF Nesting
        <4>3. Nst' = Nst
          <5> HIDE DEF m
          <5>1. m' = m
            BY <2>3 DEF obj, m
          <5> QED
            BY <5>1, <4>2, <3>6, <3>3, <2>6 DEF Nst
        <4> QED
          BY <4>3, <3>1, <2>4, <2>5 DEF Same, Promised
      <3>7. CASE count[m] # 1
        <4>1. pc'[t] = "done"
          BY <3>7, <2>8 DEF ReleaseMutex, Goto, IInv, TypeOK
        <4>2. ~Entering(t, m)' /\ ~Leaving(t, m)'
          BY <4>1 DEF Entering, Leaving
        <4>3. Nesting(m)' = count'[m]
          <5> HIDE DEF m
          <5>1. m' = m
            BY <2>3 DEF obj, m
          <5>2. \A u \in Threads : ~Entering(u, m)' /\ ~Leaving(u, m)'
            BY <4>2, <5>1, <3>5, <2>1 DEF IInv, OwnerOK, OwnedOK
          <5> QED
            BY <5>1, <5>2 DEF Nesting
        <4>4. Nst' = [Nst EXCEPT ![m] = @ - 1] /\ Nst[m] # 1 /\ Own[m] = t
          <5> HIDE DEF m
          <5>1. m' = m
            BY <2>3 DEF obj, m
          <5> QED
            BY <5>1, <4>3, <3>3, <3>4, <3>7, <2>1, <2>6 DEF Nst, Own
        <4>5. Own' = [Own EXCEPT ![m] = t]
          <5> HIDE DEF m
          <5> QED
            BY <3>1, <2>1 DEF Own
        <4> QED
          BY <4>4, <4>5, <2>1, <2>4, <2>5 DEF DisownStep, Promised
      <3> QED
        BY <3>6, <3>7
    <2> QED
      BY <1>10, <2>7, <2>8
  <1>12. ASSUME NEW t \in Threads, Wake(t) PROVE Promised
    <2>1. word' = word /\ count' = count /\ call' = call /\ i' = i
      BY <1>12 DEF Wake, shared
    <2>2. call[t].op # "any"
      BY <1>12 DEF Wake, IInv, CallOK, PlaceOK, SignalPCs
    <2>3. pc'[t] \in {"done", "pulse"}
      BY <1>12 DEF Wake, Signalled, IInv, TypeOK
    <2>4. \A u \in Threads \ {t} :
             pc'[u] = pc[u] \/ (pc[u] = "asleep" /\ pc'[u] = "awake")
      BY <1>12 DEF Wake, Sleepers, IInv, TypeOK
    <2>5. ASSUME NEW u \in Threads PROVE Wants(u)' = Wants(u)
      BY <2>1, <2>2, <2>3, <2>4 DEF Wants, Wanting, Waited
    <2>6. ASSUME NEW u \in Threads, NEW m \in Mutexes
          PROVE  (Entering(u, m)' <=> Entering(u, m)) /\ (Leaving(u, m)' <=> Leaving(u, m))
      BY <1>12, <2>1, <2>3, <2>4 DEF Wake, Entering, Leaving, obj
    <2>7. Nst' = Nst
      BY <2>1, <2>6 DEF Nst, Nesting
    <2>8. Wnt' = Wnt /\ Sig' = Sig /\ Own' = Own
      BY <2>1, <2>5 DEF Wnt, Sig, Own
    <2> QED
      BY <2>7, <2>8 DEF Same, Promised
  <1>13. ASSUME NEW t \in Threads, CheckApc(t) \/ FutexWait(t) \/ Interrupted(t) PROVE Promised
    <2>1. Alone(t)
      BY <1>13 DEF Alone, WaitAny
    <2>2. word' = word /\ count' = count /\ call' = call
      BY <1>13 DEF CheckApc, FutexWait, Interrupted, shared
    <2>3. /\ pc[t] \in {"again", "awake", "sleep", "asleep"}
          /\ pc'[t] \in {"user_apc", "try", "asleep", "again"}
      BY <1>13 DEF CheckApc, FutexWait, Interrupted, Goto, IInv, TypeOK
    <2>4. ~Inside(t) /\ ~Inside(t)' /\ Wants(t)' = Wants(t)
      BY <2>2, <2>3 DEF Inside, Wants, Wanting, Waited
    <2> QED
      BY <2>1, <2>2, <2>4, Quiet
  <1>14. ASSUME NEW t \in Threads, UserApc(t) \/ TimedOut(t) \/ Leave(t) PROVE Promised
    <2>1. Alone(t)
      BY <1>14 DEF Alone, WaitAny
    <2>2. word' = word /\ count' = count
      BY <1>14 DEF UserApc, TimedOut, Leave, shared
    <2>3. ~Inside(t) /\ pc'[t] \in {"done", "idle"}
      BY <1>14 DEF UserApc, TimedOut, Leave, Return, Goto, Inside, IInv, TypeOK
    <2>4. ~Inside(t)' /\ Wants(t)' = {}
      BY <2>3 DEF Inside, Wants, Wanting
    <2> QED
      BY <2>1, <2>2, <2>3, <2>4, Quiet
  <1>15. ASSUME NEW t \in Threads, SkipUnsignaled(t) \/ SkipMutex(t) PROVE Promised
    <2>1. Alone(t)
      BY <1>15 DEF Alone, WaitAny
    <2>2. word' = word /\ count' = count /\ call' = call
      BY <1>15 DEF SkipUnsignaled, SkipMutex, shared
    <2>3. pc[t] = "try" /\ pc'[t] \in {"try", "sleep", "done"}
      BY <1>15 DEF SkipUnsignaled, SkipMutex, NextObject, Return, Goto, IInv, NothingAbandoned, TypeOK
    <2>4. ~Inside(t) /\ ~Inside(t)' /\ (Wants(t)' = Wants(t) \/ Wants(t)' = {})
      BY <2>2, <2>3 DEF Inside, Wants, Wanting, Waited
    <2> QED
      BY <2>1, <2>2, <2>4, Quiet
  <1>16. ASSUME NEW t \in Threads, TrySignaled(t) PROVE Promised
    <2> DEFINE o == obj(t)
    <2>1. Alone(t)
      BY <1>16 DEF Alone, WaitAny
    <2>2. o \in Objects \ Mutexes /\ o \in Wants(t)
      BY <1>16, ObjectInRange DEF TrySignaled, IInv, CallOK, PlaceOK, WaitPCs, Wants, Wanting, Waited, obj
    <2>3. /\ word[o] > 0 /\ count' = count
          /\ word' = [word EXCEPT ![o] = IF o \in ManualEvents THEN @ ELSE @ - 1]
      BY <1>16 DEF TrySignaled
    <2>4. pc'[t] = "done" /\ ~Inside(t)
      BY <1>16 DEF TrySignaled, Return, Goto, Inside, IInv, TypeOK
    <2>5. ~Inside(t)' /\ Wants(t)' = {}
      BY <2>4 DEF Inside, Wants, Wanting
    <2>6. Nst' = Nst /\ Wnt' = [Wnt EXCEPT ![t] = {}]
      BY <2>1, <2>3, <2>4, <2>5, NestSame, WantsKept
    <2>7. /\ Own' = Own /\ Sig[o] > 0
          /\ Sig' = [Sig EXCEPT ![o] = IF o \in ManualEvents THEN @ ELSE @ - 1]
      <3> DEFINE v == IF o \in ManualEvents THEN word[o] ELSE word[o] - 1
      <3>1. word' = [word EXCEPT ![o] = v]
        BY <2>3
      <3> HIDE DEF o, v
      <3>2. Own' = Own /\ Sig' = [Sig EXCEPT ![o] = v] /\ Sig[o] = word[o]
        BY <2>2, <3>1, OneSignal DEF IInv
      <3> QED
        BY <2>3, <3>2 DEF v
    <2> QED
      BY <2>2, <2>6, <2>7 DEF UnitStep, Wnt, Promised
  <1>17. ASSUME NEW t \in Threads, TryOwnMutex(t) \/ TryFreeMutex(t) PROVE Promised
    <2> DEFINE m == obj(t)
    <2>1. Alone(t)
      BY <1>17 DEF Alone, WaitAny
    <2>2. m \in Mutexes /\ m \in Wants(t)
      BY <1>17 DEF TryOwnMutex, TryFreeMutex, IInv, CallOK, PlaceOK, WaitPCs, Wants, Wanting, Waited, obj
    <2>3. call' = call /\ i' = i /\ pc[t] = "try"
      BY <1>17 DEF TryOwnMutex, TryFreeMutex
    <2>4. pc'[t] \in {"done", "own"}
      BY <1>17 DEF TryOwnMutex, TryFreeMutex, Return, Goto, IInv, TypeOK
    <2>5. Wnt' = [Wnt EXCEPT ![t] = {}] /\ m \in Wnt[t]
      <3>1. Wants(t)' = {}
        BY <2>4 DEF Wants, Wanting
      <3> QED
        BY <2>1, <2>2, <3>1, WantsKept DEF Wnt
    <2>6. word[m] \in {0, t} /\ word' = [word EXCEPT ![m] = t]
      BY <1>17, <2>2 DEF TryOwnMutex, TryFreeMutex, IInv, TypeOK
    <2>7. m' = m
      BY <2>3 DEF obj
    <2>8. ~Inside(t) /\ ~Entering(t, m) /\ ~Leaving(t, m)
      BY <2>3 DEF Inside, Entering, Leaving
    <2>9. Own' = [Own EXCEPT ![m] = t] /\ Sig' = Sig /\ Own[m] \in {0, t}
      <3> HIDE DEF m
      <3> QED
        BY <2>2, <2>6, OneOwner DEF IInv
    <2>10. Nesting(m) = count[m]
      <3> HIDE DEF m
      <3>1. word[m] = 0 => count[m] = 0
        BY <2>2 DEF IInv, OwnerOK
      <3> QED
        BY <2>2, <2>6, <2>8, <3>1, NestingIs
    <2>11. Nesting(m)' = count[m] + 1
      <3>1. CASE TryOwnMutex(t)
        <4>1. pc'[t] = "done" /\ count'[m] = count[m] + 1
          BY <3>1, <2>2 DEF TryOwnMutex, Return, Goto, IInv, TypeOK
        <4>2. ~Entering(t, m)' /\ ~Leaving(t, m)'
          BY <4>1 DEF Entering, Leaving
        <4> HIDE DEF m
        <4>3. ASSUME NEW u \in Threads PROVE ~Entering(u, m)' /\ ~Leaving(u, m)'
          <5>1. word'[m] = t
            BY <2>2, <2>6, OneOwner DEF IInv
          <5>2. \A n \in Mutexes : OwnedOK(n, u)'
            BY DEF IInv, OwnerOK
          <5>3. OwnedOK(m, u)'
            BY <5>2, <2>2, <2>7
          <5> QED
            BY <5>1, <5>3, <4>2, <2>7 DEF OwnedOK
        <4> QED
          BY <4>1, <4>3, <2>7 DEF Nesting
      <3>2. CASE TryFreeMutex(t)
        <4>1. pc'[t] = "own"
          BY <3>2 DEF TryFreeMutex, Goto, IInv, TypeOK
        <4>2. Entering(t, m)'
          BY <4>1, <2>7 DEF Entering
        <4>3. count[m] = 0
          BY <3>2, <2>2 DEF TryFreeMutex, IInv, OwnerOK
        <4> QED
          BY <4>2, <4>3 DEF Nesting
      <3> QED
        BY <1>17, <3>1, <3>2
    <2>12. ASSUME NEW n \in Mutexes, n # m PROVE Nesting(n)' = Nesting(n)
      <3>1. count'[n] = count[n]
        BY <1>17, <2>12 DEF TryOwnMutex, TryFreeMutex, IInv, TypeOK
      <3>2. ASSUME NEW u \in Threads
            PROVE  (Entering(u, n)' <=> Entering(u, n)) /\ (Leaving(u, n)' <=> Leaving(u, n))
        <4>1. CASE u = t
          BY <4>1, <2>3, <2>4, <2>12 DEF Entering, Leaving, obj
        <4>2. CASE u # t
          BY <4>2, <2>1, OthersStay DEF IInv, Entering, Leaving, obj
        <4> QED
          BY <4>1, <4>2
      <3> QED
        BY <3>1, <3>2 DEF Nesting
    <2>13. Nst' = [Nst EXCEPT ![m] = @ + 1]
      <3> HIDE DEF m
      <3>1. \A n \in Mutexes : n = m => Nesting(n)' = count[m] + 1
        BY <2>7, <2>11
      <3>2. Nst' = [Nst EXCEPT ![m] = count[m] + 1] /\ Nst[m] = count[m]
        BY <2>2, <2>10, <2>12, <3>1, OneNesting
      <3> QED
        BY <3>2
    <2> QED
      BY <2>2, <2>5, <2>9, <2>13 DEF OwnStep, Promised
  <1>18. ASSUME NEW t \in Threads, OwnMutex(t) PROVE Promised
    <2> DEFINE m == obj(t)
    <2>1. Alone(t) /\ pc[t] = "own" /\ m \in Mutexes
      BY <1>18 DEF Alone, WaitAny, OwnMutex, IInv, NothingAbandoned, CallOK, PlaceOK, obj
    <2>2. word' = word /\ call' = call /\ i' = i /\ pc'[t] = "done"
      BY <1>18 DEF OwnMutex, Return, Goto, IInv, TypeOK
    <2>3. Wnt' = Wnt /\ Sig' = Sig /\ Own' = Own
      <3>1. Wants(t) = {} /\ Wants(t)' = {}
        BY <2>1, <2>2 DEF Wants, Wanting
      <3> QED
        BY <2>1, <2>2, <3>1, WantsSame DEF Sig, Own
    <2>4. Entering(t, m) /\ word[m] = t /\ count' = [count EXCEPT ![m] = 1]
      BY <1>18, <2>1, InsideOwns DEF OwnMutex, Entering
    <2>5. m' = m /\ ~Entering(t, m)' /\ ~Leaving(t, m)'
      BY <2>2 DEF Entering, Leaving, obj
    <2>6. ASSUME NEW n \in Mutexes PROVE Nesting(n)' = Nesting(n)
      <3>1. CASE n = m
        <4>1. Nesting(n) = 1
          BY <3>1, <2>4 DEF Nesting
        <4>2. count'[n] = 1
          BY <3>1, <2>4 DEF IInv, TypeOK
        <4> HIDE DEF m
        <4>3. ASSUME NEW u \in Threads PROVE ~Entering(u, n)' /\ ~Leaving(u, n)'
          <5>1. OwnedOK(n, u)'
            BY DEF IInv, OwnerOK
          <5>2. word'[n] = t
            BY <2>2, <2>4, <3>1
          <5> QED
            BY <5>1, <5>2, <3>1, <2>5 DEF OwnedOK
        <4> QED
          BY <4>1, <4>2, <4>3 DEF Nesting
      <3>2. CASE n # m
        <4>1. count'[n] = count[n]
          BY <3>2, <2>4 DEF IInv, TypeOK
        <4>2. ASSUME NEW u \in Threads
              PROVE  (Entering(u, n)' <=> Entering(u, n)) /\ (Leaving(u, n)' <=> Leaving(u, n))
          <5>1. CASE u = t
            BY <5>1, <3>2, <2>1, <2>2 DEF Entering, Leaving, obj
          <5>2. CASE u # t
            BY <5>2, <2>1, OthersStay DEF IInv, Entering, Leaving, obj
          <5> QED
            BY <5>1, <5>2
        <4> QED
          BY <4>1, <4>2 DEF Nesting
      <3> QED
        BY <3>1, <3>2
    <2>7. Nst' = Nst
      BY <2>6 DEF Nst
    <2> QED
      BY <2>3, <2>7 DEF Same, Promised
  <1>19. CASE QueueApc \/ WakeApc
    <2>1. word' = word /\ count' = count /\ call' = call /\ i' = i
      BY <1>19 DEF QueueApc, WakeApc
    <2>2. \A u \in Threads : pc'[u] = pc[u] \/ (pc[u] = "asleep" /\ pc'[u] = "awake")
      BY <1>19 DEF QueueApc, WakeApc, IInv, TypeOK
    <2>3. ASSUME NEW u \in Threads PROVE Wants(u)' = Wants(u)
      BY <2>1, <2>2 DEF Wants, Wanting, Waited
    <2>4. ASSUME NEW u \in Threads, NEW m \in Mutexes
          PROVE  (Entering(u, m)' <=> Entering(u, m)) /\ (Leaving(u, m)' <=> Leaving(u, m))
      BY <2>1, <2>2 DEF Entering, Leaving, obj
    <2>5. Nst' = Nst
      BY <2>1, <2>4 DEF Nst, Nesting
    <2> QED
      BY <2>1, <2>3, <2>5 DEF Wnt, Sig, Own, Same, Promised
  <1>20. CASE UNCHANGED vars
    BY <1>20 DEF vars, Same, Sig, Own, Nst, Wnt, Wants, Wanting, Waited, Nesting, Entering,
                 Leaving, obj, Promised
  <1> QED
    BY <1>1, <1>2, <1>3, <1>4, <1>5, <1>6, <1>7, <1>9, <1>10, <1>12, <1>13, <1>14, <1>15,
       <1>16, <1>17, <1>18, <1>19, <1>20
       DEF Next, Calls, Step, Signal, WaitAny

\* fsync keeps the promise of the NT objects: whatever threads do to semaphores,
\* mutexes and events by its atomic instructions, in whatever order, is what
\* they could have done by the atomic operations of NtSync, as long as the sums
\* of fsync_release_semaphore do not wrap.
THEOREM Implementation == CountsFit => (Spec => ImplementsNtSync)
  <1> SUFFICES ASSUME CountsFit
               PROVE  Spec => ImplementsNtSync
    OBVIOUS
  <1>1. IInv /\ IInv' /\ [Next]_vars => [Nt!NNext]_(Nt!nvars)
    BY StepPromised, PromisedIsNt
  <1> QED
    BY <1>1, InitMapped, Inductive, PTL DEF Spec, ImplementsNtSync, Nt!NSpec

-----------------------------------------------------------------------------
(* Deaths, and waits for all objects.                                      *)

\* What the variables are, as far as mutexes depend on it.
MutexTyped ==
    /\ word \in [Objects -> Int] /\ \A m \in Mutexes : word[m] \in Owners
    /\ count \in [Mutexes -> Int]
    /\ pc \in [Threads -> PCs \union {"dead"}]
    /\ DOMAIN call = Threads /\ DOMAIN i = Threads
    /\ expect \in [Threads -> [Mutexes -> Owners]]
    /\ held \in [Threads -> [Mutexes -> Int]]
    /\ victim \in Threads \union {0} /\ todo \subseteq Mutexes
    /\ marking = {} \/ \E m \in Mutexes : marking = {m}
    /\ stores \subseteq {"tid", "count", "wake"} /\ overwritten \subseteq Mutexes

\* The object a thread works on has the type its place is for.
AtPlace(t) ==
    /\ pc[t] = "idle" => i[t] = 1
    /\ pc[t] = "release_semaphore" => obj(t) \in Semaphores
    /\ pc[t] \in {"set", "reset", "pulse"} => obj(t) \in Events
    /\ pc[t] \in {"set", "wake"} /\ call[t].op = "pulse" => obj(t) \in Events
    /\ pc[t] \in {"release_mutex", "unlock", "own", "own_abandoned", "try_abandoned"} =>
           obj(t) \in Mutexes
    /\ pc[t] \in {"release_semaphore", "release_mutex", "unlock"} => call[t].op # "pulse"

AtMutex(t, m) == pc[t] \in {"own", "own_abandoned", "unlock"} /\ obj(t) = m

\* Who is in a mutex's own code is in mutex->tid, also where the count is wrong.
AtMutexOwns == \A t \in Threads, m \in Mutexes : AtMutex(t, m) => word[m] = t

\* A living thread and a mutex whose count nobody overwrote.
LivingOwnedOK(t, m) ==
    /\ held[t][m] >= 0
    /\ held[t][m] > 0 => word[m] = t /\ count[m] = held[t][m]
    /\ AtMutex(t, m) => held[t][m] = 0
    /\ word[m] = t => held[t][m] > 0 \/ AtMutex(t, m)

LivingOwn == \A t \in Threads, m \in Mutexes \ overwritten : Alive(t) => LivingOwnedOK(t, m)

\* The dead own only what the server has still to come to, and what it marks is theirs
\* until it has stored ~0.
DeadSwept ==
    /\ \A t \in Threads, m \in Mutexes :
         ~Alive(t) /\ word[m] = t => victim = t /\ (m \in todo \/ (m \in marking /\ "tid" \in stores))
    /\ \A m \in marking : "tid" \in stores => word[m] = victim
    /\ victim # 0 => ~Alive(victim)
    /\ victim = 0 => todo = {} /\ marking = {}

OwnerInv == AtMutexOwns /\ LivingOwn /\ DeadSwept

AInv == MutexTyped /\ (\A t \in Threads : AtPlace(t)) /\ OwnerInv

-----------------------------------------------------------------------------
(* Variables and places.                                                   *)

\* Thread ids are neither 0 nor ~0.
LEMMA ThreadIds == 0 \notin Threads /\ Abandoned \notin Threads
  BY ThreadsAssumption DEF Abandoned

\* The initial states.
LEMMA InitAInv == AInit => AInv
  <1> SUFFICES ASSUME AInit PROVE AInv
    OBVIOUS
  <1>1. /\ word \in [Objects -> 0..SemMax] /\ \A m \in Mutexes : word[m] = 0
        /\ count = [m \in Mutexes |-> 0] /\ pc = [t \in Threads |-> "idle"]
        /\ call = [t \in Threads |-> NoCall] /\ i = [t \in Threads |-> 1]
        /\ expect = [t \in Threads |-> [m \in Mutexes |-> 0]]
        /\ held = [t \in Threads |-> [m \in Mutexes |-> 0]]
        /\ victim = 0 /\ todo = {} /\ marking = {} /\ stores = {} /\ overwritten = {}
    BY DEF AInit, Init
  <1>2. MutexTyped
    <2>1. word \in [Objects -> Int]
      BY <1>1, SemaphoreAssumption
    <2>2. pc \in [Threads -> PCs \union {"dead"}]
      BY <1>1 DEF PCs
    <2> QED
      BY <1>1, <2>1, <2>2 DEF MutexTyped, Owners
  <1>3. \A t \in Threads : AtPlace(t)
    BY <1>1 DEF AtPlace
  <1>4. OwnerInv
    BY <1>1, ThreadIds DEF OwnerInv, AtMutexOwns, LivingOwn, LivingOwnedOK, DeadSwept, AtMutex, Alive
  <1> QED
    BY <1>2, <1>3, <1>4 DEF AInv

\* One thread goes on to another place, maybe with another call or index.
Moves(t, l) ==
    /\ pc' = [pc EXCEPT ![t] = l]
    /\ call' = call \/ \E c : call' = [call EXCEPT ![t] = c]
    /\ i' = i \/ \E k : i' = [i EXCEPT ![t] = k]

\* The others stay where they are.
LEMMA MovesAlone ==
    ASSUME MutexTyped, NEW t \in Threads, NEW l, Moves(t, l)
    PROVE  /\ pc'[t] = l /\ DOMAIN call' = Threads /\ DOMAIN i' = Threads
           /\ \A u \in Threads : u # t => pc'[u] = pc[u] /\ call'[u] = call[u] /\ i'[u] = i[u]
  BY DEF MutexTyped, Moves

LEMMA PlacesKept ==
    ASSUME MutexTyped, \A u \in Threads : AtPlace(u), NEW t \in Threads, NEW l, Moves(t, l), AtPlace(t)'
    PROVE  (\A u \in Threads : AtPlace(u))'
  <1>1. ASSUME NEW u \in Threads, u # t PROVE AtPlace(u)'
    <2>1. pc'[u] = pc[u] /\ call'[u] = call[u] /\ i'[u] = i[u]
      BY <1>1, MovesAlone
    <2> QED
      BY <2>1 DEF AtPlace, obj
  <1> QED
    BY <1>1

\* A thread that is in no signalling call, no mutex's code and not idle is anywhere.
LEMMA PlaceFree ==
    ASSUME NEW t \in Threads,
           pc[t] \notin {"idle", "release_semaphore", "set", "reset", "pulse", "release_mutex",
                         "unlock", "own", "own_abandoned", "try_abandoned"},
           pc[t] # "wake" \/ call[t].op # "pulse"
    PROVE  AtPlace(t)
  BY DEF AtPlace

\* The sleepers that are woken have no place to keep.
LEMMA PlacesWoken ==
    ASSUME MutexTyped, \A u \in Threads : AtPlace(u), UNCHANGED <<call, i>>,
           \A u \in Threads : pc'[u] = pc[u] \/ pc'[u] = "awake" \/ AtPlace(u)'
    PROVE  (\A u \in Threads : AtPlace(u))'
  <1>1. ASSUME NEW u \in Threads, pc'[u] = pc[u] PROVE AtPlace(u)'
    BY <1>1 DEF AtPlace, obj
  <1>2. ASSUME NEW u \in Threads, pc'[u] = "awake" PROVE AtPlace(u)'
    BY <1>2 DEF AtPlace
  <1> QED
    BY <1>1, <1>2

\* A signalling call starts with its object.
LEMMA CallStarts ==
    ASSUME MutexTyped, NEW t \in Threads, AtPlace(t), NEW l, NEW op, NEW o, Enter(t, l, ToObject(op, o))
    PROVE  Moves(t, l) /\ pc'[t] = l /\ call'[t].op = op /\ obj(t)' = o
  <1>1. pc'[t] = l /\ call'[t] = ToObject(op, o) /\ i'[t] = 1 /\ Moves(t, l)
    BY DEF MutexTyped, Enter, Goto, AtPlace, Moves
  <1> QED
    BY <1>1 DEF obj, ToObject, Call

LEMMA StepPlaces == AInv /\ [ANext]_avars => (\A t \in Threads : AtPlace(t))'
  <1> SUFFICES ASSUME AInv, [ANext]_avars PROVE (\A t \in Threads : AtPlace(t))'
    OBVIOUS
  <1>0. MutexTyped /\ \A t \in Threads : AtPlace(t)
    BY DEF AInv
  <1>1. ASSUME NEW t \in Threads, Calls(t) PROVE (\A u \in Threads : AtPlace(u))'
    <2>1. CASE CallReleaseSemaphore(t)
      <3>1. PICK o \in Semaphores : Enter(t, "release_semaphore", ToObject("semaphore", o))
        BY <2>1 DEF CallReleaseSemaphore
      <3>2. Moves(t, "release_semaphore") /\ pc'[t] = "release_semaphore" /\ call'[t].op = "semaphore" /\ obj(t)' = o
        BY <1>0, <3>1, CallStarts
      <3> QED
        BY <1>0, <3>2, PlacesKept DEF AtPlace
    <2>2. CASE CallReleaseMutex(t)
      <3>1. PICK o \in Mutexes : Enter(t, "release_mutex", ToObject("mutex", o))
        BY <2>2 DEF CallReleaseMutex
      <3>2. Moves(t, "release_mutex") /\ pc'[t] = "release_mutex" /\ call'[t].op = "mutex" /\ obj(t)' = o
        BY <1>0, <3>1, CallStarts
      <3> QED
        BY <1>0, <3>2, PlacesKept DEF AtPlace
    <2>3. CASE CallSetEvent(t)
      <3>1. PICK o \in Events, op \in {"set", "pulse"} : Enter(t, "set", ToObject(op, o))
        BY <2>3 DEF CallSetEvent
      <3>2. Moves(t, "set") /\ pc'[t] = "set" /\ call'[t].op = op /\ obj(t)' = o
        BY <1>0, <3>1, CallStarts
      <3> QED
        BY <1>0, <3>2, PlacesKept DEF AtPlace
    <2>4. CASE CallResetEvent(t)
      <3>1. PICK o \in Events : Enter(t, "reset", ToObject("reset", o))
        BY <2>4 DEF CallResetEvent
      <3>2. Moves(t, "reset") /\ pc'[t] = "reset" /\ call'[t].op = "reset" /\ obj(t)' = o
        BY <1>0, <3>1, CallStarts
      <3> QED
        BY <1>0, <3>2, PlacesKept DEF AtPlace
    <2>5. CASE CallWaitAny(t)
      <3>1. Moves(t, "again")
        BY <2>5 DEF CallWaitAny, Enter, Goto, Moves
      <3>2. pc'[t] = "again"
        BY <1>0, <3>1, MovesAlone
      <3> QED
        BY <1>0, <3>1, <3>2, PlacesKept DEF AtPlace
    <2> QED
      BY <1>1, <2>1, <2>2, <2>3, <2>4, <2>5 DEF Calls
  \* A move to a place that asks nothing of the call.
  <1>2. ASSUME NEW t \in Threads, NEW l, Moves(t, l),
               l \notin {"idle", "release_semaphore", "set", "reset", "pulse", "release_mutex", "wake",
                         "unlock", "own", "own_abandoned", "try_abandoned"}
        PROVE  (\A u \in Threads : AtPlace(u))'
    <2>1. pc'[t] = l
      BY <1>0, <1>2, MovesAlone
    <2> QED
      BY <1>0, <1>2, <2>1, PlacesKept DEF AtPlace
  \* A move with the same call and object.
  <1>3. ASSUME NEW t \in Threads, NEW l, pc' = [pc EXCEPT ![t] = l], UNCHANGED <<call, i>>,
               AtPlace(t)'
        PROVE  (\A u \in Threads : AtPlace(u))'
    BY <1>0, <1>3, PlacesKept DEF Moves
  <1>4. ASSUME NEW t \in Threads, TimedOut(t) \/ Interrupted(t) PROVE (\A u \in Threads : AtPlace(u))'
    BY <1>2, <1>4 DEF TimedOut, Interrupted, Return, Goto, Moves
  <1>5. ASSUME NEW t \in Threads, Signal(t) PROVE (\A u \in Threads : AtPlace(u))'
    <2>0. AtPlace(t) /\ pc \in [Threads -> PCs \union {"dead"}]
      BY <1>0 DEF MutexTyped
    <2>1. CASE ReleaseSemaphore(t)
      <3>1. CASE pc' = [pc EXCEPT ![t] = "done"]
        BY <1>2, <2>1, <3>1 DEF ReleaseSemaphore, Moves
      <3>2. CASE pc' = [pc EXCEPT ![t] = "wake"]
        BY <1>3, <2>0, <2>1, <3>2 DEF ReleaseSemaphore, AtPlace
      <3> QED
        BY <2>1, <3>1, <3>2 DEF ReleaseSemaphore, Return, Goto
    <2>2. CASE SetEvent(t)
      <3>1. pc' = [pc EXCEPT ![t] = "wake"] \/ pc' = [pc EXCEPT ![t] = "done"]
            \/ pc' = [pc EXCEPT ![t] = "pulse"]
        BY <2>2 DEF SetEvent, Goto, Signalled
      <3>2. obj(t) \in Events /\ UNCHANGED <<call, i>>
        BY <2>0, <2>2 DEF SetEvent, AtPlace
      <3>3. AtPlace(t)'
        BY <2>0, <3>1, <3>2 DEF AtPlace, obj
      <3> QED
        BY <1>3, <3>1, <3>2, <3>3
    <2>3. CASE ResetEvent(t)
      BY <1>2, <2>3 DEF ResetEvent, Goto, Moves
    <2>4. CASE NotOwned(t)
      BY <1>2, <2>4 DEF NotOwned, Return, Goto, Moves
    <2>5. CASE ReleaseMutex(t)
      <3>1. pc' = [pc EXCEPT ![t] = "unlock"] \/ pc' = [pc EXCEPT ![t] = "done"]
        BY <2>5 DEF ReleaseMutex, Goto
      <3>2. obj(t) \in Mutexes /\ call[t].op # "pulse" /\ UNCHANGED <<call, i>>
        BY <2>0, <2>5 DEF ReleaseMutex, AtPlace
      <3>3. AtPlace(t)'
        BY <2>0, <3>1, <3>2 DEF AtPlace, obj
      <3> QED
        BY <1>3, <3>1, <3>2, <3>3
    <2>6. CASE UnlockMutex(t)
      <3>1. pc' = [pc EXCEPT ![t] = "wake"] /\ call[t].op # "pulse" /\ UNCHANGED <<call, i>>
        BY <2>0, <2>6 DEF UnlockMutex, AtPlace, Goto
      <3>2. AtPlace(t)'
        BY <2>0, <3>1 DEF AtPlace
      <3> QED
        BY <1>3, <3>1, <3>2
    <2>7. CASE Wake(t)
      <3>1. UNCHANGED <<call, i>> /\ pc'[t] = Signalled(t)
            /\ \A u \in Threads : u # t => pc'[u] = pc[u] \/ pc'[u] = "awake"
        BY <2>7 DEF Wake
      <3>2. AtPlace(t)'
        BY <2>0, <2>7, <3>1 DEF Wake, AtPlace, Signalled, obj
      <3> QED
        BY <1>0, <3>1, <3>2, PlacesWoken
    <2> QED
      BY <1>5, <2>1, <2>2, <2>3, <2>4, <2>5, <2>6, <2>7 DEF Signal
  <1>6. ASSUME NEW t \in Threads, WaitAny(t) PROVE (\A u \in Threads : AtPlace(u))'
    <2>0. AtPlace(t) /\ pc \in [Threads -> PCs \union {"dead"}]
      BY <1>0 DEF MutexTyped
    <2>1. CASE CheckApc(t)
      BY <1>2, <2>1 DEF CheckApc, Goto, Moves
    <2>2. CASE TrySignaled(t) \/ TryOwnMutex(t) \/ OwnMutex(t) \/ FutexWait(t) \/ UserApc(t)
      BY <1>2, <2>2 DEF TrySignaled, TryOwnMutex, OwnMutex, FutexWait, UserApc, Return, Goto, Moves
    <2>3. CASE SkipUnsignaled(t) \/ SkipMutex(t)
      <3>1. call' = call /\ NextObject(t)
        BY <2>3 DEF SkipUnsignaled, SkipMutex
      <3>2. \E l \in {"try", "done", "sleep"} : pc' = [pc EXCEPT ![t] = l]
        BY <3>1 DEF NextObject, Return, Goto
      <3>3. \E k : i' = [i EXCEPT ![t] = k]
        BY <1>0, <3>1 DEF NextObject, MutexTyped
      <3> QED
        BY <1>2, <3>1, <3>2, <3>3 DEF Moves
    <2>4. CASE TryFreeMutex(t)
      <3>1. pc' = [pc EXCEPT ![t] = "own"] /\ obj(t) \in Mutexes /\ UNCHANGED <<call, i>>
        BY <2>4 DEF TryFreeMutex, Goto
      <3>2. AtPlace(t)'
        BY <2>0, <3>1 DEF AtPlace, obj
      <3> QED
        BY <1>3, <3>1, <3>2
    <2> QED
      BY <1>6, <2>1, <2>2, <2>3, <2>4 DEF WaitAny
  <1>7. ASSUME NEW t \in Threads, Leave(t) PROVE (\A u \in Threads : AtPlace(u))'
    <2>1. Moves(t, "idle") /\ i'[t] = 1
      BY <1>0, <1>7 DEF Leave, Goto, Moves, MutexTyped
    <2>2. pc'[t] = "idle"
      BY <1>0, <2>1, MovesAlone
    <2> QED
      BY <1>0, <2>1, <2>2, PlacesKept DEF AtPlace
  <1>8. ASSUME NEW t \in Threads, SeeAbandoned(t) \/ TryAbandonedMutex(t)
        PROVE  (\A u \in Threads : AtPlace(u))'
    <2>1. \E l \in {"try_abandoned", "own_abandoned"} : pc' = [pc EXCEPT ![t] = l]
      BY <1>8 DEF SeeAbandoned, TryAbandonedMutex, Goto
    <2>2. obj(t) \in Mutexes /\ UNCHANGED <<call, i>>
      BY <1>0, <1>8 DEF SeeAbandoned, TryAbandonedMutex, AtPlace
    <2>3. AtPlace(t)'
      BY <1>0, <2>1, <2>2 DEF AtPlace, obj, MutexTyped
    <2> QED
      BY <1>3, <2>1, <2>2, <2>3
  <1>9. ASSUME NEW t \in Threads, Exit(t) PROVE (\A u \in Threads : AtPlace(u))'
    BY <1>2, <1>9 DEF Exit, Goto, Moves
  <1>10. CASE QueueApc \/ WakeApc
    <2>1. UNCHANGED <<call, i>> /\ \A u \in Threads : pc'[u] = pc[u] \/ pc'[u] = "awake"
      BY <1>0, <1>10 DEF QueueApc, WakeApc, MutexTyped
    <2> QED
      BY <1>0, <2>1, PlacesWoken
  <1>11. CASE Sweep
    <2>1. UNCHANGED <<call, i>> /\ \A u \in Threads : pc'[u] = pc[u] \/ pc'[u] = "awake"
      BY <1>11 DEF Sweep, Pass, Mark, StoreTid, StoreCount, WakeSleepers, Swept, vars
    <2> QED
      BY <1>0, <2>1, PlacesWoken
  <1>12. CASE UNCHANGED avars
    BY <1>0, <1>12, PlacesWoken DEF avars, vars
  <1> QED
    BY <1>1, <1>4, <1>5, <1>6, <1>7, <1>8, <1>9, <1>10, <1>11, <1>12 DEF ANext, AStep, Step

\* A word keeps its kind of value when one object's does.
LEMMA WordTyped ==
    ASSUME MutexTyped, NEW o, NEW v, o \in Objects => v \in Int, word' = [word EXCEPT ![o] = v], o \in Mutexes => v \in Owners
    PROVE  word' \in [Objects -> Int] /\ \A m \in Mutexes : word'[m] \in Owners
  <1>1. word' \in [Objects -> Int]
    BY DEF MutexTyped
  <1>2. \A m \in Mutexes : m \in Objects
    BY DEF Objects
  <1> QED
    BY <1>1, <1>2 DEF MutexTyped

LEMMA StepTyped == AInv /\ [ANext]_avars => MutexTyped'
  <1> SUFFICES ASSUME AInv, [ANext]_avars PROVE MutexTyped'
    OBVIOUS
  <1>0. MutexTyped /\ \A t \in Threads : AtPlace(t)
    BY DEF AInv
  <1> DEFINE Words == word' \in [Objects -> Int] /\ \A m \in Mutexes : word'[m] \in Owners
             Counts == count' \in [Mutexes -> Int] /\ held' \in [Threads -> [Mutexes -> Int]]
             Calling == DOMAIN call' = Threads /\ DOMAIN i' = Threads
                        /\ expect' \in [Threads -> [Mutexes -> Owners]]
             Pcs == pc' \in [Threads -> PCs \union {"dead"}]
  <1>1. ASSUME Words, Counts, Calling, Pcs, UNCHANGED sweep PROVE MutexTyped'
    BY <1>0, <1>1 DEF MutexTyped, sweep
  <1>2. word' = word => Words
    BY <1>0 DEF MutexTyped
  <1>3. UNCHANGED <<count, held>> => Counts
    BY <1>0 DEF MutexTyped
  <1>4. UNCHANGED <<call, i, expect>> => Calling
    BY <1>0 DEF MutexTyped
  <1>5. ASSUME NEW t \in Threads, NEW l \in PCs \union {"dead"}, pc' = [pc EXCEPT ![t] = l] PROVE Pcs
    BY <1>0, <1>5 DEF MutexTyped
  <1>6. Threads \subseteq Owners /\ 0 \in Owners /\ Abandoned \in Owners /\ Owners \subseteq Int
    BY ThreadsAssumption DEF Owners, Abandoned
  <1>7. ASSUME NEW t \in Threads, Calls(t) \/ TimedOut(t) \/ Interrupted(t), UNCHANGED sweep PROVE MutexTyped'
    <2>1. word' = word /\ UNCHANGED <<count, held, expect>> /\ i' = i
          /\ (call' = call \/ \E c : call' = [call EXCEPT ![t] = c])
      BY <1>7 DEF Calls, CallReleaseSemaphore, CallReleaseMutex, CallSetEvent, CallResetEvent, CallWaitAny,
                  Enter, TimedOut, Interrupted, shared
    <2>2. Calling
      BY <1>0, <2>1 DEF MutexTyped
    <2>3. \E l \in PCs : pc' = [pc EXCEPT ![t] = l]
      BY <1>7 DEF Calls, CallReleaseSemaphore, CallReleaseMutex, CallSetEvent, CallResetEvent, CallWaitAny,
                  Enter, TimedOut, Interrupted, Return, Goto, PCs
    <2> QED
      BY <1>1, <1>2, <1>3, <1>5, <1>7, <2>1, <2>2, <2>3
  <1>8. ASSUME NEW t \in Threads, Signal(t), UNCHANGED sweep PROVE MutexTyped'
    <2>1. UNCHANGED <<call, i, expect>>
      BY <1>8 DEF Signal, ReleaseSemaphore, SetEvent, ResetEvent, NotOwned, ReleaseMutex, UnlockMutex, Wake
    <2>2. Pcs
      <3>1. CASE Wake(t)
        BY <1>0, <3>1 DEF Wake, Signalled, PCs, MutexTyped
      <3>2. CASE ~Wake(t)
        <4>1. \E l \in PCs : pc' = [pc EXCEPT ![t] = l]
          BY <1>8, <3>2 DEF Signal, ReleaseSemaphore, SetEvent, ResetEvent, NotOwned, ReleaseMutex,
                            UnlockMutex, Return, Goto, Signalled, PCs
        <4> QED
          BY <1>5, <4>1
      <3> QED
        BY <3>1, <3>2
    <2>3. CASE ReleaseSemaphore(t)
      <3>1. obj(t) \in Semaphores
        BY <1>0, <2>3 DEF ReleaseSemaphore, AtPlace
      <3>2. obj(t) \notin Mutexes /\ obj(t) \in Objects
        BY <3>1, ObjectsAssumption DEF Objects
      <3>3. word' = word \/ \E v \in Int : word' = [word EXCEPT ![obj(t)] = v]
        <4>1. \A n \in ReleaseCounts : Plus(word[obj(t)], n) \in Int
          BY <1>0, <3>2, SemaphoreAssumption DEF Plus, MutexTyped
        <4> QED
          BY <2>3, <4>1 DEF ReleaseSemaphore
      <3>4. Words
        BY <1>0, <1>2, <3>2, <3>3, WordTyped
      <3> QED
        BY <1>1, <1>3, <1>4, <1>8, <2>1, <2>2, <2>3, <3>4 DEF ReleaseSemaphore
    <2>4. CASE SetEvent(t) \/ ResetEvent(t)
      <3>1. obj(t) \notin Mutexes
        BY <1>0, <2>4, ObjectsAssumption DEF SetEvent, ResetEvent, AtPlace
      <3>2. PICK v \in {0, 1} : word' = [word EXCEPT ![obj(t)] = v]
        BY <2>4 DEF SetEvent, ResetEvent
      <3>3. Words
        <4>1. v \in Int
          BY <3>2
        <4> QED
          BY <1>0, <3>1, <3>2, <4>1, WordTyped
      <3> QED
        BY <1>1, <1>3, <1>4, <1>8, <2>1, <2>2, <2>4, <3>3 DEF SetEvent, ResetEvent
    <2>5. CASE NotOwned(t) \/ Wake(t)
      BY <1>1, <1>2, <1>3, <1>4, <1>8, <2>1, <2>2, <2>5 DEF NotOwned, Wake, shared
    <2>6. CASE ReleaseMutex(t)
      <3>0. obj(t) \in Mutexes
        BY <1>0, <2>6 DEF ReleaseMutex, AtPlace
      <3>1. Counts
        BY <1>0, <2>6, <3>0 DEF ReleaseMutex, MutexTyped
      <3> QED
        BY <1>1, <1>2, <1>4, <1>8, <2>1, <2>2, <2>6, <3>1 DEF ReleaseMutex
    <2>7. CASE UnlockMutex(t)
      <3>1. Words
        BY <1>0, <1>6, <2>7, WordTyped DEF UnlockMutex
      <3> QED
        BY <1>1, <1>3, <1>4, <1>8, <2>1, <2>2, <2>7, <3>1 DEF UnlockMutex
    <2> QED
      BY <1>8, <2>3, <2>4, <2>5, <2>6, <2>7 DEF Signal
  <1>9. ASSUME NEW t \in Threads, WaitAny(t), UNCHANGED sweep PROVE MutexTyped'
    <2>1. Pcs
      <3>1. \E l \in PCs : pc' = [pc EXCEPT ![t] = l]
        BY <1>9 DEF WaitAny, CheckApc, TrySignaled, SkipUnsignaled, TryOwnMutex, TryFreeMutex, OwnMutex,
                    SkipMutex, FutexWait, UserApc, NextObject, Return, Goto, PCs
      <3> QED
        BY <1>5, <3>1
    <2>2. CASE CheckApc(t) \/ SkipUnsignaled(t)
      <3>1. Calling
        BY <1>0, <2>2 DEF CheckApc, SkipUnsignaled, NextObject, MutexTyped
      <3> QED
        BY <1>1, <1>2, <1>3, <1>9, <2>1, <2>2, <3>1 DEF CheckApc, SkipUnsignaled, shared
    <2>3. CASE TrySignaled(t)
      <3>1. Words
        <4> DEFINE v == IF obj(t) \in ManualEvents THEN word[obj(t)] ELSE word[obj(t)] - 1
        <4>1. word' = [word EXCEPT ![obj(t)] = v] /\ obj(t) \notin Mutexes
          BY <2>3 DEF TrySignaled
        <4>2. obj(t) \in Objects => v \in Int
          BY <1>0 DEF MutexTyped
        <4> HIDE DEF v
        <4> QED
          BY <1>0, <4>1, <4>2, WordTyped
      <3> QED
        BY <1>1, <1>3, <1>4, <1>9, <2>1, <2>3, <3>1 DEF TrySignaled
    <2>4. CASE TryOwnMutex(t)
      <3>1. Counts
        BY <1>0, <2>4 DEF TryOwnMutex, Acquired, MutexTyped
      <3> QED
        BY <1>1, <1>2, <1>4, <1>9, <2>1, <2>4, <3>1 DEF TryOwnMutex
    <2>5. CASE TryFreeMutex(t)
      <3>1. Words
        BY <1>0, <1>6, <2>5, WordTyped DEF TryFreeMutex
      <3> QED
        BY <1>1, <1>3, <1>4, <1>9, <2>1, <2>5, <3>1 DEF TryFreeMutex
    <2>6. CASE OwnMutex(t)
      <3>0. obj(t) \in Mutexes
        BY <1>0, <2>6 DEF OwnMutex, AtPlace
      <3>1. Counts
        BY <1>0, <2>6, <3>0 DEF OwnMutex, Acquired, MutexTyped
      <3> QED
        BY <1>1, <1>2, <1>4, <1>9, <2>1, <2>6, <3>1 DEF OwnMutex
    <2>7. CASE SkipMutex(t)
      <3>1. obj(t) \in Mutexes
        BY <1>0, <2>7 DEF SkipMutex, AtPlace
      <3>2. Calling
        BY <1>0, <2>7, <3>1 DEF SkipMutex, NextObject, MutexTyped
      <3> QED
        BY <1>1, <1>2, <1>3, <1>9, <2>1, <2>7, <3>2 DEF SkipMutex, shared
    <2>8. CASE FutexWait(t) \/ UserApc(t)
      BY <1>1, <1>2, <1>3, <1>4, <1>9, <2>1, <2>8 DEF FutexWait, UserApc, shared
    <2> QED
      BY <1>9, <2>2, <2>3, <2>4, <2>5, <2>6, <2>7, <2>8 DEF WaitAny
  <1>10. ASSUME NEW t \in Threads, Leave(t), UNCHANGED sweep PROVE MutexTyped'
    <2>1. Calling
      BY <1>0, <1>6, <1>10 DEF Leave, MutexTyped
    <2>2. Pcs
      BY <1>5, <1>10 DEF Leave, Goto, PCs
    <2> QED
      BY <1>1, <1>2, <1>3, <1>10, <2>1, <2>2 DEF Leave, shared
  <1>11. ASSUME NEW t \in Threads, SeeAbandoned(t) PROVE MutexTyped'
    <2>1. Pcs
      BY <1>5, <1>11 DEF SeeAbandoned, Goto, PCs
    <2> QED
      BY <1>1, <1>2, <1>3, <1>4, <1>11, <2>1 DEF SeeAbandoned, shared
  <1>12. ASSUME NEW t \in Threads, TryAbandonedMutex(t) PROVE MutexTyped'
    <2>1. Pcs
      BY <1>5, <1>12 DEF TryAbandonedMutex, Goto, PCs
    <2>2. Words
      BY <1>0, <1>6, <1>12, WordTyped DEF TryAbandonedMutex
    <2> QED
      BY <1>1, <1>3, <1>4, <1>12, <2>1, <2>2 DEF TryAbandonedMutex
  <1>13. ASSUME NEW t \in Threads, Exit(t) PROVE MutexTyped'
    <2>1. Pcs
      BY <1>5, <1>13 DEF Exit, Goto
    <2> QED
      BY <1>0, <1>13, <2>1 DEF Exit, MutexTyped, shared
  <1>14. CASE (QueueApc \/ WakeApc) /\ UNCHANGED sweep
    <2>1. Pcs
      BY <1>0, <1>14 DEF QueueApc, WakeApc, PCs, MutexTyped
    <2> QED
      BY <1>1, <1>2, <1>3, <1>4, <1>14, <2>1 DEF QueueApc, WakeApc
  <1>15. CASE Sweep
    <2>1. CASE \E m \in Mutexes : Pass(m) \/ Mark(m)
      BY <1>0, <2>1 DEF Pass, Mark, vars, MutexTyped
    <2>2. ASSUME NEW m \in Mutexes, StoreTid(m) PROVE MutexTyped'
      <3>1. Words
        BY <1>0, <1>6, <2>2, WordTyped DEF StoreTid
      <3> QED
        BY <1>0, <2>2, <3>1 DEF StoreTid, MutexTyped
    <2>3. ASSUME NEW m \in Mutexes, StoreCount(m) PROVE MutexTyped'
      BY <1>0, <2>3 DEF StoreCount, MutexTyped
    <2>4. ASSUME NEW m \in Mutexes, WakeSleepers(m) PROVE MutexTyped'
      <3>1. Pcs
        BY <1>0, <2>4 DEF WakeSleepers, PCs, MutexTyped
      <3> QED
        BY <1>0, <2>4, <3>1 DEF WakeSleepers, MutexTyped, shared
    <2>5. CASE Swept
      BY <1>0, <2>5 DEF Swept, vars, MutexTyped
    <2> QED
      BY <1>15, <2>1, <2>2, <2>3, <2>4, <2>5 DEF Sweep
  <1>16. CASE UNCHANGED avars
    BY <1>0, <1>16 DEF avars, vars, sweep, MutexTyped
  <1> QED
    BY <1>7, <1>8, <1>9, <1>10, <1>11, <1>12, <1>13, <1>14, <1>15, <1>16 DEF ANext, AStep, Step

-----------------------------------------------------------------------------
(* Owners.                                                                 *)

Inner == {"own", "own_abandoned", "unlock", "dead"}

\* What leaves the mutexes and the server's sweep alone, and moves nobody into or out
\* of a mutex's own code, leaves their owners alone.
LEMMA Untouched ==
    ASSUME AInv, \A m \in Mutexes : word'[m] = word[m], UNCHANGED <<count, held, sweep>>,
           \A u \in Threads : \/ pc'[u] = pc[u] /\ obj(u)' = obj(u)
                              \/ pc[u] \notin Inner /\ pc'[u] \notin Inner
    PROVE  OwnerInv'
  <1>1. \A u \in Threads, m \in Mutexes : (AtMutex(u, m)' <=> AtMutex(u, m))
    BY DEF AtMutex, Inner
  <1>2. \A u \in Threads : (Alive(u)' <=> Alive(u))
    BY DEF Alive, Inner
  <1>3. victim \in Threads \union {0} /\ marking \subseteq Mutexes /\ UNCHANGED <<victim, todo, marking, stores, overwritten>>
    BY DEF AInv, MutexTyped, sweep
  <1>4. AtMutexOwns'
    BY <1>1 DEF AInv, OwnerInv, AtMutexOwns
  <1>5. LivingOwn'
    BY <1>1, <1>2, <1>3 DEF AInv, OwnerInv, LivingOwn, LivingOwnedOK
  <1>6. DeadSwept'
    BY <1>2, <1>3 DEF AInv, OwnerInv, DeadSwept
  <1> QED
    BY <1>4, <1>5, <1>6 DEF OwnerInv

\* A thread's move that stays out of the mutexes' own code.
LEMMA MovesOutside ==
    ASSUME AInv, NEW t \in Threads, NEW l, Moves(t, l), pc[t] \notin Inner, l \notin Inner,
           \A m \in Mutexes : word'[m] = word[m], UNCHANGED <<count, held, sweep>>
    PROVE  OwnerInv'
  <1>1. MutexTyped
    BY DEF AInv
  <1>2. pc'[t] = l /\ \A u \in Threads : u # t => pc'[u] = pc[u] /\ obj(u)' = obj(u)
    BY <1>1, MovesAlone DEF obj
  <1> QED
    BY <1>2, Untouched

\* Others are in a mutex's own code or dead as before when one thread moves.
LEMMA OthersInside ==
    ASSUME MutexTyped, NEW t \in Threads, NEW l, pc' = [pc EXCEPT ![t] = l], UNCHANGED <<call, i>>
    PROVE  /\ pc'[t] = l
           /\ \A u \in Threads : u # t => (Alive(u)' <=> Alive(u))
                                          /\ \A m \in Mutexes : (AtMutex(u, m)' <=> AtMutex(u, m))
           /\ \A u \in Threads : obj(u)' = obj(u)
  BY DEF MutexTyped, AtMutex, Alive, obj

\* A thread takes a mutex that nobody has: 0 -> tid or ~0 -> tid.
LEMMA TakeKeeps ==
    ASSUME AInv, NEW t \in Threads, NEW l \in {"own", "own_abandoned"}, NEW m \in Mutexes, m = obj(t),
           pc[t] \in {"try", "try_abandoned"}, pc' = [pc EXCEPT ![t] = l], word[m] \in {0, Abandoned},
           word' = [word EXCEPT ![m] = t], UNCHANGED <<count, call, i, held, sweep>>
    PROVE  OwnerInv'
  <1>1. MutexTyped /\ m \in Objects /\ word[m] \notin Threads
    BY ThreadIds DEF AInv, MutexTyped, Objects
  <1>2. /\ pc'[t] = l /\ \A u \in Threads : obj(u)' = obj(u)
        /\ \A u \in Threads : u # t => (Alive(u)' <=> Alive(u))
                                       /\ \A n \in Mutexes : (AtMutex(u, n)' <=> AtMutex(u, n))
    BY <1>1, OthersInside
  <1>3. /\ \A n \in Mutexes : AtMutex(t, n)' <=> n = m
        /\ \A n \in Mutexes : ~AtMutex(t, n)
        /\ Alive(t) /\ Alive(t)'
    BY <1>2 DEF AtMutex, Alive
  <1>4. word'[m] = t /\ \A n \in Mutexes : n # m => word'[n] = word[n]
    BY <1>1 DEF MutexTyped, Objects
  <1>5. UNCHANGED <<victim, todo, marking, stores, overwritten>>
    BY DEF sweep
  <1>6. AtMutexOwns'
    BY <1>1, <1>2, <1>3, <1>4 DEF AInv, OwnerInv, AtMutexOwns
  <1>7. LivingOwn'
    <2> SUFFICES ASSUME NEW u \in Threads, NEW n \in Mutexes \ overwritten, Alive(u)'
                 PROVE  LivingOwnedOK(u, n)'
      BY <1>5 DEF LivingOwn
    <2>1. LivingOwnedOK(u, n)
      BY <1>2, <1>3 DEF AInv, OwnerInv, LivingOwn
    <2>2. held[u][n] \in Int
      BY <1>1 DEF MutexTyped
    <2>3. CASE n = m
      <3>1. held[u][n] = 0
        BY <1>1, <2>1, <2>2, <2>3 DEF LivingOwnedOK
      <3>2. word'[n] = u <=> u = t
        BY <1>4, <2>3
      <3>3. u = t <=> AtMutex(u, n)'
        BY <1>1, <1>2, <1>3, <2>3 DEF AInv, OwnerInv, AtMutexOwns
      <3> QED
        BY <3>1, <3>2, <3>3 DEF LivingOwnedOK
    <2>4. CASE n # m
      <3>1. (AtMutex(u, n)' <=> AtMutex(u, n)) /\ word'[n] = word[n]
        BY <1>2, <1>3, <1>4, <2>4
      <3> QED
        BY <2>1, <3>1 DEF LivingOwnedOK
    <2> QED
      BY <2>3, <2>4
  <1>8. DeadSwept'
    <2>1. m \notin marking \/ "tid" \notin stores
      BY <1>1, ThreadIds DEF AInv, OwnerInv, DeadSwept, MutexTyped
    <2> QED
      BY <1>1, <1>2, <1>3, <1>4, <1>5, <2>1 DEF AInv, OwnerInv, DeadSwept, MutexTyped
  <1> QED
    BY <1>6, <1>7, <1>8 DEF OwnerInv

\* An owner changes its own count, with what it was told, or is in the mutex's code.
LEMMA CountKeeps ==
    ASSUME AInv, NEW t \in Threads, NEW l, l \notin {"own", "own_abandoned", "dead"}, Alive(t),
           NEW m \in Mutexes, m = obj(t), word[m] = t,
           NEW c \in Int, NEW h \in Int, count' = [count EXCEPT ![m] = c], held' = [held EXCEPT ![t][m] = h],
           pc' = [pc EXCEPT ![t] = l], \A n \in Mutexes : AtMutex(t, n) => n = m,
           m \notin overwritten => h >= 0 /\ (h > 0 => c = h /\ l # "unlock") /\ (h = 0 => l = "unlock"),
           UNCHANGED <<word, call, i, sweep>>
    PROVE  OwnerInv'
  <1>1. MutexTyped /\ UNCHANGED <<victim, todo, marking, stores, overwritten>>
    BY DEF AInv, sweep
  <1>2. /\ pc'[t] = l /\ \A u \in Threads : obj(u)' = obj(u)
        /\ \A u \in Threads : u # t => (Alive(u)' <=> Alive(u))
                                       /\ \A n \in Mutexes : (AtMutex(u, n)' <=> AtMutex(u, n))
    BY <1>1, OthersInside
  <1>3. Alive(t)' /\ \A n \in Mutexes : AtMutex(t, n)' <=> l = "unlock" /\ n = m
    BY <1>2 DEF AtMutex, Alive
  <1>4. /\ count'[m] = c /\ held'[t][m] = h
        /\ \A n \in Mutexes : n # m => count'[n] = count[n]
        /\ \A u \in Threads, n \in Mutexes : u # t \/ n # m => held'[u][n] = held[u][n]
    BY <1>1 DEF MutexTyped
  <1>5. AtMutexOwns'
    BY <1>2, <1>3 DEF AInv, OwnerInv, AtMutexOwns
  <1>6. LivingOwn'
    <2> SUFFICES ASSUME NEW u \in Threads, NEW n \in Mutexes \ overwritten, Alive(u)'
                 PROVE  LivingOwnedOK(u, n)'
      BY <1>1 DEF LivingOwn
    <2>1. LivingOwnedOK(u, n)
      BY <1>2 DEF AInv, OwnerInv, LivingOwn
    <2>2. held[u][n] \in Int
      BY <1>1 DEF MutexTyped
    <2>3. CASE u = t /\ n = m
      BY <1>3, <1>4, <2>3 DEF LivingOwnedOK
    <2>4. CASE u # t /\ n = m
      <3>1. held'[u][n] = 0 /\ word'[n] # u
        BY <1>4, <2>1, <2>2, <2>4 DEF LivingOwnedOK
      <3>2. ~AtMutex(u, n)'
        BY <1>2, <2>4 DEF AInv, OwnerInv, AtMutexOwns
      <3> QED
        BY <3>1, <3>2 DEF LivingOwnedOK
    <2>5. CASE n # m
      <3>1. (AtMutex(u, n)' <=> AtMutex(u, n)) /\ held'[u][n] = held[u][n] /\ count'[n] = count[n]
        BY <1>2, <1>3, <1>4, <2>5 DEF AtMutex
      <3> QED
        BY <2>1, <3>1 DEF LivingOwnedOK
    <2> QED
      BY <2>3, <2>4, <2>5
  <1>7. DeadSwept'
    <2>1. \A u \in Threads : Alive(u)' <=> Alive(u)
      BY <1>2, <1>3
    <2>2. victim # 0 => victim \in Threads
      BY <1>1 DEF MutexTyped
    <2> QED
      BY <1>1, <2>1, <2>2 DEF AInv, OwnerInv, DeadSwept
  <1> QED
    BY <1>5, <1>6, <1>7 DEF OwnerInv

\* The owner leaves the mutex's own code and with it the mutex.
LEMMA UnlockKeeps ==
    ASSUME AInv, NEW t \in Threads, UnlockMutex(t), UNCHANGED sweep
    PROVE  OwnerInv'
  <1> DEFINE m == obj(t)
  <1>1. MutexTyped /\ m \in Mutexes /\ m \in Objects /\ word[m] = t
    BY DEF AInv, AtPlace, UnlockMutex, OwnerInv, AtMutexOwns, AtMutex, Objects
  <1>2. pc[t] = "unlock" /\ pc' = [pc EXCEPT ![t] = "wake"] /\ word' = [word EXCEPT ![m] = 0]
        /\ UNCHANGED <<count, call, i, held, victim, todo, marking, stores, overwritten>>
    BY DEF UnlockMutex, Goto, sweep
  <1>3. /\ pc'[t] = "wake" /\ \A u \in Threads : obj(u)' = obj(u)
        /\ \A u \in Threads : u # t => (Alive(u)' <=> Alive(u))
                                       /\ \A n \in Mutexes : AtMutex(u, n)' <=> AtMutex(u, n)
    BY <1>1, <1>2, OthersInside
  <1>4. Alive(t) /\ Alive(t)' /\ (\A n \in Mutexes : ~AtMutex(t, n)' /\ (AtMutex(t, n) <=> n = m))
    BY <1>2, <1>3 DEF AtMutex, Alive
  <1> HIDE DEF m
  <1>5. word'[m] = 0 /\ \A n \in Mutexes : n # m => word'[n] = word[n]
    BY <1>1, <1>2 DEF MutexTyped
  <1>6. \A u \in Threads : u # t => ~AtMutex(u, m)
    BY <1>1 DEF AInv, OwnerInv, AtMutexOwns
  <1>7. AtMutexOwns'
    BY <1>3, <1>4, <1>5, <1>6 DEF AInv, OwnerInv, AtMutexOwns
  <1>8. LivingOwn'
    <2> SUFFICES ASSUME NEW u \in Threads, NEW n \in Mutexes \ overwritten, Alive(u)'
                 PROVE  LivingOwnedOK(u, n)'
      BY <1>2 DEF LivingOwn
    <2>1. LivingOwnedOK(u, n) /\ held[u][n] \in Int /\ held'[u][n] = held[u][n]
      BY <1>1, <1>2, <1>3, <1>4 DEF AInv, OwnerInv, LivingOwn, MutexTyped
    <2>2. CASE n = m
      <3>1. held[u][n] = 0
        BY <1>1, <1>4, <2>1, <2>2 DEF LivingOwnedOK
      <3>2. word'[n] # u /\ ~AtMutex(u, n)'
        BY <1>3, <1>4, <1>5, <1>6, <2>2, ThreadIds
      <3> QED
        BY <2>1, <3>1, <3>2 DEF LivingOwnedOK
    <2>3. CASE n # m
      <3>1. (AtMutex(u, n)' <=> AtMutex(u, n)) /\ word'[n] = word[n] /\ count'[n] = count[n]
        BY <1>2, <1>3, <1>4, <1>5, <2>3
      <3> QED
        BY <2>1, <3>1 DEF LivingOwnedOK
    <2> QED
      BY <2>2, <2>3
  <1>9. DeadSwept'
    <2>1. \A u \in Threads : Alive(u)' <=> Alive(u)
      BY <1>3, <1>4
    <2>2. (victim # 0 => victim \in Threads) /\ marking \subseteq Mutexes
      BY <1>1 DEF MutexTyped
    <2>3. m \notin marking \/ "tid" \notin stores
      BY <1>1, <1>4, <2>2, ThreadIds DEF AInv, OwnerInv, DeadSwept
    <2> QED
      BY <1>2, <1>5, <2>1, <2>2, <2>3, ThreadIds DEF AInv, OwnerInv, DeadSwept
  <1> QED
    BY <1>7, <1>8, <1>9 DEF OwnerInv

\* A thread dies, and the server turns to its mutexes.
LEMMA ExitKeeps ==
    ASSUME AInv, NEW t \in Threads, Exit(t)
    PROVE  OwnerInv'
  <1>1. MutexTyped /\ pc[t] = "idle" /\ victim = 0 /\ pc' = [pc EXCEPT ![t] = "dead"] /\ victim' = t /\ todo' = Mutexes
        /\ UNCHANGED <<word, count, held, call, i, marking, stores, overwritten>>
    BY DEF AInv, Exit, Goto, shared
  <1>2. /\ pc'[t] = "dead"
        /\ \A u \in Threads : u # t => (Alive(u)' <=> Alive(u))
                                       /\ \A m \in Mutexes : AtMutex(u, m)' <=> AtMutex(u, m)
    BY <1>1, OthersInside
  <1>3. ~Alive(t)' /\ \A m \in Mutexes : ~AtMutex(t, m)'
    BY <1>2 DEF Alive, AtMutex
  <1>4. AtMutexOwns'
    BY <1>1, <1>2, <1>3 DEF AInv, OwnerInv, AtMutexOwns
  <1>5. LivingOwn'
    BY <1>1, <1>2, <1>3 DEF AInv, OwnerInv, LivingOwn, LivingOwnedOK
  <1>6. DeadSwept'
    <2>1. \A u \in Threads, m \in Mutexes : ~Alive(u) => word[m] # u
      BY <1>1, ThreadIds DEF AInv, OwnerInv, DeadSwept
    <2>2. marking = {}
      BY <1>1 DEF AInv, OwnerInv, DeadSwept
    <2> QED
      BY <1>1, <1>2, <1>3, <2>1, <2>2, ThreadIds DEF DeadSwept
  <1> QED
    BY <1>4, <1>5, <1>6 DEF OwnerInv

\* The server's steps: the mutex it marks is its victim's until it stores ~0, so that
\* it takes none from a living thread; what it overwrites it notes.
LEMMA SweepKeeps ==
    ASSUME AInv, Sweep
    PROVE  OwnerInv'
  <1>0. MutexTyped
    BY DEF AInv
  <1>1. ASSUME UNCHANGED <<pc, call, i>>
        PROVE  \A u \in Threads : (Alive(u)' <=> Alive(u)) /\ \A m \in Mutexes : AtMutex(u, m)' <=> AtMutex(u, m)
    BY <1>1 DEF Alive, AtMutex, obj
  <1>2. ASSUME NEW m \in Mutexes, Pass(m) PROVE OwnerInv'
    <2>1. word[m] # victim /\ todo' = todo \ {m} /\ UNCHANGED <<word, count, held, pc, call, i>>
          /\ UNCHANGED <<victim, marking, stores, overwritten>>
      BY <1>2 DEF Pass, vars
    <2>2. AtMutexOwns' /\ LivingOwn'
      BY <1>1, <2>1 DEF AInv, OwnerInv, AtMutexOwns, LivingOwn, LivingOwnedOK
    <2>3. DeadSwept'
      BY <1>0, <1>1, <2>1 DEF AInv, OwnerInv, DeadSwept, MutexTyped
    <2> QED
      BY <2>2, <2>3 DEF OwnerInv
  <1>3. ASSUME NEW m \in Mutexes, Mark(m) PROVE OwnerInv'
    <2>1. m \in todo /\ word[m] = victim /\ todo' = todo \ {m} /\ marking = {} /\ marking' = {m}
          /\ stores' = {"tid", "count", "wake"} /\ UNCHANGED <<word, count, held, pc, call, i, victim, overwritten>>
      BY <1>3 DEF Mark, vars
    <2>2. AtMutexOwns' /\ LivingOwn'
      BY <1>1, <2>1 DEF AInv, OwnerInv, AtMutexOwns, LivingOwn, LivingOwnedOK
    <2>3. DeadSwept'
      BY <1>0, <1>1, <2>1 DEF AInv, OwnerInv, DeadSwept, MutexTyped
    <2> QED
      BY <2>2, <2>3 DEF OwnerInv
  <1>4. ASSUME NEW m \in Mutexes, StoreTid(m) PROVE OwnerInv'
    <2>1. /\ m \in marking /\ "tid" \in stores /\ stores' = stores \ {"tid"}
          /\ word' = [word EXCEPT ![m] = Abandoned]
          /\ UNCHANGED <<count, held, pc, call, i, victim, todo, marking, overwritten>>
      BY <1>4 DEF StoreTid
    <2>2. marking = {m} /\ victim # 0 /\ ~Alive(victim) /\ word[m] = victim /\ victim \in Threads
      BY <1>0, <2>1 DEF AInv, OwnerInv, DeadSwept, MutexTyped
    <2>3. word'[m] = Abandoned /\ \A n \in Mutexes : n # m => word'[n] = word[n]
      BY <1>0, <2>1 DEF MutexTyped, Objects
    <2>4. \A u \in Threads : ~AtMutex(u, m)
      BY <2>2 DEF AInv, OwnerInv, AtMutexOwns, AtMutex, Alive
    <2>5. AtMutexOwns'
      BY <1>1, <2>1, <2>3, <2>4 DEF AInv, OwnerInv, AtMutexOwns
    <2>6. LivingOwn'
      <3> SUFFICES ASSUME NEW u \in Threads, NEW n \in Mutexes \ overwritten, Alive(u)
                   PROVE  LivingOwnedOK(u, n)'
        BY <1>1, <2>1 DEF LivingOwn
      <3>1. LivingOwnedOK(u, n) /\ u # victim /\ held[u][n] \in Int /\ held'[u][n] = held[u][n] /\ count'[n] = count[n]
        BY <1>0, <2>1, <2>2 DEF AInv, OwnerInv, LivingOwn, MutexTyped
      <3>2. AtMutex(u, n)' <=> AtMutex(u, n)
        BY <1>1, <2>1
      <3>3. CASE n = m
        BY <2>2, <2>3, <2>4, <3>1, <3>2, <3>3, ThreadIds DEF LivingOwnedOK
      <3>4. CASE n # m
        BY <2>3, <3>1, <3>2, <3>4 DEF LivingOwnedOK
      <3> QED
        BY <3>3, <3>4
    <2>7. DeadSwept'
      BY <1>0, <1>1, <2>1, <2>2, <2>3, ThreadIds DEF AInv, OwnerInv, DeadSwept, MutexTyped
    <2> QED
      BY <2>5, <2>6, <2>7 DEF OwnerInv
  <1>5. ASSUME NEW m \in Mutexes, StoreCount(m) PROVE OwnerInv'
    <2>1. /\ m \in marking /\ stores' = stores \ {"count"} /\ count' = [count EXCEPT ![m] = 0]
          /\ overwritten' = IF Counted(m) THEN overwritten \union {m} ELSE overwritten
          /\ UNCHANGED <<word, held, pc, call, i, victim, todo, marking>>
      BY <1>5 DEF StoreCount
    <2>2. victim # 0 /\ ~Alive(victim)
      BY <1>0, <2>1 DEF AInv, OwnerInv, DeadSwept, MutexTyped
    <2>3. AtMutexOwns'
      BY <1>1, <2>1 DEF AInv, OwnerInv, AtMutexOwns
    <2>4. LivingOwn'
      <3> SUFFICES ASSUME NEW u \in Threads, NEW n \in Mutexes \ overwritten', Alive(u)
                   PROVE  LivingOwnedOK(u, n)'
        BY <1>1, <2>1 DEF LivingOwn
      <3>1. n \notin overwritten /\ LivingOwnedOK(u, n) /\ held'[u][n] = held[u][n] /\ word'[n] = word[n]
            /\ (AtMutex(u, n)' <=> AtMutex(u, n))
        BY <1>1, <2>1 DEF AInv, OwnerInv, LivingOwn
      <3>2. held[u][n] > 0 => count'[n] = count[n]
        <4>1. n = m /\ held[u][n] > 0 => Counted(m)
          BY <2>2, <3>1 DEF LivingOwnedOK, Counted
        <4> QED
          BY <1>0, <2>1, <4>1 DEF MutexTyped
      <3> QED
        BY <3>1, <3>2 DEF LivingOwnedOK
    <2>5. DeadSwept'
      BY <1>0, <1>1, <2>1 DEF AInv, OwnerInv, DeadSwept, MutexTyped
    <2> QED
      BY <2>3, <2>4, <2>5 DEF OwnerInv
  <1>6. ASSUME NEW m \in Mutexes, WakeSleepers(m) PROVE OwnerInv'
    <2>1. /\ m \in marking /\ stores = {"wake"} /\ marking' = {} /\ stores' = {}
          /\ UNCHANGED <<word, count, held, call, i, victim, todo, overwritten>>
          /\ \A u \in Threads : pc'[u] = pc[u] \/ (pc[u] = "asleep" /\ pc'[u] = "awake")
      BY <1>6 DEF WakeSleepers, shared, Sleepers
    <2>2. \A u \in Threads : (Alive(u)' <=> Alive(u)) /\ \A n \in Mutexes : AtMutex(u, n)' <=> AtMutex(u, n)
      BY <2>1 DEF Alive, AtMutex, obj
    <2>3. AtMutexOwns' /\ LivingOwn'
      BY <2>1, <2>2 DEF AInv, OwnerInv, AtMutexOwns, LivingOwn, LivingOwnedOK
    <2>4. DeadSwept'
      BY <1>0, <2>1, <2>2 DEF AInv, OwnerInv, DeadSwept, MutexTyped
    <2> QED
      BY <2>3, <2>4 DEF OwnerInv
  <1>7. ASSUME Swept PROVE OwnerInv'
    <2>1. todo = {} /\ marking = {} /\ victim' = 0
          /\ UNCHANGED <<word, count, held, pc, call, i, todo, marking, stores, overwritten>>
      BY <1>7 DEF Swept, vars
    <2>2. AtMutexOwns' /\ LivingOwn'
      BY <1>1, <2>1 DEF AInv, OwnerInv, AtMutexOwns, LivingOwn, LivingOwnedOK
    <2>3. DeadSwept'
      BY <1>1, <2>1 DEF AInv, OwnerInv, DeadSwept
    <2> QED
      BY <2>2, <2>3 DEF OwnerInv
  <1> QED
    BY <1>2, <1>3, <1>4, <1>5, <1>6, <1>7 DEF Sweep

LEMMA StepOwner == AInv /\ [ANext]_avars => OwnerInv'
  <1> SUFFICES ASSUME AInv, [ANext]_avars PROVE OwnerInv'
    OBVIOUS
  <1>0. MutexTyped /\ \A t \in Threads : AtPlace(t)
    BY DEF AInv
  <1>1. ASSUME NEW t \in Threads, Calls(t) \/ TimedOut(t) \/ Interrupted(t), UNCHANGED sweep PROVE OwnerInv'
    <2>1. \E l \in {"release_semaphore", "release_mutex", "set", "reset", "again", "done"} :
             Moves(t, l) /\ UNCHANGED <<word, count, held>> /\ pc[t] \notin Inner
      BY <1>1 DEF Calls, CallReleaseSemaphore, CallReleaseMutex, CallSetEvent, CallResetEvent, CallWaitAny,
                  Enter, TimedOut, Interrupted, Return, Goto, Moves, Inner, shared
    <2> QED
      BY <1>1, <2>1, MovesOutside DEF Inner
  <1>2. ASSUME NEW t \in Threads, NEW l \in {"wake", "done", "pulse"}, pc' = [pc EXCEPT ![t] = l],
               pc[t] \notin Inner, \A m \in Mutexes : word'[m] = word[m], UNCHANGED <<count, call, i, held, sweep>>
        PROVE  OwnerInv'
    BY <1>2, MovesOutside DEF Moves, Inner
  <1>3. ASSUME NEW t \in Threads, Signal(t), UNCHANGED sweep PROVE OwnerInv'
    <2>1. CASE ReleaseSemaphore(t)
      <3>1. obj(t) \in Semaphores
        BY <1>0, <2>1 DEF ReleaseSemaphore, AtPlace
      <3>2. \A m \in Mutexes : m \in Objects /\ m # obj(t)
        BY <3>1, ObjectsAssumption DEF Objects
      <3>3. \A m \in Mutexes : word'[m] = word[m]
        BY <1>0, <2>1, <3>2 DEF ReleaseSemaphore, MutexTyped
      <3>4. pc' = [pc EXCEPT ![t] = "wake"] \/ pc' = [pc EXCEPT ![t] = "done"]
        BY <2>1 DEF ReleaseSemaphore, Return, Goto
      <3> QED
        BY <1>2, <1>3, <2>1, <3>3, <3>4 DEF ReleaseSemaphore, Inner
    <2>2. CASE SetEvent(t) \/ ResetEvent(t)
      <3>1. obj(t) \in Events
        BY <1>0, <2>2 DEF SetEvent, ResetEvent, AtPlace
      <3>2. \A m \in Mutexes : m \in Objects /\ m # obj(t)
        BY <3>1, ObjectsAssumption DEF Objects
      <3>3. \A m \in Mutexes : word'[m] = word[m]
        BY <1>0, <2>2, <3>2 DEF SetEvent, ResetEvent, MutexTyped
      <3>4. pc' = [pc EXCEPT ![t] = "wake"] \/ pc' = [pc EXCEPT ![t] = "done"] \/ pc' = [pc EXCEPT ![t] = "pulse"]
        BY <2>2 DEF SetEvent, ResetEvent, Goto, Signalled
      <3> QED
        BY <1>2, <1>3, <2>2, <3>3, <3>4 DEF SetEvent, ResetEvent, Inner
    <2>3. CASE NotOwned(t)
      BY <1>2, <1>3, <2>3 DEF NotOwned, Return, Goto, Inner, shared
    <2>4. CASE ReleaseMutex(t)
      <3> DEFINE m == obj(t)
                 c == count[m] - 1
                 h == held[t][m] - 1
                 l == IF count[m] = 1 THEN "unlock" ELSE "done"
      <3>1. m \in Mutexes /\ word[m] = t /\ pc[t] = "release_mutex" /\ UNCHANGED <<word, call, i>>
        BY <1>0, <2>4 DEF ReleaseMutex, AtPlace
      <3>2. c \in Int /\ h \in Int /\ count[m] \in Int /\ held[t][m] \in Int
        BY <1>0, <3>1 DEF MutexTyped
      <3>3. count' = [count EXCEPT ![m] = c] /\ held' = [held EXCEPT ![t][m] = h] /\ pc' = [pc EXCEPT ![t] = l]
        BY <2>4 DEF ReleaseMutex, Goto
      <3>4. Alive(t) /\ \A n \in Mutexes : ~AtMutex(t, n)
        BY <3>1 DEF Alive, AtMutex
      <3>5. m \notin overwritten => h >= 0 /\ (h > 0 => c = h /\ l # "unlock") /\ (h = 0 => l = "unlock")
        <4>1. ASSUME m \notin overwritten PROVE held[t][m] > 0 /\ count[m] = held[t][m]
          BY <3>1, <3>4, <4>1 DEF AInv, OwnerInv, LivingOwn, LivingOwnedOK
        <4> QED
          BY <3>2, <4>1
      <3>6. l \notin {"own", "own_abandoned", "dead"}
        OBVIOUS
      <3> HIDE DEF m, c, h, l
      <3> QED
        BY <1>3, <3>1, <3>2, <3>3, <3>4, <3>5, <3>6, CountKeeps DEF m
    <2>5. CASE UnlockMutex(t)
      BY <1>3, <2>5, UnlockKeeps
    <2>6. CASE Wake(t)
      <3>1. \A u \in Threads : obj(u)' = obj(u) /\ (pc'[u] = pc[u] \/ (pc[u] \notin Inner /\ pc'[u] \notin Inner))
        BY <2>6 DEF Wake, obj, Signalled, Sleepers, Inner
      <3> QED
        BY <1>3, <2>6, <3>1, Untouched DEF Wake, shared
    <2> QED
      BY <1>3, <2>1, <2>2, <2>3, <2>4, <2>5, <2>6 DEF Signal
  <1>4. ASSUME NEW t \in Threads, WaitAny(t), UNCHANGED sweep PROVE OwnerInv'
    <2>1. CASE CheckApc(t) \/ SkipUnsignaled(t) \/ SkipMutex(t)
      <3>1. UNCHANGED <<word, count, held>> /\ call' = call /\ pc[t] \notin Inner
            /\ (CheckApc(t) \/ NextObject(t))
        BY <2>1 DEF CheckApc, SkipUnsignaled, SkipMutex, Inner, shared
      <3>2. \E l \in {"try", "done", "sleep", "user_apc"} : pc' = [pc EXCEPT ![t] = l]
        BY <3>1 DEF CheckApc, NextObject, Return, Goto
      <3>3. \E k : i' = [i EXCEPT ![t] = k]
        BY <1>0, <3>1 DEF CheckApc, NextObject, MutexTyped
      <3> QED
        BY <1>4, <3>1, <3>2, <3>3, MovesOutside DEF Moves, Inner
    <2>2. CASE TrySignaled(t)
      <3>1. \A m \in Mutexes : word'[m] = word[m]
        BY <1>0, <2>2 DEF TrySignaled, MutexTyped, Objects
      <3> QED
        BY <1>2, <1>4, <2>2, <3>1 DEF TrySignaled, Return, Goto, Inner
    <2>3. CASE TryOwnMutex(t)
      <3> DEFINE m == obj(t)
                 c == count[m] + 1
                 h == held[t][m] + 1
      <3>1. m \in Mutexes /\ word[m] = t /\ pc[t] = "try" /\ UNCHANGED <<word, call, i>>
        BY <2>3 DEF TryOwnMutex
      <3>2. c \in Int /\ h \in Int /\ count[m] \in Int /\ held[t][m] \in Int
        BY <1>0, <3>1 DEF MutexTyped
      <3>3. count' = [count EXCEPT ![m] = c] /\ held' = [held EXCEPT ![t][m] = h] /\ pc' = [pc EXCEPT ![t] = "done"]
        BY <2>3 DEF TryOwnMutex, Acquired, Return, Goto
      <3>4. Alive(t) /\ \A n \in Mutexes : ~AtMutex(t, n)
        BY <3>1 DEF Alive, AtMutex
      <3>5. m \notin overwritten => h > 0 /\ c = h
        <4>1. ASSUME m \notin overwritten PROVE held[t][m] > 0 /\ count[m] = held[t][m]
          BY <3>1, <3>4, <4>1 DEF AInv, OwnerInv, LivingOwn, LivingOwnedOK
        <4> QED
          BY <3>2, <4>1
      <3> HIDE DEF m, c, h
      <3>6. m \notin overwritten =>
              h >= 0 /\ (h > 0 => c = h /\ "done" # "unlock") /\ (h = 0 => "done" = "unlock")
        BY <3>2, <3>5
      <3>7. "done" \notin {"own", "own_abandoned", "dead"} /\ m = obj(t)
        BY DEF m
      <3> QED
        BY <1>4, <3>1, <3>2, <3>3, <3>4, <3>6, <3>7, CountKeeps
    <2>4. CASE TryFreeMutex(t)
      BY <1>4, <2>4, TakeKeeps DEF TryFreeMutex, Goto
    <2>5. CASE OwnMutex(t)
      <3> DEFINE m == obj(t)
                 h == held[t][m] + 1
      <3>1. m \in Mutexes /\ pc[t] \in {"own", "own_abandoned"} /\ UNCHANGED <<word, call, i>>
        BY <1>0, <2>5 DEF OwnMutex, AtPlace
      <3>2. AtMutex(t, m) /\ Alive(t) /\ \A n \in Mutexes : AtMutex(t, n) => n = m
        BY <3>1 DEF AtMutex, Alive
      <3>3. word[m] = t
        BY <3>1, <3>2 DEF AInv, OwnerInv, AtMutexOwns
      <3>4. h \in Int /\ 1 \in Int /\ held[t][m] \in Int
        BY <1>0, <3>1 DEF MutexTyped
      <3>5. count' = [count EXCEPT ![m] = 1] /\ held' = [held EXCEPT ![t][m] = h] /\ pc' = [pc EXCEPT ![t] = "done"]
        BY <2>5 DEF OwnMutex, Acquired, Return, Goto
      <3>6. m \notin overwritten => h = 1
        <4>1. ASSUME m \notin overwritten PROVE held[t][m] = 0
          BY <3>1, <3>2, <4>1 DEF AInv, OwnerInv, LivingOwn, LivingOwnedOK
        <4> QED
          BY <4>1
      <3> HIDE DEF m, h
      <3>7. m \notin overwritten =>
              h >= 0 /\ (h > 0 => 1 = h /\ "done" # "unlock") /\ (h = 0 => "done" = "unlock")
        BY <3>4, <3>6
      <3>8. "done" \notin {"own", "own_abandoned", "dead"} /\ m = obj(t)
        BY DEF m
      <3> QED
        BY <1>4, <3>1, <3>2, <3>3, <3>4, <3>5, <3>7, <3>8, CountKeeps
    <2>6. CASE FutexWait(t) \/ UserApc(t)
      <3>1. \E l \in {"asleep", "again", "done"} : Moves(t, l) /\ UNCHANGED <<word, count, held>> /\ pc[t] \notin Inner
        BY <2>6 DEF FutexWait, UserApc, Return, Goto, Moves, Inner, shared
      <3> QED
        BY <1>4, <3>1, MovesOutside DEF Inner
    <2> QED
      BY <1>4, <2>1, <2>2, <2>3, <2>4, <2>5, <2>6 DEF WaitAny
  <1>5. ASSUME NEW t \in Threads, Leave(t), UNCHANGED sweep PROVE OwnerInv'
    BY <1>5, MovesOutside DEF Leave, Goto, Moves, Inner, shared
  <1>6. ASSUME NEW t \in Threads, SeeAbandoned(t) PROVE OwnerInv'
    BY <1>6, MovesOutside DEF SeeAbandoned, Goto, Moves, Inner, shared
  <1>7. ASSUME NEW t \in Threads, TryAbandonedMutex(t) PROVE OwnerInv'
    <2>1. obj(t) \in Mutexes
      BY <1>0, <1>7 DEF TryAbandonedMutex, AtPlace
    <2> QED
      BY <1>7, <2>1, TakeKeeps DEF TryAbandonedMutex, Goto
  <1>8. ASSUME NEW t \in Threads, Exit(t) PROVE OwnerInv'
    BY <1>8, ExitKeeps
  <1>9. CASE (QueueApc \/ WakeApc) /\ UNCHANGED sweep
    <2>1. UNCHANGED <<word, count, held, call, i>>
          /\ \A u \in Threads : pc'[u] = pc[u] \/ (pc[u] = "asleep" /\ pc'[u] = "awake")
      BY <1>0, <1>9 DEF QueueApc, WakeApc, MutexTyped
    <2> QED
      BY <1>9, <2>1, Untouched DEF Inner, obj
  <1>10. CASE Sweep
    BY <1>10, SweepKeeps
  <1>11. CASE UNCHANGED avars
    BY <1>11, Untouched DEF avars, vars, sweep, obj
  <1> QED
    BY <1>1, <1>3, <1>4, <1>5, <1>6, <1>7, <1>8, <1>9, <1>10, <1>11 DEF ANext, AStep, Step

-----------------------------------------------------------------------------

LEMMA AInductive == ASpec => []AInv
  <1>1. AInv /\ [ANext]_avars => AInv'
    BY StepTyped, StepPlaces, StepOwner DEF AInv
  <1> QED
    BY <1>1, InitAInv, PTL DEF ASpec

\* What the server does to the mutexes of a dead thread, and the clients meanwhile,
\* leaves every mutex with the thread that was told it owns it, for as many releases
\* as it owes, but for a mutex whose new owner had its count overwritten; and no
\* mutex stays with the dead.
THEOREM OwnersAreExact == ASpec => []OwnersExact
  <1>1. AInv => OwnersExact
    <2> SUFFICES ASSUME AInv PROVE OwnersExact
      OBVIOUS
    <2>1. MutexTyped /\ OwnerInv
      BY DEF AInv
    <2>2. Cardinality(marking) <= 1
      <3>1. CASE marking = {}
        BY <3>1, FS_EmptySet
      <3>2. CASE \E m \in Mutexes : marking = {m}
        BY <3>2, FS_Singleton
      <3> QED
        BY <2>1, <3>1, <3>2 DEF MutexTyped
    <2>3. ATypeOK
      BY <2>1, <2>2 DEF ATypeOK, MutexTyped
    <2>4. AbandonedOnlyFromTheDead
      BY <2>1 DEF AbandonedOnlyFromTheDead, OwnerInv, LivingOwn, LivingOwnedOK
    <2>5. DeadOwnNothing
      BY <2>1 DEF DeadOwnNothing, OwnerInv, DeadSwept
    <2> QED
      BY <2>3, <2>4, <2>5 DEF OwnersExact
  <1> QED
    BY <1>1, AInductive, PTL

\* Nobody takes a mutex from a living thread, whatever became of its count.
OwnerFreesIt ==
    \A m \in Mutexes, t \in Threads :
        Alive(t) /\ word[m] = t /\ word'[m] # t => UnlockMutex(t) /\ obj(t) = m

\* A mutex leaves a living thread in no way but its own release: not by the server, not
\* by a thread that takes the mutex of a dead one, not by one that was told it owns it.
THEOREM OnlyItsOwnerFrees == ASpec => [][OwnerFreesIt]_avars
  <1>1. AInv /\ [ANext]_avars => [OwnerFreesIt]_avars
    <2> SUFFICES ASSUME AInv, ANext, NEW m \in Mutexes, NEW t \in Threads, Alive(t), word[m] = t, word'[m] # t
                 PROVE  UnlockMutex(t) /\ obj(t) = m
      BY DEF OwnerFreesIt
    <2>0. MutexTyped /\ (\A u \in Threads : AtPlace(u)) /\ m \in Objects /\ t # 0 /\ t # Abandoned
      BY ThreadIds DEF AInv, Objects
    <2>1. ASSUME NEW u \in Threads, Signal(u) PROVE UnlockMutex(t) /\ obj(t) = m
      <3>1. CASE ReleaseSemaphore(u) \/ SetEvent(u) \/ ResetEvent(u)
        <4>1. obj(u) # m
          BY <2>0, <3>1, ObjectsAssumption DEF ReleaseSemaphore, SetEvent, ResetEvent, AtPlace
        <4> QED
          BY <2>0, <3>1, <4>1 DEF ReleaseSemaphore, SetEvent, ResetEvent, MutexTyped
      <3>2. CASE NotOwned(u) \/ ReleaseMutex(u) \/ Wake(u)
        BY <3>2 DEF NotOwned, ReleaseMutex, Wake, shared
      <3>3. CASE UnlockMutex(u)
        <4>1. obj(u) = m
          BY <2>0, <3>3 DEF UnlockMutex, MutexTyped
        <4>2. word[m] = u
          BY <3>3, <4>1 DEF UnlockMutex, AInv, OwnerInv, AtMutexOwns, AtMutex
        <4> QED
          BY <3>3, <4>1, <4>2
      <3> QED
        BY <2>1, <3>1, <3>2, <3>3 DEF Signal
    <2>2. ASSUME NEW u \in Threads, WaitAny(u) PROVE FALSE
      <3>1. CASE TrySignaled(u) \/ TryFreeMutex(u)
        BY <2>0, <3>1 DEF TrySignaled, TryFreeMutex, MutexTyped
      <3>2. CASE ~TrySignaled(u) /\ ~TryFreeMutex(u)
        BY <2>2, <3>2 DEF WaitAny, CheckApc, SkipUnsignaled, TryOwnMutex, OwnMutex, SkipMutex, FutexWait,
                          UserApc, shared
      <3> QED
        BY <3>1, <3>2
    <2>3. ASSUME NEW u \in Threads, Calls(u) \/ TimedOut(u) \/ Interrupted(u) \/ Leave(u) PROVE FALSE
      BY <2>3 DEF Calls, CallReleaseSemaphore, CallReleaseMutex, CallSetEvent, CallResetEvent, CallWaitAny,
                  Enter, TimedOut, Interrupted, Leave, shared
    <2>4. ASSUME NEW u \in Threads, SeeAbandoned(u) \/ TryAbandonedMutex(u) \/ Exit(u) PROVE FALSE
      BY <2>0, <2>4 DEF SeeAbandoned, TryAbandonedMutex, Exit, MutexTyped, shared
    <2>5. ASSUME QueueApc \/ WakeApc PROVE FALSE
      BY <2>5 DEF QueueApc, WakeApc
    <2>6. ASSUME Sweep PROVE FALSE
      <3>1. ASSUME NEW n \in Mutexes, StoreTid(n) PROVE FALSE
        <4>1. n = m
          BY <2>0, <3>1 DEF StoreTid, MutexTyped
        <4>2. word[m] = victim /\ victim # 0 => ~Alive(victim)
          BY <3>1, <4>1 DEF StoreTid, AInv, OwnerInv, DeadSwept
        <4>3. word[m] = victim
          BY <3>1, <4>1 DEF StoreTid, AInv, OwnerInv, DeadSwept
        <4> QED
          BY <2>0, <4>2, <4>3
      <3>2. CASE \E n \in Mutexes : Pass(n) \/ Mark(n) \/ StoreCount(n) \/ WakeSleepers(n)
        BY <3>2 DEF Pass, Mark, StoreCount, WakeSleepers, vars, shared
      <3>3. CASE Swept
        BY <3>3 DEF Swept, vars
      <3> QED
        BY <2>6, <3>1, <3>2, <3>3 DEF Sweep
    <2> QED
      BY <2>1, <2>2, <2>3, <2>4, <2>5, <2>6 DEF ANext, AStep, Step
  <1> QED
    BY <1>1, AInductive, PTL DEF ASpec

-----------------------------------------------------------------------------
(* The wait for all objects.                                                 *)

\* No thread waits for a mutex it owns.
NotNested == MaxNesting = 1

\* What the words are, and the variables of the threads.
WordsTyped ==
    /\ word \in [Objects -> Int]
    /\ \A s \in Semaphores : word[s] \in Nat
    /\ \A e \in Events : word[e] \in {0, 1}
    /\ \A m \in Mutexes : word[m] \in Owners

LocalsTyped ==
    /\ count \in [Mutexes -> Int]
    /\ pc \in [Threads -> WPCs]
    /\ DOMAIN call = Threads /\ i \in [Threads -> Nat] /\ DOMAIN ret = Threads
    /\ expect \in [Threads -> [Mutexes -> Owners]]
    /\ held \in [Threads -> [Mutexes -> Int]]
    /\ abandoned \in [Threads -> BOOLEAN]
    /\ grabbed \in [Threads -> SUBSET Consumable]

Typed == WordsTyped /\ LocalsTyped

\* Where a thread is says what call it is in, and on what object.
Place(t) ==
    /\ pc[t] = "idle" => i[t] = 1 /\ call[t].op = "none"
    /\ pc[t] = "dead" => call[t].op = "none"
    /\ pc[t] = "release_semaphore" => call[t].op = "semaphore" /\ obj(t) \in Semaphores
    /\ pc[t] \in {"set", "reset", "pulse"} => obj(t) \in Events
    /\ pc[t] = "set" => call[t].op \in {"set", "pulse"}
    /\ pc[t] = "reset" => call[t].op = "reset"
    /\ pc[t] = "pulse" => call[t].op = "pulse"
    /\ pc[t] \in {"release_mutex", "unlock"} => call[t].op = "mutex" /\ obj(t) \in Mutexes
    /\ pc[t] = "wake" =>
           call[t].op \in {"semaphore", "set", "pulse", "mutex"}
           /\ (call[t].op = "pulse" => obj(t) \in Events)
    /\ pc[t] \in {"try", "try_abandoned", "own", "own_abandoned"} => call[t].op = "any"
    /\ pc[t] \in {"try_abandoned", "own", "own_abandoned", "grab_mutex"} => obj(t) \in Mutexes
    /\ pc[t] \in {"first", "single", "verify", "grab", "grab_mutex", "grabbed", "put_back"} =>
           call[t].op = "all"
    /\ pc[t] \in {"again", "awake", "sleep", "asleep", "user_apc"} => call[t].op \in {"any", "all"}

\* A wait has an array and is at one of its objects.
ArrayOK(t) ==
    call[t].op \in {"any", "all"} =>
        /\ call[t].objs \in Seq(Objects) /\ i[t] \in 1..Len(call[t].objs)
        /\ call[t].op = "all" =>
             \A j, k \in 1..Len(call[t].objs) : call[t].objs[j] = call[t].objs[k] => j = k

InOwnCode(t, m) == pc[t] \in {"own", "own_abandoned", "unlock"} /\ obj(t) = m

\* A mutex that a living thread was told it owns, or in whose code it is, is its own. It is
\* told once, and waits for none of those it was told of.
HeldOK(t) ==
    \A m \in Mutexes :
        /\ held[t][m] <= 1
        /\ Alive(t) /\ held[t][m] > 0 => word[m] = t
        /\ InOwnCode(t, m) => word[m] = t /\ held[t][m] <= 0
        /\ call[t].op \in {"any", "all"} /\ pc[t] # "done" /\ m \in Waited(t) => held[t][m] <= 0

Success(t) == pc[t] = "done" /\ call[t].op = "all" /\ ret[t] \in {"signaled", "abandoned"}

\* How many objects of its array a wait for all has at the moment.
Taken(t) ==
    IF pc[t] \in {"grab", "grab_mutex"} THEN i[t] - 1
    ELSE IF pc[t] = "put_back" THEN i[t]
    ELSE IF pc[t] = "grabbed" \/ Success(t) THEN Len(call[t].objs)
    ELSE 0

\* It has these, and has taken nothing else.
TakenOK(t) ==
    /\ \A o \in grabbed[t] : \E k \in 1..Taken(t) : o = call[t].objs[k]
    /\ \A k \in 1..Taken(t) :
         /\ call[t].objs[k] \in Mutexes => word[call[t].objs[k]] = t
         /\ call[t].objs[k] \in Consumable \ Mutexes => call[t].objs[k] \in grabbed[t]

\* A mutex is taken from nobody but the dead: what a compare-and-swap expects is no thread.
GrabExpectOK(t) == pc[t] = "grab_mutex" => expect[t][obj(t)] \in {0, Abandoned}

ThreadOK(t) == Place(t) /\ ArrayOK(t) /\ HeldOK(t) /\ TakenOK(t) /\ GrabExpectOK(t)

\* What the server marks is a dead thread's until it has stored ~0.
ServerOK ==
    /\ \A m \in marking : "tid" \in stores => word[m] = victim
    /\ marking # {} \/ todo # {} => victim \in Threads
    /\ victim \in Threads => ~Alive(victim)
    /\ marking \subseteq Mutexes

WInv == Typed /\ (\A t \in Threads : ThreadOK(t)) /\ ServerOK

-----------------------------------------------------------------------------
(* Types and words.                                                        *)

\* Thread ids are neither 0 nor ~0.
LEMMA Ids == 0 \notin Threads /\ Abandoned \notin Threads
  BY ThreadsAssumption DEF Abandoned

\* An object has one type.
LEMMA Kinds ==
    ASSUME NEW o \in Objects
    PROVE  /\ o \in Semaphores \/ o \in Mutexes \/ o \in AutoEvents \/ o \in ManualEvents
           /\ o \in Semaphores => o \notin Mutexes /\ o \notin Events
           /\ o \in Mutexes => o \notin Semaphores /\ o \notin Events
           /\ o \in AutoEvents \/ o \in ManualEvents <=> o \in Events
           /\ o \in AutoEvents => o \notin ManualEvents
           /\ o \in Consumable <=> o \notin ManualEvents
  BY ObjectsAssumption DEF Objects, Events, Consumable

\* One word gets another value of its type.
LEMMA WordOne ==
    ASSUME Typed, NEW o \in Objects, NEW v \in Int, word' = [word EXCEPT ![o] = v],
           o \in Semaphores => v \in Nat, o \in Events => v \in {0, 1}, o \in Mutexes => v \in Owners
    PROVE  WordsTyped' /\ word'[o] = v /\ \A x \in Objects : x # o => word'[x] = word[x]
  BY DEF Typed, WordsTyped, Objects

\* The word of the object a thread is at, which is no mutex.
LEMMA WordAt ==
    ASSUME Typed, NEW t \in Threads, obj(t) \in Objects \ Mutexes, NEW v \in Int,
           word' = [word EXCEPT ![obj(t)] = v],
           obj(t) \in Semaphores => v \in Nat, obj(t) \in Events => v \in {0, 1}
    PROVE  WordsTyped' /\ word'[obj(t)] = v /\ \A x \in Objects : x # obj(t) => word'[x] = word[x]
<1> DEFINE o == obj(t)
<1>1. o \in Objects /\ (o \in Semaphores => v \in Nat) /\ (o \in Events => v \in {0, 1})
      /\ (o \in Mutexes => v \in Owners) /\ word' = [word EXCEPT ![o] = v]
  OBVIOUS
<1> HIDE DEF o
<1>2. WordsTyped' /\ word'[o] = v /\ \A x \in Objects : x # o => word'[x] = word[x]
  BY <1>1, WordOne
<1> QED BY <1>2 DEF o

\* A thread in a wait is at one of its objects.
LEMMA ObjIs ==
    ASSUME NEW t \in Threads, ArrayOK(t), call[t].op \in {"any", "all"}
    PROVE  obj(t) \in Objects /\ obj(t) \in Waited(t) /\ i[t] \in Nat /\ Len(call[t].objs) \in Nat
           /\ i[t] >= 1 /\ i[t] <= Len(call[t].objs)
           /\ \A k \in 1..Len(call[t].objs) : call[t].objs[k] \in Waited(t) /\ call[t].objs[k] \in Objects
  BY DEF ArrayOK, obj, Waited

-----------------------------------------------------------------------------
(* What a step leaves as it was.                                           *)

\* A thread that takes no part in a step, unless it is woken.
Stays(u) ==
    /\ pc'[u] = pc[u] \/ (pc[u] = "asleep" /\ pc'[u] = "awake")
    /\ call'[u] = call[u] /\ i'[u] = i[u] /\ held'[u] = held[u] /\ expect'[u] = expect[u]
    /\ ret'[u] = ret[u] /\ grabbed'[u] = grabbed[u]

\* Its part of the invariant is about its own variables and the mutexes that are its own.
LEMMA Kept ==
    ASSUME NEW u \in Threads, ThreadOK(u), Stays(u),
           \A m \in Mutexes : Alive(u) /\ word[m] = u => word'[m] = u
    PROVE  ThreadOK(u)'
<1>1. obj(u)' = obj(u) /\ Waited(u)' = Waited(u) /\ (Alive(u)' <=> Alive(u))
  BY DEF Stays, obj, Waited, Alive
<1>2. Place(u)'
  BY <1>1 DEF ThreadOK, Stays, Place
<1>3. ArrayOK(u)'
  BY DEF ThreadOK, Stays, ArrayOK
<1>4. Taken(u)' = Taken(u)
  BY DEF Stays, Taken, Success
<1>5. HeldOK(u)'
  <2>1. \A m \in Mutexes : InOwnCode(u, m)' => InOwnCode(u, m) /\ Alive(u)
    BY <1>1 DEF Stays, InOwnCode, Alive
  <2> QED BY <1>1, <2>1 DEF ThreadOK, Stays, HeldOK
<1>6. TakenOK(u)'
  <2>1. CASE Alive(u)
    BY <1>4, <2>1 DEF ThreadOK, Stays, TakenOK
  <2>2. CASE ~Alive(u)
    <3>1. Taken(u) = 0 /\ \A k \in 1..0 : FALSE
      BY <2>2 DEF Alive, Taken, Success
    <3> QED BY <1>4, <3>1 DEF ThreadOK, Stays, TakenOK
  <2> QED BY <2>1, <2>2
<1>7. GrabExpectOK(u)'
  BY <1>1 DEF ThreadOK, Stays, GrabExpectOK
<1> QED BY <1>2, <1>3, <1>5, <1>6, <1>7 DEF ThreadOK

\* The step of one thread: it changes no mutex of another living thread.
OthersStayed(t) == \A u \in Threads : u # t => Stays(u)
TakesNone(t) == \A m \in Mutexes : word'[m] = word[m] \/ word[m] \in {0, Abandoned, t}

LEMMA OneStep ==
    ASSUME WInv, NEW t \in Threads, Alive(t), OthersStayed(t), TakesNone(t), UNCHANGED sweep,
           Typed', ThreadOK(t)'
    PROVE  WInv'
<1>1. ASSUME NEW u \in Threads, u # t PROVE ThreadOK(u)'
  <2>1. ASSUME NEW m \in Mutexes, word[m] = u PROVE word'[m] = u
    BY <1>1, <2>1, Ids DEF TakesNone
  <2> QED BY <1>1, <2>1, Kept DEF WInv, OthersStayed
<1>2. ServerOK'
  <2>1. /\ marking' = marking /\ stores' = stores /\ victim' = victim /\ todo' = todo
        /\ (victim \in Threads => ~Alive(victim)) /\ (marking # {} \/ todo # {} => victim \in Threads)
        /\ marking \subseteq Mutexes
    BY DEF sweep, WInv, ServerOK
  <2>2. ASSUME victim \in Threads PROVE ~Alive(victim)'
    BY <2>1, <2>2 DEF OthersStayed, Stays, Alive
  <2>3. ASSUME NEW m \in marking, "tid" \in stores PROVE word'[m] = victim
    <3>1. word[m] = victim /\ victim \in Threads /\ victim # t /\ m \in Mutexes
      BY <2>1, <2>3 DEF WInv, ServerOK
    <3> QED BY <3>1, Ids DEF TakesNone
  <2> QED BY <2>1, <2>2, <2>3 DEF ServerOK
<1> QED BY <1>1, <1>2 DEF WInv

\* A thread that has taken nothing goes on, with no mutex given or taken.
LEMMA QuietWait ==
    ASSUME NEW t \in Threads, ThreadOK(t), Alive(t),
           \A m \in Mutexes : word'[m] = word[m], held'[t] = held[t], Taken(t) = 0, Taken(t)' = 0,
           grabbed'[t] = grabbed[t] \/ grabbed'[t] = {},
           Place(t)', ArrayOK(t)', pc'[t] \notin {"own", "own_abandoned", "unlock", "grab_mutex"},
           call'[t].op \in {"any", "all"} /\ pc'[t] # "done" =>
             \A m \in Mutexes : m \in Waited(t)' => held[t][m] <= 0
    PROVE  ThreadOK(t)'
<1>1. grabbed[t] = {}
  BY DEF ThreadOK, TakenOK
<1>2. TakenOK(t)' /\ GrabExpectOK(t)'
  BY <1>1 DEF TakenOK, GrabExpectOK
<1>3. HeldOK(t)'
  BY DEF ThreadOK, HeldOK, InOwnCode
<1> QED BY <1>2, <1>3 DEF ThreadOK

\* The initial states.
LEMMA InitWInv == WInit => WInv
<1> SUFFICES ASSUME WInit PROVE WInv
  OBVIOUS
<1>1. /\ word \in [Objects -> 0..SemMax] /\ (\A e \in Events : word[e] \in {0, 1})
      /\ (\A m \in Mutexes : word[m] = 0) /\ SemMax \in Nat
      /\ count = [m \in Mutexes |-> 0] /\ pc = [t \in Threads |-> "idle"]
      /\ call = [t \in Threads |-> NoCall] /\ i = [t \in Threads |-> 1]
      /\ expect = [t \in Threads |-> [m \in Mutexes |-> 0]] /\ ret = [t \in Threads |-> "none"]
      /\ held = [t \in Threads |-> [m \in Mutexes |-> 0]]
      /\ victim = 0 /\ todo = {} /\ marking = {} /\ stores = {}
      /\ abandoned = [t \in Threads |-> FALSE] /\ grabbed = [t \in Threads |-> {}]
  BY SemaphoreAssumption DEF WInit, AInit, Init
<1>2. Typed
  <2>1. WordsTyped
    BY <1>1 DEF WordsTyped, Objects, Owners
  <2>2. "idle" \in WPCs
    BY DEF WPCs, PCs
  <2> QED BY <1>1, <2>1, <2>2 DEF Typed, LocalsTyped, Owners
<1>3. ASSUME NEW t \in Threads PROVE ThreadOK(t)
  <2>1. pc[t] = "idle" /\ call[t].op = "none" /\ i[t] = 1 /\ grabbed[t] = {} /\ Taken(t) = 0
    BY <1>1 DEF NoCall, Call, Taken, Success
  <2> QED BY <1>1, <2>1 DEF ThreadOK, Place, ArrayOK, HeldOK, TakenOK, GrabExpectOK, InOwnCode
<1>4. ServerOK
  BY <1>1, Ids DEF ServerOK
<1> QED BY <1>2, <1>3, <1>4 DEF WInv

-----------------------------------------------------------------------------
(* The calls begin.                                                        *)

\* A call begins with the first of its objects.
LEMMA Entered ==
    ASSUME WInv, NEW t \in Threads, NEW l \in {"release_semaphore", "set", "reset", "release_mutex", "again", "first"},
           NEW c, Enter(t, l, c), UNCHANGED <<sweep, abandoned, grabbed>>,
           l \in {"again", "first"} <=> c.op \in {"any", "all"},
           l = "first" <=> c.op = "all",
           l = "release_semaphore" => c.op = "semaphore" /\ c.objs[1] \in Semaphores,
           l \in {"set", "reset"} => c.objs[1] \in Events,
           l = "set" => c.op \in {"set", "pulse"}, l = "reset" => c.op = "reset",
           l = "release_mutex" => c.op = "mutex" /\ c.objs[1] \in Mutexes,
           c.op \in {"any", "all"} =>
             /\ c.objs \in Seq(Objects) /\ 1 \in 1..Len(c.objs)
             /\ c.op = "all" => \A j, k \in 1..Len(c.objs) : c.objs[j] = c.objs[k] => j = k
             /\ \A k \in 1..Len(c.objs) : c.objs[k] \in Mutexes => held[t][c.objs[k]] <= 0
    PROVE  WInv'
<1>1. /\ pc[t] = "idle" /\ pc' = [pc EXCEPT ![t] = l] /\ call' = [call EXCEPT ![t] = c]
      /\ UNCHANGED <<word, count, apc, server, i, expect, ret, held>>
  BY DEF Enter, Goto, shared
<1>2. Typed /\ ThreadOK(t)
  BY DEF WInv
<1>3. pc'[t] = l /\ call'[t] = c /\ i'[t] = 1 /\ OthersStayed(t) /\ Alive(t) /\ Alive(t)'
  BY <1>1, <1>2 DEF Typed, LocalsTyped, ThreadOK, Place, OthersStayed, Stays, Alive
<1>4. obj(t)' = c.objs[1]
  BY <1>3 DEF obj
<1>5. Place(t)' /\ ArrayOK(t)'
  BY <1>3, <1>4 DEF Place, ArrayOK
<1>6. Taken(t) = 0 /\ Taken(t)' = 0
  BY <1>1, <1>3 DEF Taken, Success
<1>7. c.op \in {"any", "all"} => \A m \in Mutexes : m \in Waited(t)' => held[t][m] <= 0
  BY <1>3 DEF Waited
<1>8. ThreadOK(t)'
  BY <1>1, <1>2, <1>3, <1>5, <1>6, <1>7, QuietWait
<1>9. Typed'
  <2>1. WordsTyped'
    BY <1>1, <1>2 DEF Typed, WordsTyped
  <2>2. l \in WPCs
    BY DEF WPCs, PCs
  <2> QED BY <1>1, <1>2, <2>1, <2>2 DEF Typed, LocalsTyped
<1>10. TakesNone(t)
  BY <1>1 DEF TakesNone
<1> QED BY <1>3, <1>8, <1>9, <1>10, OneStep

\* The signalling calls.
LEMMA CallSteps ==
    ASSUME WInv, NEW t \in Threads, UNCHANGED <<sweep, abandoned, grabbed>>,
           CallReleaseSemaphore(t) \/ CallReleaseMutex(t) \/ CallSetEvent(t) \/ CallResetEvent(t)
    PROVE  WInv'
<1>1. ASSUME NEW op, NEW o PROVE ToObject(op, o).op = op /\ ToObject(op, o).objs[1] = o
  BY DEF ToObject, Call
<1>2. CASE CallReleaseSemaphore(t)
  <2>1. PICK o \in Semaphores : Enter(t, "release_semaphore", ToObject("semaphore", o))
    BY <1>2 DEF CallReleaseSemaphore
  <2> QED BY <1>1, <2>1, Entered
<1>3. CASE CallReleaseMutex(t)
  <2>1. PICK o \in Mutexes : Enter(t, "release_mutex", ToObject("mutex", o))
    BY <1>3 DEF CallReleaseMutex
  <2> QED BY <1>1, <2>1, Entered
<1>4. CASE CallSetEvent(t)
  <2>1. PICK o \in Events, op \in {"set", "pulse"} : Enter(t, "set", ToObject(op, o))
    BY <1>4 DEF CallSetEvent
  <2> QED BY <1>1, <2>1, Entered
<1>5. CASE CallResetEvent(t)
  <2>1. PICK o \in Events : Enter(t, "reset", ToObject("reset", o))
    BY <1>5 DEF CallResetEvent
  <2> QED BY <1>1, <2>1, Entered
<1> QED BY <1>2, <1>3, <1>4, <1>5

\* A wait for any object, and one for all.
LEMMA CallWaitSteps ==
    ASSUME WInv, NotNested, NEW t \in Threads,
           \/ CallWaitAny(t) /\ UNCHANGED <<sweep, abandoned, grabbed>>
           \/ CallWaitAll(t)
    PROVE  WInv'
<1>1. ASSUME NEW objs, \A k \in DOMAIN objs : objs[k] \in Mutexes => held[t][objs[k]] < MaxNesting,
             objs \in Seq(Objects)
      PROVE  \A k \in 1..Len(objs) : objs[k] \in Mutexes => held[t][objs[k]] <= 0
  <2>1. \A m \in Mutexes : held[t][m] \in Int
    BY DEF WInv, Typed, LocalsTyped
  <2> QED BY <1>1, <2>1 DEF NotNested
<1>2. CASE CallWaitAny(t) /\ UNCHANGED <<sweep, abandoned, grabbed>>
  <2>1. PICK objs \in AnyWaits, alertable \in AlertableWaits, timeout \in Timeouts :
          /\ \A k \in DOMAIN objs : objs[k] \in Mutexes => held[t][objs[k]] < MaxNesting
          /\ Enter(t, "again", Call("any", objs, alertable, timeout))
    BY <1>2 DEF CallWaitAny
  <2> DEFINE c == Call("any", objs, alertable, timeout)
  <2>2. c.op = "any" /\ c.objs = objs
    BY DEF Call
  <2>3. objs \in Seq(Objects) /\ 1 \in 1..Len(objs)
    BY WaitsAssumption
  <2>4. \A k \in 1..Len(objs) : objs[k] \in Mutexes => held[t][objs[k]] <= 0
    BY <1>1, <2>1, <2>3
  <2>5. Enter(t, "again", c)
    BY <2>1
  <2> HIDE DEF c
  <2> QED BY <1>2, <2>2, <2>3, <2>4, <2>5, Entered
<1>3. CASE CallWaitAll(t)
  <2>1. PICK objs \in AllWaits, alertable \in AlertableWaits, timeout \in Timeouts :
          /\ \A k \in DOMAIN objs : objs[k] \in Mutexes => held[t][objs[k]] < MaxNesting
          /\ Enter(t, "first", Call("all", objs, alertable, timeout))
          /\ UNCHANGED <<sweep, abandoned, grabbed>>
    BY <1>3 DEF CallWaitAll
  <2> DEFINE c == Call("all", objs, alertable, timeout)
  <2>2. c.op = "all" /\ c.objs = objs
    BY DEF Call
  <2>3. objs \in Seq(Objects) /\ 1 \in 1..Len(objs)
        /\ \A j, k \in 1..Len(objs) : objs[j] = objs[k] => j = k
    BY AllWaitsAssumption
  <2>4. \A k \in 1..Len(objs) : objs[k] \in Mutexes => held[t][objs[k]] <= 0
    BY <1>1, <2>1, <2>3
  <2>5. Enter(t, "first", c)
    BY <2>1
  <2> HIDE DEF c
  <2> QED BY <2>1, <2>2, <2>3, <2>4, <2>5, Entered
<1> QED BY <1>2, <1>3

-----------------------------------------------------------------------------
(* The calls that signal.                                                  *)

\* A thread goes on within its call, without a mutex being given or taken.
LEMMA GoesOn ==
    ASSUME WInv, NEW t \in Threads, UNCHANGED <<call, held, grabbed, sweep>>, OthersStayed(t),
           Alive(t), pc[t] # "done", pc[t] # "idle",
           pc'[t] \notin {"dead", "own", "own_abandoned", "unlock", "grab_mutex"},
           Typed', \A m \in Mutexes : word'[m] = word[m],
           Taken(t) = 0, Taken(t)' = 0, Place(t)', ArrayOK(t)'
    PROVE  WInv'
<1>1. ThreadOK(t) /\ Waited(t)' = Waited(t)
  BY DEF WInv, Waited
<1>2. \A m \in Mutexes : call[t].op \in {"any", "all"} /\ m \in Waited(t) => held[t][m] <= 0
  BY <1>1 DEF ThreadOK, HeldOK
<1>3. Alive(t)'
  BY DEF Alive
<1>4. ThreadOK(t)'
  BY <1>1, <1>2, <1>3, QuietWait
<1>5. TakesNone(t)
  BY DEF TakesNone
<1> QED BY <1>4, <1>5, OneStep

\* Releasing a semaphore, setting and resetting an event.
LEMMA SignalSteps ==
    ASSUME WInv, NEW t \in Threads, UNCHANGED <<sweep, abandoned, grabbed>>,
           ReleaseSemaphore(t) \/ SetEvent(t) \/ ResetEvent(t)
    PROVE  WInv'
<1>1. Typed /\ ThreadOK(t)
  BY DEF WInv
<1>2. /\ UNCHANGED <<count, apc, server, call, i, expect, held>> /\ Alive(t)
      /\ pc[t] \in {"release_semaphore", "set", "reset", "pulse"}
      /\ obj(t) \in Objects \ Mutexes /\ call[t].op \notin {"any", "all"}
  <2>1. obj(t) \in Semaphores \union Events /\ call[t].op \notin {"any", "all"}
    BY <1>1 DEF ThreadOK, Place, ReleaseSemaphore, SetEvent, ResetEvent
  <2>2. obj(t) \in Objects \ Mutexes
    BY <2>1, ObjectsAssumption DEF Objects
  <2> QED BY <2>1, <2>2 DEF ReleaseSemaphore, SetEvent, ResetEvent, Alive
<1>3. PICK l \in {"wake", "done", "pulse"} :
        /\ pc' = [pc EXCEPT ![t] = l]
        /\ ret' = ret \/ ret' = [ret EXCEPT ![t] = "limit_exceeded"]
        /\ l = "pulse" => call[t].op = "pulse" /\ obj(t) \in Events
        /\ call[t].op = "pulse" => obj(t) \in Events
  <2>1. CASE ReleaseSemaphore(t)
    <3>1. call[t].op # "pulse"
      BY <1>1, <2>1 DEF ReleaseSemaphore, ThreadOK, Place
    <3> QED BY <2>1, <3>1 DEF ReleaseSemaphore, Return, Goto
  <2>2. CASE SetEvent(t) \/ ResetEvent(t)
    <3>1. obj(t) \in Events
      BY <1>1, <2>2 DEF SetEvent, ResetEvent, ThreadOK, Place
    <3> QED BY <2>2, <3>1 DEF SetEvent, ResetEvent, Goto, Signalled
  <2> QED BY <2>1, <2>2
<1>4. WordsTyped' /\ \A m \in Mutexes : word'[m] = word[m]
  <2>1. CASE ReleaseSemaphore(t)
    <3>1. obj(t) \in Semaphores
      BY <1>1, <2>1 DEF ReleaseSemaphore, ThreadOK, Place
    <3>2. PICK n \in ReleaseCounts :
            word' = word \/ word' = [word EXCEPT ![obj(t)] = Plus(word[obj(t)], n)]
      BY <2>1 DEF ReleaseSemaphore
    <3>3. Plus(word[obj(t)], n) \in Nat
      <4>1. word[obj(t)] \in Nat /\ n \in Nat
        BY <1>1, <3>1, SemaphoreAssumption DEF Typed, WordsTyped
      <4> QED BY <4>1, SemaphoreAssumption DEF Plus
    <3>4. CASE word' = word
      BY <1>1, <3>4 DEF Typed, WordsTyped
    <3>5. CASE word' = [word EXCEPT ![obj(t)] = Plus(word[obj(t)], n)]
      <4>1. obj(t) \notin Events
        BY <1>2, <3>1, Kinds
      <4> DEFINE v == Plus(word[obj(t)], n)
      <4>2. v \in Int /\ (obj(t) \in Semaphores => v \in Nat) /\ word' = [word EXCEPT ![obj(t)] = v]
            /\ (obj(t) \in Events => v \in {0, 1})
        BY <3>3, <3>5, <4>1
      <4> HIDE DEF v
      <4>3. WordsTyped' /\ \A x \in Objects : x # obj(t) => word'[x] = word[x]
        BY <1>1, <1>2, <4>2, WordAt
      <4> QED BY <1>2, <4>3 DEF Objects
    <3> QED BY <3>2, <3>4, <3>5
  <2>2. CASE SetEvent(t) \/ ResetEvent(t)
    <3>1. PICK v \in {0, 1} : word' = [word EXCEPT ![obj(t)] = v]
      BY <2>2 DEF SetEvent, ResetEvent
    <3>2. obj(t) \notin Semaphores
      <4>1. obj(t) \in Events
        BY <1>1, <2>2 DEF SetEvent, ResetEvent, ThreadOK, Place
      <4> QED BY <1>2, <4>1, Kinds
    <3>3. WordsTyped' /\ \A x \in Objects : x # obj(t) => word'[x] = word[x]
      <4>1. v \in Int /\ (obj(t) \in Semaphores => v \in Nat) /\ (obj(t) \in Events => v \in {0, 1})
        BY <3>1, <3>2
      <4> QED BY <1>1, <1>2, <3>1, <4>1, WordAt
    <3> QED BY <1>2, <3>3 DEF Objects
  <2> QED BY <2>1, <2>2
<1>5. pc'[t] = l /\ OthersStayed(t)
  BY <1>1, <1>2, <1>3 DEF Typed, LocalsTyped, OthersStayed, Stays
<1>6. Typed'
  <2>1. l \in WPCs
    BY DEF WPCs, PCs
  <2> QED BY <1>1, <1>2, <1>3, <1>4, <2>1 DEF Typed, LocalsTyped
<1>7. Taken(t) = 0 /\ Taken(t)' = 0
  BY <1>2, <1>5 DEF Taken, Success
<1>8. obj(t)' = obj(t)
  BY <1>2 DEF obj
<1>9. Place(t)' /\ ArrayOK(t)'
  <2>1. l = "wake" => call[t].op \in {"semaphore", "set", "pulse", "mutex"}
    BY <1>1, <1>2, <1>3 DEF ReleaseSemaphore, SetEvent, ResetEvent, Goto, ThreadOK, Place, Typed, LocalsTyped
  <2> QED BY <1>2, <1>3, <1>5, <1>8, <2>1 DEF Place, ArrayOK
<1> QED BY <1>2, <1>4, <1>5, <1>6, <1>7, <1>9, GoesOn

\* A mutex that is not the caller's; a wake of those who sleep.
LEMMA NotOwnedWakeSteps ==
    ASSUME WInv, NEW t \in Threads, UNCHANGED <<sweep, abandoned, grabbed>>, NotOwned(t) \/ Wake(t)
    PROVE  WInv'
<1>1. Typed /\ ThreadOK(t)
  BY DEF WInv
<1>2. /\ UNCHANGED <<word, count, apc, server, call, i, expect, held>> /\ Alive(t)
      /\ pc[t] \in {"release_mutex", "wake"} /\ call[t].op \notin {"any", "all"}
  BY <1>1 DEF NotOwned, Wake, shared, Alive, ThreadOK, Place
<1>3. /\ pc'[t] \in {"done", "pulse"} /\ (pc'[t] = "pulse" => call[t].op = "pulse" /\ obj(t) \in Events)
      /\ OthersStayed(t) /\ DOMAIN ret' = Threads /\ pc' \in [Threads -> WPCs]
  <2>1. CASE NotOwned(t)
    BY <1>1, <2>1 DEF NotOwned, Return, Goto, Typed, LocalsTyped, OthersStayed, Stays, WPCs, PCs
  <2>2. CASE Wake(t)
    <3>1. Signalled(t) \in {"done", "pulse"} /\ (Signalled(t) = "pulse" => call[t].op = "pulse")
      BY DEF Signalled
    <3>2. pc'[t] = Signalled(t) /\ ret' = ret
          /\ \A u \in Threads : u # t => pc'[u] = pc[u] \/ (pc[u] = "asleep" /\ pc'[u] = "awake")
      BY <2>2 DEF Wake, Sleepers
    <3>3. pc' \in [Threads -> WPCs]
      BY <1>1, <2>2, <3>1 DEF Wake, Typed, LocalsTyped, WPCs, PCs
    <3>4. call[t].op = "pulse" => obj(t) \in Events
      BY <1>1, <2>2 DEF Wake, ThreadOK, Place
    <3> QED BY <1>1, <1>2, <3>1, <3>2, <3>3, <3>4 DEF OthersStayed, Stays, Typed, LocalsTyped
  <2> QED BY <2>1, <2>2
<1>4. Typed'
  BY <1>1, <1>2, <1>3 DEF Typed, LocalsTyped, WordsTyped
<1>5. Taken(t) = 0 /\ Taken(t)' = 0
  BY <1>2, <1>3 DEF Taken, Success
<1>6. Place(t)' /\ ArrayOK(t)'
  <2>1. obj(t)' = obj(t)
    BY <1>2 DEF obj
  <2> QED BY <1>2, <1>3, <2>1 DEF Place, ArrayOK
<1> QED BY <1>2, <1>3, <1>4, <1>5, <1>6, GoesOn

\* A release that is the last one, or not; and the store that frees the mutex.
LEMMA ReleaseSteps ==
    ASSUME WInv, NEW t \in Threads, UNCHANGED <<sweep, abandoned, grabbed>>,
           ReleaseMutex(t) \/ UnlockMutex(t)
    PROVE  WInv'
<1> DEFINE m == obj(t)
<1>1. Typed /\ ThreadOK(t)
  BY DEF WInv
<1>2. /\ m \in Mutexes /\ m \in Objects /\ call[t].op = "mutex" /\ UNCHANGED <<call, i, expect, ret>> /\ Alive(t)
      /\ pc[t] \in {"release_mutex", "unlock"}
  BY <1>1 DEF ReleaseMutex, UnlockMutex, ThreadOK, Place, Alive, Objects
<1>3. word[m] = t /\ obj(t)' = m
  <2>1. InOwnCode(t, m) => word[m] = t
    BY <1>1, <1>2 DEF ThreadOK, HeldOK
  <2> QED BY <1>2, <2>1 DEF ReleaseMutex, UnlockMutex, InOwnCode, obj
<1>4. Taken(t) = 0 /\ grabbed[t] = {}
  <2>1. Taken(t) = 0
    BY <1>2 DEF Taken, Success
  <2> QED BY <1>1, <2>1 DEF ThreadOK, TakenOK
<1>5. CASE ReleaseMutex(t)
  <2>1. PICK l \in {"unlock", "done"} : pc' = [pc EXCEPT ![t] = l]
    BY <1>5 DEF ReleaseMutex, Goto
  <2>2. /\ word' = word /\ pc[t] = "release_mutex"
        /\ count' = [count EXCEPT ![m] = @ - 1] /\ held' = [held EXCEPT ![t][m] = @ - 1]
    BY <1>5 DEF ReleaseMutex
  <2>3. pc'[t] = l /\ OthersStayed(t)
    BY <1>1, <1>2, <2>1, <2>2 DEF Typed, LocalsTyped, OthersStayed, Stays
  <2>4. Typed'
    <3>1. count' \in [Mutexes -> Int] /\ held' \in [Threads -> [Mutexes -> Int]] /\ l \in WPCs
      BY <1>1, <1>2, <2>2 DEF Typed, LocalsTyped, WPCs, PCs
    <3> QED BY <1>1, <1>2, <2>1, <2>2, <3>1 DEF Typed, LocalsTyped, WordsTyped
  <2>5. /\ held'[t][m] <= 0 /\ \A n \in Mutexes : n # m => held'[t][n] = held[t][n]
    <3>1. held[t][m] \in Int /\ held[t][m] <= 1 /\ held'[t][m] = held[t][m] - 1
      BY <1>1, <1>2, <2>2 DEF Typed, LocalsTyped, ThreadOK, HeldOK
    <3> QED BY <1>1, <1>2, <2>2, <3>1 DEF Typed, LocalsTyped
  <2>6. HeldOK(t)'
    <3>1. ASSUME NEW n \in Mutexes
          PROVE  /\ held'[t][n] <= 1 /\ (held'[t][n] > 0 => word[n] = t)
                 /\ n = m => held'[t][n] <= 0
      <4>1. held'[t][m] \in Int
        BY <1>2, <2>4 DEF Typed, LocalsTyped
      <4> QED BY <1>1, <1>2, <2>5, <4>1 DEF ThreadOK, HeldOK
    <3> QED BY <1>2, <1>3, <2>2, <2>3, <3>1 DEF HeldOK, InOwnCode
  <2>7. Taken(t)' = 0
    BY <1>2, <2>3 DEF Taken, Success
  <2>8. ThreadOK(t)'
    BY <1>2, <1>3, <1>4, <2>3, <2>6, <2>7 DEF ThreadOK, Place, ArrayOK, TakenOK, GrabExpectOK
  <2>9. TakesNone(t)
    BY <2>2 DEF TakesNone
  <2> QED BY <1>2, <2>3, <2>4, <2>8, <2>9, OneStep
<1>6. CASE UnlockMutex(t)
  <2>1. pc' = [pc EXCEPT ![t] = "wake"] /\ word' = [word EXCEPT ![m] = 0] /\ UNCHANGED <<count, held>>
        /\ pc[t] = "unlock"
    BY <1>6 DEF UnlockMutex, Goto
  <2>2. pc'[t] = "wake" /\ OthersStayed(t)
    BY <1>1, <1>2, <2>1 DEF Typed, LocalsTyped, OthersStayed, Stays
  <2>3. m \notin Semaphores /\ m \notin Events
    BY <1>2, Kinds
  <2> HIDE DEF m
  <2>4. WordsTyped' /\ word'[m] = 0 /\ \A x \in Objects : x # m => word'[x] = word[x]
    <3>1. 0 \in Int /\ (m \in Semaphores => 0 \in Nat) /\ (m \in Events => 0 \in {0, 1})
          /\ (m \in Mutexes => 0 \in Owners)
      BY DEF Owners
    <3> QED BY <1>1, <1>2, <2>1, <3>1, WordOne
  <2>5. Typed'
    <3>1. "wake" \in WPCs
      BY DEF WPCs, PCs
    <3> QED BY <1>1, <1>2, <2>1, <2>4, <3>1 DEF Typed, LocalsTyped
  <2>6. held[t][m] <= 0 /\ held[t][m] \in Int
    BY <1>1, <1>2, <2>1 DEF ThreadOK, HeldOK, InOwnCode, m, Typed, LocalsTyped
  <2>7. HeldOK(t)'
    <3>1. ASSUME NEW n \in Mutexes PROVE held[t][n] <= 1 /\ (held[t][n] > 0 => word'[n] = t)
      BY <1>1, <1>2, <2>4, <2>6, <3>1 DEF ThreadOK, HeldOK, Objects
    <3> QED BY <1>2, <2>1, <2>2, <3>1 DEF HeldOK, InOwnCode
  <2>8. Taken(t)' = 0
    BY <1>2, <2>2 DEF Taken, Success
  <2>9. ThreadOK(t)'
    BY <1>2, <1>4, <2>2, <2>7, <2>8 DEF ThreadOK, Place, ArrayOK, TakenOK, GrabExpectOK
  <2>10. TakesNone(t)
    BY <1>3, <2>4 DEF TakesNone, Objects
  <2> QED BY <1>2, <2>2, <2>5, <2>9, <2>10, OneStep
<1> QED BY <1>5, <1>6

-----------------------------------------------------------------------------
(* What the steps of a wait have in common.                                *)

\* A thread in a call goes to another place; it may change what is its own.
Moved(t, l) ==
    /\ pc' = [pc EXCEPT ![t] = l] /\ call' = call
    /\ i' = i \/ \E j \in Nat : i' = [i EXCEPT ![t] = j]
    /\ ret' = ret \/ \E x \in {"signaled", "abandoned", "timeout", "user_apc"} : ret' = [ret EXCEPT ![t] = x]
    /\ expect' = expect \/ \E f \in [Mutexes -> Owners] : expect' = [expect EXCEPT ![t] = f]
    /\ held' = held \/ \E f \in [Mutexes -> Int] : held' = [held EXCEPT ![t] = f]
    /\ grabbed' = grabbed \/ \E g \in SUBSET Consumable : grabbed' = [grabbed EXCEPT ![t] = g]
    /\ count' \in [Mutexes -> Int] /\ abandoned' \in [Threads -> BOOLEAN]
    /\ UNCHANGED sweep

\* It changes nothing of another thread's.
LEMMA MovedAlone ==
    ASSUME Typed, NEW t \in Threads, NEW l \in WPCs, Moved(t, l)
    PROVE  LocalsTyped' /\ OthersStayed(t) /\ pc'[t] = l /\ call'[t] = call[t] /\ obj(t)' = call[t].objs[i'[t]]
           /\ Waited(t)' = Waited(t)
<1>1. /\ i' \in [Threads -> Nat] /\ \A u \in Threads : u # t => i'[u] = i[u]
      /\ DOMAIN ret' = Threads /\ \A u \in Threads : u # t => ret'[u] = ret[u]
  BY DEF Moved, Typed, LocalsTyped
<1>2. /\ expect' \in [Threads -> [Mutexes -> Owners]] /\ \A u \in Threads : u # t => expect'[u] = expect[u]
  BY DEF Moved, Typed, LocalsTyped
<1>3. /\ held' \in [Threads -> [Mutexes -> Int]] /\ \A u \in Threads : u # t => held'[u] = held[u]
  <2> DEFINE Tables == [Mutexes -> Int]
  <2>1. held \in [Threads -> Tables] /\ (held' = held \/ \E f \in Tables : held' = [held EXCEPT ![t] = f])
    BY DEF Moved, Typed, LocalsTyped
  <2> HIDE DEF Tables
  <2>2. held' \in [Threads -> Tables] /\ \A u \in Threads : u # t => held'[u] = held[u]
    BY <2>1
  <2> QED BY <2>2 DEF Tables
<1>4. /\ grabbed' \in [Threads -> SUBSET Consumable] /\ \A u \in Threads : u # t => grabbed'[u] = grabbed[u]
  BY DEF Moved, Typed, LocalsTyped
<1>5. /\ pc' \in [Threads -> WPCs] /\ pc'[t] = l /\ \A u \in Threads : u # t => pc'[u] = pc[u]
      /\ call' = call /\ DOMAIN call = Threads
      /\ count' \in [Mutexes -> Int] /\ abandoned' \in [Threads -> BOOLEAN]
  BY DEF Moved, Typed, LocalsTyped
<1>6. LocalsTyped'
  BY <1>1, <1>2, <1>3, <1>4, <1>5 DEF LocalsTyped
<1>7. OthersStayed(t)
  BY <1>1, <1>2, <1>3, <1>4, <1>5 DEF OthersStayed, Stays
<1> QED BY <1>5, <1>6, <1>7 DEF obj, Waited

\* A wait that has taken nothing goes on, and takes no mutex.
LEMMA WaitGoesOn ==
    ASSUME WInv, NEW t \in Threads, call[t].op \in {"any", "all"}, Alive(t), pc[t] # "done",
           NEW l \in {"again", "try", "try_abandoned", "sleep", "asleep", "user_apc", "done",
                      "first", "single", "verify", "grab"},
           Moved(t, l), held' = held, grabbed' = grabbed, i'[t] \in 1..Len(call[t].objs),
           WordsTyped', \A m \in Mutexes : word'[m] = word[m], Taken(t) = 0,
           l \in {"try", "try_abandoned"} => call[t].op = "any",
           l = "try_abandoned" => call[t].objs[i'[t]] \in Mutexes,
           l \in {"first", "single", "verify", "grab"} => call[t].op = "all",
           l = "grab" => i'[t] = 1,
           l = "done" => call[t].op = "any" \/ ret'[t] \notin {"signaled", "abandoned"}
    PROVE  WInv'
<1>1. Typed /\ ThreadOK(t) /\ l \in WPCs
  BY DEF WInv, WPCs, PCs
<1>2. LocalsTyped' /\ OthersStayed(t) /\ pc'[t] = l /\ call'[t] = call[t] /\ obj(t)' = call[t].objs[i'[t]]
  BY <1>1, MovedAlone
<1>3. Taken(t)' = 0
  BY <1>2 DEF Taken, Success
<1>4. Place(t)'
  BY <1>2 DEF Place
<1>5. ArrayOK(t)'
  BY <1>1, <1>2 DEF ThreadOK, ArrayOK
<1>6. UNCHANGED <<call, sweep>> /\ pc[t] # "idle"
  BY <1>1 DEF Moved, ThreadOK, Place
<1> QED BY <1>2, <1>3, <1>4, <1>5, <1>6, GoesOn DEF Typed

-----------------------------------------------------------------------------
(* The wait for any object.                                                *)

\* A step of a wait that has taken nothing, as long as it takes none.
Waits(t) == call[t].op \in {"any", "all"} /\ Alive(t) /\ pc[t] # "done" /\ Taken(t) = 0

\* The word of a mutex stays what it is when another object's changes.
LEMMA UnitTaken ==
    ASSUME Typed, NEW t \in Threads, obj(t) \in Objects \ Mutexes, word[obj(t)] > 0,
           \/ word' = [word EXCEPT ![obj(t)] = @ - 1]
           \/ word' = [word EXCEPT ![obj(t)] = IF obj(t) \in ManualEvents THEN @ ELSE @ - 1]
    PROVE  WordsTyped' /\ \A m \in Mutexes : word'[m] = word[m]
<1> DEFINE o == obj(t)
<1>1. PICK v \in {word[o], word[o] - 1} : word' = [word EXCEPT ![o] = v]
  OBVIOUS
<1>2. word[o] \in Int /\ (o \in Semaphores => word[o] \in Nat) /\ (o \in Events => word[o] \in {0, 1})
  BY DEF Typed, WordsTyped
<1>3. v \in Int /\ (o \in Semaphores => v \in Nat) /\ (o \in Events => v \in {0, 1})
  BY <1>1, <1>2
<1>4. WordsTyped' /\ \A x \in Objects : x # obj(t) => word'[x] = word[x]
  BY <1>1, <1>3, WordAt
<1> QED BY <1>4 DEF Objects

\* The steps that take no mutex.
LEMMA AnySteps ==
    ASSUME WInv, NEW t \in Threads, UNCHANGED <<sweep, abandoned>>, grabbed' = grabbed,
           \/ CheckApc(t) \/ TrySignaled(t) \/ SkipUnsignaled(t) \/ SkipMutex(t)
           \/ FutexWait(t) \/ UserApc(t) \/ SeeAbandoned(t) \/ TimedOut(t) \/ Interrupted(t)
    PROVE  WInv'
<1>1. Typed /\ ThreadOK(t)
  BY DEF WInv
<1>2. Waits(t)
  BY <1>1 DEF ThreadOK, Place, Waits, Taken, Success, Alive, CheckApc, TrySignaled, SkipUnsignaled,
              SkipMutex, FutexWait, UserApc, SeeAbandoned, TimedOut, Interrupted
<1>3. /\ i \in [Threads -> Nat] /\ i[t] \in 1..Len(call[t].objs) /\ Len(call[t].objs) \in Nat
      /\ obj(t) \in Objects
  BY <1>1, <1>2, ObjIs DEF ThreadOK, Waits, Typed, LocalsTyped
<1>4. count \in [Mutexes -> Int] /\ abandoned' \in [Threads -> BOOLEAN] /\ expect \in [Threads -> [Mutexes -> Owners]]
  BY <1>1 DEF Typed, LocalsTyped
<1>5. word' = word => WordsTyped'
  BY <1>1 DEF Typed, WordsTyped
<1>6. CASE CheckApc(t) \/ FutexWait(t) \/ UserApc(t) \/ SeeAbandoned(t) \/ TimedOut(t) \/ Interrupted(t)
  <2>1. /\ UNCHANGED <<word, count, call, expect, held>>
        /\ i' = i \/ i' = [i EXCEPT ![t] = 1]
        /\ ret' = ret \/ \E x \in {"timeout", "user_apc"} : ret' = [ret EXCEPT ![t] = x]
    BY <1>6 DEF CheckApc, FutexWait, UserApc, SeeAbandoned, TimedOut, Interrupted, Return, Goto, shared
  <2>2. PICK l \in {"again", "try", "try_abandoned", "asleep", "user_apc", "done"} :
          /\ pc' = [pc EXCEPT ![t] = l]
          /\ l = "try" => call[t].op = "any"
          /\ l = "try_abandoned" => obj(t) \in Mutexes /\ i' = i /\ call[t].op = "any"
          /\ l = "done" => call[t].op = "any" \/ ret' = [ret EXCEPT ![t] = "user_apc"]
    BY <1>1, <1>6 DEF CheckApc, FutexWait, UserApc, SeeAbandoned, TimedOut, Interrupted, Return, Goto, ThreadOK, Place
  <2>3. Moved(t, l)
    BY <1>4, <2>1, <2>2 DEF Moved
  <2>4. i'[t] \in 1..Len(call[t].objs) /\ (l = "try_abandoned" => call[t].objs[i'[t]] \in Mutexes)
    BY <1>3, <2>1, <2>2 DEF obj
  <2>5. l = "done" => call[t].op = "any" \/ ret'[t] \notin {"signaled", "abandoned"}
    BY <1>1, <2>2 DEF Typed, LocalsTyped
  <2> QED BY <1>2, <1>5, <2>1, <2>2, <2>3, <2>4, <2>5, WaitGoesOn DEF Waits
<1>7. CASE TrySignaled(t)
  <2>1. /\ pc' = [pc EXCEPT ![t] = "done"] /\ call[t].op = "any" /\ UNCHANGED <<count, call, i, expect, held>>
        /\ ret' = [ret EXCEPT ![t] = "signaled"]
    BY <1>1, <1>7 DEF TrySignaled, Return, Goto, ThreadOK, Place
  <2>2. WordsTyped' /\ \A m \in Mutexes : word'[m] = word[m]
    BY <1>1, <1>3, <1>7, UnitTaken DEF TrySignaled
  <2>3. Moved(t, "done")
    BY <1>4, <2>1 DEF Moved
  <2> QED BY <1>2, <1>3, <2>1, <2>2, <2>3, WaitGoesOn DEF Waits
<1>8. CASE SkipUnsignaled(t) \/ SkipMutex(t)
  <2>1. /\ NextObject(t) /\ UNCHANGED <<word, count, call, held>> /\ call[t].op = "any"
    BY <1>1, <1>8 DEF SkipUnsignaled, SkipMutex, shared, ThreadOK, Place
  <2>2. expect' = expect \/ \E f \in [Mutexes -> Owners] : expect' = [expect EXCEPT ![t] = f]
    <3>1. CASE SkipUnsignaled(t)
      BY <3>1 DEF SkipUnsignaled
    <3>2. CASE SkipMutex(t)
      <4>1. obj(t) \in Mutexes /\ word[obj(t)] \in Owners
        BY <1>1, <3>2 DEF SkipMutex, ThreadOK, Place, Typed, WordsTyped
      <4>2. expect' = [expect EXCEPT ![t] = [expect[t] EXCEPT ![obj(t)] = word[obj(t)]]]
        BY <3>2 DEF SkipMutex
      <4>3. [expect[t] EXCEPT ![obj(t)] = word[obj(t)]] \in [Mutexes -> Owners]
        BY <1>4, <4>1
      <4> QED BY <4>2, <4>3
    <3> QED BY <1>8, <3>1, <3>2
  <2>3. PICK l \in {"try", "done", "sleep"} :
          /\ pc' = [pc EXCEPT ![t] = l]
          /\ ret' = ret \/ ret' = [ret EXCEPT ![t] = "timeout"]
    BY <2>1 DEF NextObject, Return, Goto
  <2>4. \E j \in Nat : i' = [i EXCEPT ![t] = j] /\ j \in 1..Len(call[t].objs)
    <3> DEFINE j == IF i[t] = Len(call[t].objs) THEN i[t] ELSE i[t] + 1
    <3>1. i' = [i EXCEPT ![t] = j]
      BY <1>3, <2>1 DEF NextObject
    <3>2. j \in Nat /\ j \in 1..Len(call[t].objs)
      BY <1>3
    <3> QED BY <3>1, <3>2
  <2>5. Moved(t, l)
    BY <1>4, <2>1, <2>2, <2>3, <2>4 DEF Moved
  <2>6. i'[t] \in 1..Len(call[t].objs)
    BY <1>3, <2>4
  <2> QED BY <1>2, <1>5, <2>1, <2>3, <2>5, <2>6, WaitGoesOn DEF Waits
<1> QED BY <1>6, <1>7, <1>8

\* A free or abandoned mutex is taken by the compare-and-swap, and then counted.
LEMMA TakeSteps ==
    ASSUME WInv, NEW t \in Threads, UNCHANGED <<sweep, abandoned>>, grabbed' = grabbed,
           TryFreeMutex(t) \/ TryAbandonedMutex(t)
    PROVE  WInv'
<1> DEFINE m == obj(t)
<1>1. Typed /\ ThreadOK(t)
  BY DEF WInv
<1>2. /\ m \in Mutexes /\ m \in Objects /\ word[m] \in {0, Abandoned} /\ word' = [word EXCEPT ![m] = t]
      /\ UNCHANGED <<count, call, i, expect, ret, held>>
      /\ pc[t] \in {"try", "try_abandoned"} /\ call[t].op = "any"
  BY <1>1 DEF TryFreeMutex, TryAbandonedMutex, ThreadOK, Place, Objects
<1>3. PICK l \in {"own", "own_abandoned"} : pc' = [pc EXCEPT ![t] = l]
  BY DEF TryFreeMutex, TryAbandonedMutex, Goto
<1>4. m \in Waited(t) /\ obj(t)' = m
  BY <1>1, <1>2, ObjIs DEF ThreadOK, obj
<1>5. LocalsTyped' /\ OthersStayed(t) /\ pc'[t] = l
  <2>1. l \in WPCs
    BY DEF WPCs, PCs
  <2>2. Moved(t, l)
    BY <1>1, <1>2, <1>3 DEF Moved, Typed, LocalsTyped
  <2> QED BY <1>1, <2>1, <2>2, MovedAlone
<1>6. m \notin Semaphores /\ m \notin Events
  BY <1>2, Kinds
<1>7. held[t][m] <= 0
  BY <1>1, <1>2, <1>4 DEF ThreadOK, HeldOK
<1> HIDE DEF m
<1>8. WordsTyped' /\ word'[m] = t /\ \A x \in Objects : x # m => word'[x] = word[x]
  <2>1. t \in Int /\ (m \in Semaphores => t \in Nat) /\ (m \in Events => t \in {0, 1}) /\ (m \in Mutexes => t \in Owners)
    BY <1>6, ThreadsAssumption DEF Owners
  <2> QED BY <1>1, <1>2, <2>1, WordOne
<1>9. HeldOK(t)'
  <2>1. ASSUME NEW n \in Mutexes PROVE held[t][n] <= 1 /\ (held[t][n] > 0 => word'[n] = t)
    <3>1. held[t][n] <= 1 /\ (held[t][n] > 0 => word[n] = t)
      BY <1>1, <1>2 DEF ThreadOK, HeldOK, Alive
    <3> QED BY <1>8, <3>1 DEF Objects
  <2>2. \A n \in Mutexes : n \in Waited(t) => held[t][n] <= 0
    BY <1>1, <1>2 DEF ThreadOK, HeldOK
  <2>3. Waited(t)' = Waited(t)
    BY <1>2 DEF Waited
  <2>4. \A n \in Mutexes : InOwnCode(t, n)' => n = m
    BY <1>4 DEF InOwnCode
  <2> QED BY <1>2, <1>7, <1>8, <2>1, <2>2, <2>3, <2>4 DEF HeldOK
<1>10. Taken(t) = 0 /\ Taken(t)' = 0
  BY <1>2, <1>5 DEF Taken, Success
<1>11. TakenOK(t)' /\ GrabExpectOK(t)'
  BY <1>1, <1>5, <1>10 DEF ThreadOK, TakenOK, GrabExpectOK
<1>12. Place(t)' /\ ArrayOK(t)'
  BY <1>1, <1>2, <1>4, <1>5 DEF ThreadOK, Place, ArrayOK
<1>13. TakesNone(t) /\ Alive(t)
  BY <1>2, <1>8 DEF TakesNone, Objects, Alive
<1> QED BY <1>5, <1>8, <1>9, <1>11, <1>12, <1>13, OneStep DEF Typed, ThreadOK

\* The recursion count of a mutex that the wait already owned, or has just taken.
LEMMA OwnSteps ==
    ASSUME WInv, NEW t \in Threads, UNCHANGED <<sweep, abandoned>>, grabbed' = grabbed,
           TryOwnMutex(t) \/ OwnMutex(t)
    PROVE  WInv'
<1> DEFINE m == obj(t)
<1>1. Typed /\ ThreadOK(t)
  BY DEF WInv
<1>2. /\ m \in Mutexes /\ UNCHANGED <<word, call, i, expect>> /\ pc[t] \in {"try", "own", "own_abandoned"}
      /\ call[t].op = "any" /\ held' = [held EXCEPT ![t][m] = @ + 1]
      /\ \E n \in {1, count[m] + 1} : count' = [count EXCEPT ![m] = n]
  BY <1>1 DEF TryOwnMutex, OwnMutex, Acquired, ThreadOK, Place
<1>3. PICK x \in {"signaled", "abandoned"} : pc' = [pc EXCEPT ![t] = "done"] /\ ret' = [ret EXCEPT ![t] = x]
  BY DEF TryOwnMutex, OwnMutex, Return, Goto
<1>4. m \in Waited(t) /\ obj(t)' = m
  BY <1>1, <1>2, ObjIs DEF ThreadOK, obj
<1>5. word[m] = t /\ held[t][m] <= 0 /\ held[t][m] \in Int
  <2>1. InOwnCode(t, m) => word[m] = t
    BY <1>1, <1>2 DEF ThreadOK, HeldOK
  <2>2. held[t][m] <= 0
    BY <1>1, <1>2, <1>4 DEF ThreadOK, HeldOK
  <2> QED BY <1>1, <1>2, <2>1, <2>2 DEF TryOwnMutex, OwnMutex, InOwnCode, Typed, LocalsTyped
<1> HIDE DEF m
<1>6. count' \in [Mutexes -> Int] /\ held[t] \in [Mutexes -> Int]
  BY <1>1, <1>2 DEF Typed, LocalsTyped
<1>7. /\ held' = [held EXCEPT ![t] = [held[t] EXCEPT ![m] = @ + 1]]
      /\ [held[t] EXCEPT ![m] = @ + 1] \in [Mutexes -> Int]
  BY <1>2, <1>6
<1>8. LocalsTyped' /\ OthersStayed(t) /\ pc'[t] = "done"
  <2>1. "done" \in WPCs
    BY DEF WPCs, PCs
  <2>2. Moved(t, "done")
    BY <1>1, <1>2, <1>3, <1>6, <1>7 DEF Moved, Typed, LocalsTyped
  <2> QED BY <1>1, <2>1, <2>2, MovedAlone
<1>9. HeldOK(t)'
  <2>1. ASSUME NEW n \in Mutexes PROVE held'[t][n] <= 1 /\ (held'[t][n] > 0 => word[n] = t)
    <3>1. held[t][n] <= 1 /\ (held[t][n] > 0 => word[n] = t)
      BY <1>1, <1>2 DEF ThreadOK, HeldOK, Alive
    <3>2. held'[t] = [held[t] EXCEPT ![m] = @ + 1]
      BY <1>1, <1>7 DEF Typed, LocalsTyped
    <3>3. CASE n = m
      BY <1>5, <1>6, <3>2, <3>3
    <3>4. CASE n # m
      BY <1>6, <3>1, <3>2, <3>4
    <3> QED BY <3>3, <3>4
  <2> QED BY <1>2, <1>8, <2>1 DEF HeldOK, InOwnCode
<1>10. Taken(t) = 0 /\ Taken(t)' = 0
  BY <1>2, <1>8 DEF Taken, Success
<1>11. TakenOK(t)' /\ GrabExpectOK(t)'
  BY <1>1, <1>8, <1>10 DEF ThreadOK, TakenOK, GrabExpectOK
<1>12. Place(t)' /\ ArrayOK(t)'
  BY <1>1, <1>2, <1>4, <1>8 DEF ThreadOK, Place, ArrayOK
<1>13. TakesNone(t) /\ Alive(t) /\ WordsTyped'
  BY <1>1, <1>2 DEF TakesNone, Alive, Typed, WordsTyped
<1> QED BY <1>8, <1>9, <1>11, <1>12, <1>13, OneStep DEF Typed, ThreadOK

\* The caller has the result, and the ghost forgets what the call took.
LEMMA LeaveStep ==
    ASSUME WInv, NEW t \in Threads, UNCHANGED <<sweep, abandoned>>, grabbed' = [grabbed EXCEPT ![t] = {}],
           Leave(t)
    PROVE  WInv'
<1>1. Typed /\ ThreadOK(t)
  BY DEF WInv
<1>2. /\ pc[t] = "done" /\ pc' = [pc EXCEPT ![t] = "idle"] /\ call' = [call EXCEPT ![t] = NoCall]
      /\ i' = [i EXCEPT ![t] = 1] /\ expect' = [expect EXCEPT ![t] = [m \in Mutexes |-> 0]]
      /\ ret' = [ret EXCEPT ![t] = "none"] /\ UNCHANGED <<word, count, held>>
  BY DEF Leave, Goto, shared
<1>3. /\ pc'[t] = "idle" /\ call'[t] = NoCall /\ i'[t] = 1 /\ grabbed'[t] = {} /\ OthersStayed(t)
  BY <1>1, <1>2 DEF Typed, LocalsTyped, OthersStayed, Stays
<1>4. NoCall.op = "none"
  BY DEF NoCall, Call
<1>5. Typed'
  <2>1. "idle" \in WPCs /\ [m \in Mutexes |-> 0] \in [Mutexes -> Owners]
    BY DEF WPCs, PCs, Owners
  <2>2. LocalsTyped'
    BY <1>1, <1>2, <2>1 DEF Typed, LocalsTyped
  <2> QED BY <1>1, <1>2, <2>2 DEF Typed, WordsTyped
<1>6. HeldOK(t)'
  BY <1>1, <1>2, <1>3, <1>4 DEF ThreadOK, HeldOK, InOwnCode, Alive
<1>7. Taken(t)' = 0
  BY <1>3 DEF Taken, Success
<1>8. ThreadOK(t)'
  BY <1>3, <1>4, <1>6, <1>7 DEF ThreadOK, Place, ArrayOK, TakenOK, GrabExpectOK
<1>9. TakesNone(t) /\ Alive(t)
  BY <1>2 DEF TakesNone, Alive
<1> QED BY <1>3, <1>5, <1>8, <1>9, OneStep

-----------------------------------------------------------------------------
(* The wait for all objects.                                               *)

\* The next object of the array, or the first one of the next phase.
LEMMA NextIndex ==
    ASSUME Typed, NEW t \in Threads, ArrayOK(t), call[t].op = "all", NEW phase, NEW after,
           NextIn(t, phase, after)
    PROVE  /\ pc' = [pc EXCEPT ![t] = IF Last(t) THEN after ELSE phase]
           /\ \E j \in Nat : i' = [i EXCEPT ![t] = j]
           /\ i'[t] \in 1..Len(call[t].objs)
           /\ i'[t] = IF Last(t) THEN 1 ELSE i[t] + 1
<1> DEFINE j == IF Last(t) THEN 1 ELSE i[t] + 1
<1>1. i' = [i EXCEPT ![t] = j] /\ i \in [Threads -> Nat]
  BY DEF NextIn, Typed, LocalsTyped
<1>2. j \in Nat /\ j \in 1..Len(call[t].objs)
  BY ObjIs DEF Last
<1> QED BY <1>1, <1>2 DEF NextIn, Goto

\* The steps before anything is taken.
LEMMA FirstSteps ==
    ASSUME WInv, NEW t \in Threads, UNCHANGED sweep,
           \/ FirstReady(t) \/ FirstBusy(t) \/ SingleWait(t) \/ SingleWoken(t) \/ SingleAgain(t)
           \/ SingleTimedOut(t) \/ Verify(t)
    PROVE  WInv'
<1>1. Typed /\ ThreadOK(t)
  BY DEF WInv
<1>2. Waits(t) /\ call[t].op = "all" /\ UNCHANGED <<word, count, call, held, grabbed>>
  BY <1>1 DEF ThreadOK, Place, Waits, Taken, Success, Alive, shared, FirstReady, FirstBusy, SingleWait,
              SingleWoken, SingleAgain, SingleTimedOut, Verify
<1>3. /\ i \in [Threads -> Nat] /\ i[t] \in 1..Len(call[t].objs) /\ Len(call[t].objs) \in Nat /\ obj(t) \in Objects
      /\ 1 \in 1..Len(call[t].objs)
  BY <1>1, <1>2, ObjIs DEF ThreadOK, Waits, Typed, LocalsTyped
<1>4. count' \in [Mutexes -> Int] /\ abandoned' \in [Threads -> BOOLEAN]
  <2>1. abandoned' = abandoned \/ abandoned' = [abandoned EXCEPT ![t] = FALSE]
    BY DEF FirstReady, FirstBusy, SingleWait, SingleWoken, SingleAgain, SingleTimedOut, Verify
  <2> QED BY <1>1, <1>2, <2>1 DEF Typed, LocalsTyped
<1>5. WordsTyped'
  BY <1>1, <1>2 DEF Typed, WordsTyped
<1>6. expect' = expect \/ \E f \in [Mutexes -> Owners] : expect' = [expect EXCEPT ![t] = f]
  <2>1. expect' = expect \/ (obj(t) \in Mutexes /\ expect' = [expect EXCEPT ![t][obj(t)] = word[obj(t)]])
    BY DEF FirstReady, FirstBusy, SingleWait, SingleWoken, SingleAgain, SingleTimedOut, Verify
  <2>2. CASE obj(t) \in Mutexes /\ expect' = [expect EXCEPT ![t][obj(t)] = word[obj(t)]]
    <3>1. expect' = [expect EXCEPT ![t] = [expect[t] EXCEPT ![obj(t)] = word[obj(t)]]]
      BY <2>2
    <3>2. [expect[t] EXCEPT ![obj(t)] = word[obj(t)]] \in [Mutexes -> Owners]
      BY <1>1, <2>2 DEF Typed, WordsTyped, LocalsTyped
    <3> QED BY <3>1, <3>2
  <2> QED BY <2>1, <2>2
<1>7. PICK l \in {"first", "verify", "grab", "single", "user_apc", "sleep", "done"} :
        /\ pc' = [pc EXCEPT ![t] = l]
        /\ i' = i \/ \E j \in Nat : i' = [i EXCEPT ![t] = j]
        /\ i'[t] \in 1..Len(call[t].objs)
        /\ l = "grab" => i'[t] = 1
        /\ ret' = ret \/ ret' = [ret EXCEPT ![t] = "timeout"]
        /\ l = "done" => ret'[t] = "timeout"
  <2>1. CASE FirstReady(t)
    <3>1. NextIn(t, "first", "verify") /\ ret' = ret
      BY <2>1 DEF FirstReady
    <3> QED BY <1>1, <1>2, <3>1, NextIndex DEF ThreadOK
  <2>2. CASE FirstBusy(t) \/ SingleWait(t) \/ SingleAgain(t)
    BY <1>3, <2>2 DEF FirstBusy, SingleWait, SingleAgain, Goto
  <2>3. CASE SingleWoken(t)
    <3>1. CASE Alerted(t)
      BY <1>3, <2>3, <3>1 DEF SingleWoken, Goto
    <3>2. CASE ~Alerted(t)
      <4>1. NextIn(t, "first", "verify") /\ ret' = ret
        BY <2>3, <3>2 DEF SingleWoken
      <4> QED BY <1>1, <1>2, <4>1, NextIndex DEF ThreadOK
    <3> QED BY <3>1, <3>2
  <2>4. CASE SingleTimedOut(t)
    BY <1>1, <1>3, <2>4 DEF SingleTimedOut, Goto, Return, Typed, LocalsTyped
  <2>5. CASE Verify(t)
    <3>1. CASE StillSignaled(t)
      <4>1. NextIn(t, "verify", "grab") /\ ret' = ret
        BY <2>5, <3>1 DEF Verify
      <4>2. /\ pc' = [pc EXCEPT ![t] = IF Last(t) THEN "grab" ELSE "verify"]
            /\ \E j \in Nat : i' = [i EXCEPT ![t] = j]
            /\ i'[t] \in 1..Len(call[t].objs)
            /\ i'[t] = IF Last(t) THEN 1 ELSE i[t] + 1
        BY <1>1, <1>2, <4>1, NextIndex DEF ThreadOK
      <4> QED BY <4>1, <4>2
    <3>2. CASE ~StillSignaled(t)
      BY <1>3, <2>5, <3>2 DEF Verify, TryAgain, Goto
    <3> QED BY <3>1, <3>2
  <2> QED BY <2>1, <2>2, <2>3, <2>4, <2>5
<1>8. Moved(t, l)
  BY <1>2, <1>4, <1>6, <1>7 DEF Moved
<1> QED BY <1>2, <1>5, <1>7, <1>8, WaitGoesOn DEF Waits

\* A wait that takes or puts back goes on: what is left to show is what it has now.
LEMMA AllGoesOn ==
    ASSUME WInv, NEW t \in Threads, call[t].op = "all", Alive(t), pc[t] # "done",
           NEW l \in {"first", "grab", "grab_mutex", "grabbed", "put_back"},
           Moved(t, l), held' = held, i'[t] \in 1..Len(call[t].objs), WordsTyped', TakesNone(t),
           \A m \in Mutexes : word'[m] = word[m] \/ m \in Waited(t),
           l = "grab_mutex" => call[t].objs[i'[t]] \in Mutexes,
           TakenOK(t)', GrabExpectOK(t)'
    PROVE  WInv'
<1>1. Typed /\ ThreadOK(t) /\ l \in WPCs
  BY DEF WInv, WPCs, PCs
<1>2. LocalsTyped' /\ OthersStayed(t) /\ pc'[t] = l /\ call'[t] = call[t] /\ obj(t)' = call[t].objs[i'[t]]
      /\ Waited(t)' = Waited(t)
  BY <1>1, MovedAlone
<1>3. Place(t)'
  BY <1>2 DEF Place
<1>4. ArrayOK(t)'
  BY <1>1, <1>2 DEF ThreadOK, ArrayOK
<1>5. HeldOK(t)'
  <2>1. ASSUME NEW m \in Mutexes
        PROVE  /\ held[t][m] <= 1 /\ (held[t][m] > 0 => word'[m] = t)
               /\ m \in Waited(t) => held[t][m] <= 0
    <3>1. held[t][m] \in Int
      BY <1>1 DEF Typed, LocalsTyped
    <3>2. /\ held[t][m] <= 1 /\ (held[t][m] > 0 => word[m] = t)
          /\ m \in Waited(t) => held[t][m] <= 0
      BY <1>1 DEF ThreadOK, HeldOK
    <3> QED BY <3>1, <3>2
  <2> QED BY <1>2, <2>1 DEF HeldOK, InOwnCode
<1>6. UNCHANGED sweep
  BY DEF Moved
<1> QED BY <1>2, <1>3, <1>4, <1>5, <1>6, OneStep DEF Typed, ThreadOK

\* One more object is taken, or is the thread's without being taken.
LEMMA OneMore ==
    ASSUME WInv, NEW t \in Threads, call[t].op = "all", pc[t] \in {"grab", "grab_mutex"},
           Moved(t, IF Last(t) THEN "grabbed" ELSE "grab"), held' = held,
           i'[t] = IF Last(t) THEN 1 ELSE i[t] + 1, i'[t] \in 1..Len(call[t].objs),
           WordsTyped',
           \A x \in Objects : x # obj(t) => word'[x] = word[x],
           obj(t) \in Mutexes => word[obj(t)] \in {0, Abandoned, t} /\ word'[obj(t)] = t,
           grabbed'[t] \in {grabbed[t], grabbed[t] \union {obj(t)}},
           obj(t) \in Consumable \ Mutexes => obj(t) \in grabbed'[t]
    PROVE  WInv'
<1> DEFINE l == IF Last(t) THEN "grabbed" ELSE "grab"
<1>1. Typed /\ ThreadOK(t) /\ Alive(t) /\ l \in WPCs /\ l \in {"grabbed", "grab"}
  BY DEF WInv, WPCs, PCs, Alive
<1>2. LocalsTyped' /\ pc'[t] = l /\ call'[t] = call[t]
  BY <1>1, MovedAlone
<1>3. /\ obj(t) \in Objects /\ obj(t) \in Waited(t) /\ i[t] \in Nat /\ Len(call[t].objs) \in Nat
      /\ i[t] \in 1..Len(call[t].objs) /\ \A k \in 1..Len(call[t].objs) : call[t].objs[k] \in Objects
  BY <1>1, ObjIs DEF ThreadOK
<1>4. Taken(t) = i[t] - 1 /\ Taken(t)' = i[t]
  BY <1>2, <1>3 DEF Taken, Last, Success
<1>5. ASSUME NEW k \in 1..i[t]
      PROVE  /\ call[t].objs[k] \in Mutexes => word'[call[t].objs[k]] = t
             /\ call[t].objs[k] \in Consumable \ Mutexes => call[t].objs[k] \in grabbed'[t]
  <2>1. CASE k = i[t]
    BY <2>1 DEF obj
  <2>2. CASE k # i[t]
    <3>1. k \in 1..Taken(t) /\ call[t].objs[k] \in Objects
      BY <1>3, <1>4, <2>2
    <3>2. /\ call[t].objs[k] \in Mutexes => word[call[t].objs[k]] = t
          /\ call[t].objs[k] \in Consumable \ Mutexes => call[t].objs[k] \in grabbed[t]
      BY <1>1, <3>1 DEF ThreadOK, TakenOK
    <3> QED BY <3>1, <3>2
  <2> QED BY <2>1, <2>2
<1>6. ASSUME NEW o \in grabbed'[t] PROVE \E k \in 1..i[t] : o = call[t].objs[k]
  <2>1. CASE o = obj(t)
    BY <1>3, <2>1 DEF obj
  <2>2. CASE o # obj(t)
    <3>1. PICK k \in 1..Taken(t) : o = call[t].objs[k]
      BY <1>1, <2>2 DEF ThreadOK, TakenOK
    <3> QED BY <1>3, <1>4, <3>1
  <2> QED BY <2>1, <2>2
<1>7. TakenOK(t)' /\ GrabExpectOK(t)'
  BY <1>1, <1>2, <1>4, <1>5, <1>6 DEF TakenOK, GrabExpectOK
<1>8. TakesNone(t) /\ \A m \in Mutexes : word'[m] = word[m] \/ m \in Waited(t)
  BY <1>3 DEF TakesNone, Objects
<1> HIDE DEF l
<1>9. Moved(t, l) /\ pc[t] # "done"
  BY DEF l
<1> QED BY <1>1, <1>7, <1>8, <1>9, AllGoesOn

\* The third step takes the next object.
LEMMA GrabSteps ==
    ASSUME WInv, NEW t \in Threads, UNCHANGED sweep, GrabNothing(t) \/ GrabUnit(t) \/ GrabMutex(t)
    PROVE  WInv'
<1>1. Typed /\ ThreadOK(t)
  BY DEF WInv
<1>2. /\ call[t].op = "all" /\ pc[t] \in {"grab", "grab_mutex"} /\ NextIn(t, "grab", "grabbed")
      /\ UNCHANGED <<count, call, expect, ret, held>>
  BY <1>1 DEF ThreadOK, Place, GrabNothing, GrabUnit, GrabMutex, shared
<1>3. obj(t) \in Objects /\ (obj(t) \in Consumable <=> obj(t) \notin ManualEvents)
      /\ (obj(t) \in Mutexes => obj(t) \notin Events /\ obj(t) \notin Semaphores)
      /\ (obj(t) \in ManualEvents => obj(t) \notin Mutexes)
  BY <1>1, <1>2, ObjIs, Kinds DEF ThreadOK
<1>4. /\ pc' = [pc EXCEPT ![t] = IF Last(t) THEN "grabbed" ELSE "grab"]
      /\ \E j \in Nat : i' = [i EXCEPT ![t] = j]
      /\ i'[t] \in 1..Len(call[t].objs)
      /\ i'[t] = IF Last(t) THEN 1 ELSE i[t] + 1
  BY <1>1, <1>2, NextIndex DEF ThreadOK
<1>5. count' \in [Mutexes -> Int] /\ abandoned' \in [Threads -> BOOLEAN]
  <2>1. abandoned' = abandoned \/ \E b \in BOOLEAN : abandoned' = [abandoned EXCEPT ![t] = b]
    BY <1>1 DEF GrabNothing, GrabUnit, GrabMutex, Typed, LocalsTyped
  <2> QED BY <1>1, <1>2, <2>1 DEF Typed, LocalsTyped
<1>6. CASE GrabNothing(t)
  <2>1. /\ word' = word /\ grabbed' = grabbed
        /\ obj(t) \in ManualEvents \/ (obj(t) \in Mutexes /\ word[obj(t)] = t)
    BY <1>6 DEF GrabNothing, shared
  <2>2. Moved(t, IF Last(t) THEN "grabbed" ELSE "grab")
    BY <1>2, <1>4, <1>5, <2>1 DEF Moved
  <2>3. WordsTyped'
    BY <1>1, <2>1 DEF Typed, WordsTyped
  <2> QED BY <1>2, <1>3, <1>4, <2>1, <2>2, <2>3, OneMore
<1>7. CASE GrabUnit(t) \/ GrabMutex(t)
  <2>1. grabbed' = [grabbed EXCEPT ![t] = grabbed[t] \union {obj(t)}] /\ obj(t) \in Consumable
    <3>1. obj(t) \in Consumable
      <4>1. CASE GrabUnit(t)
        <5>1. obj(t) \in Semaphores \union AutoEvents
          BY <4>1 DEF GrabUnit
        <5> QED BY <1>3, <5>1, Kinds
      <4>2. CASE GrabMutex(t)
        BY <1>1, <1>3, <4>2 DEF GrabMutex, ThreadOK, Place
      <4> QED BY <1>7, <4>1, <4>2
    <3> QED BY <1>7, <3>1 DEF GrabUnit, GrabMutex, Take
  <2>2. grabbed'[t] = grabbed[t] \union {obj(t)} /\ grabbed[t] \union {obj(t)} \in SUBSET Consumable
    BY <1>1, <2>1 DEF Typed, LocalsTyped
  <2>3. Moved(t, IF Last(t) THEN "grabbed" ELSE "grab")
    BY <1>2, <1>4, <1>5, <2>1, <2>2 DEF Moved
  <2>4. CASE GrabUnit(t)
    <3>1. /\ obj(t) \in Objects \ Mutexes /\ word[obj(t)] > 0
          /\ word' = [word EXCEPT ![obj(t)] = @ - 1]
      BY <1>3, <2>4, Kinds DEF GrabUnit, Events
    <3>2. WordsTyped' /\ \A x \in Objects : x # obj(t) => word'[x] = word[x]
      <4>1. WordsTyped'
        BY <1>1, <3>1, UnitTaken
      <4> QED BY <1>1, <3>1, <4>1 DEF Typed, WordsTyped
    <3> QED BY <1>2, <1>3, <1>4, <2>2, <2>3, <3>1, <3>2, OneMore
  <2>5. CASE GrabMutex(t)
    <3> DEFINE m == obj(t)
    <3>1. m \in Mutexes /\ word' = [word EXCEPT ![m] = t] /\ word[m] = expect[t][m] /\ expect[t][m] \in {0, Abandoned}
      BY <1>1, <2>5 DEF GrabMutex, ThreadOK, Place, GrabExpectOK
    <3>2. t \in Int /\ (m \in Semaphores => t \in Nat) /\ (m \in Events => t \in {0, 1}) /\ (m \in Mutexes => t \in Owners)
          /\ m \in Objects
      BY <1>3, <3>1, ThreadsAssumption DEF Owners
    <3> HIDE DEF m
    <3>3. WordsTyped' /\ word'[m] = t /\ \A x \in Objects : x # m => word'[x] = word[x]
      BY <1>1, <3>1, <3>2, WordOne
    <3>4. /\ WordsTyped' /\ \A x \in Objects : x # obj(t) => word'[x] = word[x]
          /\ obj(t) \in Mutexes => word[obj(t)] \in {0, Abandoned, t} /\ word'[obj(t)] = t
      BY <3>1, <3>3 DEF m
    <3>5. obj(t) \notin Consumable \ Mutexes
      BY <3>1 DEF m
    <3> QED BY <1>2, <1>4, <2>2, <2>3, <3>4, <3>5, OneMore
  <2> QED BY <1>7, <2>4, <2>5
<1> QED BY <1>6, <1>7

\* A mutex is read before it is taken; a wait that comes too late turns round.
LEMMA TurnSteps ==
    ASSUME WInv, NEW t \in Threads, UNCHANGED sweep, GrabRead(t) \/ TooSlow(t)
    PROVE  WInv'
<1>1. Typed /\ ThreadOK(t)
  BY DEF WInv
<1>2. /\ call[t].op = "all" /\ pc[t] \in {"grab", "grab_mutex"}
      /\ UNCHANGED <<word, count, call, ret, held, grabbed, abandoned>>
  BY <1>1 DEF ThreadOK, Place, GrabRead, TooSlow, Late, shared
<1>3. /\ i \in [Threads -> Nat] /\ i[t] \in 1..Len(call[t].objs) /\ Len(call[t].objs) \in Nat
      /\ 1 \in 1..Len(call[t].objs)
  BY <1>1, <1>2, ObjIs DEF ThreadOK, Typed, LocalsTyped
<1>4. PICK l \in {"grab_mutex", "first", "put_back"} :
        /\ pc' = [pc EXCEPT ![t] = l]
        /\ \E j \in Nat : i' = [i EXCEPT ![t] = j]
        /\ i'[t] \in 1..Len(call[t].objs)
        /\ l = "grab_mutex" => i' = i /\ GrabRead(t)
        /\ l = "first" => i[t] = 1
        /\ l = "put_back" => i'[t] = i[t] - 1
  <2>1. CASE GrabRead(t)
    <3>1. i' = i /\ i' = [i EXCEPT ![t] = i[t]]
      BY <1>3, <2>1 DEF GrabRead
    <3>2. pc' = [pc EXCEPT ![t] = "grab_mutex"]
      BY <2>1 DEF GrabRead, Goto
    <3> QED BY <1>3, <2>1, <3>1, <3>2
  <2>2. CASE TooSlow(t)
    <3> DEFINE j == IF i[t] = 1 THEN 1 ELSE i[t] - 1
    <3>1. i' = [i EXCEPT ![t] = j] /\ pc' = [pc EXCEPT ![t] = IF i[t] = 1 THEN "first" ELSE "put_back"]
      BY <2>2 DEF TooSlow, Goto
    <3>2. j \in Nat /\ j \in 1..Len(call[t].objs)
      BY <1>3
    <3> QED BY <1>3, <3>1, <3>2
  <2> QED BY <2>1, <2>2
<1>5. expect' = expect \/ \E f \in [Mutexes -> Owners] : expect' = [expect EXCEPT ![t] = f]
  <2>1. expect' = expect \/ (obj(t) \in Mutexes /\ expect' = [expect EXCEPT ![t][obj(t)] = word[obj(t)]])
    BY DEF GrabRead, TooSlow
  <2>2. CASE obj(t) \in Mutexes /\ expect' = [expect EXCEPT ![t][obj(t)] = word[obj(t)]]
    <3>1. expect' = [expect EXCEPT ![t] = [expect[t] EXCEPT ![obj(t)] = word[obj(t)]]]
      BY <2>2
    <3>2. [expect[t] EXCEPT ![obj(t)] = word[obj(t)]] \in [Mutexes -> Owners]
      BY <1>1, <2>2 DEF Typed, WordsTyped, LocalsTyped
    <3> QED BY <3>1, <3>2
  <2> QED BY <2>1, <2>2
<1>6. Moved(t, l)
  BY <1>1, <1>2, <1>4, <1>5 DEF Moved, Typed, LocalsTyped
<1>7. l \in WPCs /\ WordsTyped' /\ TakesNone(t) /\ Alive(t) /\ pc[t] # "done"
  BY <1>1, <1>2 DEF WPCs, PCs, Typed, WordsTyped, TakesNone, Alive
<1>8. pc'[t] = l /\ call'[t] = call[t] /\ obj(t)' = call[t].objs[i'[t]]
  BY <1>1, <1>6, <1>7, MovedAlone
<1>9. Taken(t)' = Taken(t)
  BY <1>2, <1>3, <1>4, <1>8 DEF Taken, Success
<1>10. TakenOK(t)'
  BY <1>1, <1>2, <1>9 DEF ThreadOK, TakenOK
<1>11. l = "grab_mutex" => call[t].objs[i'[t]] \in Mutexes /\ expect'[t][obj(t)'] \in {0, Abandoned}
  <2>1. ASSUME l = "grab_mutex" PROVE call[t].objs[i'[t]] \in Mutexes /\ expect'[t][obj(t)'] \in {0, Abandoned}
    <3>1. GrabRead(t) /\ i' = i /\ obj(t)' = obj(t)
      BY <1>4, <1>8, <2>1 DEF obj
    <3>2. obj(t) \in Mutexes /\ word[obj(t)] \in {0, Abandoned} /\ expect'[t][obj(t)] = word[obj(t)]
      BY <1>1, <3>1 DEF GrabRead, Typed, LocalsTyped
    <3> QED BY <3>1, <3>2 DEF obj
  <2> QED BY <2>1
<1>12. GrabExpectOK(t)'
  BY <1>8, <1>11 DEF GrabExpectOK
<1> QED BY <1>2, <1>4, <1>6, <1>7, <1>10, <1>11, <1>12, AllGoesOn

\* What was taken last is put back first.
LEMMA PutBackStep ==
    ASSUME WInv, NEW t \in Threads, UNCHANGED sweep, PutBack(t)
    PROVE  WInv'
<1> DEFINE o == obj(t)
<1>1. Typed /\ ThreadOK(t)
  BY DEF WInv
<1>2. /\ call[t].op = "all" /\ pc[t] = "put_back" /\ UNCHANGED <<count, call, expect, ret, held, abandoned>>
      /\ grabbed' = [grabbed EXCEPT ![t] = grabbed[t] \ {o}]
  BY <1>1 DEF ThreadOK, Place, PutBack
<1>3. /\ i \in [Threads -> Nat] /\ i[t] \in 1..Len(call[t].objs) /\ Len(call[t].objs) \in Nat
      /\ 1 \in 1..Len(call[t].objs) /\ o \in Objects /\ o \in Waited(t)
      /\ \A k \in 1..Len(call[t].objs) : call[t].objs[k] \in Objects
      /\ \A j, k \in 1..Len(call[t].objs) : call[t].objs[j] = call[t].objs[k] => j = k
  <2>1. /\ obj(t) \in Objects /\ obj(t) \in Waited(t) /\ i[t] \in Nat /\ Len(call[t].objs) \in Nat
        /\ i[t] >= 1 /\ i[t] <= Len(call[t].objs)
        /\ \A k \in 1..Len(call[t].objs) : call[t].objs[k] \in Objects
    BY <1>1, <1>2, ObjIs DEF ThreadOK
  <2>2. i \in [Threads -> Nat]
    BY <1>1 DEF Typed, LocalsTyped
  <2>3. \A j, k \in 1..Len(call[t].objs) : call[t].objs[j] = call[t].objs[k] => j = k
    BY <1>1, <1>2 DEF ThreadOK, ArrayOK
  <2> QED BY <2>1, <2>2, <2>3
<1>4. Taken(t) = i[t] /\ (o \in Mutexes => word[o] = t)
  <2>1. Taken(t) = i[t] /\ i[t] \in 1..Taken(t)
    BY <1>2, <1>3 DEF Taken
  <2> QED BY <1>1, <2>1 DEF ThreadOK, TakenOK, obj
<1>5. WordsTyped' /\ \A x \in Objects : x # o => word'[x] = word[x]
  <2> DEFINE v == IF o \in Mutexes THEN 0 ELSE IF o \in Semaphores THEN word[o] + 1
                  ELSE IF o \in AutoEvents THEN 1 ELSE word[o]
  <2>1. word' = [word EXCEPT ![o] = v]
    BY DEF PutBack
  <2>2. /\ word[o] \in Int /\ (o \in Semaphores => word[o] \in Nat) /\ (o \in Events => word[o] \in {0, 1})
        /\ (o \in Mutexes => word[o] \in Owners)
    BY <1>1, <1>3 DEF Typed, WordsTyped
  <2>3. /\ v \in Int /\ (o \in Semaphores => v \in Nat) /\ (o \in Events => v \in {0, 1})
        /\ (o \in Mutexes => v \in Owners)
    <3>1. /\ o \in Semaphores => o \notin Mutexes /\ o \notin Events
          /\ o \in Mutexes => o \notin Semaphores /\ o \notin Events
          /\ o \in AutoEvents \/ o \in ManualEvents <=> o \in Events
          /\ o \in Semaphores \/ o \in Mutexes \/ o \in AutoEvents \/ o \in ManualEvents
      BY <1>3, Kinds
    <3> HIDE DEF o
    <3> QED BY <2>2, <3>1 DEF Owners
  <2> HIDE DEF v, o
  <2> QED BY <1>1, <1>3, <2>1, <2>3, WordOne
<1>6. PICK l \in {"first", "put_back"} :
        /\ pc' = [pc EXCEPT ![t] = l]
        /\ \E j \in Nat : i' = [i EXCEPT ![t] = j]
        /\ i'[t] \in 1..Len(call[t].objs)
        /\ l = "first" => i[t] = 1
        /\ l = "put_back" => i'[t] = i[t] - 1
  <2> DEFINE j == IF i[t] = 1 THEN 1 ELSE i[t] - 1
  <2>1. i' = [i EXCEPT ![t] = j] /\ pc' = [pc EXCEPT ![t] = IF i[t] = 1 THEN "first" ELSE "put_back"]
    BY DEF PutBack, Goto
  <2>2. j \in Nat /\ j \in 1..Len(call[t].objs)
    BY <1>3
  <2> QED BY <1>3, <2>1, <2>2
<1>7. grabbed'[t] = grabbed[t] \ {o} /\ grabbed[t] \ {o} \in SUBSET Consumable
  BY <1>1, <1>2 DEF Typed, LocalsTyped
<1>8. Moved(t, l)
  BY <1>1, <1>2, <1>6, <1>7 DEF Moved, Typed, LocalsTyped
<1>9. l \in WPCs /\ Alive(t) /\ pc[t] # "done"
  BY <1>2 DEF WPCs, PCs, Alive
<1>10. pc'[t] = l /\ call'[t] = call[t]
  BY <1>1, <1>8, <1>9, MovedAlone
<1>11. Taken(t)' = i[t] - 1
  BY <1>3, <1>6, <1>10 DEF Taken, Success
<1>12. ASSUME NEW k \in 1..(i[t] - 1)
       PROVE  /\ call[t].objs[k] \in Mutexes => word'[call[t].objs[k]] = t
              /\ call[t].objs[k] \in Consumable \ Mutexes => call[t].objs[k] \in grabbed'[t]
  <2>1. k \in 1..Taken(t) /\ call[t].objs[k] \in Objects /\ k # i[t] /\ k \in 1..Len(call[t].objs)
    BY <1>3, <1>4
  <2>2. call[t].objs[k] # o
    BY <1>3, <2>1 DEF obj
  <2>3. /\ call[t].objs[k] \in Mutexes => word[call[t].objs[k]] = t
        /\ call[t].objs[k] \in Consumable \ Mutexes => call[t].objs[k] \in grabbed[t]
    BY <1>1, <2>1 DEF ThreadOK, TakenOK
  <2> QED BY <1>5, <1>7, <2>1, <2>2, <2>3
<1>13. ASSUME NEW x \in grabbed'[t] PROVE \E k \in 1..(i[t] - 1) : x = call[t].objs[k]
  <2>1. x \in grabbed[t] /\ x # o
    BY <1>7
  <2>2. PICK k \in 1..i[t] : x = call[t].objs[k]
    BY <1>1, <1>4, <2>1 DEF ThreadOK, TakenOK
  <2>3. k # i[t]
    BY <2>1, <2>2 DEF obj
  <2> QED BY <1>3, <2>2, <2>3
<1>14. TakenOK(t)' /\ GrabExpectOK(t)'
  BY <1>10, <1>11, <1>12, <1>13 DEF TakenOK, GrabExpectOK
<1>15. TakesNone(t) /\ \A m \in Mutexes : word'[m] = word[m] \/ m \in Waited(t)
  <2> HIDE DEF o
  <2> QED BY <1>3, <1>4, <1>5 DEF TakesNone, Objects
<1> QED BY <1>2, <1>5, <1>6, <1>8, <1>9, <1>14, <1>15, AllGoesOn

\* All are taken: the thread counts its mutexes and is told.
LEMMA GrabbedStep ==
    ASSUME WInv, NEW t \in Threads, UNCHANGED sweep, Grabbed(t)
    PROVE  WInv'
<1> DEFINE mine == Waited(t) \intersect Mutexes
           f    == [m \in Mutexes |-> IF m \in mine THEN held[t][m] + 1 ELSE held[t][m]]
<1>1. Typed /\ ThreadOK(t)
  BY DEF WInv
<1>2. /\ call[t].op = "all" /\ pc[t] = "grabbed" /\ UNCHANGED <<word, call, i, expect, abandoned, grabbed>>
      /\ held' = [held EXCEPT ![t] = f]
      /\ count' = [m \in Mutexes |-> IF m \in mine THEN count[m] + 1 ELSE count[m]]
  BY <1>1 DEF ThreadOK, Place, Grabbed
<1>3. PICK x \in {"signaled", "abandoned"} : pc' = [pc EXCEPT ![t] = "done"] /\ ret' = [ret EXCEPT ![t] = x]
  BY DEF Grabbed, Return, Goto
<1>4. held[t] \in [Mutexes -> Int] /\ f \in [Mutexes -> Int] /\ count' \in [Mutexes -> Int]
  BY <1>1, <1>2 DEF Typed, LocalsTyped
<1>5. Taken(t) = Len(call[t].objs)
  BY <1>2 DEF Taken
<1>6. \A m \in mine : word[m] = t /\ held[t][m] <= 0
  <2>1. ASSUME NEW m \in mine PROVE word[m] = t /\ held[t][m] <= 0
    <3>1. PICK k \in 1..Len(call[t].objs) : m = call[t].objs[k]
      BY DEF Waited
    <3> QED BY <1>1, <1>2, <1>5, <3>1 DEF ThreadOK, TakenOK, HeldOK
  <2> QED BY <2>1
<1>7. LocalsTyped' /\ OthersStayed(t) /\ pc'[t] = "done" /\ call'[t] = call[t]
  <2>1. "done" \in WPCs
    BY DEF WPCs, PCs
  <2> HIDE DEF f
  <2>2. Moved(t, "done")
    BY <1>1, <1>2, <1>3, <1>4 DEF Moved, Typed, LocalsTyped
  <2> QED BY <1>1, <2>1, <2>2, MovedAlone
<1>8. ret'[t] \in {"signaled", "abandoned"} /\ held'[t] = f
  BY <1>1, <1>2, <1>3 DEF Typed, LocalsTyped
<1>9. Taken(t)' = Len(call[t].objs)
  BY <1>2, <1>7, <1>8 DEF Taken, Success
<1>10. TakenOK(t)' /\ GrabExpectOK(t)'
  BY <1>1, <1>2, <1>5, <1>7, <1>9 DEF ThreadOK, TakenOK, GrabExpectOK
<1>11. HeldOK(t)'
  <2>1. ASSUME NEW m \in Mutexes PROVE f[m] <= 1 /\ (f[m] > 0 => word[m] = t)
    <3>1. held[t][m] <= 1 /\ (held[t][m] > 0 => word[m] = t)
      BY <1>1, <1>2 DEF ThreadOK, HeldOK, Alive
    <3>2. held[t][m] \in Int
      BY <1>4
    <3> QED BY <1>6, <3>1, <3>2
  <2> HIDE DEF f
  <2> QED BY <1>2, <1>7, <1>8, <2>1 DEF HeldOK, InOwnCode
<1>12. Place(t)' /\ ArrayOK(t)'
  BY <1>1, <1>2, <1>7 DEF ThreadOK, Place, ArrayOK
<1>13. TakesNone(t) /\ Alive(t) /\ WordsTyped'
  BY <1>1, <1>2 DEF TakesNone, Alive, Typed, WordsTyped
<1> QED BY <1>7, <1>10, <1>11, <1>12, <1>13, OneStep DEF Typed, ThreadOK

\* The wait for all objects.
LEMMA WaitAllSteps ==
    ASSUME WInv, NEW t \in Threads, WaitAll(t)
    PROVE  WInv'
<1>1. UNCHANGED sweep
  BY DEF WaitAll, FirstReady, FirstBusy, SingleWait, SingleWoken, SingleAgain, Verify, GrabNothing, GrabUnit,
         GrabRead, GrabMutex, TooSlow, PutBack, Grabbed
<1> QED BY <1>1, FirstSteps, GrabSteps, TurnSteps, PutBackStep, GrabbedStep DEF WaitAll

-----------------------------------------------------------------------------
(* All steps of a thread in a call.                                        *)

LEMMA WStepSteps ==
    ASSUME WInv, NEW t \in Threads, WStep(t)
    PROVE  WInv'
<1>1. CASE WaitAll(t)
  BY <1>1, WaitAllSteps
<1>2. CASE /\ AStep(t)
           /\ grabbed' = [grabbed EXCEPT ![t] = IF pc[t] = "done" THEN {} ELSE @]
           /\ UNCHANGED abandoned
  <2>1. UNCHANGED sweep
    BY <1>2 DEF AStep, SeeAbandoned, TryAbandonedMutex
  <2>2. CASE Leave(t)
    <3>1. grabbed' = [grabbed EXCEPT ![t] = {}]
      BY <1>2, <2>2 DEF Leave
    <3> QED BY <1>2, <2>1, <2>2, <3>1, LeaveStep
  <2>3. CASE Signal(t)
    <3>1. pc[t] # "done"
      BY <2>3 DEF Signal, ReleaseSemaphore, SetEvent, ResetEvent, NotOwned, ReleaseMutex, UnlockMutex, Wake
    <3>2. grabbed' = grabbed
      BY <1>2, <3>1 DEF WInv, Typed, LocalsTyped
    <3> QED BY <1>2, <2>1, <2>3, <3>2, SignalSteps, NotOwnedWakeSteps, ReleaseSteps DEF Signal
  <2>4. CASE WaitAny(t) \/ SeeAbandoned(t) \/ TryAbandonedMutex(t)
    <3>1. pc[t] # "done"
      BY <2>4 DEF WaitAny, CheckApc, TrySignaled, SkipUnsignaled, TryOwnMutex, TryFreeMutex, OwnMutex,
                  SkipMutex, FutexWait, UserApc, SeeAbandoned, TryAbandonedMutex
    <3>2. grabbed' = grabbed
      BY <1>2, <3>1 DEF WInv, Typed, LocalsTyped
    <3> QED BY <1>2, <2>1, <2>4, <3>2, AnySteps, TakeSteps, OwnSteps DEF WaitAny
  <2> QED BY <1>2, <2>2, <2>3, <2>4 DEF AStep, Step
<1> QED BY <1>1, <1>2 DEF WStep

-----------------------------------------------------------------------------
(* Deaths and the server.                                                  *)

\* A step that is no thread's: some who sleep may be woken.
LEMMA NobodysStep ==
    ASSUME WInv, Typed', ServerOK', \A u \in Threads : Stays(u),
           \A m \in Mutexes, u \in Threads : Alive(u) /\ word[m] = u => word'[m] = u
    PROVE  WInv'
<1>1. ASSUME NEW u \in Threads PROVE ThreadOK(u)'
  BY <1>1, Kept DEF WInv
<1> QED BY <1>1 DEF WInv

\* A thread exits with the mutexes it holds, and is the server's victim.
LEMMA ExitStep ==
    ASSUME WInv, NEW t \in Threads, Exit(t), UNCHANGED <<abandoned, grabbed>>
    PROVE  WInv'
<1>1. Typed /\ ThreadOK(t)
  BY DEF WInv
<1>2. /\ pc[t] = "idle" /\ pc' = [pc EXCEPT ![t] = "dead"] /\ victim = 0 /\ victim' = t
      /\ UNCHANGED <<word, count, call, i, expect, ret, held, marking, stores>>
  BY DEF Exit, Goto, shared
<1>3. pc'[t] = "dead" /\ call[t].op = "none" /\ OthersStayed(t)
  BY <1>1, <1>2 DEF ThreadOK, Place, Typed, LocalsTyped, OthersStayed, Stays
<1>4. Typed'
  <2>1. "dead" \in WPCs
    BY DEF WPCs
  <2> QED BY <1>1, <1>2, <2>1 DEF Typed, LocalsTyped, WordsTyped
<1>5. ThreadOK(t)'
  <2>1. HeldOK(t)'
    BY <1>1, <1>2, <1>3 DEF ThreadOK, HeldOK, InOwnCode, Alive
  <2>2. Taken(t) = 0 /\ Taken(t)' = 0
    BY <1>2, <1>3 DEF Taken, Success
  <2> QED BY <1>1, <1>2, <1>3, <2>1, <2>2 DEF ThreadOK, Place, ArrayOK, TakenOK, GrabExpectOK
<1>6. ASSUME NEW u \in Threads, u # t PROVE ThreadOK(u)'
  BY <1>2, <1>3, <1>6, Kept DEF WInv, OthersStayed
<1>7. marking = {}
  BY <1>2, Ids DEF WInv, ServerOK
<1>8. ServerOK'
  BY <1>2, <1>3, <1>7 DEF ServerOK, Alive
<1> QED BY <1>4, <1>5, <1>6, <1>8 DEF WInv

\* An APC is queued, or its target woken.
LEMMA ApcSteps ==
    ASSUME WInv, UNCHANGED <<sweep, abandoned, grabbed>>, QueueApc \/ WakeApc
    PROVE  WInv'
<1>1. Typed
  BY DEF WInv
<1>2. UNCHANGED <<word, count, call, i, expect, ret, held>>
  BY DEF QueueApc, WakeApc
<1>3. /\ \A u \in Threads : pc'[u] = pc[u] \/ (pc[u] = "asleep" /\ pc'[u] = "awake")
      /\ pc' \in [Threads -> WPCs]
  <2>1. pc' = pc \/ (pc[server] = "asleep" /\ pc' = [pc EXCEPT ![server] = "awake"])
    BY DEF QueueApc, WakeApc
  <2>2. "awake" \in WPCs
    BY DEF WPCs, PCs
  <2> QED BY <1>1, <2>1, <2>2 DEF Typed, LocalsTyped
<1>4. Typed'
  BY <1>1, <1>2, <1>3 DEF Typed, LocalsTyped, WordsTyped
<1>5. \A u \in Threads : Stays(u)
  BY <1>2, <1>3 DEF Stays
<1>6. ServerOK'
  BY <1>2, <1>5 DEF WInv, ServerOK, sweep, Alive, Stays
<1> QED BY <1>2, <1>4, <1>5, <1>6, NobodysStep

\* The server abandons the dead thread's mutexes.
LEMMA SweepSteps ==
    ASSUME WInv, Sweep, UNCHANGED <<abandoned, grabbed>>
    PROVE  WInv'
<1>1. Typed /\ ServerOK
  BY DEF WInv
<1>2. CASE Swept
  <2>1. UNCHANGED <<word, count, pc, call, i, expect, ret, held>> /\ victim' = 0 /\ marking' = {} /\ todo' = {}
    BY <1>2 DEF Swept, vars
  <2>2. Typed'
    BY <1>1, <2>1 DEF Typed, LocalsTyped, WordsTyped
  <2>3. ServerOK'
    BY <2>1, Ids DEF ServerOK
  <2>4. \A u \in Threads : Stays(u)
    BY <2>1 DEF Stays
  <2> QED BY <2>1, <2>2, <2>3, <2>4, NobodysStep
<1>3. ASSUME NEW m \in Mutexes, Pass(m) \/ Mark(m) PROVE WInv'
  <2>1. /\ UNCHANGED <<word, count, pc, call, i, expect, ret, held, victim>> /\ todo # {}
        /\ \/ marking' = marking /\ stores' = stores
           \/ marking' = {m} /\ word[m] = victim
    BY <1>3 DEF Pass, Mark, vars
  <2>2. Typed'
    BY <1>1, <2>1 DEF Typed, LocalsTyped, WordsTyped
  <2>3. victim \in Threads
    BY <1>1, <2>1 DEF ServerOK
  <2>4. ServerOK'
    <3>1. \A n \in marking' : "tid" \in stores' => word[n] = victim
      BY <1>1, <2>1 DEF ServerOK
    <3> QED BY <1>1, <1>3, <2>1, <2>3, <3>1 DEF ServerOK, Alive
  <2>5. \A u \in Threads : Stays(u)
    BY <2>1 DEF Stays
  <2> QED BY <2>1, <2>2, <2>4, <2>5, NobodysStep
<1>4. ASSUME NEW m \in Mutexes, StoreTid(m) PROVE WInv'
  <2>1. /\ UNCHANGED <<count, pc, call, i, expect, ret, held, victim, todo, marking>> /\ m \in marking
        /\ word' = [word EXCEPT ![m] = Abandoned] /\ "tid" \in stores /\ stores' = stores \ {"tid"}
    BY <1>4 DEF StoreTid
  <2>2. word[m] = victim /\ victim \in Threads /\ ~Alive(victim)
    BY <1>1, <2>1 DEF ServerOK
  <2>3. WordsTyped' /\ \A x \in Objects : x # m => word'[x] = word[x]
    <3>1. Abandoned \in Int /\ (m \in Semaphores => Abandoned \in Nat) /\ (m \in Events => Abandoned \in {0, 1})
          /\ (m \in Mutexes => Abandoned \in Owners) /\ m \in Objects
      <4>1. m \in Objects /\ m \notin Semaphores /\ m \notin Events
        BY <1>4, Kinds DEF Objects
      <4> QED BY <4>1 DEF Owners, Abandoned
    <3> QED BY <1>1, <2>1, <3>1, WordOne
  <2>4. Typed'
    BY <1>1, <2>1, <2>3 DEF Typed, LocalsTyped
  <2>5. ServerOK'
    BY <1>1, <2>1, <2>2 DEF ServerOK, Alive
  <2>6. \A u \in Threads : Stays(u)
    BY <2>1 DEF Stays
  <2>7. \A n \in Mutexes, u \in Threads : Alive(u) /\ word[n] = u => word'[n] = u
    BY <2>2, <2>3 DEF Objects
  <2> QED BY <2>4, <2>5, <2>6, <2>7, NobodysStep
<1>5. ASSUME NEW m \in Mutexes, StoreCount(m) PROVE WInv'
  <2>1. /\ UNCHANGED <<word, pc, call, i, expect, ret, held, victim, todo, marking>>
        /\ count' = [count EXCEPT ![m] = 0] /\ stores' = stores \ {"count"}
    BY <1>5 DEF StoreCount
  <2>2. Typed'
    BY <1>1, <2>1 DEF Typed, LocalsTyped, WordsTyped
  <2>3. ServerOK'
    BY <1>1, <2>1 DEF ServerOK, Alive
  <2>4. \A u \in Threads : Stays(u)
    BY <2>1 DEF Stays
  <2> QED BY <2>1, <2>2, <2>3, <2>4, NobodysStep
<1>6. ASSUME NEW m \in Mutexes, WakeSleepers(m) PROVE WInv'
  <2>1. /\ UNCHANGED <<word, count, call, i, expect, ret, held, victim, todo>> /\ marking' = {}
        /\ pc' = [t \in Threads |-> IF t \in Sleepers(m) THEN "awake" ELSE pc[t]]
    BY <1>6 DEF WakeSleepers, shared
  <2>2. /\ pc' \in [Threads -> WPCs]
        /\ \A u \in Threads : pc'[u] = pc[u] \/ (pc[u] = "asleep" /\ pc'[u] = "awake")
    <3>1. "awake" \in WPCs
      BY DEF WPCs, PCs
    <3> QED BY <1>1, <2>1, <3>1 DEF Sleepers, Typed, LocalsTyped
  <2>3. Typed'
    BY <1>1, <2>1, <2>2 DEF Typed, LocalsTyped, WordsTyped
  <2>4. ServerOK'
    BY <1>1, <2>1, <2>2 DEF ServerOK, Alive
  <2>5. \A u \in Threads : Stays(u)
    BY <2>1, <2>2 DEF Stays
  <2> QED BY <2>1, <2>3, <2>4, <2>5, NobodysStep
<1> QED BY <1>2, <1>3, <1>4, <1>5, <1>6 DEF Sweep

-----------------------------------------------------------------------------
(* The invariant is inductive, and implies what is claimed.                *)

LEMMA StepWInv ==
    ASSUME WInv, NotNested, WNext
    PROVE  WInv'
<1>1. ASSUME NEW t \in Threads, WStep(t) PROVE WInv'
  BY <1>1, WStepSteps
<1>2. ASSUME NEW t \in Threads, CallWaitAll(t) PROVE WInv'
  BY <1>2, CallWaitSteps
<1>3. ASSUME NEW t \in Threads, SingleTimedOut(t) PROVE WInv'
  BY <1>3, FirstSteps DEF SingleTimedOut
<1>4. ASSUME NEW t \in Threads, Calls(t), UNCHANGED <<sweep, abandoned, grabbed>> PROVE WInv'
  BY <1>4, CallSteps, CallWaitSteps DEF Calls
<1>5. ASSUME NEW t \in Threads, TimedOut(t) \/ Interrupted(t), UNCHANGED <<sweep, abandoned, grabbed>> PROVE WInv'
  BY <1>5, AnySteps
<1>6. ASSUME NEW t \in Threads, Exit(t), UNCHANGED <<abandoned, grabbed>> PROVE WInv'
  BY <1>6, ExitStep
<1>7. ASSUME QueueApc \/ WakeApc, UNCHANGED <<sweep, abandoned, grabbed>> PROVE WInv'
  BY <1>7, ApcSteps
<1>8. ASSUME Sweep, UNCHANGED <<abandoned, grabbed>> PROVE WInv'
  BY <1>8, SweepSteps
<1> QED BY <1>1, <1>2, <1>3, <1>4, <1>5, <1>6, <1>7, <1>8 DEF WNext

\* Nothing happens.
LEMMA StutterWInv ==
    ASSUME WInv, UNCHANGED wvars
    PROVE  WInv'
<1>1. /\ UNCHANGED <<word, count, pc, call, i, expect, ret, held, victim, todo, marking, stores, abandoned, grabbed>>
  BY DEF wvars, avars, vars, sweep
<1>2. Typed'
  BY <1>1 DEF WInv, Typed, LocalsTyped, WordsTyped
<1>3. ServerOK'
  BY <1>1 DEF WInv, ServerOK, Alive
<1>4. \A u \in Threads : Stays(u)
  BY <1>1 DEF Stays
<1> QED BY <1>1, <1>2, <1>3, <1>4, NobodysStep

\* The invariant holds of every reachable state as long as no thread waits for a mutex it owns.
THEOREM WInvInductive == NotNested => (WSpec => []WInv)
<1> SUFFICES ASSUME NotNested PROVE WSpec => []WInv
  OBVIOUS
<1>1. WInv /\ [WNext]_wvars => WInv'
  BY StepWInv, StutterWInv
<1> QED BY <1>1, InitWInv, PTL DEF WSpec

\* A wait for all objects takes all of them or none, and what a thread has taken is nobody else's.
LEMMA WInvImplies == WInv => GrabsExact
<1> SUFFICES ASSUME WInv PROVE GrabsExact
  OBVIOUS
<1>1. Typed /\ \A t \in Threads : ThreadOK(t)
  BY DEF WInv
<1>2. WTypeOK
  <2>1. \A t \in Threads : call[t].op = "all" => i[t] \in DOMAIN call[t].objs
    BY <1>1 DEF ThreadOK, ArrayOK
  <2> QED BY <1>1, <2>1 DEF WTypeOK, Typed, WordsTyped, LocalsTyped
<1>3. ASSUME NEW t \in Threads, call[t].op = "all", Taken(t) = 0 PROVE grabbed[t] = {}
  BY <1>1, <1>3 DEF ThreadOK, TakenOK
<1>4. ASSUME NEW t \in Threads, call[t].op = "all", Success(t), NEW o \in Waited(t) \intersect Consumable
      PROVE  IF o \in Mutexes THEN word[o] = t ELSE o \in grabbed[t]
  <2>1. Taken(t) = Len(call[t].objs)
    BY <1>4 DEF Taken, Success
  <2>2. PICK k \in 1..Taken(t) : o = call[t].objs[k]
    BY <2>1 DEF Waited
  <2> QED BY <1>1, <2>2 DEF ThreadOK, TakenOK
<1>5. AllOrNothing
  <2>1. ASSUME NEW t \in Threads, call[t].op = "all", ~Grabbing(t), pc[t] # "done" PROVE grabbed[t] = {}
    <3>1. Taken(t) = 0
      BY <2>1 DEF Taken, Grabbing, Success
    <3> QED BY <1>3, <2>1, <3>1
  <2>2. ASSUME NEW t \in Threads, call[t].op = "all", pc[t] = "done", ret[t] \in {"timeout", "user_apc"}
        PROVE  grabbed[t] = {}
    <3>1. Taken(t) = 0
      BY <2>2 DEF Taken, Success
    <3> QED BY <1>3, <2>2, <3>1
  <2> QED BY <1>4, <2>1, <2>2 DEF AllOrNothing, Success
<1>6. Exclusive
  <2>1. ASSUME NEW m \in Mutexes, NEW t \in Threads, m \in grabbed[t] PROVE word[m] = t
    BY <1>1, <2>1 DEF ThreadOK, TakenOK
  <2>2. ASSUME NEW m \in Mutexes, NEW t \in Threads, Alive(t), held[t][m] > 0 PROVE word[m] = t
    BY <1>1, <2>2 DEF ThreadOK, HeldOK
  <2> QED BY <2>1, <2>2 DEF Exclusive
<1> QED BY <1>2, <1>5, <1>6 DEF GrabsExact

\* All or nothing: what a wait for all objects takes and puts back is exact, whatever the other
\* threads wait for, signal and release, and whoever dies.
THEOREM GrabsAreExact == NotNested => (WSpec => []GrabsExact)
<1> SUFFICES ASSUME NotNested PROVE WSpec => []GrabsExact
  OBVIOUS
<1>1. WSpec => []WInv
  BY WInvInductive
<1> QED BY <1>1, WInvImplies, PTL
=============================================================================
