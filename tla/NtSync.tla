------------------------------- MODULE NtSync -------------------------------
(***************************************************************************)
(* What the NT synchronization objects promise their callers, whichever    *)
(* back end implements them: an operation takes effect at one instant, a   *)
(* wait for any object takes one unit of one object that is signaled for   *)
(* the caller or nothing at all, and only its owner gives a mutex back, or *)
(* whoever notices that its owner has ended.                               *)
(*                                                                         *)
(* The operations are those of dlls/ntdll/unix/fsync_pro10.c; what is not  *)
(* promised there (an order among waiters, an atomic pulse) is not         *)
(* promised here.                                                          *)
(***************************************************************************)
EXTENDS Integers

CONSTANTS Threads, Semaphores, Mutexes, AutoEvents, ManualEvents, SemMax

Objects == Semaphores \union Mutexes \union AutoEvents \union ManualEvents

VARIABLES
    signal,  \* the units a semaphore or an event has
    owner,   \* the owner of a mutex, or 0
    nest,    \* how often it owns it
    want,    \* the objects a thread waits for one of
    ended    \* the threads that are no more

nvars == <<signal, owner, nest, want, ended>>

NInit ==
    /\ signal \in [Objects \ Mutexes -> 0..SemMax]
    /\ owner = [m \in Mutexes |-> 0]
    /\ nest  = [m \in Mutexes |-> 0]
    /\ want  = [t \in Threads |-> {}]
    /\ ended = {}

NRelease ==
    \E s \in Semaphores, n \in 0..SemMax :
        /\ signal[s] + n <= SemMax
        /\ signal' = [signal EXCEPT ![s] = @ + n]
        /\ UNCHANGED <<owner, nest, want, ended>>

NSetReset ==
    \E e \in AutoEvents \union ManualEvents, value \in {0, 1} :
        /\ signal' = [signal EXCEPT ![e] = value]
        /\ UNCHANGED <<owner, nest, want, ended>>

NReleaseMutex(t) ==
    /\ t \notin ended
    /\ \E m \in Mutexes :
        /\ owner[m] = t
        /\ nest'  = [nest EXCEPT ![m] = @ - 1]
        /\ owner' = [owner EXCEPT ![m] = IF nest[m] = 1 THEN 0 ELSE t]
    /\ UNCHANGED <<signal, want, ended>>

NWait(t) ==
    /\ t \notin ended /\ want[t] = {}
    /\ \E objs \in SUBSET Objects : want' = [want EXCEPT ![t] = objs]
    /\ UNCHANGED <<signal, owner, nest, ended>>

Satisfied(t) == want' = [want EXCEPT ![t] = {}]

NTakeUnit(t) ==
    \E o \in want[t] \ Mutexes :
        /\ signal[o] > 0
        /\ signal' = [signal EXCEPT ![o] = IF o \in ManualEvents THEN @ ELSE @ - 1]
        /\ Satisfied(t)
        /\ UNCHANGED <<owner, nest, ended>>

NTakeMutex(t) ==
    \E m \in want[t] \intersect Mutexes :
        /\ owner[m] \in {0, t}
        /\ owner' = [owner EXCEPT ![m] = t]
        /\ nest'  = [nest EXCEPT ![m] = @ + 1]
        /\ Satisfied(t)
        /\ UNCHANGED <<signal, ended>>

\* The wait ends without an object: its timeout, or a user APC.
NGiveUp(t) == Satisfied(t) /\ UNCHANGED <<signal, owner, nest, ended>>

NEnd(t) ==
    /\ want[t] = {} /\ ended' = ended \union {t}
    /\ UNCHANGED <<signal, owner, nest, want>>

\* What it owned is given back, however often it owned it.
NAbandon(t) ==
    /\ t \in ended
    /\ \E m \in Mutexes :
        /\ owner[m] = t
        /\ owner' = [owner EXCEPT ![m] = 0] /\ nest' = [nest EXCEPT ![m] = 0]
    /\ UNCHANGED <<signal, want, ended>>

NNext ==
    \/ NRelease \/ NSetReset
    \/ \E t \in Threads :
         \/ NReleaseMutex(t) \/ NWait(t) \/ NTakeUnit(t) \/ NTakeMutex(t) \/ NGiveUp(t)
         \/ NEnd(t) \/ NAbandon(t)

NSpec == NInit /\ [][NNext]_nvars
=============================================================================
