-------------------------- MODULE FsyncRefinement ---------------------------
(***************************************************************************)
(* fsync's signalling calls and its wait for any object implement NtSync.  *)
(* An operation takes effect with one atomic instruction on the futex      *)
(* word; mutex->count is brought in line with mutex->tid by the owner      *)
(* alone, a step later, when nobody else can look.                         *)
(***************************************************************************)
EXTENDS FsyncWait

Nesting(m) ==
    IF \E t \in Threads : Entering(t, m) \/ Leaving(t, m) THEN 1 ELSE count[m]

\* A wait wants its objects until the instruction that gets it one of them.
Wanting(t) == call[t].op = "any" /\ pc[t] \notin {"idle", "own", "own_abandoned", "done"}

Nt == INSTANCE NtSync WITH
    signal <- [o \in Objects \ Mutexes |-> word[o]],
    owner  <- [m \in Mutexes |-> word[m]],
    nest   <- [m \in Mutexes |-> Nesting(m)],
    want   <- [t \in Threads |-> IF Wanting(t) THEN Waited(t) ELSE {}],
    ended  <- {}

\* Every step of a thread is a step of the promise or none at all.
ImplementsNtSync == Nt!NSpec
=============================================================================
