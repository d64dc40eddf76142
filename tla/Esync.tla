------------------------------- MODULE Esync --------------------------------
(***************************************************************************)
(* esync (dlls/ntdll/unix/esync_pro10.c, server/esync_pro10.c): an object  *)
(* is an eventfd, which is what a thread waits for, and eight bytes of     *)
(* shared memory, which are a hint for a semaphore or an auto-reset event, *)
(* the owner for a mutex, and part of the state for a manual-reset event.  *)
(*                                                                         *)
(* One action is one access to the shared memory or one system call.       *)
(***************************************************************************)
EXTENDS Integers, Sequences, FiniteSets, SequencesExt

CONSTANTS
  Threads,            \* the thread ids, as they are stored in a mutex
  Semaphores, Mutexes, AutoEvents, ManualEvents,
  Initial,            \* the semaphores and events that are created with one unit
  SemMax,             \* semaphore->max of every semaphore
  UIntSize,           \* how many values a ULONG has (2^32 in the code)
  ReleaseCounts,      \* the counts passed to esync_release_semaphore
  AnyWaits, AllWaits, \* the handle arrays passed to a wait, for each of Roles
  Timeouts,           \* a subset of {"zero", "finite", "infinite"}
  Roles,              \* what the threads call: sets of <<thread, call>>
  Mortal,             \* the threads that may exit
  MaxNesting          \* bound: how often a thread may own one mutex

Events  == AutoEvents \cup ManualEvents
Objects == Semaphores \cup Mutexes \cup Events
Abandoned == -1       \* ~0 in mutex->tid

ASSUME EsyncAssumption ==
  /\ Threads \subseteq Nat \ {0} /\ Mortal \subseteq Threads /\ Initial \subseteq Semaphores \cup Events
  /\ SemMax \in Nat \ {0} /\ UIntSize \in Nat /\ SemMax < UIntSize
  /\ ReleaseCounts \subseteq 0 .. (UIntSize - 1) /\ MaxNesting \in Nat \ {0}
  /\ \A r \in Roles : AnyWaits[r] \cup AllWaits[r] \subseteq Seq(Objects) \ {<<>>}

\* Threads are finitely many, an object has one type, and a wait for all names none twice.
ASSUME TypesAssumption ==
  /\ IsFiniteSet(Threads)
  /\ Semaphores \cap Mutexes = {} /\ (Semaphores \cup Mutexes) \cap Events = {}
  /\ AutoEvents \cap ManualEvents = {}
  /\ \A r \in Roles : \A s \in AllWaits[r] : IsInjective(s)

VARIABLES
  fd,                 \* the counter of the eventfd
  count,              \* semaphore->count, mutex->count
  tid,                \* mutex->tid
  signaled, locked,   \* event->signaled, event->locked
  victim, todo, waking, \* the server: the dead thread, the mutexes it has not come to yet,
                        \* those it has marked and not yet woken
  pc, call, i, polled, ret,
  held,               \* ghost: how often a thread was told that it owns a mutex
  role                \* one of Roles, for good

shm == <<count, tid, signaled, locked>>
server == <<victim, todo, waking>>
local == <<call, i, polled, ret, held, role>>
vars == <<fd, shm, server, pc, local>>

NoCall == [op |-> "none", objs |-> <<>>, units |-> 0, timeout |-> "infinite"]
obj(t) == call[t].objs[i[t]]
Waited(t) == Range(call[t].objs)

Init ==
  /\ fd = [o \in Objects |-> IF o \in Mutexes \cup Initial THEN 1 ELSE 0]
  /\ count = [o \in Semaphores \cup Mutexes |-> IF o \in Semaphores THEN fd[o] ELSE 0]
  /\ tid = [m \in Mutexes |-> 0]
  /\ signaled = [e \in Events |-> fd[e]] /\ locked = [e \in ManualEvents |-> FALSE]
  /\ victim = 0 /\ todo = {} /\ waking = {}
  /\ pc = [t \in Threads |-> "idle"] /\ call = [t \in Threads |-> NoCall]
  /\ i = [t \in Threads |-> 1] /\ polled = [t \in Threads |-> {}]
  /\ ret = [t \in Threads |-> "none"]
  /\ held = [t \in Threads |-> [m \in Mutexes |-> 0]]
  /\ role \in Roles

----------------------------------------------------------------------------
Goto(t, l) == pc' = [pc EXCEPT ![t] = l]
Return(t, status) == Goto(t, "done") /\ ret' = [ret EXCEPT ![t] = status]

Enter(t, l, op, objs, units, timeout) ==
  /\ pc[t] = "idle" /\ <<t, op>> \in role
  /\ Goto(t, l)
  /\ call' = [call EXCEPT ![t] = [op |-> op, objs |-> objs, units |-> units, timeout |-> timeout]]
  /\ UNCHANGED <<fd, shm, server, i, polled, ret, held, role>>

Leave(t) ==
  /\ pc[t] = "done" /\ Goto(t, "idle")
  /\ call' = [call EXCEPT ![t] = NoCall] /\ i' = [i EXCEPT ![t] = 1]
  /\ polled' = [polled EXCEPT ![t] = {}] /\ ret' = [ret EXCEPT ![t] = "none"]
  /\ UNCHANGED <<fd, shm, server, held, role>>

\* read(): one unit of a semaphore (EFD_SEMAPHORE), all there is of anything else.
Read(o) == [fd EXCEPT ![o] = IF o \in Semaphores THEN @ - 1 ELSE 0]

\* The counter after write(); of an auto-reset event only whether it is zero matters, as
\* all of it is read at once.
Plus(o, units) == [fd EXCEPT ![o] = IF o \in AutoEvents THEN 1 ELSE @ + units]

\* The last step of a call but for the lock of a manual-reset event.
Write(t) ==
  /\ pc[t] = "write"
  /\ fd' = Plus(obj(t), call[t].units)
  /\ Goto(t, IF call[t].op = "pulse" THEN "drain"
             ELSE IF obj(t) \in ManualEvents THEN "unlock" ELSE "done")
  /\ UNCHANGED <<shm, server, local>>

----------------------------------------------------------------------------
(* The signalling calls.                                                   *)

CallReleaseSemaphore(t) ==
  \E s \in Semaphores, n \in ReleaseCounts : Enter(t, "release", "release", <<s>>, n, "infinite")

\* The compare-and-swap gives the permission to write; sums are unsigned 32-bit numbers.
Release(t) ==
  LET s == obj(t) new == (count[s] + call[t].units) % UIntSize
  IN /\ pc[t] = "release"
     /\ IF new > SemMax THEN Return(t, "limit exceeded") /\ UNCHANGED count
        ELSE count' = [count EXCEPT ![s] = new] /\ Goto(t, "write") /\ UNCHANGED ret
  /\ UNCHANGED <<fd, tid, signaled, locked, server, call, i, polled, held, role>>

\* Nobody pulses a manual-reset event, which would be left half set.
CallEvent(t) ==
  \E e \in Events, op \in {"set", "reset", "pulse", "server set"} :
    /\ op = "pulse" => e \in AutoEvents
    /\ Enter(t, IF op = "pulse" THEN "write" ELSE IF e \in ManualEvents THEN "lock" ELSE "exchange",
          op, <<e>>, 1, "infinite")

\* The spinlock of a manual-reset event.
Lock(t) ==
  /\ pc[t] = "lock" /\ ~locked[obj(t)]
  /\ locked' = [locked EXCEPT ![obj(t)] = TRUE] /\ Goto(t, "exchange")
  /\ UNCHANGED <<fd, count, tid, signaled, server, local>>

Unlock(t) ==
  /\ pc[t] = "unlock"
  /\ locked' = [locked EXCEPT ![obj(t)] = FALSE] /\ Goto(t, "done")
  /\ UNCHANGED <<fd, count, tid, signaled, server, local>>

\* esync_set_event: an auto-reset event is always written to, by the client; the server
\* leaves one alone that looks signaled.
Set(t) ==
  LET e == obj(t)
  IN /\ pc[t] = "exchange" /\ call[t].op \in {"set", "server set"}
     /\ signaled' = [signaled EXCEPT ![e] = 1]
     /\ Goto(t, IF signaled[e] = 0 \/ (e \in AutoEvents /\ call[t].op = "set") THEN "write"
                ELSE IF e \in ManualEvents THEN "unlock" ELSE "done")
  /\ UNCHANGED <<fd, count, tid, locked, server, local>>

Reset(t) ==
  LET e == obj(t)
  IN /\ pc[t] = "exchange" /\ call[t].op = "reset"
     /\ signaled' = [signaled EXCEPT ![e] = 0]
     /\ Goto(t, IF signaled[e] = 1 \/ e \in AutoEvents THEN "drain" ELSE "unlock")
  /\ UNCHANGED <<fd, count, tid, locked, server, local>>

\* The read of esync_reset_event and of esync_pulse_event.
Drain(t) ==
  /\ pc[t] = "drain"
  /\ fd' = Read(obj(t))
  /\ Goto(t, IF obj(t) \in ManualEvents /\ call[t].op = "reset" THEN "unlock" ELSE "done")
  /\ UNCHANGED <<shm, server, local>>

CallReleaseMutex(t) ==
  \E m \in Mutexes : /\ held[t][m] > 0 \/ tid[m] # t
                     /\ Enter(t, "release mutex", "release mutex", <<m>>, 1, "infinite")

NotOwned(t) ==
  /\ pc[t] = "release mutex" /\ tid[obj(t)] # t
  /\ Return(t, "not owned")
  /\ UNCHANGED <<fd, shm, server, call, i, polled, held, role>>

ReleaseMutex(t) ==
  LET m == obj(t)
  IN /\ pc[t] = "release mutex" /\ tid[m] = t
     /\ count' = [count EXCEPT ![m] = @ - 1] /\ held' = [held EXCEPT ![t][m] = @ - 1]
     /\ Goto(t, IF count[m] = 1 THEN "disown" ELSE "done")
  /\ UNCHANGED <<fd, tid, signaled, locked, server, call, i, polled, ret, role>>

\* "as long as signaling the file is the last thing we do"
Disown(t) ==
  /\ pc[t] = "disown"
  /\ tid' = [tid EXCEPT ![obj(t)] = 0] /\ Goto(t, "write")
  /\ UNCHANGED <<fd, count, signaled, locked, server, local>>

----------------------------------------------------------------------------
(* A wait for any object.                                                  *)

CallWaitAny(t) ==
  \E objs \in AnyWaits[role], timeout \in Timeouts :
    /\ \A k \in DOMAIN objs : objs[k] \in Mutexes => held[t][objs[k]] < MaxNesting
    /\ Enter(t, "try", "any", objs, 0, timeout)

Owns(t, o) == o \in Mutexes /\ tid[o] = t

\* What the shared memory says of an object that has to be read.
Hint(o) == \/ o \in Semaphores /\ count[o] > 0
           \/ o \in Mutexes /\ count[o] = 0
           \/ o \in AutoEvents /\ signaled[o] = 1

\* The next object of the array, from the last one on to l.
Next1(t, again, l) ==
  IF i[t] = Len(call[t].objs) THEN Goto(t, l) /\ i' = [i EXCEPT ![t] = 1]
  ELSE Goto(t, again) /\ i' = [i EXCEPT ![t] = @ + 1]

TryOwned(t) ==
  LET m == obj(t)
  IN /\ pc[t] = "try" /\ Owns(t, m)
     /\ count' = [count EXCEPT ![m] = @ + 1] /\ held' = [held EXCEPT ![t][m] = @ + 1]
     /\ Return(t, "signaled")
  /\ UNCHANGED <<fd, tid, signaled, locked, server, call, i, polled, role>>

\* A manual-reset event, by its shared memory or by what poll() said of it.
SeeManual(t) ==
  LET e == obj(t)
  IN /\ pc[t] \in {"try", "scan"} /\ e \in ManualEvents
     /\ (pc[t] = "try" /\ signaled[e] = 1) \/ (pc[t] = "scan" /\ e \in polled[t])
     /\ Return(t, "signaled")
  /\ UNCHANGED <<fd, shm, server, call, i, polled, held, role>>

TryHinted(t) ==
  /\ pc[t] = "try" /\ Hint(obj(t)) /\ ~Owns(t, obj(t))
  /\ Goto(t, "try read")
  /\ UNCHANGED <<fd, shm, server, local>>

Skip(t) ==
  LET o == obj(t)
  IN /\ \/ /\ pc[t] = "try" /\ ~Hint(o) /\ ~Owns(t, o) /\ ~(o \in ManualEvents /\ signaled[o] = 1)
           /\ Next1(t, "try", "poll")
        \/ pc[t] = "try read" /\ fd[o] = 0 /\ Next1(t, "try", "poll")
        \/ /\ pc[t] = "scan" /\ IF o \in ManualEvents THEN o \notin polled[t] ELSE fd[o] = 0
           /\ Next1(t, "scan", "poll")
  /\ UNCHANGED <<fd, shm, server, call, polled, ret, held, role>>

\* A mutant: poll()'s word is taken for the unit.
GrabUnread(t) ==
  /\ pc[t] \in {"try read", "scan"} /\ obj(t) \notin ManualEvents
  /\ fd[obj(t)] > 0 \/ obj(t) \in polled[t]
  /\ fd' = IF fd[obj(t)] > 0 THEN Read(obj(t)) ELSE fd
  /\ Goto(t, "grabbed")
  /\ UNCHANGED <<shm, server, local>>

Grab(t) ==
  /\ pc[t] \in {"try read", "scan"} /\ obj(t) \notin ManualEvents /\ fd[obj(t)] > 0
  /\ fd' = Read(obj(t)) /\ Goto(t, "grabbed")
  /\ UNCHANGED <<shm, server, local>>

Ready(t) == {o \in Waited(t) : fd[o] > 0}

\* do_poll: until one of them is ready; at once with no time left.
Poll(t) ==
  /\ pc[t] = "poll"
  /\ \/ Ready(t) # {} /\ Goto(t, "scan") /\ polled' = [polled EXCEPT ![t] = Ready(t)] /\ UNCHANGED ret
     \/ Ready(t) = {} /\ call[t].timeout = "zero" /\ Return(t, "timeout") /\ UNCHANGED polled
  /\ UNCHANGED <<fd, shm, server, call, i, held, role>>

TimedOut(t) ==
  /\ \/ pc[t] = "poll" /\ Ready(t) = {}
     \/ pc[t] = "poll one" /\ fd[obj(t)] = 0 /\ ~Owns(t, obj(t))
  /\ call[t].timeout = "finite" /\ Return(t, "timeout")
  /\ UNCHANGED <<fd, shm, server, call, i, polled, held, role>>

\* update_grabbed_object, of the object the loop is at.
Update(t) ==
  LET o == obj(t)
  IN /\ count' = IF o \in Semaphores THEN [count EXCEPT ![o] = @ - 1]
                 ELSE IF o \in Mutexes THEN [count EXCEPT ![o] = @ + 1] ELSE count
     /\ tid' = IF o \in Mutexes THEN [tid EXCEPT ![o] = t] ELSE tid
     /\ signaled' = IF o \in AutoEvents THEN [signaled EXCEPT ![o] = 0] ELSE signaled
     /\ held' = IF o \in Mutexes THEN [held EXCEPT ![t][o] = @ + 1] ELSE held
     /\ UNCHANGED locked

Outcome(t) == IF obj(t) \in Mutexes /\ tid[obj(t)] = Abandoned THEN "abandoned" ELSE "signaled"

Grabbed(t) ==
  /\ pc[t] = "grabbed" /\ Update(t) /\ Return(t, Outcome(t))
  /\ UNCHANGED <<fd, server, call, i, polled, role>>

----------------------------------------------------------------------------
(* A wait for all objects: poll each, poll all, read all, else put back.   *)

\* The callers wait for no mutex they own: that wait would never end.
CallWaitAll(t) ==
  \E objs \in AllWaits[role], timeout \in Timeouts :
    /\ \A k \in DOMAIN objs : ~Owns(t, objs[k])
    /\ Enter(t, "poll one", "all", objs, 0, timeout)

PollOne(t) ==
  /\ pc[t] = "poll one"
  /\ \/ (fd[obj(t)] > 0 \/ Owns(t, obj(t))) /\ Next1(t, "poll one", "poll all") /\ UNCHANGED ret
     \/ fd[obj(t)] = 0 /\ ~Owns(t, obj(t)) /\ call[t].timeout = "zero" /\ Return(t, "timeout") /\ UNCHANGED i
  /\ UNCHANGED <<fd, shm, server, call, polled, held, role>>

\* A mutant: the descriptor for APCs is expected to be ready too.
PollAllAndApc(t) ==
  /\ pc[t] = "poll all"
  /\ Goto(t, IF Cardinality(Ready(t)) > Len(call[t].objs) THEN "grab" ELSE "poll one")
  /\ UNCHANGED <<fd, shm, server, local>>

PollAll(t) ==
  /\ pc[t] = "poll all"
  /\ Goto(t, IF Ready(t) = Waited(t) THEN "grab" ELSE "poll one")
  /\ UNCHANGED <<fd, shm, server, local>>

\* "Quick, grab everything."
GrabOne(t) ==
  LET o == obj(t)
  IN /\ pc[t] = "grab" /\ (fd[o] > 0 \/ o \in ManualEvents)
     /\ fd' = IF o \in ManualEvents THEN fd ELSE Read(o)
     /\ Next1(t, "grab", "keep")
  /\ UNCHANGED <<shm, server, call, polled, ret, held, role>>

\* "We were too slow. Put everything back."
TooSlow(t) ==
  /\ pc[t] = "grab" /\ fd[obj(t)] = 0 /\ obj(t) \notin ManualEvents
  /\ IF i[t] = 1 THEN Goto(t, "poll one") /\ UNCHANGED i
     ELSE Goto(t, "put back") /\ i' = [i EXCEPT ![t] = @ - 1]
  /\ UNCHANGED <<fd, shm, server, call, polled, ret, held, role>>

\* A mutant: the last object that was read is forgotten.
PutBackFirst(t) ==
  /\ pc[t] = "put back"
  /\ fd' = Plus(obj(t), IF i[t] = 1 THEN 0 ELSE 1)
  /\ IF i[t] = 1 THEN Goto(t, "poll one") /\ UNCHANGED i
     ELSE Goto(t, "put back") /\ i' = [i EXCEPT ![t] = @ - 1]
  /\ UNCHANGED <<shm, server, call, polled, ret, held, role>>

\* Everything that is not an own mutex is written to, also what was not read.
PutBack(t) ==
  /\ pc[t] = "put back"
  /\ fd' = Plus(obj(t), 1)
  /\ IF i[t] = 1 THEN Goto(t, "poll one") /\ UNCHANGED i
     ELSE Goto(t, "put back") /\ i' = [i EXCEPT ![t] = @ - 1]
  /\ UNCHANGED <<shm, server, call, polled, ret, held, role>>

Keep(t) ==
  /\ pc[t] = "keep" /\ Update(t)
  /\ ret' = [ret EXCEPT ![t] = IF @ = "abandoned" THEN @ ELSE Outcome(t)]
  /\ IF i[t] = Len(call[t].objs) THEN Goto(t, "done") /\ UNCHANGED i
     ELSE i' = [i EXCEPT ![t] = @ + 1] /\ UNCHANGED pc
  /\ UNCHANGED <<fd, server, call, polled, role>>

----------------------------------------------------------------------------
(* esync_abandon_mutexes, when the server sees a thread die.               *)

Exit(t) ==
  /\ pc[t] = "idle" /\ t \in Mortal /\ victim = 0
  /\ Goto(t, "dead") /\ victim' = t /\ todo' = Mutexes
  /\ UNCHANGED <<fd, shm, waking, local>>

\* A mutant: the mutex is marked and nobody is woken.
AbandonSilently ==
  /\ victim # 0 /\ waking = {}
  /\ \E m \in todo :
       /\ todo' = todo \ {m}
       /\ IF tid[m] = victim
          THEN /\ tid' = [tid EXCEPT ![m] = Abandoned] /\ count' = [count EXCEPT ![m] = 0]
               /\ held' = [held EXCEPT ![victim][m] = 0] /\ UNCHANGED waking
          ELSE UNCHANGED <<tid, count, held, waking>>
  /\ UNCHANGED <<fd, signaled, locked, victim, pc, call, i, polled, ret, role>>

Abandon ==
  /\ victim # 0 /\ waking = {}
  /\ \E m \in todo :
       /\ todo' = todo \ {m}
       /\ IF tid[m] = victim
          THEN /\ tid' = [tid EXCEPT ![m] = Abandoned] /\ count' = [count EXCEPT ![m] = 0]
               /\ held' = [held EXCEPT ![victim][m] = 0] /\ waking' = {m}
          ELSE UNCHANGED <<tid, count, held, waking>>
  /\ UNCHANGED <<fd, signaled, locked, victim, pc, call, i, polled, ret, role>>

\* esync_wake_fd
WakeAbandoned ==
  /\ \E m \in waking : fd' = [fd EXCEPT ![m] = @ + 1] /\ waking' = {}
  /\ UNCHANGED <<shm, victim, todo, pc, local>>

Swept ==
  /\ victim # 0 /\ todo = {} /\ waking = {} /\ victim' = 0
  /\ UNCHANGED <<fd, shm, todo, waking, pc, local>>

Sweep == Abandon \/ WakeAbandoned \/ Swept

----------------------------------------------------------------------------
Calls(t) == \/ CallReleaseSemaphore(t) \/ CallReleaseMutex(t) \/ CallEvent(t)
            \/ CallWaitAny(t) \/ CallWaitAll(t)
Signal(t) == \/ Release(t) \/ Lock(t) \/ Unlock(t) \/ Set(t) \/ Reset(t) \/ Drain(t)
             \/ NotOwned(t) \/ ReleaseMutex(t) \/ Disown(t) \/ Write(t)
WaitAny(t) == \/ TryOwned(t) \/ SeeManual(t) \/ TryHinted(t) \/ Skip(t) \/ Grab(t) \/ Grabbed(t)
              \/ Poll(t)
WaitAll(t) == PollOne(t) \/ PollAll(t) \/ GrabOne(t) \/ TooSlow(t) \/ PutBack(t) \/ Keep(t)

\* What a thread does as long as it is scheduled, once it is in a call.
Step(t) == Signal(t) \/ WaitAny(t) \/ WaitAll(t) \/ Leave(t)

Next == \/ \E t \in Threads : Calls(t) \/ Step(t) \/ TimedOut(t) \/ Exit(t)
        \/ Sweep

Spec == Init /\ [][Next]_vars

\* The kernel schedules every thread that can run, and the server serves.
FairSpec == Spec /\ (\A t \in Threads : WF_vars(Step(t))) /\ WF_vars(Sweep)

----------------------------------------------------------------------------
Statuses == {"none", "limit exceeded", "not owned", "signaled", "abandoned", "timeout"}

TypeOK ==
  /\ \A o \in Objects : fd[o] \in Nat
  /\ \A m \in Mutexes : tid[m] \in Threads \cup {0, Abandoned} /\ count[m] \in 0 .. MaxNesting
  /\ \A s \in Semaphores : count[s] \in 0 .. SemMax
  /\ \A t \in Threads : /\ i[t] \in {1} \cup DOMAIN call[t].objs
                        /\ ret[t] \in Statuses /\ polled[t] \subseteq Objects
  /\ todo \cup waking \subseteq Mutexes

\* The unit of an object that a thread has read and not yet accounted for.
Taken(t, o) ==
  /\ o \in Waited(t) \ ManualEvents
  /\ \/ pc[t] = "grabbed" /\ obj(t) = o
     \/ \E k \in DOMAIN call[t].objs : call[t].objs[k] = o
          /\ \/ pc[t] = "grab" /\ k < i[t]
             \/ pc[t] = "keep" /\ k >= i[t]
             \/ pc[t] = "put back" /\ k <= i[t]

Writing(t, o) == pc[t] = "write" /\ obj(t) = o

\* The units a release has been permitted and has still to write, each with its thread.
Due(s) == {u \in Threads \X (1 .. SemMax) : Writing(u[1], s) /\ u[2] <= call[u[1]].units}

\* A semaphore's count is its eventfd plus what is under way, so a release that the
\* count allows can be written ("we have permission to actually write that many").
SemaphoreExact ==
  \A s \in Semaphores :
    /\ count[s] <= SemMax
    /\ count[s] = fd[s] + Cardinality({t \in Threads : Taken(t, s)}) + Cardinality(Due(s))

\* The one unit of a mutex: in its eventfd, or with the one thread that owns it, takes
\* it or gives it back, or with the server; and count is what the owner was told.
MutexExact ==
  \A m \in Mutexes :
    /\ fd[m] + Cardinality(waking \cap {m})
         + Cardinality({t \in Threads : \/ held[t][m] > 0 \/ Taken(t, m) \/ Writing(t, m)
                                        \/ pc[t] = "disown" /\ obj(t) = m}) = 1
    /\ \A t \in Threads : held[t][m] > 0 => tid[m] = t /\ count[m] = held[t][m]

\* Outside its lock the two halves of a manual-reset event agree: a wait that looks at
\* the shared memory and one that polls see the same event.
ManualExact == \A e \in ManualEvents : ~locked[e] => (signaled[e] = 1 <=> fd[e] = 1)

\* The shared memory and the eventfds say the same: the parts above.
UnitsExact == TypeOK /\ SemaphoreExact /\ MutexExact /\ ManualExact

\* A wait for all objects does not start over for ever while they all stay signaled.
AllSignaled(t) == call[t].op = "all" /\ Ready(t) = Waited(t)
AllAreTaken == \A t \in Threads : AllSignaled(t) ~> ~AllSignaled(t)

\* Whoever waits for a mutex whose owner has died gets it, or another does.
Orphaned(m) == tid[m] = Abandoned /\ \E t \in Threads : call[t].op = "any" /\ m \in Waited(t)
AbandonedIsTaken == \A m \in Mutexes : Orphaned(m) ~> ~Orphaned(m)

----------------------------------------------------------------------------
\* esync's waits for any object implement what NtSync promises of semaphores, mutexes
\* and auto-reset events: the eventfd is the object, the shared memory is not.
Plain == \A t \in Threads : <<t, "all">> \notin role
Wanting(t) == call[t].op = "any" /\ pc[t] \notin {"grabbed", "done"}
Owner(m) ==
  LET own == {t \in Threads : held[t][m] > 0 \/ Taken(t, m) \/ (pc[t] \in {"disown", "write"} /\ obj(t) = m)}
  IN IF own = {} THEN 0 ELSE CHOOSE t \in own : TRUE

Nt == INSTANCE NtSync WITH
  ManualEvents <- {},
  signal <- [o \in Semaphores \cup AutoEvents |-> IF Plain THEN fd[o] ELSE 0],
  owner <- [m \in Mutexes |-> IF Plain THEN Owner(m) ELSE 0],
  nest <- [m \in Mutexes |-> IF ~Plain \/ Owner(m) = 0 THEN 0
                             ELSE IF held[Owner(m)][m] > 0 THEN held[Owner(m)][m] ELSE 1],
  want <- [t \in Threads |-> IF Plain /\ Wanting(t) THEN Waited(t) \ ManualEvents ELSE {}],
  ended <- IF Plain THEN {t \in Threads : pc[t] = "dead"} ELSE {}

ImplementsNtSync == Nt!NSpec
=============================================================================
