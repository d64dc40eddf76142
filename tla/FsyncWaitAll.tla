---------------------------- MODULE FsyncWaitAll ----------------------------
(***************************************************************************)
(* The wait for all objects of __fsync_wait_objects.  No object can be     *)
(* reserved, so the thread waits for each object in turn, looks at all of  *)
(* them again, takes them one by one and, when it comes too late for one   *)
(* of them, puts those it took back and starts over.  Other threads see    *)
(* every one of these steps.                                               *)
(***************************************************************************)
EXTENDS FsyncAbandon

CONSTANTS AllWaits   \* the handle arrays passed to a wait for all objects

ASSUME AllWaitsAssumption ==
    /\ AllWaits \subseteq {s \in Seq(Objects) : Len(s) >= 2}
    /\ \A s \in AllWaits : \A j, k \in DOMAIN s : s[j] = s[k] => j = k

VARIABLES
    abandoned,  \* the local flag: one of the mutexes had been abandoned
    grabbed     \* ghost: the objects a call has taken and not put back

wvars == <<avars, abandoned, grabbed>>

Consumable == Objects \ ManualEvents

WInit ==
    /\ AInit
    /\ abandoned = [t \in Threads |-> FALSE]
    /\ grabbed   = [t \in Threads |-> {}]

CallWaitAll(t) ==
    \E objs \in AllWaits, alertable \in AlertableWaits, timeout \in Timeouts :
        /\ \A k \in DOMAIN objs :
              objs[k] \in Mutexes => held[t][objs[k]] < MaxNesting
        /\ Enter(t, "first", Call("all", objs, alertable, timeout))
        /\ UNCHANGED <<sweep, abandoned, grabbed>>

\* The for loops of the four phases: the next object, or the next phase.
Last(t) == i[t] = Len(call[t].objs)

NextIn(t, phase, after) ==
    /\ Goto(t, IF Last(t) THEN after ELSE phase)
    /\ i' = [i EXCEPT ![t] = IF Last(t) THEN 1 ELSE @ + 1]

TryAgain(t) ==
    /\ Goto(t, "first")
    /\ i' = [i EXCEPT ![t] = 1]

-----------------------------------------------------------------------------
(* First step: wait for each object in sequence (do_single_wait).          *)

Ready(t) == IF obj(t) \in Mutexes THEN word[obj(t)] \in {0, t} ELSE word[obj(t)] # 0

FirstReady(t) ==
    /\ pc[t] = "first"
    /\ Ready(t)
    /\ NextIn(t, "first", "verify")
    /\ UNCHANGED <<shared, call, expect, ret, held, sweep, grabbed>>
    /\ abandoned' = [abandoned EXCEPT ![t] = FALSE]

FirstBusy(t) ==
    LET o == obj(t) IN
    /\ pc[t] = "first"
    /\ ~Ready(t)
    /\ Goto(t, "single")
    /\ expect' = IF o \in Mutexes THEN [expect EXCEPT ![t][o] = word[o]] ELSE expect
    /\ UNCHANGED <<shared, call, i, ret, held, sweep, abandoned, grabbed>>

Alerted(t) == call[t].alertable /\ apc[t] = 1

SingleWait(t) ==
    /\ pc[t] = "single"
    /\ Goto(t, IF Alerted(t) THEN "user_apc" ELSE "sleep")
    /\ UNCHANGED <<shared, call, i, expect, ret, held, sweep, abandoned, grabbed>>

\* futex_waitv returned 0: the object counts as signaled, unseen.
SingleWoken(t) ==
    /\ pc[t] = "awake" /\ call[t].op = "all"
    /\ IF Alerted(t) THEN Goto(t, "user_apc") /\ UNCHANGED i
                     ELSE NextIn(t, "first", "verify")
    /\ UNCHANGED <<shared, call, expect, ret, held, sweep, abandoned, grabbed>>

\* It failed (EAGAIN, EINTR): STATUS_PENDING, the object is read again.
SingleAgain(t) ==
    /\ pc[t] = "again" /\ call[t].op = "all"
    /\ Goto(t, IF Alerted(t) THEN "user_apc" ELSE "first")
    /\ UNCHANGED <<shared, call, i, expect, ret, held, sweep, abandoned, grabbed>>

SingleTimedOut(t) ==
    /\ pc[t] = "asleep" /\ call[t].op = "all"
    /\ call[t].timeout # "infinite"
    /\ IF Alerted(t) THEN Goto(t, "user_apc") /\ UNCHANGED ret
                     ELSE Return(t, "timeout")
    /\ UNCHANGED <<shared, call, i, expect, held, sweep, abandoned, grabbed>>

(* Second step: "Check to make sure they still are."                       *)

\* Mutant: a mutex that is free does not count.
StillOwned(t) ==
    IF obj(t) \in Mutexes THEN word[obj(t)] \in {t, Abandoned} ELSE word[obj(t)] # 0

StillSignaled(t) ==
    IF obj(t) \in Mutexes THEN word[obj(t)] \in {0, t, Abandoned} ELSE word[obj(t)] # 0

Verify(t) ==
    /\ pc[t] = "verify"
    /\ IF StillSignaled(t) THEN NextIn(t, "verify", "grab") ELSE TryAgain(t)
    /\ UNCHANGED <<shared, call, expect, ret, held, sweep, abandoned, grabbed>>

-----------------------------------------------------------------------------
(* Third step: "Now quick, grab everything."                               *)

Take(t) == grabbed' = [grabbed EXCEPT ![t] = @ \union {obj(t)}]

GrabNothing(t) ==
    /\ pc[t] = "grab"
    /\ obj(t) \in ManualEvents \/ (obj(t) \in Mutexes /\ word[obj(t)] = t)
    /\ NextIn(t, "grab", "grabbed")
    /\ UNCHANGED <<shared, call, expect, ret, held, sweep, abandoned, grabbed>>

GrabUnit(t) ==
    LET o == obj(t) IN
    /\ pc[t] = "grab"
    /\ o \in Semaphores \union AutoEvents
    /\ word[o] > 0
    /\ word' = [word EXCEPT ![o] = @ - 1]
    /\ Take(t)
    /\ NextIn(t, "grab", "grabbed")
    /\ UNCHANGED <<count, apc, server, call, expect, ret, held, sweep, abandoned>>

\* The mutex is read, then compared and swapped against what was read.
GrabRead(t) ==
    LET m == obj(t) IN
    /\ pc[t] = "grab"
    /\ m \in Mutexes /\ word[m] \in {0, Abandoned}
    /\ expect' = [expect EXCEPT ![t][m] = word[m]]
    /\ Goto(t, "grab_mutex")
    /\ UNCHANGED <<shared, call, i, ret, held, sweep, abandoned, grabbed>>

GrabMutex(t) ==
    LET m == obj(t) IN
    /\ pc[t] = "grab_mutex"
    /\ word[m] = expect[t][m]
    /\ word' = [word EXCEPT ![m] = t]
    /\ abandoned' = [abandoned EXCEPT ![t] = @ \/ word[m] = Abandoned]
    /\ Take(t)
    /\ NextIn(t, "grab", "grabbed")
    /\ UNCHANGED <<count, apc, server, call, expect, ret, held, sweep>>

Late(t) ==
    LET o == obj(t) IN
    \/ pc[t] = "grab" /\ o \in Mutexes /\ word[o] \notin {0, t, Abandoned}
    \/ pc[t] = "grab_mutex" /\ word[o] # expect[t][o]
    \/ pc[t] = "grab" /\ o \in Semaphores \union AutoEvents /\ word[o] = 0

\* Mutant: it tries again and keeps what it has grabbed.
TooSlowKeeps(t) ==
    /\ Late(t)
    /\ TryAgain(t)
    /\ UNCHANGED <<shared, call, expect, ret, held, sweep, abandoned, grabbed>>

TooSlow(t) ==
    /\ Late(t)
    /\ Goto(t, IF i[t] = 1 THEN "first" ELSE "put_back")
    /\ i' = [i EXCEPT ![t] = IF @ = 1 THEN 1 ELSE @ - 1]
    /\ UNCHANGED <<shared, call, expect, ret, held, sweep, abandoned, grabbed>>

\* "release any resources we've grabbed": one object a step, last one first,
\* and a mutex whether it was grabbed or had been owned before.
PutBack(t) ==
    LET o == obj(t) IN
    /\ pc[t] = "put_back"
    /\ word' = [word EXCEPT ![o] = IF o \in Mutexes THEN 0
                                   ELSE IF o \in Semaphores THEN @ + 1
                                   ELSE IF o \in AutoEvents THEN 1 ELSE @]
    /\ grabbed' = [grabbed EXCEPT ![t] = @ \ {o}]
    /\ Goto(t, IF i[t] = 1 THEN "first" ELSE "put_back")
    /\ i' = [i EXCEPT ![t] = IF @ = 1 THEN 1 ELSE @ - 1]
    /\ UNCHANGED <<count, apc, server, call, expect, ret, held, sweep, abandoned>>

\* "Make sure to let ourselves know that we grabbed the mutexes."
Grabbed(t) ==
    LET mine == Waited(t) \intersect Mutexes IN
    /\ pc[t] = "grabbed"
    /\ count' = [m \in Mutexes |-> IF m \in mine THEN count[m] + 1 ELSE count[m]]
    /\ held'  = [held EXCEPT ![t] =
                    [m \in Mutexes |-> IF m \in mine THEN @[m] + 1 ELSE @[m]]]
    /\ Return(t, IF abandoned[t] THEN "abandoned" ELSE "signaled")
    /\ UNCHANGED <<word, apc, server, call, i, expect, sweep, abandoned, grabbed>>

-----------------------------------------------------------------------------

WaitAll(t) ==
    \/ FirstReady(t) \/ FirstBusy(t)
    \/ SingleWait(t) \/ SingleWoken(t) \/ SingleAgain(t)
    \/ Verify(t)
    \/ GrabNothing(t) \/ GrabUnit(t) \/ GrabRead(t) \/ GrabMutex(t)
    \/ TooSlow(t) \/ PutBack(t) \/ Grabbed(t)

\* A call forgets what it took when it returns to its caller.
WStep(t) ==
    \/ WaitAll(t)
    \/ /\ AStep(t)
       /\ grabbed' = [grabbed EXCEPT ![t] = IF pc[t] = "done" THEN {} ELSE @]
       /\ UNCHANGED abandoned

WNext ==
    \/ \E t \in Threads : WStep(t) \/ CallWaitAll(t) \/ SingleTimedOut(t)
    \/ /\ \/ \E t \in Threads :
               \/ (Calls(t) \/ TimedOut(t) \/ Interrupted(t)) /\ UNCHANGED sweep
               \/ Exit(t)
          \/ QueueApc /\ victim = 0 /\ UNCHANGED sweep
          \/ WakeApc /\ UNCHANGED sweep
          \/ Sweep
       /\ UNCHANGED <<abandoned, grabbed>>

WSpec == WInit /\ [][WNext]_wvars

WFairness ==
    /\ \A t \in Threads : WF_wvars(WStep(t))
    /\ WF_wvars(WakeApc /\ UNCHANGED <<sweep, abandoned, grabbed>>)
    /\ WF_wvars(Sweep /\ UNCHANGED <<abandoned, grabbed>>)

WFairSpec == WSpec /\ WFairness
-----------------------------------------------------------------------------

WPCs == PCs \union {"dead", "first", "single", "verify", "grab", "grab_mutex",
                    "grabbed", "put_back"}

\* Every variable stays in its range; a unit that is put back may take a
\* semaphore past its maximum.
WTypeOK ==
    /\ \A s \in Semaphores : word[s] \in Nat
    /\ \A e \in Events : word[e] \in {0, 1}
    /\ \A m \in Mutexes : word[m] \in Owners
    /\ pc \in [Threads -> WPCs]
    /\ \A t \in Threads : call[t].op = "all" => i[t] \in DOMAIN call[t].objs
    /\ abandoned \in [Threads -> BOOLEAN]
    /\ grabbed \in [Threads -> SUBSET Consumable]

Grabbing(t) == pc[t] \in {"grab", "grab_mutex", "put_back", "grabbed"}

\* All or nothing: a wait for all objects that succeeds has taken one unit of
\* every object it was given and owns its mutexes; one that fails, or is still
\* waiting, has taken nothing from anybody.
AllOrNothing ==
    \A t \in Threads : call[t].op = "all" =>
        /\ ~Grabbing(t) /\ pc[t] # "done" => grabbed[t] = {}
        /\ pc[t] = "done" /\ ret[t] \in {"timeout", "user_apc"} => grabbed[t] = {}
        /\ pc[t] = "done" /\ ret[t] \in {"signaled", "abandoned"} =>
             \A o \in Waited(t) \intersect Consumable :
                IF o \in Mutexes THEN word[o] = t ELSE o \in grabbed[t]

\* A mutex that is held, or grabbed on the way to holding it or putting it
\* back, belongs to nobody else: the third step of the wait for all objects
\* excludes the waits for any object and the server's abandonment.
Exclusive ==
    \A m \in Mutexes, t \in Threads :
        Alive(t) /\ (held[t][m] > 0 \/ m \in grabbed[t]) => word[m] = t

\* What a wait for all objects takes and puts back, among the other waits, is
\* exact: the three parts above.
GrabsExact == WTypeOK /\ AllOrNothing /\ Exclusive

\* What the first step lets pass; a mutex that its owner left abandoned is not
\* among it, although the second and the third step would take it.
Unclaimed(o) == IF o \in Mutexes THEN word[o] = 0 ELSE word[o] > 0

\* A wait for all objects that stay signaled until it gets them gets them.
WaitAllServed ==
    \A t \in Threads :
        pc[t] = "first" /\ (\A o \in Waited(t) : Unclaimed(o))
            ~> pc[t] = "done" \/ \E o \in Waited(t) : ~Unclaimed(o)

=============================================================================
