----------------------------- MODULE EsyncProofs -----------------------------
(***************************************************************************)
(* Proofs about Esync, for any threads, objects, programs, counts and      *)
(* handle arrays, if no sum of a release wraps: UnitsExact, if no wait for *)
(* all names a manual-reset event; and that Esync implements NtSync.       *)
(***************************************************************************)
EXTENDS Esync, FiniteSetTheorems, TLAPS

\* No release wraps the unsigned sum; no wait for all puts a manual-reset event back.
SumsFit == \A n \in ReleaseCounts : SemMax + n < UIntSize
NoManualAll == \A r \in Roles : \A s \in AllWaits[r] : Range(s) \cap ManualEvents = {}

-----------------------------------------------------------------------------
(* What the variables are.                                                 *)

Ops == {"none", "release", "set", "reset", "pulse", "server set", "release mutex", "any", "all"}
Places ==
  {"idle", "dead", "done", "release", "lock", "exchange", "write", "drain", "unlock", "release mutex", "disown",
   "try", "try read", "poll", "scan", "grabbed", "poll one", "poll all", "grab", "put back", "keep"}
CallRec == [op : Ops, objs : Seq(Objects), units : Nat, timeout : Timeouts \cup {"infinite"}]

Typed ==
  /\ fd \in [Objects -> Nat] /\ count \in [Semaphores \cup Mutexes -> Nat]
  /\ tid \in [Mutexes -> Threads \cup {0, Abandoned}]
  /\ signaled \in [Events -> {0, 1}] /\ locked \in [ManualEvents -> BOOLEAN]
  /\ victim \in Threads \cup {0} /\ todo \subseteq Mutexes /\ waking \subseteq Mutexes
  /\ pc \in [Threads -> Places] /\ call \in [Threads -> CallRec] /\ i \in [Threads -> Nat]
  /\ polled \in [Threads -> SUBSET Objects] /\ ret \in [Threads -> Statuses]
  /\ held \in [Threads -> [Mutexes -> Nat]] /\ role \in Roles

\* The places of a call on one object, of a wait for any and of a wait for all.
OnSemaphore == {"release"}
OnEvent == {"lock", "exchange", "drain", "unlock"}
OnMutex == {"release mutex", "disown"}
InAny == {"try", "try read", "poll", "scan", "grabbed"}
InAll == {"poll one", "poll all", "grab", "put back", "keep"}

\* The call a thread is in, and the object it is at.
PlaceOK(t) ==
  /\ pc[t] \in {"idle", "dead"} => call[t] = NoCall
  /\ i[t] \in {1} \cup DOMAIN call[t].objs
  /\ pc[t] \notin {"idle", "dead", "done"} => i[t] \in DOMAIN call[t].objs
  /\ pc[t] \in OnSemaphore => obj(t) \in Semaphores /\ call[t].op = "release" /\ call[t].units \in ReleaseCounts
  /\ pc[t] \in OnMutex => obj(t) \in Mutexes /\ call[t].op = "release mutex" /\ call[t].units = 1
  /\ pc[t] \in OnEvent => obj(t) \in Events /\ call[t].op \in {"set", "reset", "pulse", "server set"} /\ call[t].units = 1
  /\ pc[t] \in {"lock", "unlock"} => obj(t) \in ManualEvents
  /\ pc[t] \in OnEvent /\ call[t].op = "pulse" => pc[t] = "drain" /\ obj(t) \in AutoEvents
  /\ pc[t] = "poll all" => i[t] = 1
  /\ pc[t] = "drain" => call[t].op \in {"reset", "pulse"}
  /\ pc[t] = "write" =>
       \/ obj(t) \in Semaphores /\ call[t].op = "release" /\ call[t].units <= SemMax
       \/ obj(t) \in Mutexes /\ call[t].op = "release mutex" /\ call[t].units = 1
       \/ obj(t) \in Events /\ call[t].op \in {"set", "server set"} /\ call[t].units = 1
       \/ obj(t) \in AutoEvents /\ call[t].op = "pulse" /\ call[t].units = 1
  /\ pc[t] \in InAny => call[t].op = "any"
  /\ pc[t] \in {"try read", "grabbed"} => obj(t) \notin ManualEvents
  /\ pc[t] \in InAll => call[t].op = "all" /\ IsInjective(call[t].objs) /\ Waited(t) \cap ManualEvents = {}
  /\ pc[t] \in InAny => \A m \in Waited(t) \cap Mutexes : held[t][m] < MaxNesting

\* A manual-reset event: its halves agree, or the one thread that has its lock has
\* changed the one and not yet the other.
Inside(t, e) == pc[t] \in {"exchange", "write", "drain", "unlock"} /\ obj(t) = e
Agree(e) == (signaled[e] = 1 /\ fd[e] = 1) \/ (signaled[e] = 0 /\ fd[e] = 0)
ManualOK(e) ==
  /\ ~locked[e] => Agree(e) /\ \A t \in Threads : ~Inside(t, e)
  /\ \A t, u \in Threads : Inside(t, e) /\ Inside(u, e) => t = u
  /\ \A t \in Threads : Inside(t, e) =>
       /\ pc[t] \in {"exchange", "unlock"} => Agree(e)
       /\ pc[t] = "write" => signaled[e] = 1 /\ fd[e] = 0
       /\ pc[t] = "drain" => signaled[e] = 0 /\ fd[e] = 1

\* The unit of a mutex is in one place.
Disowning(t, m) == pc[t] = "disown" /\ obj(t) = m
Has(t, m) == held[t][m] > 0 \/ Taken(t, m) \/ Writing(t, m) \/ Disowning(t, m)
UnitOK(m) ==
  /\ fd[m] \in {0, 1} /\ (m \in waking => fd[m] = 0)
  /\ \A t \in Threads : Has(t, m) => fd[m] = 0 /\ m \notin waking /\ \A u \in Threads : Has(u, m) => u = t
  /\ fd[m] = 0 /\ m \notin waking => \E t \in Threads : Has(t, m)

\* Its words say who has it, once that thread has written them.
WordsOK(m) ==
  /\ \A t \in Threads : tid[m] = t => held[t][m] > 0 \/ Disowning(t, m)
  /\ \A t \in Threads : held[t][m] > 0 => tid[m] = t /\ count[m] = held[t][m]
  /\ (\A t \in Threads : held[t][m] = 0) => count[m] = 0
  /\ count[m] <= MaxNesting
  /\ \A t \in Threads : Disowning(t, m) => tid[m] = t /\ held[t][m] = 0
  /\ \A t \in Threads : Taken(t, m) \/ Writing(t, m) => tid[m] \notin Threads

SemOK(s) ==
  /\ count[s] <= SemMax
  /\ count[s] = fd[s] + Cardinality({t \in Threads : Taken(t, s)}) + Cardinality(Due(s))

\* The server's victim is dead, and it wakes the waiters of one mutex at a time.
ServerOK == (victim # 0 => pc[victim] = "dead") /\ \A m, n \in waking : m = n

ObjectOK(o) ==
  /\ o \in ManualEvents => ManualOK(o)
  /\ o \in Mutexes => UnitOK(o) /\ WordsOK(o)
  /\ o \in Semaphores => SemOK(o)

EInv == Typed /\ ServerOK /\ (\A t \in Threads : PlaceOK(t)) /\ \A o \in Objects : ObjectOK(o)

-----------------------------------------------------------------------------
(* The types of objects.                                                   *)

\* An object has one type, and what is no thread is none.
LEMMA Types ==
  /\ Objects = Semaphores \cup Mutexes \cup AutoEvents \cup ManualEvents
  /\ \A o : /\ o \in Semaphores => o \notin Mutexes /\ o \notin Events /\ o \notin AutoEvents /\ o \notin ManualEvents
            /\ o \in Mutexes => o \notin Semaphores /\ o \notin Events /\ o \notin AutoEvents /\ o \notin ManualEvents
            /\ o \in Events => o \notin Semaphores /\ o \notin Mutexes
            /\ o \in AutoEvents => o \in Events /\ o \notin ManualEvents
            /\ o \in ManualEvents => o \in Events /\ o \notin AutoEvents
            /\ o \in Events => o \in AutoEvents \/ o \in ManualEvents
            /\ o \in Semaphores \/ o \in Mutexes \/ o \in Events => o \in Objects
  /\ 0 \notin Threads /\ Abandoned \notin Threads /\ 0 # Abandoned
  /\ SemMax \in Nat /\ MaxNesting \in Nat /\ 1 <= MaxNesting /\ 1 <= SemMax
<1>1. /\ 0 \notin Threads /\ Abandoned \notin Threads /\ 0 # Abandoned
      /\ SemMax \in Nat /\ MaxNesting \in Nat /\ 1 <= MaxNesting /\ 1 <= SemMax
  BY EsyncAssumption DEF Abandoned
<1>2. Objects = Semaphores \cup Mutexes \cup AutoEvents \cup ManualEvents
  BY DEF Objects, Events
<1> QED BY <1>1, <1>2, TypesAssumption DEF Events

-----------------------------------------------------------------------------
(* What a step of one thread leaves alone.                                 *)

\* It is the only one whose call goes on.
Stay(t) ==
  \A u \in Threads \ {t} : pc'[u] = pc[u] /\ call'[u] = call[u] /\ i'[u] = i[u] /\ held'[u] = held[u]

\* What it has to do with an object, and the words of the object, are as before.
Calm(t, o) ==
  /\ Taken(t, o)' <=> Taken(t, o)
  /\ Writing(t, o)' <=> Writing(t, o)
  /\ Disowning(t, o)' <=> Disowning(t, o)
  /\ Inside(t, o)' <=> Inside(t, o)
  /\ Writing(t, o) => call'[t].units = call[t].units
  /\ Inside(t, o) => pc'[t] = pc[t]
Same(o) ==
  /\ fd'[o] = fd[o] /\ (o \in waking' <=> o \in waking)
  /\ o \in Semaphores \cup Mutexes => count'[o] = count[o]
  /\ o \in Mutexes => tid'[o] = tid[o] /\ \A t \in Threads : held'[t][o] = held[t][o]
  /\ o \in Events => signaled'[o] = signaled[o]
  /\ o \in ManualEvents => locked'[o] = locked[o]

\* The others have to do with an object what they had.
LEMMA OthersCalm ==
  ASSUME NEW t \in Threads, Stay(t), NEW u \in Threads, u # t
  PROVE  /\ PlaceOK(u) => PlaceOK(u)'
         /\ \A o : Calm(u, o) /\ (Has(u, o)' <=> Has(u, o)) /\ held'[u] = held[u]
<1>1. pc'[u] = pc[u] /\ call'[u] = call[u] /\ i'[u] = i[u] /\ held'[u] = held[u]
  BY DEF Stay
<1>2. obj(u)' = obj(u) /\ Waited(u)' = Waited(u)
  BY <1>1 DEF obj, Waited
<1>3. PlaceOK(u) => PlaceOK(u)'
  BY <1>1, <1>2 DEF PlaceOK
<1>4. \A o : /\ Taken(u, o)' <=> Taken(u, o)
             /\ Writing(u, o)' <=> Writing(u, o)
             /\ Disowning(u, o)' <=> Disowning(u, o)
             /\ Inside(u, o)' <=> Inside(u, o)
  BY <1>1, <1>2 DEF Taken, Writing, Disowning, Inside
<1> QED BY <1>1, <1>3, <1>4 DEF Calm, Has

\* What nobody has to do with, and whose words stay, is as it was.
LEMMA MutexKept ==
  ASSUME NEW t \in Threads, NEW m \in Mutexes, Stay(t), Calm(t, m), Same(m)
  PROVE  (UnitOK(m) => UnitOK(m)') /\ (WordsOK(m) => WordsOK(m)')
<1>1. \A u \in Threads : Calm(u, m) /\ held'[u][m] = held[u][m]
  BY OthersCalm DEF Same
<1>2. \A u \in Threads : Has(u, m)' <=> Has(u, m)
  BY <1>1 DEF Has, Calm
<1>3. fd'[m] = fd[m] /\ (m \in waking' <=> m \in waking) /\ count'[m] = count[m] /\ tid'[m] = tid[m]
  BY DEF Same
<1>4. UnitOK(m) => UnitOK(m)'
  BY <1>2, <1>3 DEF UnitOK
<1>5. WordsOK(m) => WordsOK(m)'
  BY <1>1, <1>3 DEF WordsOK, Calm
<1> QED BY <1>4, <1>5

\* The same of a semaphore and of a manual-reset event.
LEMMA SemKept ==
  ASSUME NEW t \in Threads, NEW s \in Semaphores, Stay(t), Calm(t, s), Same(s), SemOK(s)
  PROVE  SemOK(s)'
<1>1. \A u \in Threads : Calm(u, s) /\ (Writing(u, s) => call'[u].units = call[u].units)
  BY OthersCalm DEF Calm
<1>2. {u \in Threads : Taken(u, s)}' = {u \in Threads : Taken(u, s)}
  BY <1>1 DEF Calm
<1>3. Due(s)' = Due(s)
  BY <1>1 DEF Calm, Due
<1>4. fd'[s] = fd[s] /\ count'[s] = count[s]
  BY DEF Same
<1> QED BY <1>2, <1>3, <1>4 DEF SemOK

\* And of a manual-reset event: nobody gets inside it, or moves within.
LEMMA ManualKept ==
  ASSUME NEW t \in Threads, NEW e \in ManualEvents, Stay(t), Calm(t, e), Same(e), ManualOK(e)
  PROVE  ManualOK(e)'
<1>1. \A u \in Threads : (Inside(u, e)' <=> Inside(u, e)) /\ (Inside(u, e) => pc'[u] = pc[u])
  BY OthersCalm DEF Calm
<1>2. fd'[e] = fd[e] /\ signaled'[e] = signaled[e] /\ locked'[e] = locked[e]
  BY Types DEF Same
<1>3. Agree(e)' <=> Agree(e)
  BY <1>2 DEF Agree
<1> QED BY <1>1, <1>2, <1>3 DEF ManualOK

\* The same of any object.
LEMMA ObjectKept ==
  ASSUME NEW t \in Threads, NEW o \in Objects, Stay(t), Calm(t, o), Same(o), ObjectOK(o)
  PROVE  ObjectOK(o)'
BY MutexKept, SemKept, ManualKept DEF ObjectOK

\* A step whose object keeps the invariant keeps it.
LEMMA Assembled ==
  ASSUME EInv, NEW t \in Threads, Stay(t), pc[t] # "dead", UNCHANGED <<victim, waking>>, Typed', PlaceOK(t)',
         \A o \in Objects : ObjectOK(o)'
  PROVE  EInv'
<1>1. \A u \in Threads : PlaceOK(u)'
  BY OthersCalm DEF EInv
<1>2. ServerOK'
  <2>1. victim' = victim /\ waking' = waking /\ (victim # 0 => victim \in Threads \ {t})
    BY DEF EInv, ServerOK, Typed
  <2> QED BY <2>1 DEF EInv, ServerOK, Stay
<1> QED BY <1>1, <1>2 DEF EInv

\* The places at which a thread has to do with an object.
Busy == {"write", "disown", "exchange", "drain", "unlock", "grabbed", "grab", "put back", "keep"}

\* At any other it has to do with none.
LEMMA CalmOut ==
  ASSUME NEW t \in Threads, pc[t] \notin Busy, pc'[t] \notin Busy
  PROVE  \A o : Calm(t, o)
<1>1. \A o : ~Taken(t, o) /\ ~Writing(t, o) /\ ~Disowning(t, o) /\ ~Inside(t, o)
  BY DEF Busy, Taken, Writing, Disowning, Inside
<1>2. \A o : ~Taken(t, o)' /\ ~Writing(t, o)' /\ ~Disowning(t, o)' /\ ~Inside(t, o)'
  BY DEF Busy, Taken, Writing, Disowning, Inside
<1> QED BY <1>1, <1>2 DEF Calm

\* Outside a wait for all objects it has to do with the one it is at.
LEMMA CalmBeside ==
  ASSUME NEW t \in Threads, pc[t] \notin {"grab", "put back", "keep"}, pc'[t] \notin {"grab", "put back", "keep"},
         call'[t] = call[t], i'[t] = i[t], NEW o, o # obj(t)
  PROVE  Calm(t, o)
<1>1. obj(t)' = obj(t) /\ Waited(t)' = Waited(t)
  BY DEF obj, Waited
<1>2. ~Taken(t, o) /\ ~Writing(t, o) /\ ~Disowning(t, o) /\ ~Inside(t, o)
  BY DEF Taken, Writing, Disowning, Inside
<1>3. ~Taken(t, o)' /\ ~Writing(t, o)' /\ ~Disowning(t, o)' /\ ~Inside(t, o)'
  BY <1>1 DEF Taken, Writing, Disowning, Inside
<1> QED BY <1>2, <1>3 DEF Calm

\* The steps that change no word, and are about no object.
LEMMA QuietStep ==
  ASSUME EInv, NEW t \in Threads, Stay(t), pc[t] # "dead", UNCHANGED <<fd, shm, server, held>>, Typed', PlaceOK(t)',
         \A o \in Objects : Calm(t, o)
  PROVE  EInv'
<1>1. UNCHANGED <<victim, waking>> /\ \A o : Same(o)
  BY DEF shm, server, Same
<1>2. \A o \in Objects : ObjectOK(o)'
  BY <1>1, ObjectKept DEF EInv
<1> QED BY <1>1, <1>2, Assembled

\* The steps that change one object.
LEMMA ObjectStep ==
  ASSUME EInv, NEW t \in Threads, Stay(t), pc[t] # "dead", UNCHANGED server, Typed', PlaceOK(t)',
         NEW o, \A p \in Objects : p # o => Calm(t, p) /\ Same(p), o \in Objects => ObjectOK(o)'
  PROVE  EInv'
<1>1. UNCHANGED <<victim, waking>>
  BY DEF server
<1>2. \A p \in Objects : ObjectOK(p)'
  BY ObjectKept DEF EInv
<1> QED BY <1>1, <1>2, Assembled

\* An auto-reset event promises nothing here.
LEMMA AutoOK ==
  ASSUME NEW o, o \in AutoEvents \/ o \notin Objects
  PROVE  ObjectOK(o) /\ (o \in Objects => ObjectOK(o)')
BY Types DEF ObjectOK

-----------------------------------------------------------------------------
(* The calls.                                                              *)

\* A call begins at its first object.
Begun(t, l, op, objs, units) ==
  /\ Stay(t) /\ Typed' /\ pc[t] = "idle" /\ pc'[t] = l /\ UNCHANGED <<fd, shm, server, held>>
  /\ call'[t].op = op /\ call'[t].objs = objs /\ call'[t].units = units /\ i'[t] = 1

\* Entering a call does this.
LEMMA Entered ==
  ASSUME EInv, NEW t \in Threads, NEW l \in Places, NEW op \in Ops, NEW objs \in Seq(Objects), NEW units \in Nat,
         NEW timeout \in Timeouts \cup {"infinite"}, Enter(t, l, op, objs, units, timeout)
  PROVE  Begun(t, l, op, objs, units)
<1> DEFINE c == [op |-> op, objs |-> objs, units |-> units, timeout |-> timeout]
<1>1. /\ pc[t] = "idle" /\ <<t, op>> \in role /\ pc' = [pc EXCEPT ![t] = l] /\ call' = [call EXCEPT ![t] = c]
      /\ UNCHANGED <<fd, shm, server, i, polled, ret, held, role>>
  BY DEF Enter, Goto
<1>2. c \in CallRec /\ c.op = op /\ c.objs = objs /\ c.units = units
  BY DEF CallRec
<1> HIDE DEF c
<1>3. Typed /\ PlaceOK(t)
  BY DEF EInv
<1>4. i[t] = 1
  <2>1. call[t] = NoCall /\ i[t] \in {1} \cup DOMAIN call[t].objs
    BY <1>1, <1>3 DEF PlaceOK
  <2>2. NoCall.objs = <<>> /\ DOMAIN <<>> = {}
    BY DEF NoCall
  <2> QED BY <2>1, <2>2
<1>5. pc'[t] = l /\ call'[t] = c /\ i'[t] = 1
  BY <1>1, <1>3, <1>4 DEF Typed
<1>6. Stay(t)
  BY <1>1, <1>3 DEF Typed, Stay
<1>7. Typed'
  <2>1. pc' \in [Threads -> Places] /\ call' \in [Threads -> CallRec]
    BY <1>1, <1>2, <1>3 DEF Typed
  <2> QED BY <1>1, <1>3, <2>1 DEF Typed, shm, server
<1> QED BY <1>1, <1>2, <1>5, <1>6, <1>7 DEF Begun

\* An array of one object.
LEMMA Single ==
  ASSUME NEW o \in Objects
  PROVE  <<o>> \in Seq(Objects) /\ <<o>>[1] = o /\ 1 \in DOMAIN <<o>>
<1>1. <<o>> \in Seq(Objects) /\ Len(<<o>>) = 1 /\ <<o>>[1] = o
  OBVIOUS
<1>2. DOMAIN <<o>> = 1 .. 1
  OBVIOUS
<1> QED BY <1>1, <1>2

\* The calls about one object.
LEMMA CallsStep ==
  ASSUME EInv, NEW t \in Threads,
         CallReleaseSemaphore(t) \/ CallReleaseMutex(t) \/ CallEvent(t)
  PROVE  EInv'
<1>1. CASE CallReleaseSemaphore(t)
  <2>1. PICK s \in Semaphores, n \in ReleaseCounts : Enter(t, "release", "release", <<s>>, n, "infinite")
    BY <1>1 DEF CallReleaseSemaphore
  <2>2. n \in Nat /\ <<s>> \in Seq(Objects) /\ <<s>>[1] = s /\ 1 \in DOMAIN <<s>>
    BY EsyncAssumption, Types, Single
  <2>3. /\ Stay(t) /\ Typed' /\ pc[t] = "idle" /\ pc'[t] = "release" /\ UNCHANGED <<fd, shm, server, held>>
        /\ call'[t].op = "release" /\ call'[t].objs = <<s>> /\ call'[t].units = n /\ i'[t] = 1
    <3>1. "release" \in Places /\ "release" \in Ops /\ "infinite" \in Timeouts \cup {"infinite"}
      BY DEF Places, Ops
    <3>2. Begun(t, "release", "release", <<s>>, n)
      BY ONLY EInv, t \in Threads, <2>1, <2>2, <3>1, Entered
    <3> QED BY <3>2 DEF Begun
  <2>4. PlaceOK(t)'
    <3>1. obj(t)' = s /\ i'[t] \in DOMAIN call'[t].objs
      BY <2>2, <2>3 DEF obj
    <3> QED BY <2>3, <3>1 DEF PlaceOK, OnSemaphore, OnMutex, OnEvent, InAny, InAll
  <2>5. \A o \in Objects : Calm(t, o)
    BY <2>3, CalmOut DEF Busy
  <2> QED BY <2>3, <2>4, <2>5, QuietStep
<1>2. CASE CallReleaseMutex(t)
  <2>1. PICK m \in Mutexes : Enter(t, "release mutex", "release mutex", <<m>>, 1, "infinite")
    BY <1>2 DEF CallReleaseMutex
  <2>2. <<m>> \in Seq(Objects) /\ <<m>>[1] = m /\ 1 \in DOMAIN <<m>>
    BY Types, Single
  <2>3. /\ Stay(t) /\ Typed' /\ pc[t] = "idle" /\ pc'[t] = "release mutex" /\ UNCHANGED <<fd, shm, server, held>>
        /\ call'[t].op = "release mutex" /\ call'[t].objs = <<m>> /\ call'[t].units = 1 /\ i'[t] = 1
    <3>1. "release mutex" \in Places /\ "release mutex" \in Ops /\ "infinite" \in Timeouts \cup {"infinite"} /\ 1 \in Nat
      BY DEF Places, Ops
    <3>2. Begun(t, "release mutex", "release mutex", <<m>>, 1)
      BY ONLY EInv, t \in Threads, <2>1, <2>2, <3>1, Entered
    <3> QED BY <3>2 DEF Begun
  <2>4. PlaceOK(t)'
    <3>1. obj(t)' = m /\ i'[t] \in DOMAIN call'[t].objs
      BY <2>2, <2>3 DEF obj
    <3> QED BY <2>3, <3>1 DEF PlaceOK, OnSemaphore, OnMutex, OnEvent, InAny, InAll
  <2>5. \A o \in Objects : Calm(t, o)
    BY <2>3, CalmOut DEF Busy
  <2> QED BY <2>3, <2>4, <2>5, QuietStep
<1>3. CASE CallEvent(t)
  <2>1. PICK e \in Events, op \in {"set", "reset", "pulse", "server set"} :
          /\ op = "pulse" => e \in AutoEvents
          /\ Enter(t, IF op = "pulse" THEN "write" ELSE IF e \in ManualEvents THEN "lock" ELSE "exchange",
                   op, <<e>>, 1, "infinite")
    BY <1>3 DEF CallEvent
  <2>2. <<e>> \in Seq(Objects) /\ <<e>>[1] = e /\ 1 \in DOMAIN <<e>>
    BY Types, Single
  <2> DEFINE l == IF op = "pulse" THEN "write" ELSE IF e \in ManualEvents THEN "lock" ELSE "exchange"
  <2>3. l \in Places /\ op \in Ops /\ l \in {"write", "lock", "exchange"}
    BY DEF Places, Ops
  <2>4. (l = "write" <=> op = "pulse") /\ (l = "lock" => e \in ManualEvents) /\ (l # "lock" => e \in AutoEvents)
    BY <2>1, Types
  <2>5. Enter(t, l, op, <<e>>, 1, "infinite")
    BY <2>1
  <2> HIDE DEF l
  <2>6. /\ Stay(t) /\ Typed' /\ pc[t] = "idle" /\ pc'[t] = l /\ UNCHANGED <<fd, shm, server, held>>
        /\ call'[t].op = op /\ call'[t].objs = <<e>> /\ call'[t].units = 1 /\ i'[t] = 1
    <3>1. "infinite" \in Timeouts \cup {"infinite"} /\ 1 \in Nat
      OBVIOUS
    <3>2. Begun(t, l, op, <<e>>, 1)
      BY ONLY EInv, t \in Threads, <2>2, <2>3, <2>5, <3>1, Entered
    <3> QED BY <3>2 DEF Begun
  <2>7. obj(t)' = e /\ i'[t] \in DOMAIN call'[t].objs
    BY <2>2, <2>6 DEF obj
  <2>8. PlaceOK(t)'
    BY <2>1, <2>3, <2>4, <2>6, <2>7 DEF PlaceOK, OnSemaphore, OnMutex, OnEvent, InAny, InAll
  <2>9. CASE l = "lock"
    <3>1. \A o \in Objects : Calm(t, o)
      BY <2>6, <2>9, CalmOut DEF Busy
    <3> QED BY <2>6, <2>8, <3>1, QuietStep
  <2>10. CASE l # "lock"
    <3>1. \A o : ~Taken(t, o) /\ ~Writing(t, o) /\ ~Disowning(t, o) /\ ~Inside(t, o)
      BY <2>6 DEF Taken, Writing, Disowning, Inside
    <3>2. \A o : o # e => ~Taken(t, o)' /\ ~Writing(t, o)' /\ ~Disowning(t, o)' /\ ~Inside(t, o)'
      BY <2>3, <2>6, <2>7, <2>10 DEF Taken, Writing, Disowning, Inside
    <3>3. \A o \in Objects : o # e => Calm(t, o) /\ Same(o)
      BY <2>6, <3>1, <3>2 DEF Calm, Same, shm, server
    <3> QED BY <2>4, <2>6, <2>8, <2>10, <3>3, AutoOK, ObjectStep
  <2> QED BY <2>9, <2>10
<1> QED BY <1>1, <1>2, <1>3

\* The waits.
LEMMA WaitsStep ==
  ASSUME EInv, NoManualAll \/ Plain, NEW t \in Threads, CallWaitAny(t) \/ CallWaitAll(t)
  PROVE  EInv'
<1>1. role \in Roles
  BY DEF EInv, Typed
<1>2. CASE CallWaitAny(t)
  <2>1. PICK objs \in AnyWaits[role], timeout \in Timeouts :
          /\ \A k \in DOMAIN objs : objs[k] \in Mutexes => held[t][objs[k]] < MaxNesting
          /\ Enter(t, "try", "any", objs, 0, timeout)
    BY <1>2 DEF CallWaitAny
  <2>2. objs \in Seq(Objects) /\ objs # <<>>
    BY <1>1, EsyncAssumption
  <2>3. /\ Stay(t) /\ Typed' /\ pc[t] = "idle" /\ pc'[t] = "try" /\ UNCHANGED <<fd, shm, server, held>>
        /\ call'[t].op = "any" /\ call'[t].objs = objs /\ call'[t].units = 0 /\ i'[t] = 1
    <3>1. "try" \in Places /\ "any" \in Ops /\ timeout \in Timeouts \cup {"infinite"} /\ 0 \in Nat
      BY DEF Places, Ops
    <3>2. Begun(t, "try", "any", objs, 0)
      BY ONLY EInv, t \in Threads, <2>1, <2>2, <3>1, Entered
    <3> QED BY <3>2 DEF Begun
  <2>4. PlaceOK(t)'
    <3>1. 1 \in DOMAIN objs
      BY <2>2
    <3>2. \A m \in Waited(t)' \cap Mutexes : held'[t][m] < MaxNesting
      BY <2>1, <2>3 DEF Waited, Range
    <3> QED BY <2>3, <3>1, <3>2 DEF PlaceOK, OnSemaphore, OnMutex, OnEvent, InAny, InAll
  <2>5. \A o \in Objects : Calm(t, o)
    BY <2>3, CalmOut DEF Busy
  <2> QED BY <2>3, <2>4, <2>5, QuietStep
<1>3. CASE CallWaitAll(t)
  <2>1. PICK objs \in AllWaits[role], timeout \in Timeouts : Enter(t, "poll one", "all", objs, 0, timeout)
    BY <1>3 DEF CallWaitAll
  <2>5. NoManualAll
    BY <2>1 DEF Enter, Plain
  <2>2. objs \in Seq(Objects) /\ objs # <<>> /\ IsInjective(objs) /\ Range(objs) \cap ManualEvents = {}
    BY <1>1, <2>5, EsyncAssumption, TypesAssumption DEF NoManualAll
  <2>3. /\ Stay(t) /\ Typed' /\ pc[t] = "idle" /\ pc'[t] = "poll one" /\ UNCHANGED <<fd, shm, server, held>>
        /\ call'[t].op = "all" /\ call'[t].objs = objs /\ call'[t].units = 0 /\ i'[t] = 1
    <3>1. "poll one" \in Places /\ "all" \in Ops /\ timeout \in Timeouts \cup {"infinite"} /\ 0 \in Nat
      BY DEF Places, Ops
    <3>2. Begun(t, "poll one", "all", objs, 0)
      BY ONLY EInv, t \in Threads, <2>1, <2>2, <3>1, Entered
    <3> QED BY <3>2 DEF Begun
  <2>4. PlaceOK(t)'
    <3>1. 1 \in DOMAIN objs
      BY <2>2
    <3> QED BY <2>2, <2>3, <3>1 DEF PlaceOK, OnSemaphore, OnMutex, OnEvent, InAny, InAll, Waited
  <2>6. \A o \in Objects : Calm(t, o)
    BY <2>3, CalmOut DEF Busy
  <2> QED BY <2>3, <2>4, <2>6, QuietStep
<1> QED BY <1>2, <1>3

-----------------------------------------------------------------------------
(* Where a step goes.                                                      *)

\* In a call a thread is at one of its objects.
LEMMA Here ==
  ASSUME EInv, NEW t \in Threads, pc[t] \notin {"idle", "dead", "done"}
  PROVE  /\ Typed /\ PlaceOK(t)
         /\ call[t].objs \in Seq(Objects) /\ call[t].units \in Nat
         /\ i[t] \in DOMAIN call[t].objs /\ DOMAIN call[t].objs = 1 .. Len(call[t].objs) /\ Len(call[t].objs) \in Nat
         /\ i[t] \in Nat /\ i[t] >= 1 /\ i[t] <= Len(call[t].objs)
         /\ obj(t) \in Objects /\ obj(t) \in Waited(t)
<1>1. Typed /\ PlaceOK(t)
  BY DEF EInv
<1>2. call[t] \in CallRec /\ i[t] \in DOMAIN call[t].objs
  BY <1>1 DEF Typed, PlaceOK
<1>3. call[t].objs \in Seq(Objects) /\ call[t].units \in Nat
  BY <1>2 DEF CallRec
<1>4. obj(t) \in Objects /\ obj(t) \in Waited(t)
  BY <1>2, <1>3 DEF obj, Waited, Range
<1>5. DOMAIN call[t].objs = 1 .. Len(call[t].objs) /\ Len(call[t].objs) \in Nat
  BY <1>3
<1>6. i[t] \in Nat /\ i[t] >= 1 /\ i[t] <= Len(call[t].objs)
  BY <1>2, <1>5
<1> QED BY <1>1, <1>2, <1>3, <1>4, <1>5, <1>6

\* It goes to another place, at the same object.
LEMMA Goes ==
  ASSUME EInv, NEW t \in Threads, NEW l \in Places, Goto(t, l), UNCHANGED <<call, i>>,
         \A u \in Threads \ {t} : held'[u] = held[u]
  PROVE  /\ pc' \in [Threads -> Places] /\ pc'[t] = l /\ Stay(t)
         /\ call'[t] = call[t] /\ i'[t] = i[t] /\ obj(t)' = obj(t) /\ Waited(t)' = Waited(t)
<1>1. pc \in [Threads -> Places] /\ pc' = [pc EXCEPT ![t] = l]
  BY DEF EInv, Typed, Goto
<1>2. pc' \in [Threads -> Places] /\ pc'[t] = l
  BY <1>1
<1>3. Stay(t)
  BY <1>1 DEF Stay
<1> QED BY <1>2, <1>3 DEF obj, Waited

\* It goes to the next object, or from the last one to another place.
LEMMA Nexts ==
  ASSUME EInv, NEW t \in Threads, pc[t] \notin {"idle", "dead", "done"},
         NEW again \in Places, NEW l \in Places, Next1(t, again, l), UNCHANGED call,
         \A u \in Threads \ {t} : held'[u] = held[u]
  PROVE  /\ pc' \in [Threads -> Places] /\ i' \in [Threads -> Nat] /\ Stay(t)
         /\ call'[t] = call[t] /\ Waited(t)' = Waited(t) /\ i'[t] \in DOMAIN call[t].objs
         /\ \/ pc'[t] = again /\ i'[t] = i[t] + 1 /\ i[t] # Len(call[t].objs)
            \/ pc'[t] = l /\ i'[t] = 1 /\ i[t] = Len(call[t].objs)
<1>1. pc \in [Threads -> Places] /\ i \in [Threads -> Nat] /\ Waited(t)' = Waited(t)
  BY DEF EInv, Typed, Waited
<1>2. DOMAIN call[t].objs = 1 .. Len(call[t].objs) /\ i[t] \in DOMAIN call[t].objs /\ Len(call[t].objs) \in Nat
  BY Here
<1>3. CASE i[t] = Len(call[t].objs)
  <2>1. pc' = [pc EXCEPT ![t] = l] /\ i' = [i EXCEPT ![t] = 1]
    BY <1>3 DEF Next1, Goto
  <2>2. pc' \in [Threads -> Places] /\ i' \in [Threads -> Nat] /\ pc'[t] = l /\ i'[t] = 1
    BY <1>1, <2>1
  <2>3. Stay(t)
    BY <1>1, <2>1 DEF Stay
  <2> QED BY <1>1, <1>2, <1>3, <2>2, <2>3
<1>4. CASE i[t] # Len(call[t].objs)
  <2>1. pc' = [pc EXCEPT ![t] = again] /\ i' = [i EXCEPT ![t] = @ + 1]
    BY <1>4 DEF Next1, Goto
  <2>2. pc' \in [Threads -> Places] /\ i' \in [Threads -> Nat] /\ pc'[t] = again /\ i'[t] = i[t] + 1
    BY <1>1, <2>1
  <2>3. Stay(t)
    BY <1>1, <2>1 DEF Stay
  <2> QED BY <1>1, <1>2, <1>4, <2>2, <2>3
<1> QED BY <1>3, <1>4

-----------------------------------------------------------------------------
(* The steps that are about no object.                                     *)

\* What a call for an index without an object is: none.
LEMMA NoCallFits == NoCall \in CallRec /\ NoCall.objs = <<>> /\ DOMAIN NoCall.objs = {}
<1>1. NoCall.objs = <<>> /\ <<>> \in Seq(Objects)
  BY DEF NoCall
<1>2. DOMAIN NoCall.objs = {}
  BY <1>1
<1>3. NoCall \in CallRec
  BY <1>1 DEF NoCall, CallRec, Ops
<1> QED BY <1>1, <1>2, <1>3

\* The end of a call, and of one that fails or times out or finds a manual-reset event set.
LEMMA LeaveStep ==
  ASSUME EInv, NEW t \in Threads, Leave(t)
  PROVE  EInv'
<1>1. Typed /\ pc[t] = "done" /\ "idle" \in Places /\ "none" \in Statuses
  BY DEF EInv, Leave, Places, Statuses
<1>2. /\ pc' = [pc EXCEPT ![t] = "idle"] /\ call' = [call EXCEPT ![t] = NoCall] /\ i' = [i EXCEPT ![t] = 1]
      /\ polled' = [polled EXCEPT ![t] = {}] /\ ret' = [ret EXCEPT ![t] = "none"]
      /\ UNCHANGED <<fd, shm, server, held, role>>
  BY DEF Leave, Goto
<1>3. Stay(t) /\ pc'[t] = "idle" /\ call'[t] = NoCall /\ i'[t] = 1
  BY <1>1, <1>2 DEF Typed, Stay
<1>4. Typed'
  <2>1. pc' \in [Threads -> Places] /\ i' \in [Threads -> Nat] /\ polled' \in [Threads -> SUBSET Objects]
        /\ ret' \in [Threads -> Statuses]
    BY <1>1, <1>2 DEF Typed
  <2>2. call' \in [Threads -> CallRec]
    BY <1>1, <1>2, NoCallFits DEF Typed
  <2> QED BY <1>1, <1>2, <2>1, <2>2 DEF Typed, shm, server
<1>5. PlaceOK(t)'
  BY <1>3, NoCallFits DEF PlaceOK, OnSemaphore, OnMutex, OnEvent, InAny, InAll
<1>6. \A o \in Objects : Calm(t, o)
  BY <1>1, <1>3, CalmOut DEF Busy
<1> QED BY <1>1, <1>2, <1>3, <1>4, <1>5, <1>6, QuietStep

\* A call that ends with nothing in its hands.
LEMMA ReturnStep ==
  ASSUME EInv, NEW t \in Threads, NEW s \in Statuses, Return(t, s),
         UNCHANGED <<fd, shm, server, call, i, polled, held, role>>, pc[t] \notin Busy \cup {"idle", "dead", "done"}
  PROVE  EInv'
<1>1. Typed /\ PlaceOK(t) /\ "done" \in Places /\ i[t] \in DOMAIN call[t].objs
  BY Here DEF Places
<1>2. Goto(t, "done") /\ ret' = [ret EXCEPT ![t] = s]
  BY DEF Return
<1>3. pc' \in [Threads -> Places] /\ pc'[t] = "done" /\ Stay(t) /\ call'[t] = call[t] /\ i'[t] = i[t]
  BY <1>1, <1>2, Goes
<1>4. Typed'
  <2>1. ret' \in [Threads -> Statuses]
    BY <1>1, <1>2 DEF Typed
  <2> QED BY <1>1, <1>3, <2>1 DEF Typed, shm, server
<1>5. PlaceOK(t)'
  BY <1>1, <1>3 DEF PlaceOK, OnSemaphore, OnMutex, OnEvent, InAny, InAll
<1>6. \A o \in Objects : Calm(t, o)
  BY <1>3, CalmOut DEF Busy
<1> QED BY <1>3, <1>4, <1>5, <1>6, QuietStep

\* NotOwned, SeeManual, TimedOut, and the ends of Poll, PollOne and Release.
LEMMA FailStep ==
  ASSUME EInv, NEW t \in Threads, NotOwned(t) \/ SeeManual(t) \/ TimedOut(t)
  PROVE  EInv'
<1>1. PICK s \in Statuses : Return(t, s)
  BY DEF NotOwned, SeeManual, TimedOut, Statuses
<1>2. UNCHANGED <<fd, shm, server, call, i, polled, held, role>>
  BY DEF NotOwned, SeeManual, TimedOut
<1>3. pc[t] \in {"release mutex", "try", "scan", "poll", "poll one"}
  BY DEF NotOwned, SeeManual, TimedOut
<1>4. pc[t] \notin Busy \cup {"idle", "dead", "done"}
  BY <1>3 DEF Busy
<1> QED BY <1>1, <1>2, <1>4, ReturnStep

\* A wait for any asks the host: it goes on at what is signaled, or ends.
LEMMA PollStep ==
  ASSUME EInv, NEW t \in Threads, Poll(t)
  PROVE  EInv'
<1>1. Typed /\ PlaceOK(t) /\ pc[t] = "poll" /\ "scan" \in Places /\ i[t] \in DOMAIN call[t].objs
  BY Here DEF Poll, Places
<1>2. CASE Return(t, "timeout") /\ UNCHANGED polled
  BY <1>1, <1>2, ReturnStep DEF Poll, Busy, Statuses
<1>3. CASE Goto(t, "scan") /\ polled' = [polled EXCEPT ![t] = Ready(t)] /\ UNCHANGED ret
  <2>0. UNCHANGED <<fd, shm, server, call, i, held, role>>
    BY DEF Poll
  <2>1. /\ pc' \in [Threads -> Places] /\ pc'[t] = "scan" /\ Stay(t) /\ call'[t] = call[t] /\ i'[t] = i[t]
        /\ obj(t)' = obj(t) /\ Waited(t)' = Waited(t)
    BY <1>1, <1>3, <2>0, Goes
  <2>2. Typed'
    <3>1. Ready(t) \subseteq Objects
      <4>1. call[t].objs \in Seq(Objects)
        BY <1>1, Here
      <4> QED BY <4>1 DEF Ready, Waited, Range
    <3>2. polled' \in [Threads -> SUBSET Objects]
      BY <1>1, <1>3, <3>1 DEF Typed
    <3> QED BY <1>1, <1>3, <2>0, <2>1, <3>2 DEF Typed, shm, server
  <2>3. PlaceOK(t)'
    BY <1>1, <2>0, <2>1 DEF PlaceOK, OnSemaphore, OnMutex, OnEvent, InAny, InAll
  <2>4. \A o \in Objects : Calm(t, o)
    BY <1>1, <2>1, CalmOut DEF Busy
  <2> QED BY <1>1, <2>0, <2>1, <2>2, <2>3, <2>4, QuietStep
<1> QED BY <1>2, <1>3 DEF Poll

\* On to the next object, in a wait for any or in the first loop of one for all.
LEMMA NextStep ==
  ASSUME EInv, NEW t \in Threads, NEW again \in Places, NEW l \in Places, Next1(t, again, l),
         UNCHANGED <<fd, shm, server, call, polled, ret, held, role>>,
         \/ pc[t] \in {"try", "try read"} /\ again = "try" /\ l = "poll"
         \/ pc[t] = "scan" /\ again = "scan" /\ l = "poll"
         \/ pc[t] = "poll one" /\ again = "poll one" /\ l = "poll all"
  PROVE  EInv'
<1>1. Typed /\ PlaceOK(t)
  BY DEF EInv
<1>2. /\ pc' \in [Threads -> Places] /\ i' \in [Threads -> Nat] /\ Stay(t)
      /\ call'[t] = call[t] /\ Waited(t)' = Waited(t) /\ i'[t] \in DOMAIN call[t].objs
      /\ \/ pc'[t] = again /\ i'[t] = i[t] + 1 /\ i[t] # Len(call[t].objs)
         \/ pc'[t] = l /\ i'[t] = 1 /\ i[t] = Len(call[t].objs)
  BY Nexts
<1>3. Typed'
  BY <1>1, <1>2 DEF Typed, shm, server
<1>4. /\ pc[t] \notin Busy /\ pc[t] # "dead"
      /\ pc'[t] \in {"try", "poll", "scan", "poll one", "poll all"} /\ pc'[t] \notin Busy
      /\ pc'[t] \in InAny => pc[t] \in InAny
      /\ pc'[t] \in InAll => pc[t] \in InAll
      /\ pc'[t] = "poll all" => i'[t] = 1
  BY <1>2 DEF Busy, InAny, InAll
<1>5. PlaceOK(t)'
  <2>1. /\ pc'[t] \in InAny => call[t].op = "any" /\ \A m \in Waited(t) \cap Mutexes : held[t][m] < MaxNesting
        /\ pc'[t] \in InAll => call[t].op = "all" /\ IsInjective(call[t].objs) /\ Waited(t) \cap ManualEvents = {}
    BY <1>1, <1>4 DEF PlaceOK
  <2> QED BY <1>2, <1>4, <2>1 DEF PlaceOK, OnSemaphore, OnMutex, OnEvent
<1>6. \A o \in Objects : Calm(t, o)
  BY <1>4, CalmOut
<1> QED BY <1>2, <1>3, <1>4, <1>5, <1>6, QuietStep

\* It goes past an object that is not signaled.
LEMMA SkipStep ==
  ASSUME EInv, NEW t \in Threads, Skip(t)
  PROVE  EInv'
<1>1. UNCHANGED <<fd, shm, server, call, polled, ret, held, role>>
  BY DEF Skip
<1>2. "try" \in Places /\ "poll" \in Places /\ "scan" \in Places
  BY DEF Places
<1>3. \/ pc[t] \in {"try", "try read"} /\ Next1(t, "try", "poll")
      \/ pc[t] = "scan" /\ Next1(t, "scan", "poll")
  BY DEF Skip
<1> QED BY <1>1, <1>2, <1>3, NextStep

\* A wait for all polls its objects one by one.
LEMMA PollOneStep ==
  ASSUME EInv, NEW t \in Threads, PollOne(t)
  PROVE  EInv'
<1>1. pc[t] = "poll one" /\ UNCHANGED <<fd, shm, server, call, polled, held, role>>
  BY DEF PollOne
<1>2. CASE Next1(t, "poll one", "poll all") /\ UNCHANGED ret
  <2>1. "poll one" \in Places /\ "poll all" \in Places
    BY DEF Places
  <2> QED BY <1>1, <1>2, <2>1, NextStep
<1>3. CASE Return(t, "timeout") /\ UNCHANGED i
  <2>1. pc[t] \notin Busy \cup {"idle", "dead", "done"} /\ "timeout" \in Statuses
    BY <1>1 DEF Busy, Statuses
  <2> QED BY <1>1, <1>3, <2>1, ReturnStep
<1> QED BY <1>2, <1>3 DEF PollOne

\* A wait for any looks at the words for a hint.
LEMMA TryHintedStep ==
  ASSUME EInv, NEW t \in Threads, TryHinted(t)
  PROVE  EInv'
<1>1. Typed /\ PlaceOK(t) /\ pc[t] = "try" /\ "try read" \in Places /\ Hint(obj(t))
  BY DEF TryHinted, EInv, Places
<1>2. Goto(t, "try read") /\ UNCHANGED <<fd, shm, server, call, i, polled, ret, held, role>>
  BY DEF TryHinted, local
<1>3. /\ pc' \in [Threads -> Places] /\ pc'[t] = "try read" /\ Stay(t) /\ call'[t] = call[t] /\ i'[t] = i[t]
      /\ obj(t)' = obj(t) /\ Waited(t)' = Waited(t)
  BY <1>1, <1>2, Goes
<1>4. Typed'
  BY <1>1, <1>2, <1>3 DEF Typed, shm, server
<1>5. PlaceOK(t)'
  <2>1. obj(t) \notin ManualEvents /\ i[t] \in DOMAIN call[t].objs
    BY <1>1, Types, Here DEF Hint
  <2> QED BY <1>1, <1>2, <1>3, <2>1 DEF PlaceOK, OnSemaphore, OnMutex, OnEvent, InAny, InAll
<1>6. \A o \in Objects : Calm(t, o)
  BY <1>1, <1>3, CalmOut DEF Busy
<1> QED BY <1>1, <1>2, <1>3, <1>4, <1>5, <1>6, QuietStep

-----------------------------------------------------------------------------
(* A wait for all objects.                                                 *)

\* Whether it has read the object at an index and not yet accounted for it or put it back.
Out(t, k) == \/ pc[t] = "grab" /\ k < i[t]
             \/ pc[t] = "keep" /\ k >= i[t]
             \/ pc[t] = "put back" /\ k <= i[t]

\* A wait for all objects has to do with those it has read, and with each at its index.
LEMMA AllTaken ==
  ASSUME NEW t \in Threads, NEW o, pc[t] \in InAll \cup {"done"}
  PROVE  /\ Taken(t, o) <=> o \notin ManualEvents /\ \E k \in DOMAIN call[t].objs : call[t].objs[k] = o /\ Out(t, k)
         /\ ~Writing(t, o) /\ ~Disowning(t, o) /\ ~Inside(t, o)
<1>1. \A k \in DOMAIN call[t].objs : call[t].objs[k] \in Waited(t)
  BY DEF Waited, Range
<1> QED BY <1>1 DEF Taken, Out, Writing, Disowning, Inside, InAll

\* So what it does at one index is nothing to any other object.
LEMMA CalmAll ==
  ASSUME NEW t \in Threads, pc[t] \in InAll, pc'[t] \in InAll \cup {"done"}, call'[t] = call[t],
         NEW o, \A k \in DOMAIN call[t].objs : call[t].objs[k] = o => (Out(t, k)' <=> Out(t, k))
  PROVE  Calm(t, o)
<1>1. /\ Taken(t, o) <=> o \notin ManualEvents /\ \E k \in DOMAIN call[t].objs : call[t].objs[k] = o /\ Out(t, k)
      /\ ~Writing(t, o) /\ ~Disowning(t, o) /\ ~Inside(t, o)
  BY AllTaken
<1>2. /\ Taken(t, o)' <=> o \notin ManualEvents /\ \E k \in DOMAIN call'[t].objs : call'[t].objs[k] = o /\ Out(t, k)'
      /\ ~Writing(t, o)' /\ ~Disowning(t, o)' /\ ~Inside(t, o)'
  <2>1. \A k \in DOMAIN call'[t].objs : call'[t].objs[k] \in Waited(t)'
    BY DEF Waited, Range
  <2> QED BY <2>1 DEF Taken, Out, Writing, Disowning, Inside, InAll
<1> QED BY <1>1, <1>2 DEF Calm

\* A place of a wait for all objects is all that PlaceOK says of it.
LEMMA PlaceAll ==
  ASSUME EInv, NEW t \in Threads, pc[t] \in InAll, call'[t] = call[t],
         pc'[t] \in InAll \cup {"done"}, i'[t] \in DOMAIN call[t].objs, pc'[t] = "poll all" => i'[t] = 1
  PROVE  PlaceOK(t)'
<1>1. PlaceOK(t) /\ Waited(t)' = Waited(t)
  BY DEF EInv, Waited
<1>2. call[t].op = "all" /\ IsInjective(call[t].objs) /\ Waited(t) \cap ManualEvents = {}
  BY <1>1 DEF PlaceOK
<1> QED BY <1>1, <1>2 DEF PlaceOK, OnSemaphore, OnMutex, OnEvent, InAny, InAll

\* A wait for all polls all its objects at once.
LEMMA PollAllStep ==
  ASSUME EInv, NEW t \in Threads, PollAll(t)
  PROVE  EInv'
<1>1. /\ Typed /\ PlaceOK(t) /\ pc[t] = "poll all" /\ i[t] = 1 /\ i[t] \in DOMAIN call[t].objs
      /\ DOMAIN call[t].objs = 1 .. Len(call[t].objs) /\ Len(call[t].objs) \in Nat
  <2>1. Typed /\ PlaceOK(t) /\ pc[t] = "poll all"
    BY DEF PollAll, EInv
  <2>2. i[t] = 1
    BY <2>1 DEF PlaceOK
  <2> QED BY <2>1, <2>2, Here
<1>2. PICK l \in Places : Goto(t, l) /\ (l = "grab" \/ l = "poll one")
  BY DEF PollAll, Places
<1>3. UNCHANGED <<fd, shm, server, call, i, polled, ret, held, role>>
  BY DEF PollAll, local
<1>4. /\ pc' \in [Threads -> Places] /\ (pc'[t] = "grab" \/ pc'[t] = "poll one")
      /\ Stay(t) /\ call'[t] = call[t] /\ i'[t] = i[t]
  BY <1>2, <1>3, Goes
<1>5. Typed'
  BY <1>1, <1>3, <1>4 DEF Typed, shm, server
<1>6. PlaceOK(t)'
  BY <1>1, <1>4, PlaceAll DEF InAll
<1>7. \A o \in Objects : Calm(t, o)
  <2>1. ASSUME NEW k \in Nat, k >= 1
        PROVE  ~Out(t, k) /\ ~Out(t, k)'
    <3>1. pc[t] = "poll all" /\ pc'[t] \in {"grab", "poll one"} /\ i'[t] = 1
      BY <1>1, <1>4
    <3>2. ~(k < 1)
      BY ONLY k \in Nat, k >= 1
    <3>3. ~Out(t, k)
      BY ONLY <3>1 DEF Out
    <3>4. ~Out(t, k)'
      BY ONLY <3>1, <3>2 DEF Out
    <3> QED BY <3>3, <3>4
  <2>2. \A k \in DOMAIN call[t].objs : k \in Nat /\ k >= 1
    <3>1. DOMAIN call[t].objs = 1 .. Len(call[t].objs) /\ Len(call[t].objs) \in Nat
      BY <1>1
    <3> QED BY ONLY <3>1
  <2> QED BY <1>1, <1>4, <2>1, <2>2, CalmAll DEF InAll
<1> QED BY <1>1, <1>3, <1>4, <1>5, <1>6, <1>7, QuietStep

\* One step back along the array, or from its first object to the start of the wait.
LEMMA Backs ==
  ASSUME EInv, NEW t \in Threads, pc[t] \in {"grab", "put back"}, UNCHANGED <<call, held>>,
         IF i[t] = 1 THEN Goto(t, "poll one") /\ UNCHANGED i
         ELSE Goto(t, "put back") /\ i' = [i EXCEPT ![t] = @ - 1]
  PROVE  /\ pc' \in [Threads -> Places] /\ i' \in [Threads -> Nat] /\ Stay(t)
         /\ call'[t] = call[t] /\ i'[t] \in DOMAIN call[t].objs
         /\ \/ i[t] = 1 /\ pc'[t] = "poll one" /\ i'[t] = i[t]
            \/ i[t] # 1 /\ pc'[t] = "put back" /\ i'[t] = i[t] - 1
<1>1. /\ Typed /\ i[t] \in DOMAIN call[t].objs /\ DOMAIN call[t].objs = 1 .. Len(call[t].objs) /\ Len(call[t].objs) \in Nat
      /\ "poll one" \in Places /\ "put back" \in Places
  BY Here DEF Places
<1>2. pc \in [Threads -> Places] /\ i \in [Threads -> Nat]
  BY <1>1 DEF Typed
<1>3. CASE i[t] = 1
  <2>1. pc' = [pc EXCEPT ![t] = "poll one"] /\ i' = i
    BY <1>3 DEF Goto
  <2>2. pc' \in [Threads -> Places] /\ pc'[t] = "poll one"
    BY <1>1, <1>2, <2>1
  <2>3. Stay(t)
    BY <1>2, <2>1 DEF Stay
  <2> QED BY <1>1, <1>2, <1>3, <2>1, <2>2, <2>3
<1>4. CASE i[t] # 1
  <2>1. pc' = [pc EXCEPT ![t] = "put back"] /\ i' = [i EXCEPT ![t] = @ - 1]
    BY <1>4 DEF Goto
  <2>2. i[t] - 1 \in Nat /\ i[t] - 1 \in DOMAIN call[t].objs
    <3>1. i[t] \in Nat /\ i[t] >= 1 /\ i[t] <= Len(call[t].objs) /\ i[t] # 1
      BY <1>4, Here
    <3>2. DOMAIN call[t].objs = 1 .. Len(call[t].objs) /\ Len(call[t].objs) \in Nat
      BY <1>1
    <3> QED BY ONLY <3>1, <3>2
  <2>3. pc' \in [Threads -> Places] /\ pc'[t] = "put back" /\ i' \in [Threads -> Nat] /\ i'[t] = i[t] - 1
    BY <1>1, <1>2, <2>1, <2>2
  <2>4. Stay(t)
    BY <1>2, <2>1 DEF Stay
  <2> QED BY <1>4, <2>2, <2>3, <2>4
<1> QED BY <1>3, <1>4

\* A read finds that somebody else was quicker.
LEMMA TooSlowStep ==
  ASSUME EInv, NEW t \in Threads, TooSlow(t)
  PROVE  EInv'
<1>1. /\ pc[t] = "grab" /\ UNCHANGED <<fd, shm, server, call, polled, ret, held, role>>
      /\ IF i[t] = 1 THEN Goto(t, "poll one") /\ UNCHANGED i
         ELSE Goto(t, "put back") /\ i' = [i EXCEPT ![t] = @ - 1]
  BY DEF TooSlow
<1>2. Typed /\ i[t] \in Nat /\ DOMAIN call[t].objs = 1 .. Len(call[t].objs) /\ Len(call[t].objs) \in Nat
  BY <1>1, Here
<1>3. /\ pc' \in [Threads -> Places] /\ i' \in [Threads -> Nat] /\ Stay(t)
      /\ call'[t] = call[t] /\ i'[t] \in DOMAIN call[t].objs
      /\ \/ i[t] = 1 /\ pc'[t] = "poll one" /\ i'[t] = i[t]
         \/ i[t] # 1 /\ pc'[t] = "put back" /\ i'[t] = i[t] - 1
  BY <1>1, Backs
<1>4. Typed'
  BY <1>1, <1>2, <1>3 DEF Typed, shm, server
<1>5. PlaceOK(t)'
  BY <1>1, <1>3, PlaceAll DEF InAll
<1>6. \A o \in Objects : Calm(t, o)
  <2>1. \A k \in DOMAIN call[t].objs : k \in Nat /\ k >= 1
    BY <1>2
  <2>2. ASSUME NEW k \in Nat, k >= 1
        PROVE  Out(t, k)' <=> Out(t, k)
    <3>1. CASE i[t] = 1
      <4>1. ~(k < 1)
        BY ONLY k \in Nat, k >= 1
      <4>2. pc[t] = "grab" /\ pc'[t] = "poll one" /\ i[t] = 1
        BY <1>1, <1>3, <3>1
      <4> QED BY ONLY <4>1, <4>2 DEF Out
    <3>2. CASE i[t] # 1
      <4>1. k <= i[t] - 1 <=> k < i[t]
        BY <1>2
      <4>2. pc[t] = "grab" /\ pc'[t] = "put back" /\ i'[t] = i[t] - 1
        BY <1>1, <1>3, <3>2
      <4> QED BY ONLY <4>1, <4>2 DEF Out
    <3> QED BY <3>1, <3>2
  <2> QED BY <1>1, <1>3, <2>1, <2>2, CalmAll DEF InAll
<1> QED BY <1>1, <1>3, <1>4, <1>5, <1>6, QuietStep

-----------------------------------------------------------------------------
(* A semaphore's units under way.                                          *)

TakenNo(s) == Cardinality({u \in Threads : Taken(u, s)})
DueNo(s) == Cardinality(Due(s))

\* SemOK in these words.
LEMMA SemSum == \A s : SemOK(s) <=> count[s] <= SemMax /\ count[s] = fd[s] + TakenNo(s) + DueNo(s)
BY DEF SemOK, TakenNo, DueNo

\* Of two finite sets of which one has further members its cardinality is the sum.
LEMMA Disjoint ==
  ASSUME NEW A, NEW B, IsFiniteSet(A), IsFiniteSet(B), A \cap B = {}
  PROVE  /\ IsFiniteSet(A \cup B) /\ Cardinality(A \cup B) = Cardinality(A) + Cardinality(B)
         /\ Cardinality(A) \in Nat /\ Cardinality(B) \in Nat /\ Cardinality(A \cup B) \in Nat
<1>1. IsFiniteSet(A \cup B) /\ Cardinality(A \cup B) = Cardinality(A) + Cardinality(B) - Cardinality(A \cap B)
  BY FS_Union
<1>2. Cardinality(A \cap B) = 0
  BY FS_EmptySet
<1>3. Cardinality(A) \in Nat /\ Cardinality(B) \in Nat /\ Cardinality(A \cup B) \in Nat
  BY <1>1, FS_CardinalityType
<1> QED BY <1>1, <1>2, <1>3

\* The units taken, when one thread takes one or accounts for it.
LEMMA TakenSum ==
  ASSUME NEW t \in Threads, Stay(t), NEW s
  PROVE  /\ TakenNo(s) \in Nat /\ TakenNo(s)' \in Nat
         /\ (Taken(t, s)' <=> Taken(t, s)) => TakenNo(s)' = TakenNo(s)
         /\ ~Taken(t, s) /\ Taken(t, s)' => TakenNo(s)' = TakenNo(s) + 1
         /\ Taken(t, s) /\ ~Taken(t, s)' => TakenNo(s) = TakenNo(s)' + 1
<1> DEFINE A == {u \in Threads : Taken(u, s)}
           B == {u \in Threads : Taken(u, s)'}
<1>1. \A u \in Threads \ {t} : u \in A <=> u \in B
  <2>1. \A u \in Threads \ {t} : Taken(u, s)' <=> Taken(u, s)
    BY OthersCalm DEF Calm
  <2> QED BY <2>1
<1>2. TakenNo(s) = Cardinality(A) /\ TakenNo(s)' = Cardinality(B)
  BY DEF TakenNo
<1>3. (t \in A <=> Taken(t, s)) /\ (t \in B <=> Taken(t, s)')
  OBVIOUS
<1>4. A \subseteq Threads /\ B \subseteq Threads
  OBVIOUS
<1> HIDE DEF A, B
<1>5. IsFiniteSet(A) /\ IsFiniteSet(B)
  BY <1>4, TypesAssumption, FS_Subset
<1>6. IsFiniteSet({t}) /\ Cardinality({t}) = 1
  BY FS_Singleton
<1>7. Cardinality(A) \in Nat /\ Cardinality(B) \in Nat
  BY <1>5, FS_CardinalityType
<1>8. (t \in A <=> t \in B) => A = B
  BY <1>1, <1>4
<1>9. t \notin A /\ t \in B => Cardinality(B) = Cardinality(A) + 1
  <2>1. SUFFICES ASSUME t \notin A, t \in B
                 PROVE  Cardinality(B) = Cardinality(A) + 1
    OBVIOUS
  <2>2. B = A \cup {t} /\ A \cap {t} = {}
    BY <1>1, <1>4, <2>1
  <2> QED BY <1>5, <1>6, <2>2, Disjoint
<1>10. t \in A /\ t \notin B => Cardinality(A) = Cardinality(B) + 1
  <2>1. SUFFICES ASSUME t \in A, t \notin B
                 PROVE  Cardinality(A) = Cardinality(B) + 1
    OBVIOUS
  <2>2. A = B \cup {t} /\ B \cap {t} = {}
    BY <1>1, <1>4, <2>1
  <2> QED BY <1>5, <1>6, <2>2, Disjoint
<1> QED BY <1>2, <1>3, <1>7, <1>8, <1>9, <1>10

\* A thread's numbered units are as many as the number.
LEMMA Numbered ==
  ASSUME NEW t, NEW n \in Nat
  PROVE  IsFiniteSet({t} \X (1 .. n)) /\ Cardinality({t} \X (1 .. n)) = n
<1>1. IsFiniteSet({t}) /\ Cardinality({t}) = 1
  BY FS_Singleton
<1>2. IsFiniteSet(1 .. n) /\ Cardinality(1 .. n) = n
  BY FS_Interval
<1>3. IsFiniteSet({t} \X (1 .. n)) /\ Cardinality({t} \X (1 .. n)) = Cardinality({t}) * Cardinality(1 .. n)
  BY <1>1, <1>2, FS_Product, Zenon
<1> QED
  <2>1. 1 * n = n
    OBVIOUS
  <2> QED BY <1>1, <1>2, <1>3, <2>1, Zenon

\* The units due, when one thread is permitted some or writes them.
LEMMA DueSum ==
  ASSUME NEW t \in Threads, Stay(t), NEW s
  PROVE  /\ DueNo(s) \in Nat /\ DueNo(s)' \in Nat
         /\ (Writing(t, s)' <=> Writing(t, s)) /\ (Writing(t, s) => call'[t].units = call[t].units)
            => DueNo(s)' = DueNo(s)
         /\ ~Writing(t, s) /\ Writing(t, s)' /\ call'[t].units \in 0 .. SemMax => DueNo(s)' = DueNo(s) + call'[t].units
         /\ Writing(t, s) /\ ~Writing(t, s)' /\ call[t].units \in 0 .. SemMax => DueNo(s) = DueNo(s)' + call[t].units
<1> DEFINE A == Due(s)
           B == Due(s)'
           own(n) == {t} \X (1 .. n)
<1>0. SemMax \in Nat
  BY EsyncAssumption
<1>1. \A u \in Threads, n \in 1 .. SemMax : u # t => (<<u, n>> \in A <=> <<u, n>> \in B)
  <2>1. \A u \in Threads : u # t => (Writing(u, s)' <=> Writing(u, s)) /\ call'[u] = call[u]
    BY OthersCalm DEF Calm, Stay
  <2> QED BY <2>1 DEF Due
<1>2. DueNo(s) = Cardinality(A) /\ DueNo(s)' = Cardinality(B)
  BY DEF DueNo
<1>3. A \subseteq Threads \X (1 .. SemMax) /\ B \subseteq Threads \X (1 .. SemMax)
  BY DEF Due
<1>4. \A n \in 1 .. SemMax : /\ <<t, n>> \in A <=> Writing(t, s) /\ n <= call[t].units
                             /\ <<t, n>> \in B <=> Writing(t, s)' /\ n <= call'[t].units
  BY DEF Due
<1>5. IsFiniteSet(A) /\ IsFiniteSet(B)
  <2>1. IsFiniteSet(1 .. SemMax)
    BY <1>0, FS_Interval
  <2>2. IsFiniteSet(Threads \X (1 .. SemMax))
    BY <2>1, TypesAssumption, FS_Product
  <2> QED BY <1>3, <2>2, FS_Subset
<1> HIDE DEF A, B
<1>6. Cardinality(A) \in Nat /\ Cardinality(B) \in Nat
  BY <1>5, FS_CardinalityType
<1>7. (Writing(t, s)' <=> Writing(t, s)) /\ (Writing(t, s) => call'[t].units = call[t].units) => A = B
  BY <1>1, <1>3, <1>4
<1>8. ~Writing(t, s) /\ Writing(t, s)' /\ call'[t].units \in 0 .. SemMax => Cardinality(B) = Cardinality(A) + call'[t].units
  <2>1. SUFFICES ASSUME NEW n \in 0 .. SemMax, n = call'[t].units, ~Writing(t, s), Writing(t, s)'
                 PROVE  Cardinality(B) = Cardinality(A) + n
    OBVIOUS
  <2>2. \A k \in 1 .. SemMax : <<t, k>> \notin A /\ (<<t, k>> \in B <=> k <= n)
    BY <1>4, <2>1
  <2>3. B = A \cup own(n) /\ A \cap own(n) = {}
    <3>1. \A k \in 1 .. n : k \in 1 .. SemMax
      BY <1>0
    <3>2. own(n) \subseteq Threads \X (1 .. SemMax)
      BY <3>1
    <3>3. \A p \in Threads \X (1 .. SemMax) : p \in B <=> p \in A \cup own(n)
      <4>1. TAKE p \in Threads \X (1 .. SemMax)
      <4>2. PICK u \in Threads, k \in 1 .. SemMax : p = <<u, k>>
        BY <4>1
      <4>3. p \in own(n) <=> u = t /\ k <= n
        BY <4>2, <1>0
      <4> QED BY <1>1, <2>2, <4>2, <4>3
    <3>4. \A p \in own(n) : p \notin A
      BY <2>2, <3>1
    <3> QED BY <1>3, <3>2, <3>3, <3>4
  <2>4. IsFiniteSet(own(n)) /\ Cardinality(own(n)) = n
    <3>1. n \in Nat
      BY <1>0
    <3> QED BY <3>1, Numbered, Zenon
  <2> QED BY <1>5, <2>3, <2>4, Disjoint
<1>9. Writing(t, s) /\ ~Writing(t, s)' /\ call[t].units \in 0 .. SemMax => Cardinality(A) = Cardinality(B) + call[t].units
  <2>1. SUFFICES ASSUME NEW n \in 0 .. SemMax, n = call[t].units, Writing(t, s), ~Writing(t, s)'
                 PROVE  Cardinality(A) = Cardinality(B) + n
    OBVIOUS
  <2>2. \A k \in 1 .. SemMax : <<t, k>> \notin B /\ (<<t, k>> \in A <=> k <= n)
    BY <1>4, <2>1
  <2>3. A = B \cup own(n) /\ B \cap own(n) = {}
    <3>1. \A k \in 1 .. n : k \in 1 .. SemMax
      BY <1>0
    <3>2. own(n) \subseteq Threads \X (1 .. SemMax)
      BY <3>1
    <3>3. \A p \in Threads \X (1 .. SemMax) : p \in A <=> p \in B \cup own(n)
      <4>1. TAKE p \in Threads \X (1 .. SemMax)
      <4>2. PICK u \in Threads, k \in 1 .. SemMax : p = <<u, k>>
        BY <4>1
      <4>3. p \in own(n) <=> u = t /\ k <= n
        BY <4>2, <1>0
      <4> QED BY <1>1, <2>2, <4>2, <4>3
    <3>4. \A p \in own(n) : p \notin B
      BY <2>2, <3>1
    <3> QED BY <1>3, <3>2, <3>3, <3>4
  <2>4. IsFiniteSet(own(n)) /\ Cardinality(own(n)) = n
    <3>1. n \in Nat
      BY <1>0
    <3> QED BY <3>1, Numbered, Zenon
  <2> QED BY <1>5, <2>3, <2>4, Disjoint
<1> QED BY <1>2, <1>6, <1>7, <1>8, <1>9

-----------------------------------------------------------------------------
(* What happens to an object.                                              *)

\* All but one object have their counters, and all their words.
LEMMA OthersSame ==
  ASSUME UNCHANGED <<shm, server, held>>, NEW o, \A p \in Objects : p # o => fd'[p] = fd[p]
  PROVE  \A p \in Objects : p # o => Same(p)
BY DEF Same, shm, server

\* A mutex that nobody has is free.
LEMMA Free ==
  ASSUME EInv, NEW m \in Mutexes, \A u \in Threads : ~Has(u, m)
  PROVE  (\A u \in Threads : held[u][m] = 0) /\ tid[m] \notin Threads /\ count[m] = 0
<1>1. WordsOK(m) /\ Typed
  BY Types DEF EInv, ObjectOK
<1>2. \A u \in Threads : held[u][m] = 0
  <2>1. \A u \in Threads : held[u][m] \in Nat /\ ~(held[u][m] > 0)
    BY <1>1 DEF Typed, Has
  <2> QED BY <2>1
<1>3. tid[m] \notin Threads
  BY <1>1 DEF WordsOK, Has
<1> QED BY <1>1, <1>2, <1>3 DEF WordsOK

\* A thread reads the unit of an object.
LEMMA ReadOK ==
  ASSUME EInv, NEW t \in Threads, Stay(t), NEW o \in Objects, o \notin ManualEvents, fd[o] > 0, fd' = Read(o),
         UNCHANGED <<shm, server, held>>, ~Taken(t, o), Taken(t, o)',
         ~Writing(t, o), ~Writing(t, o)', ~Disowning(t, o), ~Disowning(t, o)'
  PROVE  ObjectOK(o)' /\ (\A p \in Objects : p # o => Same(p)) /\ fd' \in [Objects -> Nat]
<1>1. Typed /\ ObjectOK(o)
  BY DEF EInv
<1>2. fd \in [Objects -> Nat]
  BY <1>1 DEF Typed
<1>3. fd' \in [Objects -> Nat] /\ fd'[o] = IF o \in Semaphores THEN fd[o] - 1 ELSE 0
  BY <1>2 DEF Read
<1>4. \A p \in Objects : p # o => fd'[p] = fd[p]
  BY <1>2 DEF Read
<1>5. \A p \in Objects : p # o => Same(p)
  BY <1>4, OthersSame
<1>6. count' = count /\ tid' = tid /\ held' = held /\ waking' = waking
  BY DEF shm, server
<1>7. ASSUME o \in Semaphores
      PROVE  SemOK(o)'
  <2>1. count[o] <= SemMax /\ count[o] = fd[o] + TakenNo(o) + DueNo(o)
    BY <1>1, <1>7, SemSum DEF ObjectOK
  <2>2. TakenNo(o) \in Nat /\ TakenNo(o)' = TakenNo(o) + 1 /\ DueNo(o) \in Nat /\ DueNo(o)' = DueNo(o)
    BY TakenSum, DueSum
  <2>3. fd[o] \in Nat /\ fd'[o] = fd[o] - 1 /\ count'[o] = count[o]
    BY <1>2, <1>3, <1>6, <1>7
  <2>4. count'[o] <= SemMax /\ count'[o] = fd'[o] + TakenNo(o)' + DueNo(o)'
    BY ONLY <2>1, <2>2, <2>3
  <2> QED BY <2>4 DEF SemOK, TakenNo, DueNo
<1>8. ASSUME o \in Mutexes
      PROVE  UnitOK(o)' /\ WordsOK(o)'
  <2>1. UnitOK(o) /\ WordsOK(o) /\ fd[o] # 0 /\ fd'[o] = 0
    BY <1>1, <1>3, <1>8, <1>2, Types DEF ObjectOK
  <2>2. \A u \in Threads : ~Has(u, o)
    BY <2>1 DEF UnitOK
  <2>3. (\A u \in Threads : held[u][o] = 0) /\ tid[o] \notin Threads /\ count[o] = 0
    BY <1>8, <2>2, Free
  <2>4. \A u \in Threads : Has(u, o)' <=> u = t
    BY <2>2, OthersCalm DEF Has
  <2>5. \A u \in Threads : ~Writing(u, o)' /\ ~Disowning(u, o)'
    BY <2>2, OthersCalm DEF Has, Calm
  <2>6. o \notin waking
    BY <2>1 DEF UnitOK
  <2>7. UnitOK(o)'
    BY <1>6, <2>1, <2>4, <2>6 DEF UnitOK
  <2>8. WordsOK(o)'
    <3>1. 0 <= MaxNesting /\ ~(0 > 0)
      BY Types
    <3>2. count'[o] = 0 /\ tid'[o] \notin Threads /\ \A u \in Threads : held'[u][o] = 0
      BY <1>6, <2>3
    <3> QED BY <2>5, <3>1, <3>2 DEF WordsOK
  <2> QED BY <2>7, <2>8
<1>9. ObjectOK(o)'
  BY <1>7, <1>8 DEF ObjectOK
<1> QED BY <1>3, <1>5, <1>9

\* A thread writes the units it has of an object: those it was permitted, or one that it has read.
Gives(t, o, n) ==
  /\ n \in Nat /\ (o \in Mutexes => n = 1)
  /\ ~Disowning(t, o) /\ ~Disowning(t, o)' /\ ~Writing(t, o)' /\ ~Taken(t, o)'
  /\ \/ Taken(t, o) /\ ~Writing(t, o) /\ n = 1
     \/ Writing(t, o) /\ ~Taken(t, o) /\ n = call[t].units /\ (o \in Semaphores => n <= SemMax)

\* Writing a unit taken or due to a counter keeps what is said of the object.
LEMMA GiveOK ==
  ASSUME EInv, NEW t \in Threads, Stay(t), NEW o \in Objects, o \notin ManualEvents, NEW n, fd' = Plus(o, n),
         UNCHANGED <<shm, server, held>>, Gives(t, o, n)
  PROVE  ObjectOK(o)' /\ (\A p \in Objects : p # o => Same(p)) /\ fd' \in [Objects -> Nat]
<1>1. Typed /\ ObjectOK(o) /\ n \in Nat
  BY DEF EInv, Gives
<1>2. fd \in [Objects -> Nat]
  BY <1>1 DEF Typed
<1>3. fd' \in [Objects -> Nat] /\ (o \notin AutoEvents => fd'[o] = fd[o] + n)
  BY <1>1, <1>2 DEF Plus
<1>4. \A p \in Objects : p # o => fd'[p] = fd[p]
  BY <1>2 DEF Plus
<1>5. \A p \in Objects : p # o => Same(p)
  BY <1>4, OthersSame
<1>6. count' = count /\ tid' = tid /\ held' = held /\ waking' = waking
  BY DEF shm, server
<1>7. ASSUME o \in Semaphores
      PROVE  SemOK(o)'
  <2>1. count[o] <= SemMax /\ count[o] = fd[o] + TakenNo(o) + DueNo(o)
    BY <1>1, <1>7, SemSum DEF ObjectOK
  <2>2. TakenNo(o) \in Nat /\ DueNo(o) \in Nat /\ TakenNo(o)' \in Nat /\ DueNo(o)' \in Nat
    BY TakenSum, DueSum
  <2>3. fd[o] \in Nat /\ fd'[o] = fd[o] + n /\ count'[o] = count[o]
    BY <1>2, <1>3, <1>6, <1>7, Types
  <2>4. TakenNo(o) + DueNo(o) = TakenNo(o)' + DueNo(o)' + n
    <3>1. CASE Taken(t, o)
      <4>1. TakenNo(o) = TakenNo(o)' + 1 /\ DueNo(o)' = DueNo(o) /\ n = 1
        BY <3>1, TakenSum, DueSum DEF Gives
      <4> QED BY ONLY <2>2, <4>1
    <3>2. CASE ~Taken(t, o)
      <4>1. Writing(t, o) /\ ~Writing(t, o)' /\ ~Taken(t, o)' /\ call[t].units \in 0 .. SemMax /\ n = call[t].units
        <5>1. SemMax \in Nat
          BY Types
        <5> QED BY <1>1, <1>7, <3>2, <5>1 DEF Gives
      <4>2. TakenNo(o)' = TakenNo(o) /\ DueNo(o) = DueNo(o)' + n
        BY <3>2, <4>1, TakenSum, DueSum
      <4> QED BY ONLY <1>1, <2>2, <4>2
    <3> QED BY <3>1, <3>2
  <2>5. count'[o] <= SemMax /\ count'[o] = fd'[o] + TakenNo(o)' + DueNo(o)'
    BY ONLY <1>1, <2>1, <2>2, <2>3, <2>4
  <2> QED BY <2>5 DEF SemOK, TakenNo, DueNo
<1>8. ASSUME o \in Mutexes
      PROVE  UnitOK(o)' /\ WordsOK(o)'
  <2>1. UnitOK(o) /\ WordsOK(o)
    BY <1>1, <1>8 DEF ObjectOK
  <2>2. Has(t, o)
    BY DEF Gives, Has
  <2>3. fd[o] = 0 /\ o \notin waking /\ \A u \in Threads : Has(u, o) => u = t
    BY <2>1, <2>2 DEF UnitOK
  <2>4. tid[o] \notin Threads
    BY <2>1 DEF WordsOK, Gives
  <2>5. \A u \in Threads : held[u][o] \in Nat /\ ~(held[u][o] > 0) /\ held[u][o] = 0
    <3>1. \A u \in Threads : held[u][o] \in Nat /\ ~(held[u][o] > 0)
      BY <1>1, <1>8, <2>1, <2>4 DEF WordsOK, Typed
    <3> QED BY <3>1
  <2>6. \A u \in Threads : ~Has(u, o)'
    <3>1. \A u \in Threads : u # t => ~Has(u, o)'
      BY <2>3, OthersCalm
    <3>2. ~Has(t, o)'
      BY <1>6, <2>5 DEF Has, Gives
    <3> QED BY <3>1, <3>2
  <2>7. fd'[o] = 1
    BY <1>3, <1>8, <2>3, Types DEF Gives
  <2>8. UnitOK(o)'
    BY <1>6, <2>3, <2>6, <2>7 DEF UnitOK
  <2>9. count'[o] = 0 /\ tid'[o] \notin Threads /\ (\A u \in Threads : held'[u][o] = 0) /\ 0 <= MaxNesting
    BY <1>6, <2>1, <2>4, <2>5, Types DEF WordsOK
  <2>10. WordsOK(o)'
    BY <2>6, <2>9 DEF WordsOK, Has
  <2> QED BY <2>8, <2>10
<1>9. ObjectOK(o)'
  BY <1>7, <1>8 DEF ObjectOK
<1> QED BY <1>3, <1>5, <1>9

\* A thread accounts for the unit it has read.
LEMMA AccountOK ==
  ASSUME EInv, NEW t \in Threads, Stay(t), NEW o \in Objects, o = obj(t), o \notin ManualEvents, Update(t),
         UNCHANGED <<fd, server>>, Taken(t, o), ~Taken(t, o)', ~Writing(t, o), ~Writing(t, o)',
         ~Disowning(t, o), ~Disowning(t, o)'
  PROVE  /\ ObjectOK(o)' /\ \A p \in Objects : p # o => Same(p)
         /\ count' \in [Semaphores \cup Mutexes -> Nat] /\ tid' \in [Mutexes -> Threads \cup {0, Abandoned}]
         /\ signaled' \in [Events -> {0, 1}] /\ held' \in [Threads -> [Mutexes -> Nat]] /\ locked' = locked
<1>1. Typed /\ ObjectOK(o)
  BY DEF EInv
<1>2. /\ fd \in [Objects -> Nat] /\ count \in [Semaphores \cup Mutexes -> Nat]
      /\ tid \in [Mutexes -> Threads \cup {0, Abandoned}] /\ signaled \in [Events -> {0, 1}]
      /\ held \in [Threads -> [Mutexes -> Nat]]
  BY <1>1 DEF Typed
<1>3. fd' = fd /\ waking' = waking /\ locked' = locked
  BY DEF server, Update
<1>4. CASE o \in Semaphores
  <2>1. count' = [count EXCEPT ![o] = @ - 1] /\ tid' = tid /\ signaled' = signaled /\ held' = held
    BY <1>4, Types DEF Update
  <2>2. count[o] <= SemMax /\ count[o] = fd[o] + TakenNo(o) + DueNo(o)
    BY <1>1, <1>4, SemSum DEF ObjectOK
  <2>3. TakenNo(o)' \in Nat /\ TakenNo(o) = TakenNo(o)' + 1 /\ DueNo(o) \in Nat /\ DueNo(o)' = DueNo(o)
    BY TakenSum, DueSum
  <2>4. fd[o] \in Nat /\ count[o] \in Nat /\ count'[o] = count[o] - 1
    BY <1>2, <1>4, <2>1
  <2>5. count[o] - 1 \in Nat /\ count[o] - 1 <= SemMax /\ count[o] - 1 = fd[o] + TakenNo(o)' + DueNo(o)' /\ SemMax \in Nat
    BY ONLY <2>2, <2>3, <2>4, Types
  <2>6. SemOK(o)'
    BY <1>3, <2>4, <2>5 DEF SemOK, TakenNo, DueNo
  <2>7. ObjectOK(o)'
    BY <1>4, <2>6, Types DEF ObjectOK
  <2>8. count' \in [Semaphores \cup Mutexes -> Nat]
    BY <1>2, <2>1, <2>5
  <2>9. \A p \in Objects : p # o => Same(p)
    BY <1>2, <1>3, <2>1 DEF Same
  <2> QED BY <1>2, <1>3, <2>1, <2>7, <2>8, <2>9
<1>5. CASE o \in Mutexes
  <2>1. /\ count' = [count EXCEPT ![o] = @ + 1] /\ tid' = [tid EXCEPT ![o] = t] /\ signaled' = signaled
        /\ held' = [held EXCEPT ![t][o] = @ + 1]
    BY <1>5, Types DEF Update
  <2>2. UnitOK(o) /\ WordsOK(o)
    BY <1>1, <1>5 DEF ObjectOK
  <2>3. fd[o] = 0 /\ o \notin waking /\ \A u \in Threads : Has(u, o) => u = t
    BY <2>2 DEF UnitOK, Has
  <2>4. tid[o] \notin Threads
    BY <2>2 DEF WordsOK
  <2>5. \A u \in Threads : held[u][o] = 0
    <3>1. \A u \in Threads : held[u][o] \in Nat /\ ~(held[u][o] > 0)
      BY <1>2, <1>5, <2>2, <2>4 DEF WordsOK
    <3> QED BY <3>1
  <2>6. count[o] = 0
    BY <2>2, <2>5 DEF WordsOK
  <2>7. /\ count'[o] = 1 /\ tid'[o] = t /\ held'[t][o] = 1
        /\ \A u \in Threads : u # t => held'[u][o] = 0
    BY <1>2, <1>5, <2>1, <2>5, <2>6
  <2>8. \A u \in Threads : ~Taken(u, o)' /\ ~Writing(u, o)' /\ ~Disowning(u, o)'
    <3>1. \A u \in Threads : u # t => ~Taken(u, o) /\ ~Writing(u, o) /\ ~Disowning(u, o)
      BY <2>3 DEF Has
    <3> QED BY <3>1, OthersCalm DEF Calm
  <2>9. \A u \in Threads : Has(u, o)' <=> u = t
    <3>1. \A u \in Threads : u # t => ~Has(u, o)'
      BY <2>3, OthersCalm
    <3>2. Has(t, o)'
      BY <2>7 DEF Has
    <3> QED BY <3>1, <3>2
  <2>10. UnitOK(o)'
    BY <1>3, <2>3, <2>9 DEF UnitOK
  <2>11. WordsOK(o)'
    <3>1. 1 <= MaxNesting /\ 1 > 0 /\ ~(0 > 0) /\ 1 # 0
      BY Types
    <3> QED BY <2>7, <2>8, <3>1 DEF WordsOK
  <2>12. ObjectOK(o)'
    BY <1>5, <2>10, <2>11, Types DEF ObjectOK
  <2>13. /\ count' \in [Semaphores \cup Mutexes -> Nat] /\ tid' \in [Mutexes -> Threads \cup {0, Abandoned}]
         /\ held' \in [Threads -> [Mutexes -> Nat]]
    <3>1. count' \in [Semaphores \cup Mutexes -> Nat] /\ tid' \in [Mutexes -> Threads \cup {0, Abandoned}]
      BY <1>2, <1>5, <2>1
    <3>2. held' \in [Threads -> [Mutexes -> Nat]]
      BY <1>2, <1>5, <2>1
    <3> QED BY <3>1, <3>2
  <2>14. \A p \in Objects : p # o => Same(p)
    BY <1>2, <1>3, <2>1 DEF Same
  <2> QED BY <1>2, <1>3, <2>1, <2>12, <2>13, <2>14
<1>6. CASE o \in AutoEvents
  <2>1. count' = count /\ tid' = tid /\ signaled' = [signaled EXCEPT ![o] = 0] /\ held' = held
    BY <1>6, Types DEF Update
  <2>2. signaled' \in [Events -> {0, 1}]
    BY <1>2, <2>1
  <2>3. \A p \in Objects : p # o => Same(p)
    BY <1>2, <1>3, <2>1 DEF Same
  <2> QED BY <1>2, <1>3, <1>6, <2>1, <2>2, <2>3, AutoOK
<1> QED BY <1>4, <1>5, <1>6, Types

-----------------------------------------------------------------------------
(* The reads and writes of a wait.                                         *)

\* A wait for any reads, and has taken the unit.
LEMMA GrabStep ==
  ASSUME EInv, NEW t \in Threads, Grab(t)
  PROVE  EInv'
<1>1. /\ pc[t] \in {"try read", "scan"} /\ obj(t) \notin ManualEvents /\ fd[obj(t)] > 0
      /\ fd' = Read(obj(t)) /\ Goto(t, "grabbed") /\ UNCHANGED <<shm, server, call, i, polled, ret, held, role>>
  BY DEF Grab, local
<1>2. Typed /\ PlaceOK(t) /\ i[t] \in DOMAIN call[t].objs /\ obj(t) \in Objects /\ obj(t) \in Waited(t) /\ "grabbed" \in Places
  BY <1>1, Here DEF Places
<1>3. /\ pc' \in [Threads -> Places] /\ pc'[t] = "grabbed" /\ Stay(t) /\ call'[t] = call[t] /\ i'[t] = i[t]
      /\ obj(t)' = obj(t) /\ Waited(t)' = Waited(t)
  BY <1>1, <1>2, Goes
<1>0. PICK o : o = obj(t)
  OBVIOUS
<1>4. ~Taken(t, o) /\ ~Writing(t, o) /\ ~Disowning(t, o)
  BY <1>1 DEF Taken, Writing, Disowning
<1>5. Taken(t, o)' /\ ~Writing(t, o)' /\ ~Disowning(t, o)'
  BY <1>0, <1>1, <1>2, <1>3 DEF Taken, Writing, Disowning
<1>6. PlaceOK(t)'
  <2>1. call[t].op = "any" /\ \A m \in Waited(t) \cap Mutexes : held[t][m] < MaxNesting
    BY <1>1, <1>2 DEF PlaceOK, InAny
  <2> QED BY <1>1, <1>2, <1>3, <2>1 DEF PlaceOK, OnSemaphore, OnMutex, OnEvent, InAll
<1>7. \A p \in Objects : p # o => Calm(t, p)
  <2>1. pc[t] \notin {"grab", "put back", "keep"} /\ pc'[t] \notin {"grab", "put back", "keep"}
    BY <1>1, <1>3
  <2> QED BY <1>0, <1>3, <2>1, CalmBeside
<1>8. ObjectOK(o)' /\ (\A p \in Objects : p # o => Same(p)) /\ fd' \in [Objects -> Nat]
  <2>1. o \in Objects /\ o \notin ManualEvents /\ fd[o] > 0 /\ fd' = Read(o)
    BY <1>0, <1>1, <1>2
  <2>2. UNCHANGED <<shm, server, held>> /\ Stay(t)
    BY <1>1, <1>3
  <2> QED BY <2>1, <2>2, <1>4, <1>5, ReadOK
<1>9. Typed'
  BY <1>1, <1>2, <1>3, <1>8 DEF Typed, shm, server
<1> QED BY <1>1, <1>3, <1>6, <1>7, <1>8, <1>9, ObjectStep

\* What follows a read: the count or the owner is written down.
LEMMA GrabbedStep ==
  ASSUME EInv, NEW t \in Threads, Grabbed(t)
  PROVE  EInv'
<1>1. /\ pc[t] = "grabbed" /\ Update(t) /\ Goto(t, "done") /\ ret' = [ret EXCEPT ![t] = Outcome(t)]
      /\ UNCHANGED <<fd, server, call, i, polled, role>>
  BY DEF Grabbed, Return
<1>2. /\ Typed /\ PlaceOK(t) /\ i[t] \in DOMAIN call[t].objs /\ obj(t) \in Objects /\ obj(t) \in Waited(t)
      /\ "done" \in Places
  BY <1>1, Here DEF Places
<1>3. \A u \in Threads \ {t} : held'[u] = held[u]
  BY <1>1, <1>2 DEF Update, Typed
<1>4. /\ pc' \in [Threads -> Places] /\ pc'[t] = "done" /\ Stay(t) /\ call'[t] = call[t] /\ i'[t] = i[t]
      /\ obj(t)' = obj(t) /\ Waited(t)' = Waited(t)
  BY <1>1, <1>2, <1>3, Goes
<1>5. obj(t) \notin ManualEvents
  BY <1>1, <1>2 DEF PlaceOK
<1>6. Taken(t, obj(t)) /\ ~Writing(t, obj(t)) /\ ~Disowning(t, obj(t))
  BY <1>1, <1>2, <1>5 DEF Taken, Writing, Disowning
<1>7. \A p : ~Taken(t, p)' /\ ~Writing(t, p)' /\ ~Disowning(t, p)'
  BY <1>4 DEF Taken, Writing, Disowning
<1>8. PlaceOK(t)'
  BY <1>1, <1>2, <1>4 DEF PlaceOK, OnSemaphore, OnMutex, OnEvent, InAny, InAll
<1>9. \A p \in Objects : p # obj(t) => Calm(t, p)
  BY <1>1, <1>4, CalmBeside
<1>0. PICK o : o = obj(t)
  OBVIOUS
<1>10. o = obj(t) /\ o \in Objects /\ o \notin ManualEvents /\ UNCHANGED <<fd, server>> /\ Update(t)
       /\ Taken(t, o) /\ ~Writing(t, o) /\ ~Disowning(t, o)
       /\ \A p \in Objects : p # o => Calm(t, p)
  BY <1>0, <1>1, <1>2, <1>5, <1>6, <1>9
<1>11. /\ ObjectOK(o)' /\ \A p \in Objects : p # o => Same(p)
       /\ count' \in [Semaphores \cup Mutexes -> Nat] /\ tid' \in [Mutexes -> Threads \cup {0, Abandoned}]
       /\ signaled' \in [Events -> {0, 1}] /\ held' \in [Threads -> [Mutexes -> Nat]] /\ locked' = locked
  BY <1>4, <1>7, <1>10, AccountOK
<1>12. Typed'
  <2>1. ret' \in [Threads -> Statuses]
    <3>1. Outcome(t) \in Statuses
      BY DEF Outcome, Statuses
    <3> QED BY <1>1, <1>2, <3>1 DEF Typed
  <2> QED BY <1>1, <1>2, <1>4, <1>11, <2>1 DEF Typed, server
<1> QED BY <1>1, <1>4, <1>8, <1>10, <1>11, <1>12, ObjectStep

\* A wait for all reads the next of its objects.
LEMMA GrabOneStep ==
  ASSUME EInv, NEW t \in Threads, GrabOne(t)
  PROVE  EInv'
<1>1. /\ Typed /\ PlaceOK(t) /\ pc[t] = "grab" /\ i[t] \in DOMAIN call[t].objs /\ i[t] \in Nat
      /\ obj(t) \in Objects /\ obj(t) \in Waited(t) /\ "grab" \in Places /\ "keep" \in Places
  BY Here DEF Places, GrabOne
<1>2. IsInjective(call[t].objs) /\ obj(t) \notin ManualEvents
  BY <1>1 DEF PlaceOK, InAll
<1>3. fd[obj(t)] > 0 /\ fd' = Read(obj(t)) /\ Next1(t, "grab", "keep") /\ UNCHANGED <<shm, server, call, polled, ret, held, role>>
  BY <1>2 DEF GrabOne
<1>4. /\ pc' \in [Threads -> Places] /\ i' \in [Threads -> Nat] /\ Stay(t)
      /\ call'[t] = call[t] /\ i'[t] \in DOMAIN call[t].objs
      /\ \/ pc'[t] = "grab" /\ i'[t] = i[t] + 1 /\ i[t] # Len(call[t].objs)
         \/ pc'[t] = "keep" /\ i'[t] = 1 /\ i[t] = Len(call[t].objs)
  BY <1>1, <1>3, Nexts
<1>5. \A k \in DOMAIN call[t].objs : (k # i[t] => (Out(t, k)' <=> Out(t, k))) /\ (k = i[t] => ~Out(t, k) /\ Out(t, k)')
  <2>1. SUFFICES ASSUME NEW k \in DOMAIN call[t].objs
                 PROVE  (k # i[t] => (Out(t, k)' <=> Out(t, k))) /\ (k = i[t] => ~Out(t, k) /\ Out(t, k)')
    OBVIOUS
  <2>2. k \in Nat /\ k >= 1 /\ k <= Len(call[t].objs) /\ Len(call[t].objs) \in Nat
    BY <1>1, Here
  <2>3. Out(t, k) <=> k < i[t]
    BY <1>1 DEF Out
  <2>4. CASE pc'[t] = "grab" /\ i'[t] = i[t] + 1
    <3>0. i[t] \in Nat
      BY <1>1
    <3>1. Out(t, k)' <=> k < i'[t]
      BY <2>4 DEF Out
    <3>2. i'[t] = i[t] + 1
      BY <2>4
    <3> QED BY ONLY <3>0, <2>2, <2>3, <3>1, <3>2
  <2>5. CASE pc'[t] = "keep" /\ i'[t] = 1 /\ i[t] = Len(call[t].objs)
    <3>0. i[t] \in Nat
      BY <1>1
    <3>1. Out(t, k)' <=> k >= i'[t]
      BY <2>5 DEF Out
    <3>2. i'[t] = 1 /\ i[t] = Len(call[t].objs)
      BY <2>5
    <3> QED BY ONLY <3>0, <2>2, <2>3, <3>1, <3>2
  <2> QED BY <1>4, <2>4, <2>5
<1>0. PICK o : o = obj(t)
  OBVIOUS
<1>6. ~Taken(t, o) /\ ~Writing(t, o) /\ ~Disowning(t, o)
  <2>1. \A k \in DOMAIN call[t].objs : call[t].objs[k] = o => k = i[t]
    BY <1>0, <1>1, <1>2 DEF IsInjective, obj
  <2> QED BY <1>1, <1>5, <2>1, AllTaken DEF InAll
<1>7. Taken(t, o)' /\ ~Writing(t, o)' /\ ~Disowning(t, o)'
  <2>1. call'[t].objs[i[t]] = o /\ i[t] \in DOMAIN call'[t].objs /\ o \in Waited(t)'
    BY <1>0, <1>1, <1>4 DEF obj, Waited
  <2>2. PICK j : j = i[t]
    OBVIOUS
  <2>3. Out(t, j)'
    BY <1>1, <1>5, <2>2
  <2>4. Taken(t, o)'
    BY <1>0, <1>2, <2>1, <2>2, <2>3 DEF Taken, Out
  <2> QED BY <1>4, <2>4 DEF Writing, Disowning
<1>8. \A p \in Objects : p # o => Calm(t, p)
  <2>1. TAKE p \in Objects
  <2>2. HAVE p # o
  <2>3. \A k \in DOMAIN call[t].objs : call[t].objs[k] = p => (Out(t, k)' <=> Out(t, k))
    BY <1>0, <1>5, <2>2 DEF obj
  <2> QED BY <1>1, <1>4, <2>3, CalmAll DEF InAll
<1>9. PlaceOK(t)'
  BY <1>1, <1>4, PlaceAll DEF InAll
<1>10. o \in Objects /\ o \notin ManualEvents /\ fd[o] > 0 /\ fd' = Read(o) /\ UNCHANGED <<shm, server, held>>
  BY <1>0, <1>1, <1>2, <1>3
<1>11. ObjectOK(o)' /\ (\A p \in Objects : p # o => Same(p)) /\ fd' \in [Objects -> Nat]
  BY <1>4, <1>6, <1>7, <1>10, ReadOK
<1>12. Typed'
  BY <1>1, <1>3, <1>4, <1>11 DEF Typed, shm, server
<1> QED BY <1>1, <1>3, <1>4, <1>8, <1>9, <1>11, <1>12, ObjectStep

\* It writes to one again, and turns to the one before.
LEMMA PutBackStep ==
  ASSUME EInv, NEW t \in Threads, PutBack(t)
  PROVE  EInv'
<1>1. /\ Typed /\ PlaceOK(t) /\ pc[t] = "put back" /\ i[t] \in DOMAIN call[t].objs /\ i[t] \in Nat
      /\ obj(t) \in Objects /\ obj(t) \in Waited(t)
      /\ DOMAIN call[t].objs = 1 .. Len(call[t].objs) /\ Len(call[t].objs) \in Nat
  BY Here DEF PutBack
<1>2. IsInjective(call[t].objs) /\ obj(t) \notin ManualEvents
  BY <1>1 DEF PlaceOK, InAll
<1>3. /\ fd' = Plus(obj(t), 1) /\ UNCHANGED <<shm, server, call, polled, ret, held, role>>
      /\ IF i[t] = 1 THEN Goto(t, "poll one") /\ UNCHANGED i
         ELSE Goto(t, "put back") /\ i' = [i EXCEPT ![t] = @ - 1]
  BY DEF PutBack
<1>4. /\ pc' \in [Threads -> Places] /\ i' \in [Threads -> Nat] /\ Stay(t)
      /\ call'[t] = call[t] /\ i'[t] \in DOMAIN call[t].objs
      /\ \/ i[t] = 1 /\ pc'[t] = "poll one" /\ i'[t] = i[t]
         \/ i[t] # 1 /\ pc'[t] = "put back" /\ i'[t] = i[t] - 1
  BY <1>1, <1>3, Backs
<1>5. \A k \in DOMAIN call[t].objs : (k # i[t] => (Out(t, k)' <=> Out(t, k))) /\ (k = i[t] => Out(t, k) /\ ~Out(t, k)')
  <2>1. SUFFICES ASSUME NEW k \in DOMAIN call[t].objs
                 PROVE  (k # i[t] => (Out(t, k)' <=> Out(t, k))) /\ (k = i[t] => Out(t, k) /\ ~Out(t, k)')
    OBVIOUS
  <2>2. k \in Nat /\ k >= 1 /\ i[t] \in Nat
    <3>1. DOMAIN call[t].objs = 1 .. Len(call[t].objs) /\ Len(call[t].objs) \in Nat /\ i[t] \in Nat
      BY <1>1
    <3> QED BY ONLY <2>1, <3>1
  <2>3. Out(t, k) <=> k <= i[t]
    BY <1>1 DEF Out
  <2>4. CASE i[t] = 1 /\ pc'[t] = "poll one"
    <3>1. ~Out(t, k)' /\ i[t] = 1
      BY <2>4 DEF Out
    <3> QED BY ONLY <2>2, <2>3, <3>1
  <2>5. CASE pc'[t] = "put back" /\ i'[t] = i[t] - 1
    <3>1. Out(t, k)' <=> k <= i'[t]
      BY <2>5 DEF Out
    <3>2. i'[t] = i[t] - 1
      BY <2>5
    <3> QED BY ONLY <2>2, <2>3, <3>1, <3>2
  <2> QED BY <1>4, <2>4, <2>5
<1>0. PICK o : o = obj(t)
  OBVIOUS
<1>6. \A k \in DOMAIN call[t].objs : call[t].objs[k] = o => k = i[t]
  BY <1>0, <1>1, <1>2 DEF IsInjective, obj
<1>7. Taken(t, o) /\ ~Writing(t, o) /\ ~Disowning(t, o)
  <2>1. call[t].objs[i[t]] = o /\ i[t] \in DOMAIN call[t].objs /\ o \in Waited(t) /\ Out(t, i[t])
    BY <1>0, <1>1, <1>5 DEF obj
  <2>2. pc[t] \in InAll \cup {"done"} /\ o \notin ManualEvents
    BY <1>0, <1>1, <1>2 DEF InAll
  <2>3. PICK k : k = i[t]
    OBVIOUS
  <2>4. k \in DOMAIN call[t].objs /\ call[t].objs[k] = o /\ Out(t, k)
    BY <2>1, <2>3
  <2> QED BY <2>2, <2>4, AllTaken
<1>8. ~Taken(t, o)' /\ ~Writing(t, o)' /\ ~Disowning(t, o)'
  <2>1. \A k \in DOMAIN call'[t].objs : call'[t].objs[k] = o => ~Out(t, k)'
    BY <1>4, <1>5, <1>6
  <2> QED BY <1>4, <2>1 DEF Taken, Out, Writing, Disowning
<1>9. \A p \in Objects : p # o => Calm(t, p)
  <2>1. TAKE p \in Objects
  <2>2. HAVE p # o
  <2>3. \A k \in DOMAIN call[t].objs : call[t].objs[k] = p => (Out(t, k)' <=> Out(t, k))
    BY <1>0, <1>5, <2>2 DEF obj
  <2> QED BY <1>1, <1>4, <2>3, CalmAll DEF InAll
<1>10. PlaceOK(t)'
  BY <1>1, <1>4, PlaceAll DEF InAll
<1>11. ObjectOK(o)' /\ (\A p \in Objects : p # o => Same(p)) /\ fd' \in [Objects -> Nat]
  <2>1. o \in Objects /\ o \notin ManualEvents /\ fd' = Plus(o, 1) /\ UNCHANGED <<shm, server, held>> /\ Stay(t)
    BY <1>0, <1>1, <1>2, <1>3, <1>4
  <2>2. Gives(t, o, 1)
    BY <1>7, <1>8 DEF Gives
  <2> QED BY <2>1, <2>2, GiveOK
<1>12. Typed'
  BY <1>1, <1>3, <1>4, <1>11 DEF Typed, shm, server
<1> QED BY <1>1, <1>3, <1>4, <1>9, <1>10, <1>11, <1>12, ObjectStep

\* It accounts for one, and turns to the next.
LEMMA KeepStep ==
  ASSUME EInv, NEW t \in Threads, Keep(t)
  PROVE  EInv'
<1>1. /\ Typed /\ PlaceOK(t) /\ pc[t] = "keep" /\ i[t] \in DOMAIN call[t].objs /\ i[t] \in Nat
      /\ obj(t) \in Objects /\ obj(t) \in Waited(t) /\ "done" \in Places
      /\ DOMAIN call[t].objs = 1 .. Len(call[t].objs) /\ Len(call[t].objs) \in Nat
  BY Here DEF Keep, Places
<1>2. IsInjective(call[t].objs) /\ obj(t) \notin ManualEvents
  BY <1>1 DEF PlaceOK, InAll
<1>3. /\ Update(t) /\ UNCHANGED <<fd, server, call, polled, role>>
      /\ ret' = [ret EXCEPT ![t] = IF @ = "abandoned" THEN @ ELSE Outcome(t)]
      /\ IF i[t] = Len(call[t].objs) THEN Goto(t, "done") /\ UNCHANGED i
         ELSE i' = [i EXCEPT ![t] = @ + 1] /\ UNCHANGED pc
  BY DEF Keep
<1>4. \A u \in Threads \ {t} : held'[u] = held[u]
  BY <1>1, <1>3 DEF Update, Typed
<1>5. /\ pc' \in [Threads -> Places] /\ i' \in [Threads -> Nat] /\ Stay(t)
      /\ call'[t] = call[t] /\ i'[t] \in DOMAIN call[t].objs
      /\ \/ i[t] = Len(call[t].objs) /\ pc'[t] = "done" /\ i'[t] = i[t]
         \/ i[t] # Len(call[t].objs) /\ pc'[t] = "keep" /\ i'[t] = i[t] + 1
  <2>1. pc \in [Threads -> Places] /\ i \in [Threads -> Nat]
    BY <1>1 DEF Typed
  <2>2. CASE i[t] = Len(call[t].objs)
    <3>1. pc' = [pc EXCEPT ![t] = "done"] /\ i' = i
      BY <1>3, <2>2 DEF Goto
    <3>2. pc' \in [Threads -> Places] /\ pc'[t] = "done"
      BY <1>1, <2>1, <3>1
    <3>3. Stay(t)
      BY <1>3, <1>4, <2>1, <3>1 DEF Stay
    <3> QED BY <1>1, <1>3, <2>1, <2>2, <3>1, <3>2, <3>3
  <2>3. CASE i[t] # Len(call[t].objs)
    <3>1. pc' = pc /\ i' = [i EXCEPT ![t] = @ + 1]
      BY <1>3, <2>3
    <3>2. i[t] + 1 \in Nat /\ i[t] + 1 \in DOMAIN call[t].objs
      <4>1. i[t] \in 1 .. Len(call[t].objs) /\ Len(call[t].objs) \in Nat /\ DOMAIN call[t].objs = 1 .. Len(call[t].objs)
        BY <1>1
      <4> QED BY ONLY <2>3, <4>1
    <3>3. i' \in [Threads -> Nat] /\ i'[t] = i[t] + 1
      BY <2>1, <3>1, <3>2
    <3>4. Stay(t)
      BY <1>3, <1>4, <2>1, <3>1 DEF Stay
    <3> QED BY <1>1, <1>3, <2>1, <2>3, <3>1, <3>2, <3>3, <3>4
  <2> QED BY <2>2, <2>3
<1>6. \A k \in DOMAIN call[t].objs : (k # i[t] => (Out(t, k)' <=> Out(t, k))) /\ (k = i[t] => Out(t, k) /\ ~Out(t, k)')
  <2>1. SUFFICES ASSUME NEW k \in DOMAIN call[t].objs
                 PROVE  (k # i[t] => (Out(t, k)' <=> Out(t, k))) /\ (k = i[t] => Out(t, k) /\ ~Out(t, k)')
    OBVIOUS
  <2>2. k \in Nat /\ k <= Len(call[t].objs) /\ i[t] \in Nat /\ Len(call[t].objs) \in Nat
    BY <1>1, Here
  <2>3. Out(t, k) <=> k >= i[t]
    BY <1>1 DEF Out
  <2>4. CASE i[t] = Len(call[t].objs) /\ pc'[t] = "done"
    <3>1. ~Out(t, k)' /\ i[t] = Len(call[t].objs)
      BY <2>4 DEF Out
    <3> QED BY ONLY <2>2, <2>3, <3>1
  <2>5. CASE pc'[t] = "keep" /\ i'[t] = i[t] + 1
    <3>1. Out(t, k)' <=> k >= i'[t]
      BY <2>5 DEF Out
    <3>2. i'[t] = i[t] + 1
      BY <2>5
    <3> QED BY ONLY <2>2, <2>3, <3>1, <3>2
  <2> QED BY <1>5, <2>4, <2>5
<1>0. PICK o : o = obj(t)
  OBVIOUS
<1>7. \A k \in DOMAIN call[t].objs : call[t].objs[k] = o => k = i[t]
  BY <1>0, <1>1, <1>2 DEF IsInjective, obj
<1>8. Taken(t, o) /\ ~Writing(t, o) /\ ~Disowning(t, o)
  <2>1. call[t].objs[i[t]] = o /\ i[t] \in DOMAIN call[t].objs /\ o \in Waited(t) /\ Out(t, i[t])
    BY <1>0, <1>1, <1>6 DEF obj
  <2>2. pc[t] \in InAll \cup {"done"} /\ o \notin ManualEvents
    BY <1>0, <1>1, <1>2 DEF InAll
  <2>3. PICK k : k = i[t]
    OBVIOUS
  <2>4. k \in DOMAIN call[t].objs /\ call[t].objs[k] = o /\ Out(t, k)
    BY <2>1, <2>3
  <2> QED BY <2>2, <2>4, AllTaken
<1>9. ~Taken(t, o)' /\ ~Writing(t, o)' /\ ~Disowning(t, o)'
  <2>1. \A k \in DOMAIN call'[t].objs : call'[t].objs[k] = o => ~Out(t, k)'
    BY <1>5, <1>6, <1>7
  <2> QED BY <1>5, <2>1 DEF Taken, Out, Writing, Disowning
<1>10. \A p \in Objects : p # o => Calm(t, p)
  <2>1. TAKE p \in Objects
  <2>2. HAVE p # o
  <2>3. \A k \in DOMAIN call[t].objs : call[t].objs[k] = p => (Out(t, k)' <=> Out(t, k))
    BY <1>0, <1>6, <2>2 DEF obj
  <2> QED BY <1>1, <1>5, <2>3, CalmAll DEF InAll
<1>11. PlaceOK(t)'
  BY <1>1, <1>5, PlaceAll DEF InAll
<1>12. o \in Objects /\ o \notin ManualEvents /\ UNCHANGED <<fd, server>>
  BY <1>0, <1>1, <1>2, <1>3
<1>13. /\ ObjectOK(o)' /\ \A p \in Objects : p # o => Same(p)
       /\ count' \in [Semaphores \cup Mutexes -> Nat] /\ tid' \in [Mutexes -> Threads \cup {0, Abandoned}]
       /\ signaled' \in [Events -> {0, 1}] /\ held' \in [Threads -> [Mutexes -> Nat]] /\ locked' = locked
  BY <1>0, <1>3, <1>5, <1>8, <1>9, <1>12, AccountOK
<1>14. Typed'
  <2>1. ret' \in [Threads -> Statuses]
    <3>1. Outcome(t) \in Statuses
      BY DEF Outcome, Statuses
    <3> QED BY <1>1, <1>3, <3>1 DEF Typed
  <2> QED BY <1>1, <1>3, <1>5, <1>13, <2>1 DEF Typed, server
<1> QED BY <1>1, <1>3, <1>5, <1>10, <1>11, <1>13, <1>14, ObjectStep

-----------------------------------------------------------------------------
(* The signalling calls on events.                                         *)

\* The thread that has the lock of a manual-reset event goes on with it.
LEMMA ManualMoves ==
  ASSUME EInv, NEW t \in Threads, Stay(t), NEW e \in ManualEvents, Inside(t, e), Inside(t, e)', locked'[e] = locked[e],
         pc'[t] \in {"exchange", "unlock"} => Agree(e)',
         pc'[t] = "write" => signaled'[e] = 1 /\ fd'[e] = 0,
         pc'[t] = "drain" => signaled'[e] = 0 /\ fd'[e] = 1
  PROVE  ObjectOK(e)'
<1>1. ManualOK(e)
  BY Types DEF EInv, ObjectOK
<1>2. \A u \in Threads : Inside(u, e) <=> u = t
  BY <1>1 DEF ManualOK
<1>3. \A u \in Threads : Inside(u, e)' <=> u = t
  BY <1>2, OthersCalm DEF Calm
<1>4. locked[e]
  BY <1>1 DEF ManualOK
<1>5. ManualOK(e)'
  BY <1>3, <1>4 DEF ManualOK
<1> QED BY <1>5, Types DEF ObjectOK

\* The lock is taken, when both halves agree.
LEMMA LockStep ==
  ASSUME EInv, NEW t \in Threads, Lock(t)
  PROVE  EInv'
<1>1. /\ pc[t] = "lock" /\ ~locked[obj(t)] /\ locked' = [locked EXCEPT ![obj(t)] = TRUE] /\ Goto(t, "exchange")
      /\ UNCHANGED <<fd, count, tid, signaled, server, call, i, polled, ret, held, role>>
  BY DEF Lock, local
<1>2. Typed /\ PlaceOK(t) /\ i[t] \in DOMAIN call[t].objs /\ "exchange" \in Places
  BY <1>1, Here DEF Places
<1>3. obj(t) \in ManualEvents /\ obj(t) \in Events /\ call[t].op \in {"set", "reset", "server set"} /\ call[t].units = 1
  BY <1>1, <1>2 DEF PlaceOK, OnEvent
<1>4. /\ pc' \in [Threads -> Places] /\ pc'[t] = "exchange" /\ Stay(t) /\ call'[t] = call[t] /\ i'[t] = i[t]
      /\ obj(t)' = obj(t) /\ Waited(t)' = Waited(t)
  BY <1>1, <1>2, Goes
<1>0. PICK e : e = obj(t)
  OBVIOUS
<1>5. e \in ManualEvents /\ e \in Objects /\ ManualOK(e) /\ locked \in [ManualEvents -> BOOLEAN]
  BY <1>0, <1>2, <1>3, Types DEF EInv, ObjectOK, Typed
<1>6. locked' \in [ManualEvents -> BOOLEAN] /\ locked'[e] /\ \A p \in ManualEvents : p # e => locked'[p] = locked[p]
  BY <1>0, <1>1, <1>5
<1>7. Agree(e) /\ \A u \in Threads : ~Inside(u, e)
  BY <1>0, <1>1, <1>5 DEF ManualOK
<1>8. ObjectOK(e)'
  <2>1. \A u \in Threads : Inside(u, e)' => u = t
    BY <1>4, <1>7, OthersCalm DEF Calm
  <2>2. Agree(e)'
    BY <1>1, <1>7 DEF Agree
  <2>3. ManualOK(e)'
    BY <1>4, <1>6, <2>1, <2>2 DEF ManualOK
  <2> QED BY <1>5, <2>3, Types DEF ObjectOK
<1>9. Typed'
  BY <1>1, <1>2, <1>4, <1>6 DEF Typed, server
<1>10. PlaceOK(t)'
  BY <1>1, <1>2, <1>3, <1>4 DEF PlaceOK, OnSemaphore, OnMutex, OnEvent, InAny, InAll
<1>11. \A p \in Objects : p # e => Calm(t, p) /\ Same(p)
  <2>1. pc[t] \notin {"grab", "put back", "keep"} /\ pc'[t] \notin {"grab", "put back", "keep"}
    BY <1>1, <1>4
  <2>2. \A p \in Objects : p # e => Calm(t, p)
    BY <1>0, <1>4, <2>1, CalmBeside
  <2>3. \A p \in Objects : p # e => Same(p)
    BY <1>1, <1>6 DEF Same, server
  <2> QED BY <2>2, <2>3
<1> QED BY <1>1, <1>4, <1>8, <1>9, <1>10, <1>11, ObjectStep

\* The lock is given back, when they agree again.
LEMMA UnlockStep ==
  ASSUME EInv, NEW t \in Threads, Unlock(t)
  PROVE  EInv'
<1>1. /\ pc[t] = "unlock" /\ locked' = [locked EXCEPT ![obj(t)] = FALSE] /\ Goto(t, "done")
      /\ UNCHANGED <<fd, count, tid, signaled, server, call, i, polled, ret, held, role>>
  BY DEF Unlock, local
<1>2. Typed /\ PlaceOK(t) /\ i[t] \in DOMAIN call[t].objs /\ "done" \in Places
  BY <1>1, Here DEF Places
<1>3. obj(t) \in ManualEvents /\ obj(t) \in Events
  BY <1>1, <1>2 DEF PlaceOK, OnEvent
<1>4. /\ pc' \in [Threads -> Places] /\ pc'[t] = "done" /\ Stay(t) /\ call'[t] = call[t] /\ i'[t] = i[t]
      /\ obj(t)' = obj(t) /\ Waited(t)' = Waited(t)
  BY <1>1, <1>2, Goes
<1>0. PICK e : e = obj(t)
  OBVIOUS
<1>5. e \in ManualEvents /\ e \in Objects /\ ManualOK(e) /\ locked \in [ManualEvents -> BOOLEAN]
  BY <1>0, <1>2, <1>3, Types DEF EInv, ObjectOK, Typed
<1>6. locked' \in [ManualEvents -> BOOLEAN] /\ \A p \in ManualEvents : p # e => locked'[p] = locked[p]
  BY <1>0, <1>1, <1>5
<1>7. Inside(t, e) /\ Agree(e) /\ \A u \in Threads : Inside(u, e) => u = t
  <2>1. Inside(t, e)
    BY <1>0, <1>1 DEF Inside
  <2> QED BY <1>1, <1>5, <2>1 DEF ManualOK
<1>8. ObjectOK(e)'
  <2>1. \A u \in Threads : ~Inside(u, e)'
    <3>1. ~Inside(t, e)'
      BY <1>4 DEF Inside
    <3> QED BY <1>4, <1>7, <3>1, OthersCalm DEF Calm
  <2>2. Agree(e)'
    BY <1>1, <1>7 DEF Agree
  <2>3. ManualOK(e)'
    BY <2>1, <2>2 DEF ManualOK
  <2> QED BY <1>5, <2>3, Types DEF ObjectOK
<1>9. Typed'
  BY <1>1, <1>2, <1>4, <1>6 DEF Typed, server
<1>10. PlaceOK(t)'
  BY <1>1, <1>2, <1>4 DEF PlaceOK, OnSemaphore, OnMutex, OnEvent, InAny, InAll
<1>11. \A p \in Objects : p # e => Calm(t, p) /\ Same(p)
  <2>1. pc[t] \notin {"grab", "put back", "keep"} /\ pc'[t] \notin {"grab", "put back", "keep"}
    BY <1>1, <1>4
  <2>2. \A p \in Objects : p # e => Calm(t, p)
    BY <1>0, <1>4, <2>1, CalmBeside
  <2>3. \A p \in Objects : p # e => Same(p)
    BY <1>1, <1>6 DEF Same, server
  <2> QED BY <2>2, <2>3
<1> QED BY <1>1, <1>4, <1>8, <1>9, <1>10, <1>11, ObjectStep

\* The exchange of the one half.
LEMMA ExchangeStep ==
  ASSUME EInv, NEW t \in Threads, Set(t) \/ Reset(t)
  PROVE  EInv'
<1>1. /\ pc[t] = "exchange" /\ UNCHANGED <<fd, count, tid, locked, server, call, i, polled, ret, held, role>>
      /\ \/ call[t].op \in {"set", "server set"} /\ signaled' = [signaled EXCEPT ![obj(t)] = 1]
         \/ call[t].op = "reset" /\ signaled' = [signaled EXCEPT ![obj(t)] = 0]
  BY DEF Set, Reset, local
<1>2. Typed /\ PlaceOK(t) /\ i[t] \in DOMAIN call[t].objs
  BY <1>1, Here
<1>3. obj(t) \in Events /\ call[t].units = 1
  BY <1>1, <1>2 DEF PlaceOK, OnEvent
<1>4. PICK l \in Places :
        /\ Goto(t, l)
        /\ \/ l = "write" /\ call[t].op \in {"set", "server set"} /\ (obj(t) \in ManualEvents => signaled[obj(t)] = 0)
           \/ l = "drain" /\ call[t].op = "reset" /\ (obj(t) \in ManualEvents => signaled[obj(t)] = 1)
           \/ l = "unlock" /\ obj(t) \in ManualEvents /\ call[t].op \in {"set", "server set"} /\ signaled[obj(t)] # 0
           \/ l = "unlock" /\ obj(t) \in ManualEvents /\ call[t].op = "reset" /\ signaled[obj(t)] # 1
           \/ l = "done" /\ obj(t) \notin ManualEvents
  <2>1. "write" \in Places /\ "drain" \in Places /\ "unlock" \in Places /\ "done" \in Places
    BY DEF Places
  <2>2. CASE Set(t)
    <3>1. CASE signaled[obj(t)] = 0 \/ (obj(t) \in AutoEvents /\ call[t].op = "set")
      <4>1. Goto(t, "write") /\ call[t].op \in {"set", "server set"}
        BY <2>2, <3>1 DEF Set
      <4> QED BY <2>1, <3>1, <4>1, Types
    <3>2. CASE ~(signaled[obj(t)] = 0 \/ (obj(t) \in AutoEvents /\ call[t].op = "set"))
      <4>1. Goto(t, IF obj(t) \in ManualEvents THEN "unlock" ELSE "done") /\ call[t].op \in {"set", "server set"}
        BY <2>2, <3>2 DEF Set
      <4> QED BY <2>1, <3>2, <4>1
    <3> QED BY <3>1, <3>2
  <2>3. CASE Reset(t)
    <3>1. CASE signaled[obj(t)] = 1 \/ obj(t) \in AutoEvents
      <4>1. Goto(t, "drain") /\ call[t].op = "reset"
        BY <2>3, <3>1 DEF Reset
      <4> QED BY <2>1, <3>1, <4>1, Types
    <3>2. CASE ~(signaled[obj(t)] = 1 \/ obj(t) \in AutoEvents)
      <4>1. Goto(t, "unlock") /\ call[t].op = "reset" /\ obj(t) \in ManualEvents
        BY <1>3, <2>3, <3>2, Types DEF Reset
      <4> QED BY <2>1, <3>2, <4>1
    <3> QED BY <3>1, <3>2
  <2> QED BY <2>2, <2>3
<1>5. /\ pc' \in [Threads -> Places] /\ pc'[t] = l /\ Stay(t) /\ call'[t] = call[t] /\ i'[t] = i[t]
      /\ obj(t)' = obj(t) /\ Waited(t)' = Waited(t)
  BY <1>1, <1>4, Goes
<1>0. PICK e : e = obj(t)
  OBVIOUS
<1>6. e \in Events /\ e \in Objects /\ signaled \in [Events -> {0, 1}]
  BY <1>0, <1>2, <1>3, Types DEF Typed
<1>7. /\ signaled' \in [Events -> {0, 1}] /\ \A p \in Events : p # e => signaled'[p] = signaled[p]
      /\ signaled'[e] = IF call[t].op = "reset" THEN 0 ELSE 1
  BY <1>0, <1>1, <1>6
<1>8. ObjectOK(e)'
  <2>1. CASE e \in ManualEvents
    <3>1. Inside(t, e) /\ Inside(t, e)'
      BY <1>0, <1>1, <1>4, <1>5, <2>1 DEF Inside
    <3>2. ManualOK(e)
      BY <1>6, <2>1 DEF EInv, ObjectOK
    <3>3. Agree(e) /\ fd'[e] = fd[e] /\ locked'[e] = locked[e]
      BY <1>1, <3>1, <3>2 DEF ManualOK
    <3>4. /\ l = "unlock" => (signaled'[e] = 1 /\ fd'[e] = 1) \/ (signaled'[e] = 0 /\ fd'[e] = 0)
          /\ l = "write" => signaled'[e] = 1 /\ fd'[e] = 0
          /\ l = "drain" => signaled'[e] = 0 /\ fd'[e] = 1
          /\ l # "exchange"
      BY <1>0, <1>4, <1>7, <2>1, <3>3 DEF Agree
    <3>5. /\ pc'[t] \in {"exchange", "unlock"} => Agree(e)'
          /\ pc'[t] = "write" => signaled'[e] = 1 /\ fd'[e] = 0
          /\ pc'[t] = "drain" => signaled'[e] = 0 /\ fd'[e] = 1
      BY <1>5, <3>4 DEF Agree
    <3> QED BY <1>5, <2>1, <3>1, <3>3, <3>5, ManualMoves
  <2>2. CASE e \notin ManualEvents
    BY <1>6, <2>2, Types, AutoOK
  <2> QED BY <2>1, <2>2
<1>9. Typed'
  BY <1>1, <1>2, <1>5, <1>7 DEF Typed, server
<1>10. PlaceOK(t)'
  BY <1>1, <1>2, <1>3, <1>4, <1>5 DEF PlaceOK, OnSemaphore, OnMutex, OnEvent, InAny, InAll
<1>11. \A p \in Objects : p # e => Calm(t, p) /\ Same(p)
  <2>1. pc[t] \notin {"grab", "put back", "keep"} /\ pc'[t] \notin {"grab", "put back", "keep"}
    BY <1>1, <1>4, <1>5
  <2>2. \A p \in Objects : p # e => Calm(t, p)
    BY <1>0, <1>5, <2>1, CalmBeside
  <2>3. \A p \in Objects : p # e => Same(p)
    BY <1>1, <1>7, Types DEF Same, server
  <2> QED BY <2>2, <2>3
<1> QED BY <1>1, <1>5, <1>8, <1>9, <1>10, <1>11, ObjectStep

\* The read of the other half.
LEMMA DrainStep ==
  ASSUME EInv, NEW t \in Threads, Drain(t)
  PROVE  EInv'
<1>1. /\ pc[t] = "drain" /\ fd' = Read(obj(t)) /\ UNCHANGED <<shm, server, call, i, polled, ret, held, role>>
      /\ Goto(t, IF obj(t) \in ManualEvents /\ call[t].op = "reset" THEN "unlock" ELSE "done")
  BY DEF Drain, local
<1>2. Typed /\ PlaceOK(t) /\ i[t] \in DOMAIN call[t].objs
  BY <1>1, Here
<1>3. obj(t) \in Events /\ call[t].units = 1 /\ (obj(t) \in ManualEvents => call[t].op = "reset")
  BY <1>1, <1>2, Types DEF PlaceOK, OnEvent
<1>4. PICK l \in Places :
        /\ Goto(t, l)
        /\ \/ l = "unlock" /\ obj(t) \in ManualEvents
           \/ l = "done" /\ obj(t) \notin ManualEvents
  BY <1>1, <1>3 DEF Places
<1>5. /\ pc' \in [Threads -> Places] /\ pc'[t] = l /\ Stay(t) /\ call'[t] = call[t] /\ i'[t] = i[t]
      /\ obj(t)' = obj(t) /\ Waited(t)' = Waited(t)
  BY <1>1, <1>4, Goes
<1>0. PICK e : e = obj(t)
  OBVIOUS
<1>6. e \in Events /\ e \in Objects /\ e \notin Semaphores /\ fd \in [Objects -> Nat]
  BY <1>0, <1>2, <1>3, Types DEF Typed
<1>7. fd' \in [Objects -> Nat] /\ fd'[e] = 0 /\ \A p \in Objects : p # e => fd'[p] = fd[p]
  BY <1>0, <1>1, <1>6 DEF Read
<1>8. ObjectOK(e)'
  <2>1. CASE e \in ManualEvents
    <3>1. Inside(t, e) /\ Inside(t, e)' /\ pc'[t] = "unlock"
      BY <1>0, <1>1, <1>4, <1>5, <2>1 DEF Inside
    <3>2. ManualOK(e)
      BY <1>6, <2>1 DEF EInv, ObjectOK
    <3>3. signaled[e] = 0 /\ signaled'[e] = signaled[e] /\ locked'[e] = locked[e]
      BY <1>1, <3>1, <3>2 DEF ManualOK, shm
    <3>4. Agree(e)'
      BY <1>7, <3>3 DEF Agree
    <3> QED BY <1>5, <2>1, <3>1, <3>3, <3>4, ManualMoves
  <2>2. CASE e \notin ManualEvents
    BY <1>6, <2>2, Types, AutoOK
  <2> QED BY <2>1, <2>2
<1>9. Typed'
  BY <1>1, <1>2, <1>5, <1>7 DEF Typed, shm, server
<1>10. PlaceOK(t)'
  BY <1>2, <1>3, <1>4, <1>5 DEF PlaceOK, OnSemaphore, OnMutex, OnEvent, InAny, InAll
<1>11. \A p \in Objects : p # e => Calm(t, p) /\ Same(p)
  <2>1. pc[t] \notin {"grab", "put back", "keep"} /\ pc'[t] \notin {"grab", "put back", "keep"}
    BY <1>1, <1>4, <1>5
  <2>2. \A p \in Objects : p # e => Calm(t, p)
    BY <1>0, <1>5, <2>1, CalmBeside
  <2> QED BY <1>1, <1>7, <2>2, OthersSame
<1> QED BY <1>1, <1>5, <1>8, <1>9, <1>10, <1>11, ObjectStep

-----------------------------------------------------------------------------
(* The write, of any object.                                               *)

\* The write that ends a signalling call.
LEMMA WriteStep ==
  ASSUME EInv, NEW t \in Threads, Write(t)
  PROVE  EInv'
<1>1. /\ pc[t] = "write" /\ fd' = Plus(obj(t), call[t].units) /\ UNCHANGED <<shm, server, call, i, polled, ret, held, role>>
      /\ Goto(t, IF call[t].op = "pulse" THEN "drain" ELSE IF obj(t) \in ManualEvents THEN "unlock" ELSE "done")
  BY DEF Write, local
<1>2. Typed /\ PlaceOK(t) /\ i[t] \in DOMAIN call[t].objs /\ obj(t) \in Objects /\ call[t].units \in Nat
  BY <1>1, Here
<1>3. /\ obj(t) \in Semaphores => call[t].op = "release" /\ call[t].units <= SemMax
      /\ obj(t) \in Mutexes => call[t].units = 1
      /\ obj(t) \in Events => call[t].units = 1 /\ call[t].op \in {"set", "pulse", "server set"}
      /\ obj(t) \in ManualEvents => call[t].op \in {"set", "server set"} /\ call[t].units = 1
      /\ call[t].op = "pulse" => obj(t) \in AutoEvents
  BY <1>1, <1>2, Types DEF PlaceOK
<1>4. PICK l \in Places :
        /\ Goto(t, l)
        /\ \/ l = "drain" /\ call[t].op = "pulse" /\ obj(t) \in AutoEvents
           \/ l = "unlock" /\ obj(t) \in ManualEvents
           \/ l = "done" /\ obj(t) \notin ManualEvents
  <2>1. "drain" \in Places /\ "unlock" \in Places /\ "done" \in Places
    BY DEF Places
  <2> QED BY <1>1, <1>3, <2>1, Types
<1>5. /\ pc' \in [Threads -> Places] /\ pc'[t] = l /\ Stay(t) /\ call'[t] = call[t] /\ i'[t] = i[t]
      /\ obj(t)' = obj(t) /\ Waited(t)' = Waited(t)
  BY <1>1, <1>4, Goes
<1>0. PICK o : o = obj(t)
  OBVIOUS
<1>6. pc'[t] \in {"drain", "unlock", "done"} /\ pc[t] \notin {"grab", "put back", "keep"} /\ pc'[t] \notin {"grab", "put back", "keep"}
  BY <1>1, <1>4, <1>5
<1>7. \A p \in Objects : p # o => Calm(t, p)
  BY <1>0, <1>5, <1>6, CalmBeside
<1>8. ObjectOK(o)' /\ (\A p \in Objects : p # o => Same(p)) /\ fd' \in [Objects -> Nat]
  <2>1. CASE o \notin ManualEvents
    <3>1. o \in Objects /\ o \notin ManualEvents /\ fd' = Plus(o, call[t].units) /\ UNCHANGED <<shm, server, held>> /\ Stay(t)
      BY <1>0, <1>1, <1>2, <1>5, <2>1
    <3>2. ~Taken(t, o) /\ Writing(t, o) /\ ~Disowning(t, o)
      BY <1>0, <1>1 DEF Taken, Writing, Disowning
    <3>3. ~Taken(t, o)' /\ ~Writing(t, o)' /\ ~Disowning(t, o)'
      BY <1>6 DEF Taken, Writing, Disowning
    <3>4. PICK n : n = call[t].units
      OBVIOUS
    <3>5. Gives(t, o, n)
      BY <1>0, <1>2, <1>3, <3>2, <3>3, <3>4 DEF Gives
    <3>6. fd' = Plus(o, n)
      BY <3>1, <3>4
    <3> QED BY <3>1, <3>5, <3>6, GiveOK
  <2>2. CASE o \in ManualEvents
    <3>1. Inside(t, o) /\ Inside(t, o)' /\ pc'[t] = "unlock"
      BY <1>0, <1>1, <1>4, <1>5, <2>2, Types DEF Inside
    <3>2. ManualOK(o) /\ fd \in [Objects -> Nat] /\ o \in Objects /\ o \notin AutoEvents
      BY <1>0, <1>2, <2>2, Types DEF EInv, ObjectOK, Typed
    <3>3. signaled[o] = 1 /\ fd[o] = 0 /\ signaled'[o] = signaled[o] /\ locked'[o] = locked[o]
      BY <1>1, <3>1, <3>2 DEF ManualOK, shm
    <3>4. fd' = [fd EXCEPT ![o] = fd[o] + 1]
      BY <1>0, <1>1, <1>3, <2>2, <3>2 DEF Plus
    <3>5. fd' \in [Objects -> Nat] /\ fd'[o] = 1 /\ \A p \in Objects : p # o => fd'[p] = fd[p]
      BY <3>2, <3>3, <3>4
    <3>6. Agree(o)'
      BY <3>3, <3>5 DEF Agree
    <3>7. ObjectOK(o)'
      BY <1>5, <2>2, <3>1, <3>3, <3>6, ManualMoves
    <3> QED BY <1>1, <3>5, <3>7, OthersSame
  <2> QED BY <2>1, <2>2
<1>9. Typed'
  BY <1>1, <1>2, <1>5, <1>8 DEF Typed, shm, server
<1>10. PlaceOK(t)'
  BY <1>1, <1>2, <1>3, <1>4, <1>5, Types DEF PlaceOK, OnSemaphore, OnMutex, OnEvent, InAny, InAll
<1> QED BY <1>1, <1>5, <1>7, <1>8, <1>9, <1>10, ObjectStep

-----------------------------------------------------------------------------
(* The release of a semaphore.                                             *)

\* A release adds to the count first; its write is due.
LEMMA ReleaseStep ==
  ASSUME EInv, SumsFit, NEW t \in Threads, Release(t)
  PROVE  EInv'
<1>1. pc[t] = "release" /\ UNCHANGED <<fd, tid, signaled, locked, server, call, i, polled, held, role>>
  BY DEF Release
<1>2. /\ Typed /\ PlaceOK(t) /\ i[t] \in DOMAIN call[t].objs /\ obj(t) \in Semaphores /\ obj(t) \in Objects
      /\ call[t].op = "release" /\ call[t].units \in ReleaseCounts /\ call[t].units \in Nat
  <2>1. Typed /\ PlaceOK(t) /\ i[t] \in DOMAIN call[t].objs /\ obj(t) \in Objects /\ call[t].units \in Nat
    BY <1>1, Here
  <2> QED BY <1>1, <2>1 DEF PlaceOK, OnSemaphore
<1>0. PICK s : s = obj(t)
  OBVIOUS
<1>00. PICK n : n = call[t].units
  OBVIOUS
<1>3. SemOK(s) /\ count[s] \in Nat /\ s \in Semaphores /\ s \in Objects /\ n \in Nat /\ n \in ReleaseCounts
  BY <1>0, <1>00, <1>2 DEF EInv, ObjectOK, Typed
<1>4. (count[s] + n) % UIntSize = count[s] + n
  <2>1. count[s] \in Nat /\ n \in Nat /\ SemMax \in Nat /\ UIntSize \in Nat /\ count[s] <= SemMax /\ SemMax + n < UIntSize
    BY <1>3, EsyncAssumption DEF SemOK, SumsFit
  <2>2. PICK x \in Nat : x = count[s] + n
    BY <2>1
  <2>3. x < UIntSize /\ UIntSize \in Nat /\ UIntSize > 0
    BY ONLY <2>1, <2>2
  <2>4. x % UIntSize = x
    BY ONLY x \in Nat, <2>3
  <2> QED BY <2>2, <2>4
<1>5. CASE count[s] + n > SemMax
  <2>1. Return(t, "limit exceeded") /\ UNCHANGED count
    BY <1>0, <1>00, <1>4, <1>5 DEF Release
  <2>2. "limit exceeded" \in Statuses /\ pc[t] \notin Busy \cup {"idle", "dead", "done"}
    BY <1>1 DEF Statuses, Busy
  <2> QED BY <1>1, <2>1, <2>2, ReturnStep DEF shm
<1>6. CASE ~(count[s] + n > SemMax)
  <2>1. count' = [count EXCEPT ![s] = count[s] + n] /\ Goto(t, "write") /\ UNCHANGED ret
    BY <1>0, <1>00, <1>4, <1>6 DEF Release
  <2>2. "write" \in Places
    BY DEF Places
  <2>3. /\ pc' \in [Threads -> Places] /\ pc'[t] = "write" /\ Stay(t) /\ call'[t] = call[t] /\ i'[t] = i[t]
        /\ obj(t)' = obj(t) /\ Waited(t)' = Waited(t)
    BY <1>1, <2>1, <2>2, Goes
  <2>4. n <= SemMax
    <3>1. SemMax \in Nat
      BY Types
    <3> QED BY ONLY <1>3, <1>6, <3>1
  <2>5. count \in [Semaphores \cup Mutexes -> Nat] /\ count[s] + n \in Nat
    BY <1>2, <1>3 DEF Typed
  <2>6. /\ count' \in [Semaphores \cup Mutexes -> Nat] /\ count'[s] = count[s] + n
        /\ \A p : p # s /\ p \in Semaphores \cup Mutexes => count'[p] = count[p]
    BY <1>3, <2>1, <2>5
  <2>7. ~Taken(t, s) /\ ~Writing(t, s) /\ ~Taken(t, s)' /\ Writing(t, s)'
    BY <1>0, <1>1, <2>3 DEF Taken, Writing
  <2>8. ObjectOK(s)'
    <3>1. TakenNo(s) \in Nat /\ TakenNo(s)' = TakenNo(s)
      BY <2>3, <2>7, TakenSum
    <3>2. call'[t].units = n /\ n \in 0 .. SemMax
      BY <1>00, <1>3, <2>3, <2>4, Types
    <3>3. DueNo(s) \in Nat /\ DueNo(s)' = DueNo(s) + n
      BY <2>3, <2>7, <3>2, DueSum
    <3>4. count[s] = fd[s] + TakenNo(s) + DueNo(s) /\ fd'[s] = fd[s] /\ fd[s] \in Nat
      BY <1>1, <1>2, <1>3, SemSum DEF Typed
    <3>5. count'[s] <= SemMax /\ count'[s] = fd'[s] + TakenNo(s)' + DueNo(s)'
      <4>1. SemMax \in Nat
        BY Types
      <4> QED BY ONLY <1>3, <1>6, <2>6, <3>1, <3>3, <3>4, <4>1
    <3>6. SemOK(s)'
      BY <3>5 DEF SemOK, TakenNo, DueNo
    <3> QED BY <1>3, <3>6, Types DEF ObjectOK
  <2>9. Typed'
    BY <1>1, <1>2, <2>1, <2>3, <2>6 DEF Typed, server
  <2>10. PlaceOK(t)'
    BY <1>0, <1>00, <1>2, <2>3, <2>4, Types DEF PlaceOK, OnSemaphore, OnMutex, OnEvent, InAny, InAll
  <2>11. \A p \in Objects : p # s => Calm(t, p) /\ Same(p)
    <3>1. pc[t] \notin {"grab", "put back", "keep"} /\ pc'[t] \notin {"grab", "put back", "keep"}
      BY <1>1, <2>3
    <3>2. \A p \in Objects : p # s => Calm(t, p)
      BY <1>0, <2>3, <3>1, CalmBeside
    <3>3. \A p \in Objects : p # s => Same(p)
      BY <1>1, <2>6 DEF Same, server
    <3> QED BY <3>2, <3>3
  <2> QED BY <1>1, <2>3, <2>8, <2>9, <2>10, <2>11, ObjectStep
<1> QED BY <1>5, <1>6

-----------------------------------------------------------------------------
(* A mutex's owner.                                                        *)

\* Who is told that it owns a mutex has its unit, and nobody else has.
LEMMA Owner1 ==
  ASSUME EInv, NEW t \in Threads, NEW m \in Mutexes, tid[m] = t, pc[t] # "disown"
  PROVE  /\ UnitOK(m) /\ WordsOK(m) /\ held[t][m] \in Nat /\ held[t][m] > 0 /\ count[m] = held[t][m] /\ Has(t, m)
         /\ fd[m] = 0 /\ m \notin waking /\ \A u \in Threads : u # t => ~Has(u, m)
         /\ ~Taken(t, m) /\ ~Writing(t, m) /\ ~Disowning(t, m)
<1>1. UnitOK(m) /\ WordsOK(m) /\ Typed
  BY Types DEF EInv, ObjectOK
<1>2. held[t][m] > 0 /\ ~Disowning(t, m) /\ held[t][m] \in Nat
  BY <1>1 DEF WordsOK, Disowning, Typed
<1>3. count[m] = held[t][m] /\ ~Taken(t, m) /\ ~Writing(t, m)
  BY <1>1, <1>2 DEF WordsOK
<1>4. Has(t, m)
  BY <1>2 DEF Has
<1>5. fd[m] = 0 /\ m \notin waking /\ \A u \in Threads : u # t => ~Has(u, m)
  BY <1>1, <1>4 DEF UnitOK
<1> QED BY <1>1, <1>2, <1>3, <1>4, <1>5

\* It counts its ownership up and down.
LEMMA Counts ==
  ASSUME EInv, NEW t \in Threads, Stay(t), NEW m \in Mutexes, tid[m] = t, pc[t] # "disown", NEW n \in Nat, n <= MaxNesting,
         count' = [count EXCEPT ![m] = n], held' = [held EXCEPT ![t][m] = n],
         UNCHANGED <<fd, tid, signaled, locked, server>>, ~Taken(t, m)', ~Writing(t, m)', Disowning(t, m)' <=> n = 0
  PROVE  /\ ObjectOK(m)' /\ \A p \in Objects : p # m => Same(p)
         /\ count' \in [Semaphores \cup Mutexes -> Nat] /\ held' \in [Threads -> [Mutexes -> Nat]]
<1>1. /\ UnitOK(m) /\ WordsOK(m) /\ Has(t, m) /\ fd[m] = 0 /\ m \notin waking
      /\ \A u \in Threads : u # t => ~Has(u, m)
  BY Owner1
<1>2. /\ count \in [Semaphores \cup Mutexes -> Nat] /\ held \in [Threads -> [Mutexes -> Nat]]
      /\ waking' = waking /\ tid' = tid /\ fd' = fd
  BY DEF EInv, Typed, server
<1>3. /\ count' \in [Semaphores \cup Mutexes -> Nat] /\ count'[m] = n
      /\ \A p : p # m /\ p \in Semaphores \cup Mutexes => count'[p] = count[p]
  BY <1>2
<1>4. held' \in [Threads -> [Mutexes -> Nat]] /\ held'[t][m] = n
  BY <1>2
<1>5. \A p \in Objects : p # m => Same(p)
  BY <1>2, <1>3 DEF Same
<1>6. \A u \in Threads : u # t => ~Has(u, m)' /\ held'[u][m] = 0
  <2>1. \A u \in Threads : u # t => ~Has(u, m)'
    BY <1>1, OthersCalm
  <2>2. \A u \in Threads : held'[u][m] \in Nat
    BY <1>4
  <2>3. \A u \in Threads : ~Has(u, m)' => ~(held'[u][m] > 0)
    BY DEF Has
  <2> QED BY <2>1, <2>2, <2>3
<1>7. n = 0 \/ n > 0
  OBVIOUS
<1>8. Has(t, m)'
  BY <1>4, <1>7 DEF Has
<1>9. UnitOK(m)'
  BY <1>1, <1>2, <1>6, <1>8 DEF UnitOK
<1>10. WordsOK(m)'
  <2>1. \A u \in Threads : u # t => ~Taken(u, m)' /\ ~Writing(u, m)' /\ ~Disowning(u, m)' /\ held'[u][m] = 0
    BY <1>6 DEF Has
  <2>2. tid'[m] = t /\ ~(0 > 0)
    BY <1>2
  <2>3. /\ \A u \in Threads : tid'[m] = u => held'[u][m] > 0 \/ Disowning(u, m)'
        /\ \A u \in Threads : held'[u][m] > 0 => tid'[m] = u /\ count'[m] = held'[u][m]
    BY <1>3, <1>4, <1>7, <2>1, <2>2
  <2>4. /\ (\A u \in Threads : held'[u][m] = 0) => count'[m] = 0
        /\ count'[m] <= MaxNesting
    BY <1>3, <1>4
  <2>5. /\ \A u \in Threads : Disowning(u, m)' => tid'[m] = u /\ held'[u][m] = 0
        /\ \A u \in Threads : Taken(u, m)' \/ Writing(u, m)' => tid'[m] \notin Threads
    BY <1>4, <2>1, <2>2
  <2> QED BY <2>3, <2>4, <2>5 DEF WordsOK
<1> QED BY <1>3, <1>4, <1>5, <1>9, <1>10, Types DEF ObjectOK

\* The owner releases it once, or enters it once more.
LEMMA NestingStep ==
  ASSUME EInv, NEW t \in Threads, ReleaseMutex(t) \/ TryOwned(t)
  PROVE  EInv'
<1>1. /\ UNCHANGED <<fd, tid, signaled, locked, server, call, i, polled, role>>
      /\ pc[t] \in {"release mutex", "try"} /\ tid[obj(t)] = t /\ pc[t] # "disown"
  BY DEF ReleaseMutex, TryOwned, Owns
<1>2. /\ Typed /\ PlaceOK(t) /\ i[t] \in DOMAIN call[t].objs /\ obj(t) \in Objects /\ obj(t) \in Waited(t)
      /\ "done" \in Places /\ "disown" \in Places
  BY <1>1, Here DEF Places
<1>3. obj(t) \in Mutexes
  <2>1. CASE ReleaseMutex(t)
    BY <1>2, <2>1 DEF ReleaseMutex, PlaceOK, OnMutex
  <2>2. CASE TryOwned(t)
    BY <2>2 DEF TryOwned, Owns
  <2> QED BY <2>1, <2>2
<1>0. PICK m : m = obj(t)
  OBVIOUS
<1>4. m \in Mutexes /\ m \in Objects /\ tid[m] = t
  BY <1>0, <1>1, <1>3, Types
<1>5. /\ WordsOK(m) /\ held[t][m] \in Nat /\ held[t][m] > 0 /\ count[m] = held[t][m] /\ MaxNesting \in Nat
      /\ count[m] <= MaxNesting
  BY <1>1, <1>4, Owner1, Types DEF WordsOK
<1>6. PICK n \in Nat :
        /\ n <= MaxNesting /\ count' = [count EXCEPT ![m] = n] /\ held' = [held EXCEPT ![t][m] = n]
        /\ \/ n = 0 /\ Goto(t, "disown") /\ ret' = ret /\ call[t].op = "release mutex" /\ call[t].units = 1
           \/ n # 0 /\ Goto(t, "done") /\ ret' \in [Threads -> Statuses]
  <2>1. CASE ReleaseMutex(t)
    <3>1. /\ count' = [count EXCEPT ![m] = @ - 1] /\ held' = [held EXCEPT ![t][m] = @ - 1]
          /\ Goto(t, IF count[m] = 1 THEN "disown" ELSE "done") /\ UNCHANGED ret /\ pc[t] = "release mutex"
      BY <1>0, <2>1 DEF ReleaseMutex
    <3>2. PICK n \in Nat : n = held[t][m] - 1
      BY ONLY <1>5
    <3>3. n <= MaxNesting /\ (n = 0 <=> count[m] = 1) /\ count[m] - 1 = n /\ held[t][m] - 1 = n
      BY ONLY n \in Nat, <1>5, <3>2
    <3>4. count' = [count EXCEPT ![m] = n] /\ held' = [held EXCEPT ![t][m] = n]
      <4>1. count' = [count EXCEPT ![m] = count[m] - 1] /\ held' = [held EXCEPT ![t][m] = held[t][m] - 1]
        BY <3>1
      <4> QED BY ONLY <3>3, <4>1
    <3>5. call[t].op = "release mutex" /\ call[t].units = 1
      BY <1>2, <3>1 DEF PlaceOK, OnMutex
    <3>6. n = 0 => Goto(t, "disown")
      BY <3>1, <3>3
    <3>7. n # 0 => Goto(t, "done")
      BY <3>1, <3>3
    <3>8. ret' = ret /\ ret' \in [Threads -> Statuses]
      BY <1>2, <3>1 DEF Typed
    <3> WITNESS n \in Nat
    <3> QED BY <3>3, <3>4, <3>5, <3>6, <3>7, <3>8
  <2>2. CASE TryOwned(t)
    <3>1. /\ count' = [count EXCEPT ![m] = @ + 1] /\ held' = [held EXCEPT ![t][m] = @ + 1]
          /\ Goto(t, "done") /\ ret' = [ret EXCEPT ![t] = "signaled"] /\ pc[t] = "try"
      BY <1>0, <2>2 DEF TryOwned, Return
    <3>2. PICK n \in Nat : n = held[t][m] + 1
      BY ONLY <1>5
    <3>3. held[t][m] < MaxNesting
      BY <1>0, <1>2, <1>4, <3>1 DEF PlaceOK, InAny
    <3>4. n <= MaxNesting /\ n # 0 /\ count[m] + 1 = n /\ held[t][m] + 1 = n
      BY ONLY n \in Nat, <1>5, <3>2, <3>3
    <3>5. count' = [count EXCEPT ![m] = n] /\ held' = [held EXCEPT ![t][m] = n]
      <4>1. count' = [count EXCEPT ![m] = count[m] + 1] /\ held' = [held EXCEPT ![t][m] = held[t][m] + 1]
        BY <3>1
      <4> QED BY ONLY <3>4, <4>1
    <3>6. ret' \in [Threads -> Statuses]
      BY <1>2, <3>1 DEF Typed, Statuses
    <3> WITNESS n \in Nat
    <3> QED BY <3>1, <3>4, <3>5, <3>6
  <2> QED BY <2>1, <2>2
<1>7. \A u \in Threads \ {t} : held'[u] = held[u]
  BY <1>2, <1>6 DEF Typed
<1>8. PICK l \in {"disown", "done"} : Goto(t, l) /\ (n = 0 <=> l = "disown")
  BY <1>6
<1>9. /\ pc' \in [Threads -> Places] /\ pc'[t] = l /\ Stay(t) /\ call'[t] = call[t] /\ i'[t] = i[t]
      /\ obj(t)' = obj(t) /\ Waited(t)' = Waited(t)
  BY <1>1, <1>2, <1>7, <1>8, Goes
<1>10. ~Taken(t, m)' /\ ~Writing(t, m)' /\ (Disowning(t, m)' <=> n = 0)
  BY <1>0, <1>8, <1>9 DEF Taken, Writing, Disowning
<1>11. /\ ObjectOK(m)' /\ \A p \in Objects : p # m => Same(p)
       /\ count' \in [Semaphores \cup Mutexes -> Nat] /\ held' \in [Threads -> [Mutexes -> Nat]]
  BY <1>1, <1>4, <1>6, <1>9, <1>10, Counts
<1>12. ret' \in [Threads -> Statuses]
  BY <1>2, <1>6 DEF Typed
<1>13. Typed'
  BY <1>1, <1>2, <1>9, <1>11, <1>12 DEF Typed, server
<1>14. PlaceOK(t)'
  <2>1. l = "disown" => call[t].op = "release mutex" /\ call[t].units = 1
    BY <1>6, <1>8
  <2> QED BY <1>2, <1>3, <1>8, <1>9, <2>1 DEF PlaceOK, OnSemaphore, OnMutex, OnEvent, InAny, InAll
<1>15. \A p \in Objects : p # m => Calm(t, p)
  <2>1. pc[t] \notin {"grab", "put back", "keep"} /\ pc'[t] \notin {"grab", "put back", "keep"}
    BY <1>1, <1>8, <1>9
  <2> QED BY <1>0, <1>9, <2>1, CalmBeside
<1> QED BY <1>1, <1>9, <1>11, <1>13, <1>14, <1>15, ObjectStep

\* It is no longer the owner, and has still to write.
LEMMA DisownStep ==
  ASSUME EInv, NEW t \in Threads, Disown(t)
  PROVE  EInv'
<1>1. /\ pc[t] = "disown" /\ tid' = [tid EXCEPT ![obj(t)] = 0] /\ Goto(t, "write")
      /\ UNCHANGED <<fd, count, signaled, locked, server, call, i, polled, ret, held, role>>
  BY DEF Disown, local
<1>2. /\ Typed /\ PlaceOK(t) /\ i[t] \in DOMAIN call[t].objs /\ obj(t) \in Objects /\ "write" \in Places
  BY <1>1, Here DEF Places
<1>3. obj(t) \in Mutexes /\ call[t].op = "release mutex" /\ call[t].units = 1
  BY <1>1, <1>2 DEF PlaceOK, OnMutex
<1>4. /\ pc' \in [Threads -> Places] /\ pc'[t] = "write" /\ Stay(t) /\ call'[t] = call[t] /\ i'[t] = i[t]
      /\ obj(t)' = obj(t) /\ Waited(t)' = Waited(t)
  BY <1>1, <1>2, Goes
<1>0. PICK m : m = obj(t)
  OBVIOUS
<1>5. m \in Mutexes /\ m \in Objects /\ UnitOK(m) /\ WordsOK(m) /\ tid \in [Mutexes -> Threads \cup {0, Abandoned}]
  BY <1>0, <1>2, <1>3, Types DEF EInv, ObjectOK, Typed
<1>6. tid' \in [Mutexes -> Threads \cup {0, Abandoned}] /\ tid'[m] = 0 /\ \A p \in Mutexes : p # m => tid'[p] = tid[p]
  BY <1>0, <1>1, <1>5
<1>7. Disowning(t, m) /\ Has(t, m) /\ tid[m] = t /\ held[t][m] = 0
  <2>1. Disowning(t, m)
    BY <1>0, <1>1 DEF Disowning
  <2> QED BY <1>5, <2>1 DEF Has, WordsOK
<1>8. fd[m] = 0 /\ m \notin waking /\ \A u \in Threads : u # t => ~Has(u, m) /\ ~Has(u, m)'
  <2>1. fd[m] = 0 /\ m \notin waking /\ \A u \in Threads : u # t => ~Has(u, m)
    BY <1>5, <1>7 DEF UnitOK
  <2> QED BY <1>4, <2>1, OthersCalm
<1>9. Writing(t, m)' /\ ~Taken(t, m)' /\ ~Disowning(t, m)' /\ Has(t, m)'
  BY <1>0, <1>4 DEF Writing, Taken, Disowning, Has
<1>10. fd' = fd /\ waking' = waking /\ held' = held /\ count' = count
  BY <1>1 DEF server
<1>11. UnitOK(m)'
  BY <1>8, <1>9, <1>10 DEF UnitOK
<1>12. \A u \in Threads : held'[u][m] = 0
  <2>1. \A u \in Threads : held[u][m] \in Nat
    BY <1>2, <1>5 DEF Typed
  <2>2. \A u \in Threads : u # t => ~(held[u][m] > 0)
    BY <1>8 DEF Has
  <2> QED BY <1>7, <1>10, <2>1, <2>2
<1>13. WordsOK(m)'
  <2>1. count'[m] = 0 /\ 0 <= MaxNesting
    <3>1. count[m] = 0
      BY <1>5, <1>10, <1>12 DEF WordsOK
    <3> QED BY <1>10, <3>1, Types
  <2>2. \A u \in Threads : ~Disowning(u, m)'
    BY <1>8, <1>9 DEF Has
  <2>3. tid'[m] \notin Threads /\ ~(0 > 0)
    BY <1>6, Types
  <2> QED BY <1>12, <2>1, <2>2, <2>3 DEF WordsOK
<1>14. ObjectOK(m)'
  BY <1>5, <1>11, <1>13, Types DEF ObjectOK
<1>15. Typed'
  BY <1>1, <1>2, <1>4, <1>6 DEF Typed, server
<1>16. PlaceOK(t)'
  BY <1>2, <1>3, <1>4 DEF PlaceOK, OnSemaphore, OnMutex, OnEvent, InAny, InAll
<1>17. \A p \in Objects : p # m => Calm(t, p) /\ Same(p)
  <2>1. pc[t] \notin {"grab", "put back", "keep"} /\ pc'[t] \notin {"grab", "put back", "keep"}
    BY <1>1, <1>4
  <2>2. \A p \in Objects : p # m => Calm(t, p)
    BY <1>0, <1>4, <2>1, CalmBeside
  <2>3. \A p \in Objects : p # m => Same(p)
    BY <1>1, <1>6 DEF Same, server
  <2> QED BY <2>2, <2>3
<1> QED BY <1>1, <1>4, <1>14, <1>15, <1>16, <1>17, ObjectStep

-----------------------------------------------------------------------------
(* The server.                                                             *)

\* A thread dies, in no call.
LEMMA ExitStep ==
  ASSUME EInv, NEW t \in Threads, Exit(t)
  PROVE  EInv'
<1>1. /\ pc[t] = "idle" /\ Goto(t, "dead") /\ victim' = t /\ todo' = Mutexes
      /\ UNCHANGED <<fd, shm, waking, call, i, polled, ret, held, role>>
  BY DEF Exit, local
<1>2. Typed /\ PlaceOK(t) /\ ServerOK /\ "dead" \in Places
  BY DEF EInv, Places
<1>3. pc' \in [Threads -> Places] /\ pc'[t] = "dead" /\ Stay(t) /\ call'[t] = call[t] /\ i'[t] = i[t]
  BY <1>1, <1>2, Goes
<1>4. Typed'
  BY <1>1, <1>2, <1>3 DEF Typed, shm
<1>5. \A u \in Threads : PlaceOK(u)'
  <2>1. PlaceOK(t)'
    BY <1>1, <1>2, <1>3 DEF PlaceOK, OnSemaphore, OnMutex, OnEvent, InAny, InAll
  <2> QED BY <1>3, <2>1, OthersCalm DEF EInv
<1>6. ServerOK'
  BY <1>1, <1>2, <1>3 DEF ServerOK
<1>7. \A o \in Objects : ObjectOK(o)'
  <2>1. \A o \in Objects : Calm(t, o)
    BY <1>1, <1>3, CalmOut DEF Busy
  <2>2. \A o : Same(o)
    BY <1>1 DEF Same, shm
  <2> QED BY <1>3, <2>1, <2>2, ObjectKept DEF EInv
<1> QED BY <1>4, <1>5, <1>6, <1>7 DEF EInv

\* What a thread has to do with an object is the same while no thread moves.
LEMMA Still ==
  ASSUME UNCHANGED <<pc, call, i>>, NEW o
  PROVE  /\ \A u \in Threads : /\ Taken(u, o)' <=> Taken(u, o)
                               /\ Writing(u, o)' <=> Writing(u, o)
                               /\ Disowning(u, o)' <=> Disowning(u, o)
                               /\ Inside(u, o)' <=> Inside(u, o)
         /\ TakenNo(o)' = TakenNo(o) /\ DueNo(o)' = DueNo(o)
<1>1. \A u \in Threads : obj(u)' = obj(u) /\ Waited(u)' = Waited(u)
  BY DEF obj, Waited
<1>2. \A u \in Threads : /\ Taken(u, o)' <=> Taken(u, o)
                         /\ Writing(u, o)' <=> Writing(u, o)
                         /\ Disowning(u, o)' <=> Disowning(u, o)
                         /\ Inside(u, o)' <=> Inside(u, o)
  BY <1>1 DEF Taken, Writing, Disowning, Inside
<1>3. {u \in Threads : Taken(u, o)}' = {u \in Threads : Taken(u, o)}
  BY <1>2
<1>4. Due(o)' = Due(o)
  BY <1>2 DEF Due
<1> QED BY <1>2, <1>3, <1>4 DEF TakenNo, DueNo

\* And so is its place.
LEMMA PlaceKept ==
  ASSUME NEW u \in Threads, PlaceOK(u), UNCHANGED <<pc, call, i>>, held'[u] = held[u]
  PROVE  PlaceOK(u)'
<1>1. pc'[u] = pc[u] /\ call'[u] = call[u] /\ i'[u] = i[u]
  OBVIOUS
<1>2. obj(u)' = obj(u) /\ Waited(u)' = Waited(u)
  BY <1>1 DEF obj, Waited
<1> QED BY <1>1, <1>2 DEF PlaceOK

\* So is an object whose words and counter stay.
LEMMA StillKept ==
  ASSUME UNCHANGED <<pc, call, i>>, NEW o \in Objects, ObjectOK(o), Same(o)
  PROVE  ObjectOK(o)'
<1>1. /\ \A u \in Threads : /\ Taken(u, o)' <=> Taken(u, o)
                            /\ Writing(u, o)' <=> Writing(u, o)
                            /\ Disowning(u, o)' <=> Disowning(u, o)
                            /\ Inside(u, o)' <=> Inside(u, o)
      /\ TakenNo(o)' = TakenNo(o) /\ DueNo(o)' = DueNo(o)
  BY Still
<1>2. ASSUME o \in Semaphores
      PROVE  SemOK(o)'
  <2>1. SemOK(o) /\ fd'[o] = fd[o] /\ count'[o] = count[o]
    BY <1>2 DEF ObjectOK, Same
  <2> QED BY <1>1, <2>1 DEF SemOK, TakenNo, DueNo
<1>3. ASSUME o \in Mutexes
      PROVE  UnitOK(o)' /\ WordsOK(o)'
  <2>1. /\ UnitOK(o) /\ WordsOK(o) /\ fd'[o] = fd[o] /\ (o \in waking' <=> o \in waking)
        /\ count'[o] = count[o] /\ tid'[o] = tid[o] /\ \A u \in Threads : held'[u][o] = held[u][o]
    BY <1>3 DEF ObjectOK, Same
  <2>2. \A u \in Threads : Has(u, o)' <=> Has(u, o)
    BY <1>1, <2>1 DEF Has
  <2>3. UnitOK(o)'
    BY <2>1, <2>2 DEF UnitOK
  <2>4. WordsOK(o)'
    BY <1>1, <2>1 DEF WordsOK
  <2> QED BY <2>3, <2>4
<1>4. ASSUME o \in ManualEvents
      PROVE  ManualOK(o)'
  <2>1. ManualOK(o) /\ fd'[o] = fd[o] /\ signaled'[o] = signaled[o] /\ locked'[o] = locked[o] /\ pc' = pc
    BY <1>4, Types DEF ObjectOK, Same
  <2>2. Agree(o)' <=> Agree(o)
    BY <2>1 DEF Agree
  <2> QED BY <1>1, <2>1, <2>2 DEF ManualOK
<1> QED BY <1>2, <1>3, <1>4 DEF ObjectOK

\* A mutex of the dead thread has been marked, and is to be written to.
LEMMA Marked ==
  ASSUME EInv, victim # 0, NEW m \in Mutexes, tid[m] = victim, UNCHANGED <<fd, pc, call, i>>,
         tid' = [tid EXCEPT ![m] = Abandoned], count' = [count EXCEPT ![m] = 0],
         held' = [held EXCEPT ![victim][m] = 0], waking' = {m}
  PROVE  ObjectOK(m)'
<1>1. Typed /\ victim \in Threads /\ pc[victim] = "dead"
  BY DEF EInv, Typed, ServerOK
<1>2. /\ UnitOK(m) /\ WordsOK(m) /\ fd[m] = 0 /\ m \notin waking /\ \A u \in Threads : u # victim => ~Has(u, m)
  BY <1>1, Owner1
<1>3. /\ tid \in [Mutexes -> Threads \cup {0, Abandoned}] /\ count \in [Semaphores \cup Mutexes -> Nat]
      /\ held \in [Threads -> [Mutexes -> Nat]]
  BY <1>1 DEF Typed
<1>4. tid'[m] = Abandoned /\ count'[m] = 0 /\ held'[victim][m] = 0 /\ \A u \in Threads : u # victim => held'[u] = held[u]
  BY <1>1, <1>3
<1>5. \A u \in Threads : held'[u][m] = 0
  <2>1. \A u \in Threads : u # victim => ~(held[u][m] > 0) /\ held[u][m] \in Nat
    BY <1>2, <1>3 DEF Has
  <2>2. \A u \in Threads : u # victim => held[u][m] = 0
    BY <2>1
  <2> QED BY <1>4, <2>2
<1>6. \A u \in Threads : ~Taken(u, m)' /\ ~Writing(u, m)' /\ ~Disowning(u, m)'
  <2>1. \A u \in Threads : ~Taken(u, m) /\ ~Writing(u, m) /\ ~Disowning(u, m)
    <3>1. ~Taken(victim, m) /\ ~Writing(victim, m) /\ ~Disowning(victim, m)
      BY <1>1 DEF Taken, Writing, Disowning
    <3> QED BY <1>2, <3>1 DEF Has
  <2> QED BY <2>1, Still
<1>7. \A u \in Threads : ~Has(u, m)'
  <2>1. ~(0 > 0)
    OBVIOUS
  <2> QED BY <1>5, <1>6, <2>1 DEF Has
<1>8. UnitOK(m)'
  BY <1>2, <1>7 DEF UnitOK
<1>9. WordsOK(m)'
  <2>1. tid'[m] \notin Threads /\ ~(0 > 0) /\ 0 <= MaxNesting
    BY <1>4, Types
  <2> QED BY <1>4, <1>5, <1>6, <2>1 DEF WordsOK
<1> QED BY <1>8, <1>9, Types DEF ObjectOK

\* The server marks a mutex of its victim as abandoned.
LEMMA AbandonStep ==
  ASSUME EInv, Abandon
  PROVE  EInv'
<1>1. PICK m \in todo :
        /\ victim # 0 /\ waking = {} /\ todo' = todo \ {m}
        /\ IF tid[m] = victim
           THEN /\ tid' = [tid EXCEPT ![m] = Abandoned] /\ count' = [count EXCEPT ![m] = 0]
                /\ held' = [held EXCEPT ![victim][m] = 0] /\ waking' = {m}
           ELSE UNCHANGED <<tid, count, held, waking>>
        /\ UNCHANGED <<fd, signaled, locked, victim, pc, call, i, polled, ret, role>>
  BY DEF Abandon
<1>2. Typed /\ ServerOK /\ m \in Mutexes /\ m \in Objects /\ victim \in Threads /\ pc[victim] = "dead"
  BY <1>1, Types DEF EInv, Typed, ServerOK
<1>3. /\ tid \in [Mutexes -> Threads \cup {0, Abandoned}] /\ count \in [Semaphores \cup Mutexes -> Nat]
      /\ held \in [Threads -> [Mutexes -> Nat]]
  BY <1>2 DEF Typed
<1>4. /\ tid' \in [Mutexes -> Threads \cup {0, Abandoned}] /\ count' \in [Semaphores \cup Mutexes -> Nat]
      /\ held' \in [Threads -> [Mutexes -> Nat]] /\ waking' \subseteq Mutexes
      /\ \A u \in Threads : u # victim => held'[u] = held[u]
      /\ \A p \in Objects : p # m => Same(p)
  <2>1. CASE tid[m] = victim
    <3>1. /\ tid' = [tid EXCEPT ![m] = Abandoned] /\ count' = [count EXCEPT ![m] = 0]
          /\ held' = [held EXCEPT ![victim][m] = 0] /\ waking' = {m} /\ waking = {}
          /\ fd' = fd /\ signaled' = signaled /\ locked' = locked
      BY <1>1, <2>1
    <3>2. tid' \in [Mutexes -> Threads \cup {0, Abandoned}] /\ count' \in [Semaphores \cup Mutexes -> Nat]
      BY <1>3, <3>1
    <3>3. /\ held' \in [Threads -> [Mutexes -> Nat]] /\ \A u \in Threads : u # victim => held'[u] = held[u]
      BY <1>2, <1>3, <3>1
    <3>4. \A p \in Objects : p # m => Same(p)
      BY <1>2, <1>3, <3>1 DEF Same
    <3> QED BY <1>2, <3>1, <3>2, <3>3, <3>4
  <2>2. CASE tid[m] # victim
    BY <1>1, <1>2, <1>3, <2>2 DEF Same, Typed
  <2> QED BY <2>1, <2>2
<1>5. ObjectOK(m)'
  <2>1. CASE tid[m] = victim
    BY <1>1, <1>2, <2>1, Marked
  <2>2. CASE tid[m] # victim
    <3>1. Same(m)
      BY <1>1, <2>2 DEF Same
    <3> QED BY <1>1, <1>2, <3>1, StillKept DEF EInv
  <2> QED BY <2>1, <2>2
<1>6. \A p \in Objects : ObjectOK(p)'
  <2>1. \A p \in Objects : p # m => ObjectOK(p)'
    BY <1>1, <1>4, StillKept DEF EInv
  <2> QED BY <1>5, <2>1
<1>7. Typed'
  BY <1>1, <1>2, <1>4 DEF Typed
<1>8. ServerOK'
  BY <1>1, <1>2 DEF ServerOK
<1>9. \A u \in Threads : PlaceOK(u)'
  <2>1. PICK v \in Threads : v = victim
    BY <1>2
  <2>2. PlaceOK(v)'
    <3>1. PlaceOK(v) /\ obj(v)' = obj(v) /\ Waited(v)' = Waited(v) /\ pc[v] = "dead"
      BY <1>1, <1>2, <2>1 DEF EInv, obj, Waited
    <3> QED BY <1>1, <2>1, <3>1 DEF PlaceOK, OnSemaphore, OnMutex, OnEvent, InAny, InAll
  <2>3. \A u \in Threads : u # victim => PlaceOK(u)'
    <3>1. \A u \in Threads : PlaceOK(u)
      BY DEF EInv
    <3>2. pc' = pc /\ call' = call /\ i' = i
      BY <1>1
    <3>3. SUFFICES ASSUME NEW u \in Threads, u # victim
                   PROVE  PlaceOK(u)'
      OBVIOUS
    <3>4. held'[u] = held[u]
      BY <1>4, <3>3
    <3>5. PlaceOK(u)
      BY <3>1
    <3> QED BY ONLY <3>2, <3>4, <3>5, PlaceKept
  <2> QED BY <2>1, <2>2, <2>3
<1> QED BY <1>6, <1>7, <1>8, <1>9 DEF EInv

\* It has been written to.
LEMMA WakeStep ==
  ASSUME EInv, WakeAbandoned
  PROVE  EInv'
<1>1. PICK m \in waking : /\ fd' = [fd EXCEPT ![m] = @ + 1] /\ waking' = {}
                          /\ UNCHANGED <<shm, victim, todo, pc, call, i, polled, ret, held, role>>
  BY DEF WakeAbandoned, local
<1>2. Typed /\ ServerOK /\ m \in Mutexes /\ m \in Objects /\ fd \in [Objects -> Nat]
  BY <1>1, Types DEF EInv, Typed
<1>3. UnitOK(m) /\ WordsOK(m) /\ \A p \in waking : p = m
  BY <1>2 DEF EInv, ObjectOK, ServerOK
<1>4. fd[m] = 0 /\ \A u \in Threads : ~Has(u, m)
  BY <1>3 DEF UnitOK
<1>5. fd' \in [Objects -> Nat] /\ fd'[m] = 1 /\ \A p \in Objects : p # m => fd'[p] = fd[p]
  BY <1>1, <1>2, <1>4
<1>6. count' = count /\ tid' = tid /\ held' = held /\ signaled' = signaled /\ locked' = locked
      /\ pc' = pc /\ call' = call /\ i' = i
  BY <1>1 DEF shm
<1>7. \A u \in Threads : ~Has(u, m)' /\ (Taken(u, m)' <=> Taken(u, m)) /\ (Writing(u, m)' <=> Writing(u, m))
                         /\ (Disowning(u, m)' <=> Disowning(u, m))
  BY <1>4, <1>6, Still DEF Has
<1>8. UnitOK(m)'
  BY <1>1, <1>5, <1>7 DEF UnitOK
<1>9. WordsOK(m)'
  BY <1>3, <1>6, <1>7 DEF WordsOK
<1>10. ObjectOK(m)'
  BY <1>2, <1>8, <1>9, Types DEF ObjectOK
<1>11. \A p \in Objects : p # m => Same(p)
  BY <1>1, <1>3, <1>5, <1>6 DEF Same
<1>12. \A p \in Objects : ObjectOK(p)'
  <2>1. \A p \in Objects : p # m => ObjectOK(p)'
    BY <1>6, <1>11, StillKept DEF EInv
  <2> QED BY <1>10, <2>1
<1>13. Typed'
  BY <1>1, <1>2, <1>5, <1>6 DEF Typed
<1>14. ServerOK'
  BY <1>1, <1>2 DEF ServerOK
<1>15. \A u \in Threads : PlaceOK(u)'
  BY <1>6, PlaceKept DEF EInv
<1> QED BY <1>12, <1>13, <1>14, <1>15 DEF EInv

\* Nothing, or only which thread the server is at, has changed.
LEMMA StutterStep ==
  ASSUME EInv, Swept \/ UNCHANGED vars
  PROVE  EInv'
<1>1. /\ UNCHANGED <<fd, shm, todo, waking, pc, call, i, polled, ret, held, role>>
      /\ victim' \in {0, victim}
  BY DEF Swept, vars, local, server
<1>2. count' = count /\ tid' = tid /\ signaled' = signaled /\ locked' = locked
  BY <1>1 DEF shm
<1>3. Typed'
  BY <1>1, <1>2 DEF EInv, Typed
<1>4. ServerOK'
  BY <1>1 DEF EInv, ServerOK
<1>5. \A u \in Threads : PlaceOK(u)'
  BY <1>1, PlaceKept DEF EInv
<1>6. \A p \in Objects : ObjectOK(p)'
  <2>1. \A p : Same(p)
    BY <1>1, <1>2 DEF Same
  <2> QED BY <1>1, <2>1, StillKept DEF EInv
<1> QED BY <1>3, <1>4, <1>5, <1>6 DEF EInv

-----------------------------------------------------------------------------
(* The invariant, and what it says.                                        *)

\* It holds at first.
LEMMA InitEInv == Init => EInv
<1> SUFFICES ASSUME Init PROVE EInv
  OBVIOUS
<1>1. /\ fd = [o \in Objects |-> IF o \in Mutexes \cup Initial THEN 1 ELSE 0]
      /\ count = [o \in Semaphores \cup Mutexes |-> IF o \in Semaphores THEN fd[o] ELSE 0]
      /\ tid = [m \in Mutexes |-> 0]
      /\ signaled = [e \in Events |-> fd[e]] /\ locked = [e \in ManualEvents |-> FALSE]
      /\ victim = 0 /\ todo = {} /\ waking = {}
      /\ pc = [t \in Threads |-> "idle"] /\ call = [t \in Threads |-> NoCall]
      /\ i = [t \in Threads |-> 1] /\ polled = [t \in Threads |-> {}]
      /\ ret = [t \in Threads |-> "none"]
      /\ held = [t \in Threads |-> [m \in Mutexes |-> 0]]
      /\ role \in Roles
  BY DEF Init
<1>2. fd \in [Objects -> {0, 1}]
  BY <1>1
<1>3. /\ count \in [Semaphores \cup Mutexes -> Nat] /\ signaled \in [Events -> {0, 1}]
      /\ \A s \in Semaphores : count[s] = fd[s]
      /\ \A m \in Mutexes : count[m] = 0 /\ fd[m] = 1 /\ tid[m] = 0
      /\ \A e \in ManualEvents : signaled[e] = fd[e] /\ fd[e] \in {0, 1}
  <2>1. count \in [Semaphores \cup Mutexes -> Nat]
    BY <1>1, <1>2, Types
  <2>2. signaled \in [Events -> {0, 1}] /\ \A e \in ManualEvents : signaled[e] = fd[e] /\ fd[e] \in {0, 1}
    BY <1>1, <1>2, Types
  <2>3. \A s \in Semaphores : count[s] = fd[s]
    BY <1>1, Types
  <2>4. \A m \in Mutexes : count[m] = 0 /\ fd[m] = 1 /\ tid[m] = 0
    BY <1>1, Types
  <2> QED BY <2>1, <2>2, <2>3, <2>4
<1>4. Typed
  <2>1. pc \in [Threads -> Places] /\ ret \in [Threads -> Statuses]
    BY <1>1 DEF Places, Statuses
  <2>2. call \in [Threads -> CallRec]
    BY <1>1, NoCallFits
  <2>3. held \in [Threads -> [Mutexes -> Nat]] /\ tid \in [Mutexes -> Threads \cup {0, Abandoned}]
    BY <1>1
  <2>4. fd \in [Objects -> Nat] /\ i \in [Threads -> Nat] /\ polled \in [Threads -> SUBSET Objects] /\ locked \in [ManualEvents -> BOOLEAN]
    BY <1>1, <1>2
  <2> QED BY <1>1, <1>3, <2>1, <2>2, <2>3, <2>4 DEF Typed
<1>5. ServerOK
  BY <1>1 DEF ServerOK
<1>6. \A t \in Threads : PlaceOK(t)
  BY <1>1 DEF PlaceOK, OnSemaphore, OnMutex, OnEvent, InAny, InAll
<1>7. \A t \in Threads : \A o : ~Taken(t, o) /\ ~Writing(t, o) /\ ~Disowning(t, o) /\ ~Inside(t, o)
  BY <1>1 DEF Taken, Writing, Disowning, Inside
<1>8. \A o \in Objects : ObjectOK(o)
  <2>1. ASSUME NEW s \in Semaphores
        PROVE  SemOK(s)
    <3>1. {t \in Threads : Taken(t, s)} = {} /\ Due(s) = {}
      BY <1>7 DEF Due
    <3>2. TakenNo(s) = 0 /\ DueNo(s) = 0
      BY <3>1, FS_EmptySet DEF TakenNo, DueNo
    <3>3. count[s] = fd[s] /\ fd[s] \in {0, 1} /\ 1 <= SemMax /\ SemMax \in Nat
      BY <1>2, <1>3, Types
    <3>4. count[s] <= SemMax /\ count[s] = fd[s] + TakenNo(s) + DueNo(s)
      BY ONLY <3>2, <3>3
    <3> QED BY <3>4, SemSum
  <2>2. ASSUME NEW m \in Mutexes
        PROVE  UnitOK(m) /\ WordsOK(m)
    <3>1. (\A t \in Threads : held[t][m] = 0) /\ ~(0 > 0) /\ 0 <= MaxNesting /\ waking = {}
      BY <1>1, Types
    <3>2. \A t \in Threads : ~Has(t, m)
      BY <1>7, <3>1 DEF Has
    <3>3. UnitOK(m)
      BY <1>3, <3>1, <3>2 DEF UnitOK
    <3>4. WordsOK(m)
      BY <1>3, <1>7, <3>1, Types DEF WordsOK
    <3> QED BY <3>3, <3>4
  <2>3. ASSUME NEW e \in ManualEvents
        PROVE  ManualOK(e)
    <3>1. Agree(e)
      BY <1>3 DEF Agree
    <3> QED BY <1>7, <3>1 DEF ManualOK
  <2> QED BY <2>1, <2>2, <2>3 DEF ObjectOK
<1> QED BY <1>4, <1>5, <1>6, <1>8 DEF EInv

\* And after every step.
LEMMA NextEInv ==
  ASSUME EInv, SumsFit, NoManualAll \/ Plain, [Next]_vars
  PROVE  EInv'
<1>1. ASSUME NEW t \in Threads, Calls(t)
      PROVE  EInv'
  BY <1>1, CallsStep, WaitsStep DEF Calls
<1>2. ASSUME NEW t \in Threads, Signal(t)
      PROVE  EInv'
  <2>1. Release(t) => EInv'
    BY ReleaseStep
  <2>2. Lock(t) \/ Unlock(t) \/ Set(t) \/ Reset(t) \/ Drain(t) => EInv'
    BY LockStep, UnlockStep, ExchangeStep, DrainStep
  <2>3. NotOwned(t) \/ ReleaseMutex(t) \/ Disown(t) \/ Write(t) => EInv'
    BY FailStep, NestingStep, DisownStep, WriteStep
  <2> QED BY <1>2, <2>1, <2>2, <2>3 DEF Signal
<1>3. ASSUME NEW t \in Threads, WaitAny(t)
      PROVE  EInv'
  <2>1. TryOwned(t) \/ SeeManual(t) \/ TryHinted(t) \/ Skip(t) => EInv'
    BY NestingStep, FailStep, TryHintedStep, SkipStep
  <2>2. Grab(t) \/ Grabbed(t) \/ Poll(t) => EInv'
    BY GrabStep, GrabbedStep, PollStep
  <2> QED BY <1>3, <2>1, <2>2 DEF WaitAny
<1>4. ASSUME NEW t \in Threads, WaitAll(t)
      PROVE  EInv'
  <2>1. PollOne(t) \/ PollAll(t) \/ GrabOne(t) => EInv'
    BY PollOneStep, PollAllStep, GrabOneStep
  <2>2. TooSlow(t) \/ PutBack(t) \/ Keep(t) => EInv'
    BY TooSlowStep, PutBackStep, KeepStep
  <2> QED BY <1>4, <2>1, <2>2 DEF WaitAll
<1>5. ASSUME NEW t \in Threads, Leave(t) \/ TimedOut(t) \/ Exit(t)
      PROVE  EInv'
  BY <1>5, LeaveStep, FailStep, ExitStep
<1>6. Abandon \/ WakeAbandoned \/ Swept \/ UNCHANGED vars => EInv'
  BY AbandonStep, WakeStep, StutterStep
<1> QED BY <1>1, <1>2, <1>3, <1>4, <1>5, <1>6 DEF Next, Step, Sweep

\* The unit of a mutex is counted once.
LEMMA OneUnit ==
  ASSUME EInv, NEW m \in Mutexes
  PROVE  fd[m] + Cardinality(waking \cap {m}) + Cardinality({t \in Threads : Has(t, m)}) = 1
<1>1. UnitOK(m)
  BY Types DEF EInv, ObjectOK
<1> DEFINE W == waking \cap {m}
           H == {t \in Threads : Has(t, m)}
<1>2. (m \in waking => W = {m}) /\ (m \notin waking => W = {})
  OBVIOUS
<1>3. \A x : Cardinality({x}) = 1
  BY FS_Singleton
<1>4. Cardinality({}) = 0
  BY FS_EmptySet
<1>5. CASE \E t \in Threads : Has(t, m)
  <2>1. PICK t \in Threads : Has(t, m)
    BY <1>5
  <2>2. fd[m] = 0 /\ m \notin waking /\ H = {t}
    BY <1>1, <2>1 DEF UnitOK
  <2> HIDE DEF W, H
  <2>3. Cardinality(W) = 0 /\ Cardinality(H) = 1
    BY <1>2, <1>3, <1>4, <2>2
  <2>4. fd[m] + Cardinality(W) + Cardinality(H) = 1
    BY ONLY <2>2, <2>3
  <2> QED BY <2>4 DEF W, H
<1>6. CASE ~(\E t \in Threads : Has(t, m))
  <2>1. H = {} /\ ((fd[m] = 1 /\ m \notin waking) \/ (fd[m] = 0 /\ m \in waking))
    BY <1>1, <1>6 DEF UnitOK
  <2> HIDE DEF W, H
  <2>2. Cardinality(H) = 0 /\ ((fd[m] = 1 /\ Cardinality(W) = 0) \/ (fd[m] = 0 /\ Cardinality(W) = 1))
    BY <1>2, <1>3, <1>4, <2>1
  <2>3. fd[m] + Cardinality(W) + Cardinality(H) = 1
    BY ONLY <2>2
  <2> QED BY <2>3 DEF W, H
<1> QED BY <1>5, <1>6

\* What the invariant says of the objects is what the runs check.
LEMMA EInvUnits == EInv => UnitsExact
<1> SUFFICES ASSUME EInv PROVE UnitsExact
  OBVIOUS
<1>1. Typed /\ \A t \in Threads : PlaceOK(t)
  BY DEF EInv
<1>2. SemaphoreExact
  BY Types DEF EInv, ObjectOK, SemOK, SemaphoreExact
<1>3. MutexExact
  <2>1. SUFFICES ASSUME NEW m \in Mutexes
                 PROVE  /\ fd[m] + Cardinality(waking \cap {m})
                             + Cardinality({t \in Threads : \/ held[t][m] > 0 \/ Taken(t, m) \/ Writing(t, m)
                                                            \/ pc[t] = "disown" /\ obj(t) = m}) = 1
                        /\ \A t \in Threads : held[t][m] > 0 => tid[m] = t /\ count[m] = held[t][m]
    BY DEF MutexExact
  <2>2. {t \in Threads : \/ held[t][m] > 0 \/ Taken(t, m) \/ Writing(t, m)
                         \/ pc[t] = "disown" /\ obj(t) = m} = {t \in Threads : Has(t, m)}
    BY DEF Has, Disowning
  <2>3. WordsOK(m)
    BY Types DEF EInv, ObjectOK
  <2> QED BY <2>2, <2>3, OneUnit DEF WordsOK
<1>4. ManualExact
  BY Types DEF EInv, ObjectOK, ManualOK, Agree, ManualExact
<1>5. TypeOK
  <2>1. \A m \in Mutexes : tid[m] \in Threads \cup {0, Abandoned} /\ count[m] \in 0 .. MaxNesting
    <3>1. \A m \in Mutexes : count[m] \in Nat /\ count[m] <= MaxNesting /\ MaxNesting \in Nat
      BY <1>1, Types DEF Typed, EInv, ObjectOK, WordsOK
    <3>2. \A m \in Mutexes : count[m] \in 0 .. MaxNesting
      BY <3>1
    <3> QED BY <1>1, <3>2 DEF Typed
  <2>2. \A s \in Semaphores : count[s] \in 0 .. SemMax
    <3>1. \A s \in Semaphores : count[s] \in Nat /\ count[s] <= SemMax /\ SemMax \in Nat
      BY <1>1, Types DEF Typed, EInv, ObjectOK, SemOK
    <3> QED BY <3>1
  <2>3. \A t \in Threads : i[t] \in {1} \cup DOMAIN call[t].objs /\ ret[t] \in Statuses /\ polled[t] \subseteq Objects
    BY <1>1 DEF Typed, PlaceOK
  <2>4. (\A o \in Objects : fd[o] \in Nat) /\ todo \cup waking \subseteq Mutexes
    BY <1>1 DEF Typed
  <2> QED BY <2>1, <2>2, <2>3, <2>4 DEF TypeOK
<1> QED BY <1>2, <1>3, <1>4, <1>5 DEF UnitsExact

\* The shared memory and the eventfds say the same: a semaphore's count is its eventfd plus
\* what is under way, the unit of a mutex is in one place, and outside its lock the halves of
\* a manual-reset event agree - as long as no release wraps the sum, and no wait for all puts
\* back a manual-reset event (which it has not read).
THEOREM UnitsAreExact == SumsFit /\ NoManualAll => (Spec => []UnitsExact)
<1> SUFFICES ASSUME SumsFit, NoManualAll PROVE Spec => []UnitsExact
  OBVIOUS
<1>1. Init => EInv
  BY InitEInv
<1>2. EInv /\ [Next]_vars => EInv'
  BY NextEInv
<1>3. EInv => UnitsExact
  BY EInvUnits
<1> QED BY <1>1, <1>2, <1>3, PTL DEF Spec
-----------------------------------------------------------------------------
(* esync implements NtSync: the initial states map to initial states, and    *)
(* every step maps to a step of NtSync or to none.                           *)

\* The state of NtSync that a state of Esync stands for.
Sig == [o \in Semaphores \cup AutoEvents |-> IF Plain THEN fd[o] ELSE 0]
Own == [m \in Mutexes |-> IF Plain THEN Owner(m) ELSE 0]
Nst == [m \in Mutexes |-> IF ~Plain \/ Owner(m) = 0 THEN 0
                          ELSE IF held[Owner(m)][m] > 0 THEN held[Owner(m)][m] ELSE 1]
Wnt == [t \in Threads |-> IF Plain /\ Wanting(t) THEN Waited(t) \ ManualEvents ELSE {}]
Ended == IF Plain THEN {t \in Threads : pc[t] = "dead"} ELSE {}

\* The programs the mapping is about have no waits for all objects.
Tame ==
  /\ Plain /\ EInv
  /\ \A t \in Threads : call[t].op # "all"
  /\ \A e \in AutoEvents : fd[e] \in {0, 1}

\* Each part of the mapped state, told by a part of the state.
Near(t, m) == pc[t] \in {"grabbed", "write", "disown"} /\ obj(t) = m
Nested(t, m) == IF held[t][m] > 0 THEN held[t][m] ELSE 1
Wants(t) == IF Wanting(t) THEN Waited(t) \ ManualEvents ELSE {}
Told(m) ==
  /\ \A t \in Threads : Has(t, m) <=> held[t][m] > 0 \/ Near(t, m)
  /\ \A t \in Threads : Has(t, m) => Own[m] = t /\ Nst[m] = Nested(t, m)
  /\ (\A t \in Threads : ~Has(t, m)) => Own[m] = 0 /\ Nst[m] = 0
ToldAll ==
  /\ \A o \in Semaphores \cup AutoEvents : Sig[o] = fd[o]
  /\ \A m \in Mutexes : Told(m)
  /\ \A t \in Threads : Wnt[t] = Wants(t) /\ pc[t] \notin InAll
  /\ Ended = {t \in Threads : pc[t] = "dead"}

\* Under the invariant they tell the same.
LEMMA Mapped == Tame => ToldAll
<1> SUFFICES ASSUME Tame PROVE ToldAll
  OBVIOUS
<1>1. Plain /\ EInv /\ Typed
  BY DEF Tame, EInv
<1>2. \A o \in Semaphores \cup AutoEvents : Sig[o] = fd[o]
  BY <1>1 DEF Sig
<1>3. \A t \in Threads : PlaceOK(t) /\ pc[t] \notin InAll
  BY <1>1 DEF Tame, EInv, PlaceOK
<1>4. \A t \in Threads : Wnt[t] = Wants(t)
  BY <1>1 DEF Wnt, Wants
<1>5. Ended = {t \in Threads : pc[t] = "dead"}
  BY <1>1 DEF Ended
<1>6. ASSUME NEW m \in Mutexes, NEW t \in Threads
      PROVE  Has(t, m) <=> held[t][m] > 0 \/ Near(t, m)
  <2>1. pc[t] = "grabbed" /\ obj(t) = m => Taken(t, m)
    BY <1>1, <1>3, Here, Types DEF Taken
  <2>2. Taken(t, m) => pc[t] = "grabbed" /\ obj(t) = m
    BY <1>3 DEF Taken, InAll
  <2> QED BY <2>1, <2>2 DEF Has, Near, Writing, Disowning
<1>7. ASSUME NEW m \in Mutexes
      PROVE  /\ \A t \in Threads : Has(t, m) => Own[m] = t /\ Nst[m] = Nested(t, m)
             /\ (\A t \in Threads : ~Has(t, m)) => Own[m] = 0 /\ Nst[m] = 0
  <2>1. UnitOK(m) /\ 0 \notin Threads
    BY <1>1, Types DEF EInv, ObjectOK
  <2>2. Own[m] = Owner(m)
        /\ Nst[m] = IF Owner(m) = 0 THEN 0 ELSE IF held[Owner(m)][m] > 0 THEN held[Owner(m)][m] ELSE 1
    BY <1>1 DEF Own, Nst
  <2> DEFINE own == {t \in Threads : held[t][m] > 0 \/ Taken(t, m) \/ (pc[t] \in {"disown", "write"} /\ obj(t) = m)}
  <2>3. own = {t \in Threads : Has(t, m)}
    BY DEF Has, Writing, Disowning
  <2>4. Owner(m) = IF own = {} THEN 0 ELSE CHOOSE t \in own : TRUE
    BY DEF Owner
  <2> HIDE DEF own
  <2>5. ASSUME NEW t \in Threads, Has(t, m) PROVE Owner(m) = t
    <3>1. own = {t}
      BY <2>1, <2>3, <2>5 DEF UnitOK
    <3> QED BY <2>4, <3>1
  <2>6. (\A t \in Threads : ~Has(t, m)) => Owner(m) = 0
    BY <2>3, <2>4
  <2> QED BY <2>1, <2>2, <2>5, <2>6 DEF Nested
<1> QED BY <1>2, <1>3, <1>4, <1>5, <1>6, <1>7 DEF ToldAll, Told

\* The same of the next state.
LEMMA MappedNext == Tame' => ToldAll'
BY Mapped, PTL
\* The steps of NtSync, of the mapped state.
Stutters == Sig' = Sig /\ Own' = Own /\ Nst' = Nst /\ Wnt' = Wnt /\ Ended' = Ended
Releases ==
  /\ \E s \in Semaphores, n \in 0 .. SemMax : Sig[s] + n <= SemMax /\ Sig' = [Sig EXCEPT ![s] = @ + n]
  /\ Own' = Own /\ Nst' = Nst /\ Wnt' = Wnt /\ Ended' = Ended
SetsOrResets ==
  /\ \E e \in AutoEvents, value \in {0, 1} : Sig' = [Sig EXCEPT ![e] = value]
  /\ Own' = Own /\ Nst' = Nst /\ Wnt' = Wnt /\ Ended' = Ended
GivesBack(t) ==
  /\ t \notin Ended
  /\ \E m \in Mutexes : /\ Own[m] = t /\ Nst' = [Nst EXCEPT ![m] = @ - 1]
                        /\ Own' = [Own EXCEPT ![m] = IF Nst[m] = 1 THEN 0 ELSE t]
  /\ Sig' = Sig /\ Wnt' = Wnt /\ Ended' = Ended
Waits(t) ==
  /\ t \notin Ended /\ Wnt[t] = {}
  /\ \E objs \in SUBSET (Semaphores \cup Mutexes \cup AutoEvents) : Wnt' = [Wnt EXCEPT ![t] = objs]
  /\ Sig' = Sig /\ Own' = Own /\ Nst' = Nst /\ Ended' = Ended
TakesUnit(t) ==
  /\ \E o \in Wnt[t] \ Mutexes : Sig[o] > 0 /\ Sig' = [Sig EXCEPT ![o] = @ - 1]
  /\ Wnt' = [Wnt EXCEPT ![t] = {}]
  /\ Own' = Own /\ Nst' = Nst /\ Ended' = Ended
TakesMutex(t) ==
  /\ \E m \in Wnt[t] \cap Mutexes : /\ Own[m] \in {0, t} /\ Own' = [Own EXCEPT ![m] = t]
                                    /\ Nst' = [Nst EXCEPT ![m] = @ + 1]
  /\ Wnt' = [Wnt EXCEPT ![t] = {}]
  /\ Sig' = Sig /\ Ended' = Ended
GivesUp(t) == Wnt' = [Wnt EXCEPT ![t] = {}] /\ Sig' = Sig /\ Own' = Own /\ Nst' = Nst /\ Ended' = Ended
Ends(t) ==
  /\ Wnt[t] = {} /\ Ended' = Ended \cup {t}
  /\ Sig' = Sig /\ Own' = Own /\ Nst' = Nst /\ Wnt' = Wnt
Abandons(t) ==
  /\ t \in Ended
  /\ \E m \in Mutexes : Own[m] = t /\ Own' = [Own EXCEPT ![m] = 0] /\ Nst' = [Nst EXCEPT ![m] = 0]
  /\ Sig' = Sig /\ Wnt' = Wnt /\ Ended' = Ended

Promised ==
  \/ Stutters \/ Releases \/ SetsOrResets
  \/ \E t \in Threads : \/ GivesBack(t) \/ Waits(t) \/ TakesUnit(t) \/ TakesMutex(t) \/ GivesUp(t)
                        \/ Ends(t) \/ Abandons(t)

\* The steps of the mapped state are steps of NtSync.
LEMMA PromisedIsNt == Promised => [Nt!NNext]_(Nt!nvars)
<1>1. Nt!nvars = <<Sig, Own, Nst, Wnt, Ended>> /\ Nt!Objects = Semaphores \cup Mutexes \cup AutoEvents
  BY DEF Nt!nvars, Nt!Objects, Sig, Own, Nst, Wnt, Ended
<1>2. Stutters => UNCHANGED Nt!nvars
  BY <1>1 DEF Stutters, Sig, Own, Nst, Wnt, Ended, Nt!nvars
<1>3. Releases => Nt!NRelease
  BY DEF Releases, Sig, Own, Nst, Wnt, Ended, Nt!NRelease
<1>4. SetsOrResets => Nt!NSetReset
  BY DEF SetsOrResets, Sig, Own, Nst, Wnt, Ended, Nt!NSetReset
<1>5. \A t \in Threads : GivesBack(t) => Nt!NReleaseMutex(t)
  BY DEF GivesBack, Sig, Own, Nst, Wnt, Ended, Nt!NReleaseMutex
<1>6. \A t \in Threads : Waits(t) => Nt!NWait(t)
  BY <1>1 DEF Waits, Sig, Own, Nst, Wnt, Ended, Nt!NWait
<1>7. \A t \in Threads : TakesUnit(t) => Nt!NTakeUnit(t)
  BY DEF TakesUnit, Sig, Own, Nst, Wnt, Ended, Nt!NTakeUnit, Nt!Satisfied
<1>8. \A t \in Threads : TakesMutex(t) => Nt!NTakeMutex(t)
  BY DEF TakesMutex, Sig, Own, Nst, Wnt, Ended, Nt!NTakeMutex, Nt!Satisfied
<1>9. \A t \in Threads : GivesUp(t) => Nt!NGiveUp(t)
  BY DEF GivesUp, Sig, Own, Nst, Wnt, Ended, Nt!NGiveUp, Nt!Satisfied
<1>10. \A t \in Threads : Ends(t) => Nt!NEnd(t)
  BY DEF Ends, Sig, Own, Nst, Wnt, Ended, Nt!NEnd
<1>11. \A t \in Threads : Abandons(t) => Nt!NAbandon(t)
  BY DEF Abandons, Sig, Own, Nst, Wnt, Ended, Nt!NAbandon
<1> QED BY <1>2, <1>3, <1>4, <1>5, <1>6, <1>7, <1>8, <1>9, <1>10, <1>11 DEF Promised, Nt!NNext

-----------------------------------------------------------------------------
(* What a step changes of the mapped state.                                *)

\* Nothing of the units.
LEMMA SigKept ==
  ASSUME Tame, Tame', \A o \in Semaphores \cup AutoEvents : fd'[o] = fd[o]
  PROVE  Sig' = Sig
BY DEF Tame, Sig

\* The units of one object.
LEMMA SigOne ==
  ASSUME Tame, Tame', NEW o \in Semaphores \cup AutoEvents, NEW v, fd' = [fd EXCEPT ![o] = v]
  PROVE  Sig' = [Sig EXCEPT ![o] = v] /\ Sig[o] = fd[o]
<1>1. fd \in [Objects -> Nat] /\ Semaphores \cup AutoEvents \subseteq Objects
  BY Types DEF Tame, EInv, Typed
<1>2. \A p \in Semaphores \cup AutoEvents : fd'[p] = IF p = o THEN v ELSE fd[p]
  BY <1>1
<1> QED BY <1>2 DEF Tame, Sig

\* Nothing of a mutex, where everybody has to do with it what they had.
LEMMA OwnKept ==
  ASSUME Tame, Tame', NEW m \in Mutexes,
         \A t \in Threads : held'[t][m] = held[t][m] /\ (Near(t, m)' <=> Near(t, m))
  PROVE  Own'[m] = Own[m] /\ Nst'[m] = Nst[m]
<1>1. Told(m) /\ Told(m)'
  BY Mapped, MappedNext DEF ToldAll
<1>2. \A t \in Threads : Has(t, m)' <=> Has(t, m)
  BY <1>1 DEF Told
<1>3. \A t \in Threads : Nested(t, m)' = Nested(t, m)
  BY DEF Nested
<1> QED BY <1>1, <1>2, <1>3 DEF Told

\* Nothing of any mutex.
LEMMA MutexesKept ==
  ASSUME Tame, Tame', \A t \in Threads, m \in Mutexes : held'[t][m] = held[t][m] /\ (Near(t, m)' <=> Near(t, m))
  PROVE  Own' = Own /\ Nst' = Nst
<1>1. \A m \in Mutexes : Own'[m] = Own[m] /\ Nst'[m] = Nst[m]
  BY OwnKept
<1>2. DOMAIN Own = Mutexes /\ DOMAIN Nst = Mutexes /\ DOMAIN Own' = Mutexes /\ DOMAIN Nst' = Mutexes
  BY DEF Own, Nst
<1>3. /\ Own = [m \in Mutexes |-> Own[m]] /\ Nst = [m \in Mutexes |-> Nst[m]]
      /\ Own' = [m \in Mutexes |-> Own'[m]] /\ Nst' = [m \in Mutexes |-> Nst'[m]]
  BY <1>2 DEF Own, Nst
<1> QED BY <1>1, <1>3

\* One mutex.
LEMMA MutexOne ==
  ASSUME Tame, Tame', NEW m \in Mutexes,
         \A t \in Threads : \A n \in Mutexes \ {m} : held'[t][n] = held[t][n] /\ (Near(t, n)' <=> Near(t, n))
  PROVE  Own' = [Own EXCEPT ![m] = Own'[m]] /\ Nst' = [Nst EXCEPT ![m] = Nst'[m]]
<1>1. \A n \in Mutexes \ {m} : Own'[n] = Own[n] /\ Nst'[n] = Nst[n]
  BY OwnKept
<1>2. /\ Own = [n \in Mutexes |-> Own[n]] /\ Nst = [n \in Mutexes |-> Nst[n]]
      /\ Own' = [n \in Mutexes |-> Own'[n]] /\ Nst' = [n \in Mutexes |-> Nst'[n]]
  BY DEF Own, Nst
<1> DEFINE a == Own'[m]
           b == Nst'[m]
<1>3. \A n \in Mutexes : Own'[n] = IF n = m THEN a ELSE Own[n]
  BY <1>1
<1>4. \A n \in Mutexes : Nst'[n] = IF n = m THEN b ELSE Nst[n]
  BY <1>1
<1> HIDE DEF a, b
<1>5. Own' = [Own EXCEPT ![m] = a] /\ Nst' = [Nst EXCEPT ![m] = b]
  BY <1>2, <1>3, <1>4
<1> QED BY <1>5 DEF a, b

\* A step of one thread, to what the others do.
LEMMA Framed ==
  ASSUME Tame, Tame', NEW t \in Threads, Stay(t)
  PROVE  /\ (pc[t] = "dead" <=> pc'[t] = "dead") => Ended' = Ended
         /\ Wnt' = [Wnt EXCEPT ![t] = Wants(t)']
         /\ Wants(t)' = Wants(t) => Wnt' = Wnt
         /\ \A u \in Threads \ {t} : \A m \in Mutexes : held'[u][m] = held[u][m] /\ (Near(u, m)' <=> Near(u, m))
<1>1. \A u \in Threads \ {t} : pc'[u] = pc[u] /\ call'[u] = call[u] /\ i'[u] = i[u] /\ held'[u] = held[u]
  BY DEF Stay
<1>2. (pc[t] = "dead" <=> pc'[t] = "dead") => Ended' = Ended
  <2>1. Ended = {u \in Threads : pc[u] = "dead"} /\ Ended' = {u \in Threads : pc'[u] = "dead"}
    BY Mapped, MappedNext DEF ToldAll
  <2> QED BY <1>1, <2>1
<1>3. \A u \in Threads \ {t} : Wants(u)' = Wants(u)
  BY <1>1 DEF Wants, Wanting, Waited
<1>4. \A u \in Threads : Wnt[u] = Wants(u) /\ Wnt'[u] = Wants(u)'
  BY Mapped, MappedNext DEF ToldAll
<1>5. Wnt = [u \in Threads |-> Wnt[u]] /\ Wnt' = [u \in Threads |-> Wnt'[u]]
  BY DEF Wnt
<1> DEFINE w == Wants(t)'
<1>6. \A u \in Threads : Wnt'[u] = IF u = t THEN w ELSE Wnt[u]
  BY <1>3, <1>4
<1>7. Wants(t)' = Wants(t) => \A u \in Threads : Wnt'[u] = Wnt[u]
  BY <1>4, <1>6
<1> HIDE DEF w
<1>8. Wnt' = [Wnt EXCEPT ![t] = w]
  BY <1>5, <1>6
<1>9. \A u \in Threads \ {t} : \A m \in Mutexes : held'[u][m] = held[u][m] /\ (Near(u, m)' <=> Near(u, m))
  BY <1>1 DEF Near, obj
<1>10. Wants(t)' = Wants(t) => Wnt' = Wnt
  BY <1>5, <1>7
<1> QED BY <1>2, <1>8, <1>9, <1>10 DEF w

\* A thread that goes on changes nothing, or only what it waits for.
LEMMA Quiet ==
  ASSUME Tame, Tame', NEW t \in Threads, Stay(t), pc[t] # "dead", pc'[t] # "dead",
         \A o \in Semaphores \cup AutoEvents : fd'[o] = fd[o],
         held'[t] = held[t], \A m \in Mutexes : Near(t, m)' <=> Near(t, m)
  PROVE  /\ Wants(t)' = Wants(t) => Stutters
         /\ Wants(t)' = {} => GivesUp(t)
         /\ Wants(t) = {} => Waits(t)
<1>1. Sig' = Sig
  BY SigKept
<1>2. Own' = Own /\ Nst' = Nst
  BY Framed, MutexesKept
<1>3. Ended' = Ended /\ Wnt' = [Wnt EXCEPT ![t] = Wants(t)'] /\ (Wants(t)' = Wants(t) => Wnt' = Wnt)
  BY Framed
<1>4. Wnt[t] = Wants(t) /\ t \notin Ended
  BY Mapped DEF ToldAll
<1>5. Wants(t)' \in SUBSET (Semaphores \cup Mutexes \cup AutoEvents)
  <2>1. call' \in [Threads -> CallRec]
    BY DEF Tame, EInv, Typed
  <2>2. call'[t].objs \in Seq(Objects)
    BY <2>1 DEF CallRec
  <2>3. Waited(t)' \subseteq Objects
    BY <2>2 DEF Waited, Range
  <2> QED BY <2>3, Types DEF Wants
<1> QED BY <1>1, <1>2, <1>3, <1>4, <1>5 DEF Stutters, GivesUp, Waits
-----------------------------------------------------------------------------
(* Each step is promised.                                                  *)

\* A call begins: a wait for any wants its objects from then on.
LEMMA CallsPromised ==
  ASSUME Tame, Tame', NEW t \in Threads, Calls(t)
  PROVE  Promised
<1>1. Typed /\ PlaceOK(t) /\ Plain
  BY DEF Tame, EInv
<1> DEFINE From(l, op, objs) ==
             /\ Stay(t) /\ pc[t] = "idle" /\ pc'[t] = l /\ fd' = fd /\ held' = held
             /\ call'[t].op = op /\ call'[t].objs = objs /\ i'[t] = 1
             /\ Wants(t) = {} /\ \A m : ~Near(t, m)
<1>2. ASSUME NEW l, NEW op, NEW objs, NEW units, NEW timeout, Enter(t, l, op, objs, units, timeout)
      PROVE  From(l, op, objs)
  <2> DEFINE c == [op |-> op, objs |-> objs, units |-> units, timeout |-> timeout]
  <2>1. /\ pc[t] = "idle" /\ pc' = [pc EXCEPT ![t] = l] /\ call' = [call EXCEPT ![t] = c]
        /\ UNCHANGED <<fd, i, held>>
    BY <1>2 DEF Enter, Goto
  <2>2. c.op = op /\ c.objs = objs
    OBVIOUS
  <2> HIDE DEF c
  <2>3. pc'[t] = l /\ call'[t] = c /\ Stay(t)
    BY <1>1, <2>1 DEF Typed, Stay
  <2>4. call[t] = NoCall /\ i[t] = 1
    BY <1>1, <2>1, NoCallFits DEF PlaceOK
  <2>5. Wants(t) = {} /\ \A m : ~Near(t, m)
    BY <2>1, <2>4 DEF Wants, Wanting, Near, NoCall
  <2> QED BY <2>1, <2>2, <2>3, <2>4, <2>5
<1>3. ASSUME NEW l, NEW op, NEW objs, From(l, op, objs), l # "dead", \A m \in Mutexes : ~Near(t, m)'
      PROVE  Waits(t) /\ (op # "any" => Stutters)
  <2>1. op # "any" => Wants(t)' = Wants(t)
    BY <1>3 DEF Wants, Wanting
  <2> QED BY <1>3, <2>1, Quiet
<1> HIDE DEF From
<1>4. ASSUME NEW l, NEW op, NEW objs, From(l, op, objs), l \notin {"dead", "grabbed", "write", "disown"}
      PROVE  Promised
  <2>1. \A m \in Mutexes : ~Near(t, m)'
    BY <1>4 DEF Near, From
  <2> QED BY <1>3, <1>4, <2>1 DEF Promised
<1>5. CASE CallReleaseSemaphore(t) \/ CallReleaseMutex(t) \/ CallWaitAny(t)
  <2>1. \E l \in {"release", "release mutex", "try"} : \E op, objs, units, timeout : Enter(t, l, op, objs, units, timeout)
    BY <1>5 DEF CallReleaseSemaphore, CallReleaseMutex, CallWaitAny
  <2> QED BY <1>2, <1>4, <2>1
<1>6. CASE CallEvent(t)
  <2>0. PICK e \in Events, op \in {"set", "reset", "pulse", "server set"} :
          Enter(t, IF op = "pulse" THEN "write" ELSE IF e \in ManualEvents THEN "lock" ELSE "exchange", op, <<e>>, 1, "infinite")
    BY <1>6, Zenon DEF CallEvent
  <2>1. PICK l \in {"write", "lock", "exchange"} : Enter(t, l, op, <<e>>, 1, "infinite")
    BY <2>0
  <2>2. From(l, op, <<e>>)
    BY <1>2, <2>1
  <2>3. obj(t)' = e
    <3>1. call'[t].objs = <<e>> /\ i'[t] = 1
      BY <2>2 DEF From
    <3>2. obj(t)' = call'[t].objs[i'[t]]
      BY DEF obj
    <3>3. <<e>>[1] = e
      OBVIOUS
    <3> QED BY ONLY <3>1, <3>2, <3>3
  <2>4. \A m \in Mutexes : ~Near(t, m)'
    BY <2>3, Types DEF Near
  <2> QED BY <1>3, <2>2, <2>4 DEF Promised
<1>7. CASE CallWaitAll(t)
  BY <1>1, <1>7 DEF CallWaitAll, Enter, Plain
<1> QED BY <1>5, <1>6, <1>7, <1>1 DEF Calls

\* A place where a thread is about to give back the unit of a mutex, or has just taken it.
NearPlaces == {"grabbed", "write", "disown"}

\* A step of a call to its next place.
LEMMA Moved ==
  ASSUME Tame, NEW t \in Threads, NEW l \in Places, Goto(t, l), UNCHANGED <<call, i>>,
         pc[t] \notin {"idle", "dead", "done"}, \A u \in Threads \ {t} : held'[u] = held[u]
  PROVE  /\ Stay(t) /\ pc'[t] = l /\ obj(t)' = obj(t) /\ obj(t) \in Objects /\ obj(t) \in Waited(t) /\ PlaceOK(t)
         /\ call[t].op # "any" => Wants(t) = {} /\ Wants(t)' = {}
         /\ call[t].op = "any" /\ pc[t] \notin {"grabbed", "done"} => Wants(t) = Waited(t) \ ManualEvents
         /\ call[t].op = "any" /\ l \notin {"grabbed", "done"} => Wants(t)' = Waited(t) \ ManualEvents
         /\ l \in {"grabbed", "done"} => Wants(t)' = {}
         /\ \A m : Near(t, m) <=> pc[t] \in NearPlaces /\ obj(t) = m
         /\ \A m : Near(t, m)' <=> l \in NearPlaces /\ obj(t) = m
<1>1. EInv
  BY DEF Tame
<1>2. /\ pc'[t] = l /\ Stay(t) /\ call'[t] = call[t] /\ obj(t)' = obj(t) /\ Waited(t)' = Waited(t)
      /\ obj(t) \in Objects /\ obj(t) \in Waited(t) /\ PlaceOK(t)
  BY <1>1, Goes, Here
<1> QED BY <1>2 DEF Wants, Wanting, Near, NearPlaces

\* A step of a call that has to do with no mutex, or with what it had.
LEMMA QuietMove ==
  ASSUME Tame, Tame', NEW t \in Threads, NEW l \in Places \ {"dead"}, Goto(t, l), UNCHANGED <<call, i, held>>,
         \A o \in Semaphores \cup AutoEvents : fd'[o] = fd[o], pc[t] \notin {"idle", "dead", "done"},
         call[t].op # "any", obj(t) \in Mutexes => (pc[t] \in NearPlaces <=> l \in NearPlaces)
  PROVE  Promised
<1>1. /\ Stay(t) /\ pc'[t] = l /\ Wants(t) = {} /\ Wants(t)' = {}
      /\ \A m \in Mutexes : Near(t, m)' <=> Near(t, m)
  BY Moved
<1> QED BY <1>1, Quiet DEF Promised

\* The steps of the signalling calls that do not take effect yet, or no more.
LEMMA QuietPromised ==
  ASSUME Tame, Tame', NEW t \in Threads,
         Release(t) \/ Lock(t) \/ Unlock(t) \/ Set(t) \/ Reset(t) \/ NotOwned(t) \/ Disown(t)
  PROVE  Promised
<1>1. PlaceOK(t)
  BY DEF Tame, EInv
<1>2. CASE Release(t) \/ Lock(t) \/ Unlock(t) \/ Set(t) \/ Reset(t)
  <2>1. PICK l \in {"done", "write", "exchange", "unlock", "drain"} : Goto(t, l)
    BY <1>2 DEF Release, Return, Lock, Unlock, Set, Reset
  <2>2. pc[t] \in OnSemaphore \cup OnEvent /\ UNCHANGED <<fd, call, i, held>>
    BY <1>2 DEF Release, Lock, Unlock, Set, Reset, OnSemaphore, OnEvent, local
  <2>3. obj(t) \notin Mutexes /\ call[t].op # "any" /\ pc[t] \notin {"idle", "dead", "done"}
    BY <1>1, <2>2, Types DEF PlaceOK, OnSemaphore, OnEvent
  <2>4. l \in Places \ {"dead"}
    BY DEF Places
  <2> QED BY <2>1, <2>2, <2>3, <2>4, QuietMove
<1>3. CASE NotOwned(t) \/ Disown(t)
  <2>1. /\ \/ pc[t] = "release mutex" /\ Goto(t, "done")
           \/ pc[t] = "disown" /\ Goto(t, "write")
        /\ UNCHANGED <<fd, call, i, held>>
    BY <1>3 DEF NotOwned, Disown, Return, local
  <2>2. call[t].op # "any" /\ pc[t] \notin {"idle", "dead", "done"}
    BY <1>1, <2>1 DEF PlaceOK, OnMutex
  <2>3. "done" \in Places \ {"dead"} /\ "write" \in Places \ {"dead"}
    BY DEF Places
  <2> QED BY <2>1, <2>2, <2>3, QuietMove DEF NearPlaces
<1> QED BY <1>2, <1>3

\* A wait for any that looks at its objects changes nothing, or ends without one.
LEMMA LooksPromised ==
  ASSUME Tame, Tame', NEW t \in Threads,
         SeeManual(t) \/ TryHinted(t) \/ Skip(t) \/ Poll(t) \/ TimedOut(t)
  PROVE  Promised
<1>1. EInv /\ PlaceOK(t) /\ pc[t] \notin InAll
  BY Mapped DEF Tame, EInv, ToldAll
<1>2. pc[t] \in {"try", "try read", "scan", "poll"} /\ UNCHANGED <<fd, call, held>>
  BY <1>1 DEF SeeManual, TryHinted, Skip, Poll, TimedOut, InAll, local
<1>3. call[t].op = "any" /\ pc[t] \notin {"idle", "dead", "done"} /\ pc[t] \notin NearPlaces
  BY <1>1, <1>2 DEF PlaceOK, InAny, NearPlaces
<1>4. CASE ~Skip(t)
  <2>1. PICK l \in {"done", "try read", "scan"} : Goto(t, l)
    BY <1>4 DEF SeeManual, TryHinted, Poll, TimedOut, Return
  <2>2. i' = i
    BY <1>4 DEF SeeManual, TryHinted, Poll, TimedOut, local
  <2>3. l \in Places /\ l \notin NearPlaces /\ l # "dead"
    BY DEF Places, NearPlaces
  <2>4. /\ Stay(t) /\ pc'[t] = l /\ (l = "done" => Wants(t)' = {}) /\ (l # "done" => Wants(t)' = Wants(t))
        /\ \A m : ~Near(t, m) /\ ~Near(t, m)'
    BY <1>2, <1>3, <2>1, <2>2, <2>3, Moved DEF NearPlaces
  <2> QED BY <1>2, <1>3, <2>3, <2>4, Quiet DEF Promised
<1>5. CASE Skip(t)
  <2>1. \/ Next1(t, "try", "poll")
        \/ Next1(t, "scan", "poll")
    BY <1>5 DEF Skip
  <2>2. "try" \in Places /\ "scan" \in Places /\ "poll" \in Places
    BY DEF Places
  <2>3. Stay(t) /\ call'[t] = call[t] /\ Waited(t)' = Waited(t) /\ pc'[t] \in {"try", "scan", "poll"}
    BY <1>1, <1>2, <1>3, <2>1, <2>2, Nexts
  <2>4. Wants(t)' = Wants(t) /\ \A m : ~Near(t, m) /\ ~Near(t, m)'
    BY <1>2, <1>3, <2>3 DEF Wants, Wanting, Near
  <2> QED BY <1>2, <1>3, <2>3, <2>4, Quiet DEF Promised
<1> QED BY <1>4, <1>5
\* What a step of a call may change of the mapped state.
LEMMA Effect ==
  ASSUME Tame, Tame', NEW t \in Threads, NEW l \in Places \ {"dead"}, Goto(t, l), UNCHANGED <<call, i>>,
         pc[t] \notin {"idle", "dead", "done"}, \A u \in Threads \ {t} : held'[u] = held[u]
  PROVE  /\ Ended' = Ended /\ t \notin Ended /\ Wnt[t] = Wants(t)
         /\ Wnt' = [Wnt EXCEPT ![t] = Wants(t)'] /\ (Wants(t)' = Wants(t) => Wnt' = Wnt)
         /\ held'[t] = held[t] /\ obj(t) \notin Mutexes => Own' = Own /\ Nst' = Nst
         /\ obj(t) \in Mutexes /\ (\A n \in Mutexes \ {obj(t)} : held'[t][n] = held[t][n])
              => Own' = [Own EXCEPT ![obj(t)] = Own'[obj(t)]] /\ Nst' = [Nst EXCEPT ![obj(t)] = Nst'[obj(t)]]
<1>1. Stay(t) /\ pc'[t] = l /\ \A m : m # obj(t) => ~Near(t, m) /\ ~Near(t, m)'
  BY Moved
<1>2. /\ Ended' = Ended /\ Wnt' = [Wnt EXCEPT ![t] = Wants(t)'] /\ (Wants(t)' = Wants(t) => Wnt' = Wnt)
      /\ \A u \in Threads \ {t} : \A m \in Mutexes : held'[u][m] = held[u][m] /\ (Near(u, m)' <=> Near(u, m))
  BY <1>1, Framed
<1>3. t \notin Ended /\ Wnt[t] = Wants(t)
  BY Mapped DEF ToldAll
<1>4. held'[t] = held[t] /\ obj(t) \notin Mutexes => Own' = Own /\ Nst' = Nst
  BY <1>1, <1>2, MutexesKept
<1>5. ASSUME NEW m \in Mutexes, m = obj(t), \A n \in Mutexes \ {m} : held'[t][n] = held[t][n]
      PROVE  Own' = [Own EXCEPT ![m] = Own'[m]] /\ Nst' = [Nst EXCEPT ![m] = Nst'[m]]
  BY <1>1, <1>2, <1>5, MutexOne
<1> QED BY <1>2, <1>3, <1>4, <1>5

\* A thread gives back a mutex once; the last time it still has its unit.
LEMMA GiveBackPromised ==
  ASSUME Tame, Tame', NEW t \in Threads, ReleaseMutex(t)
  PROVE  Promised
<1> PICK m : m = obj(t)
  OBVIOUS
<1>1. /\ pc[t] = "release mutex" /\ tid[m] = t /\ held' = [held EXCEPT ![t][m] = @ - 1] /\ UNCHANGED <<fd, call, i>>
      /\ Goto(t, IF count[m] = 1 THEN "disown" ELSE "done")
  BY DEF ReleaseMutex
<1>2. EInv /\ Typed /\ PlaceOK(t)
  BY DEF Tame, EInv
<1>3. m \in Mutexes /\ call[t].op # "any"
  BY <1>1, <1>2 DEF PlaceOK, OnMutex
<1>4. held[t][m] \in Nat /\ held[t][m] > 0 /\ count[m] = held[t][m] /\ Has(t, m)
  BY <1>1, <1>2, <1>3, Owner1
<1> DEFINE l == IF count[m] = 1 THEN "disown" ELSE "done"
<1>5. l \in Places \ {"dead"} /\ Goto(t, l) /\ (held[t][m] = 1 => l = "disown")
  BY <1>1, <1>4 DEF Places
<1> HIDE DEF l
<1>6. /\ \A u \in Threads \ {t} : held'[u] = held[u]
      /\ \A n \in Mutexes \ {m} : held'[t][n] = held[t][n]
      /\ held'[t][m] = held[t][m] - 1
  BY <1>1, <1>2, <1>3 DEF Typed
<1>7. Wants(t) = {} /\ Wants(t)' = {} /\ (l = "disown" => Near(t, m)')
  BY <1>1, <1>3, <1>5, <1>6, Moved DEF NearPlaces
<1>8. /\ Ended' = Ended /\ t \notin Ended /\ Wnt' = Wnt
      /\ Own' = [Own EXCEPT ![m] = Own'[m]] /\ Nst' = [Nst EXCEPT ![m] = Nst'[m]]
  BY <1>1, <1>3, <1>5, <1>6, <1>7, Effect
<1>9. Told(m) /\ Told(m)'
  BY <1>3, Mapped, MappedNext DEF ToldAll
<1>10. Own[m] = t /\ Nst[m] = held[t][m]
  BY <1>4, <1>9 DEF Told, Nested
<1>11. Own'[m] = t /\ Nst'[m] = IF held[t][m] = 1 THEN 1 ELSE held[t][m] - 1
  BY <1>4, <1>5, <1>6, <1>7, <1>9 DEF Told, Nested
<1>12. Sig' = Sig
  BY <1>1, SigKept
<1>13. CASE held[t][m] = 1
  <2>1. Own'[m] = Own[m] /\ Nst'[m] = Nst[m]
    BY <1>10, <1>11, <1>13
  <2>2. Own' = Own /\ Nst' = Nst
    BY <1>8, <2>1 DEF Own, Nst
  <2> QED BY <1>8, <1>12, <2>2 DEF Stutters, Promised
<1>14. CASE held[t][m] # 1
  <2>1. Own'[m] = t /\ Nst'[m] = Nst[m] - 1 /\ Nst[m] # 1
    BY <1>10, <1>11, <1>14
  <2> QED BY <1>3, <1>8, <1>10, <1>12, <2>1 DEF GivesBack, Promised
<1> QED BY <1>13, <1>14

\* The write that signals an object.
LEMMA WritePromised ==
  ASSUME Tame, Tame', NEW t \in Threads, Write(t)
  PROVE  Promised
<1> PICK o : o = obj(t)
  OBVIOUS
<1>1. pc[t] = "write" /\ fd' = Plus(o, call[t].units) /\ UNCHANGED <<shm, call, i, held>>
  BY DEF Write, local
<1>2. PICK l \in {"drain", "unlock", "done"} : Goto(t, l)
  BY DEF Write
<1>3. EInv /\ EInv' /\ Typed /\ PlaceOK(t) /\ o \in Objects /\ call[t].units \in Nat
  BY <1>1, Here DEF Tame
<1>4. /\ call[t].op # "any" /\ l \in Places \ {"dead"} /\ l \notin NearPlaces
      /\ o \in Semaphores => call[t].units <= SemMax
      /\ o \in Mutexes => call[t].units = 1
  BY <1>1, <1>3, Types DEF PlaceOK, Places, NearPlaces
<1>5. Stay(t) /\ Wants(t) = {} /\ Wants(t)' = {} /\ (Near(t, o) /\ \A m : ~Near(t, m)')
  BY <1>1, <1>2, <1>4, Moved DEF NearPlaces
<1>6. /\ Ended' = Ended /\ t \notin Ended /\ Wnt' = Wnt
      /\ o \notin Mutexes => Own' = Own /\ Nst' = Nst
      /\ o \in Mutexes => Own' = [Own EXCEPT ![o] = Own'[o]] /\ Nst' = [Nst EXCEPT ![o] = Nst'[o]]
  BY <1>1, <1>2, <1>4, <1>5, Effect
<1>7. CASE o \in Semaphores
  <2>1. fd' = [fd EXCEPT ![o] = fd[o] + call[t].units]
    BY <1>1, <1>7, Types DEF Plus
  <2>2. Sig' = [Sig EXCEPT ![o] = fd[o] + call[t].units] /\ Sig[o] = fd[o]
    BY <1>7, <2>1, SigOne
  <2>3. fd'[o] <= SemMax
    <3>1. count'[o] <= SemMax /\ count'[o] = fd'[o] + TakenNo(o)' + DueNo(o)'
      <4>1. SemOK(o)'
        BY <1>3, <1>7 DEF EInv, ObjectOK
      <4> QED BY <4>1 DEF SemOK, TakenNo, DueNo
    <3>2. TakenNo(o)' \in Nat /\ DueNo(o)' \in Nat
      BY <1>5, TakenSum, DueSum
    <3>3. fd'[o] \in Nat /\ SemMax \in Nat
      BY <1>3, Types DEF EInv, Typed
    <3> QED BY <3>1, <3>2, <3>3
  <2>4. fd'[o] = fd[o] + call[t].units
    BY <1>3, <2>1 DEF Typed
  <2>5. call[t].units \in 0 .. SemMax /\ Sig[o] + call[t].units <= SemMax
    BY <1>3, <1>4, <1>7, <2>2, <2>3, <2>4, Types
  <2> QED BY <1>6, <1>7, <2>2, <2>5, Types DEF Releases, Promised
<1>8. CASE o \in Mutexes
  <2>1. fd' = [fd EXCEPT ![o] = fd[o] + 1]
    BY <1>1, <1>4, <1>8, Types DEF Plus
  <2>2. fd[o] \in Nat /\ fd'[o] = fd[o] + 1
    BY <1>3, <2>1 DEF Typed
  <2>3. Sig' = Sig
    <3>1. \A p \in Semaphores \cup AutoEvents : fd'[p] = fd[p]
      BY <1>3, <1>8, <2>1, Types DEF Typed
    <3> QED BY <3>1, SigKept
  <2>4. Told(o) /\ Told(o)'
    BY <1>8, Mapped, MappedNext DEF ToldAll
  <2>5. Has(t, o) /\ tid[o] \notin Threads /\ held[t][o] = 0
    <3>1. Writing(t, o) /\ WordsOK(o)
      BY <1>1, <1>3, <1>8 DEF Writing, EInv, ObjectOK
    <3>2. held[t][o] \in Nat
      BY <1>3, <1>8 DEF Typed
    <3> QED BY <3>1, <3>2 DEF Has, WordsOK
  <2>6. Own[o] = t /\ Nst[o] = 1
    BY <2>4, <2>5 DEF Told, Nested
  <2>7. \A u \in Threads : ~Has(u, o)'
    <3>1. UnitOK(o)'
      BY <1>3, <1>8 DEF EInv, ObjectOK
    <3> QED BY <2>2, <3>1 DEF UnitOK
  <2>8. Own'[o] = 0 /\ Nst'[o] = 0
    BY <2>4, <2>7 DEF Told
  <2>9. Own' = [Own EXCEPT ![o] = IF Nst[o] = 1 THEN 0 ELSE t] /\ Nst' = [Nst EXCEPT ![o] = @ - 1]
    <3>1. Nst' = [Nst EXCEPT ![o] = 0] /\ Own' = [Own EXCEPT ![o] = 0]
      BY <1>6, <1>8, <2>8
    <3> QED BY <2>6, <3>1
  <2> QED BY <1>6, <1>8, <2>3, <2>6, <2>9 DEF GivesBack, Promised
<1>9. CASE o \in AutoEvents
  <2>1. fd' = [fd EXCEPT ![o] = 1]
    BY <1>1, <1>9 DEF Plus
  <2>2. Sig' = [Sig EXCEPT ![o] = 1]
    BY <1>9, <2>1, SigOne
  <2> QED BY <1>6, <1>9, <2>2, Types DEF SetsOrResets, Promised
<1>10. CASE o \in ManualEvents
  <2>1. \A p \in Semaphores \cup AutoEvents : fd'[p] = fd[p]
    BY <1>1, <1>3, <1>10, Types DEF Plus, Typed
  <2>2. Sig' = Sig
    BY <2>1, SigKept
  <2> QED BY <1>6, <1>10, <2>2, Types DEF Stutters, Promised
<1> QED BY <1>3, <1>7, <1>8, <1>9, <1>10, Types

\* The read that resets an event.
LEMMA DrainPromised ==
  ASSUME Tame, Tame', NEW t \in Threads, Drain(t)
  PROVE  Promised
<1> PICK o : o = obj(t)
  OBVIOUS
<1>1. pc[t] = "drain" /\ fd' = Read(o) /\ UNCHANGED <<call, i, held>>
  BY DEF Drain, local
<1>2. PICK l \in {"unlock", "done"} : Goto(t, l)
  BY DEF Drain
<1>3. Typed /\ PlaceOK(t)
  BY DEF Tame, EInv
<1>4. call[t].op # "any" /\ l \in Places \ {"dead"} /\ o \in Events /\ o \notin Mutexes /\ o \notin Semaphores
  BY <1>1, <1>3, Types DEF PlaceOK, Places, OnEvent
<1>5. Wants(t) = {} /\ Wants(t)' = {}
  BY <1>1, <1>2, <1>4, Moved
<1>6. Ended' = Ended /\ Wnt' = Wnt /\ Own' = Own /\ Nst' = Nst
  BY <1>1, <1>2, <1>4, <1>5, Effect
<1>7. fd' = [fd EXCEPT ![o] = 0]
  BY <1>1, <1>4 DEF Read
<1>8. CASE o \in AutoEvents
  <2>1. Sig' = [Sig EXCEPT ![o] = 0]
    BY <1>7, <1>8, SigOne
  <2> QED BY <1>6, <1>8, <2>1 DEF SetsOrResets, Promised
<1>9. CASE o \in ManualEvents
  <2>1. \A p \in Semaphores \cup AutoEvents : fd'[p] = fd[p]
    BY <1>3, <1>7, <1>9, Types DEF Typed
  <2>2. Sig' = Sig
    BY <2>1, SigKept
  <2> QED BY <1>6, <2>2 DEF Stutters, Promised
<1> QED BY <1>4, <1>8, <1>9, Types
\* A wait gets a mutex that the thread owns already.
LEMMA OwnedPromised ==
  ASSUME Tame, Tame', NEW t \in Threads, TryOwned(t)
  PROVE  Promised
<1> PICK m : m = obj(t)
  OBVIOUS
<1>1. /\ pc[t] = "try" /\ m \in Mutexes /\ tid[m] = t /\ Goto(t, "done") /\ UNCHANGED <<fd, call, i>>
      /\ held' = [held EXCEPT ![t][m] = @ + 1]
  BY DEF TryOwned, Owns, Return
<1>2. EInv /\ Typed /\ PlaceOK(t) /\ "done" \in Places \ {"dead"}
  BY DEF Tame, EInv, Places
<1>3. call[t].op = "any"
  BY <1>1, <1>2 DEF PlaceOK, InAny
<1>4. held[t][m] \in Nat /\ held[t][m] > 0 /\ Has(t, m)
  BY <1>1, <1>2, Owner1
<1>5. /\ \A u \in Threads \ {t} : held'[u] = held[u]
      /\ \A n \in Mutexes \ {m} : held'[t][n] = held[t][n]
      /\ held'[t][m] = held[t][m] + 1
  BY <1>1, <1>2 DEF Typed
<1>6. m \in Wants(t) /\ Wants(t)' = {}
  <2>1. Wants(t) = Waited(t) \ ManualEvents /\ m \in Waited(t) /\ Wants(t)' = {}
    BY <1>1, <1>2, <1>3, <1>5, Moved
  <2> QED BY <1>1, <2>1, Types
<1>7. /\ Ended' = Ended /\ Wnt[t] = Wants(t) /\ Wnt' = [Wnt EXCEPT ![t] = {}]
      /\ Own' = [Own EXCEPT ![m] = Own'[m]] /\ Nst' = [Nst EXCEPT ![m] = Nst'[m]]
  BY <1>1, <1>2, <1>5, <1>6, Effect
<1>8. Told(m) /\ Told(m)'
  BY <1>1, Mapped, MappedNext DEF ToldAll
<1>9. Own[m] = t /\ Nst[m] = held[t][m]
  BY <1>4, <1>8 DEF Told, Nested
<1>10. Own'[m] = t /\ Nst'[m] = held[t][m] + 1
  BY <1>4, <1>5, <1>8 DEF Told, Nested
<1>11. Sig' = Sig
  BY <1>1, SigKept
<1>12. Own' = [Own EXCEPT ![m] = t] /\ Nst' = [Nst EXCEPT ![m] = Nst[m] + 1]
  BY <1>7, <1>9, <1>10
<1> QED BY <1>1, <1>6, <1>7, <1>9, <1>11, <1>12 DEF TakesMutex, Promised

\* A wait reads the unit of an object.
LEMMA GrabPromised ==
  ASSUME Tame, Tame', NEW t \in Threads, Grab(t)
  PROVE  Promised
<1> PICK o : o = obj(t)
  OBVIOUS
<1>1. /\ pc[t] \in {"try read", "scan"} /\ o \notin ManualEvents /\ fd[o] > 0
      /\ fd' = Read(o) /\ Goto(t, "grabbed") /\ UNCHANGED <<call, i, held>>
  BY DEF Grab, local
<1>2. EInv /\ Typed /\ PlaceOK(t) /\ o \in Objects /\ "grabbed" \in Places \ {"dead"}
  BY <1>1, Here DEF Tame, Places
<1>3. call[t].op = "any"
  BY <1>1, <1>2 DEF PlaceOK, InAny
<1>8. fd[o] # 0
  <2>1. fd[o] \in Nat /\ fd[o] > 0
    BY <1>1, <1>2 DEF Typed
  <2> QED BY ONLY <2>1
<1>4. o \in Wants(t) /\ Wants(t)' = {} /\ Near(t, o)'
  BY <1>1, <1>2, <1>3, Moved DEF NearPlaces
<1>5. /\ Ended' = Ended /\ Wnt[t] = Wants(t) /\ Wnt' = [Wnt EXCEPT ![t] = {}]
      /\ o \notin Mutexes => Own' = Own /\ Nst' = Nst
      /\ o \in Mutexes => Own' = [Own EXCEPT ![o] = Own'[o]] /\ Nst' = [Nst EXCEPT ![o] = Nst'[o]]
  BY <1>1, <1>2, <1>4, Effect
<1>6. CASE o \in Mutexes
  <2>1. Told(o) /\ Told(o)'
    BY <1>6, Mapped, MappedNext DEF ToldAll
  <2>2. \A u \in Threads : ~Has(u, o)
    <3>1. UnitOK(o)
      BY <1>2, <1>6 DEF EInv, ObjectOK
    <3> QED BY <1>8, <3>1 DEF UnitOK
  <2>3. Own[o] = 0 /\ Nst[o] = 0
    BY <2>1, <2>2 DEF Told
  <2>4. ~(held'[t][o] > 0)
    BY <1>1, <2>2 DEF Has
  <2>5. Own'[o] = t /\ Nst'[o] = 1
    BY <1>4, <2>1, <2>4 DEF Told, Nested
  <2>6. Sig' = Sig
    <3>1. \A p \in Semaphores \cup AutoEvents : fd'[p] = fd[p]
      BY <1>1, <1>2, <1>6, Types DEF Read, Typed
    <3> QED BY <3>1, SigKept
  <2>7. Own' = [Own EXCEPT ![o] = t] /\ Nst' = [Nst EXCEPT ![o] = Nst[o] + 1]
    <3>1. Own' = [Own EXCEPT ![o] = t] /\ Nst' = [Nst EXCEPT ![o] = 1]
      BY <1>5, <1>6, <2>5
    <3> QED BY <2>3, <3>1
  <2> QED BY <1>4, <1>5, <1>6, <2>3, <2>6, <2>7 DEF TakesMutex, Promised
<1>7. CASE o \in Semaphores \cup AutoEvents
  <2>1. fd' = [fd EXCEPT ![o] = fd[o] - 1]
    <3>1. o \in AutoEvents => fd[o] = 1
      BY <1>8 DEF Tame
    <3>2. CASE o \in Semaphores
      BY <1>1, <3>2 DEF Read
    <3>3. CASE o \in AutoEvents
      <4>1. fd' = [fd EXCEPT ![o] = 0]
        BY <1>1, <3>3, Types DEF Read
      <4>2. fd[o] - 1 = 0
        BY <3>1, <3>3
      <4> QED BY <4>1, <4>2
    <3> QED BY <1>7, <3>2, <3>3
  <2>2. Sig' = [Sig EXCEPT ![o] = Sig[o] - 1] /\ Sig[o] > 0
    <3>1. Sig' = [Sig EXCEPT ![o] = fd[o] - 1] /\ Sig[o] = fd[o]
      BY <1>7, <2>1, SigOne
    <3> QED BY <1>1, <3>1
  <2>3. o \notin Mutexes
    BY <1>7, Types
  <2> QED BY <1>4, <1>5, <2>2, <2>3 DEF TakesUnit, Promised
<1> QED BY <1>1, <1>2, <1>6, <1>7, Types

\* What it has read it writes down.
LEMMA GrabbedPromised ==
  ASSUME Tame, Tame', NEW t \in Threads, Grabbed(t)
  PROVE  Promised
<1> PICK o : o = obj(t)
  OBVIOUS
<1>1. /\ pc[t] = "grabbed" /\ Goto(t, "done") /\ UNCHANGED <<fd, call, i>>
      /\ held' = IF o \in Mutexes THEN [held EXCEPT ![t][o] = @ + 1] ELSE held
  BY DEF Grabbed, Update, Return
<1>2. EInv /\ Typed /\ PlaceOK(t) /\ o \in Objects /\ o \in Waited(t) /\ o \notin ManualEvents /\ "done" \in Places \ {"dead"}
  BY <1>1, Here DEF Tame, Places, PlaceOK
<1>3. /\ \A u \in Threads \ {t} : held'[u] = held[u]
      /\ \A n \in Mutexes \ {o} : held'[t][n] = held[t][n]
      /\ o \in Mutexes => held'[t][o] = held[t][o] + 1 /\ held[t][o] \in Nat
      /\ o \notin Mutexes => held' = held
  BY <1>1, <1>2 DEF Typed
<1>4. Wants(t) = {} /\ Wants(t)' = {}
  <2>1. Wants(t) = {}
    BY <1>1 DEF Wants, Wanting
  <2> QED BY <1>1, <1>2, <1>3, <2>1, Moved
<1>5. /\ Ended' = Ended /\ Wnt' = Wnt
      /\ o \notin Mutexes => Own' = Own /\ Nst' = Nst
      /\ o \in Mutexes => Own' = [Own EXCEPT ![o] = Own'[o]] /\ Nst' = [Nst EXCEPT ![o] = Nst'[o]]
  BY <1>1, <1>2, <1>3, <1>4, Effect
<1>6. Sig' = Sig
  BY <1>1, SigKept
<1>7. CASE o \in Mutexes
  <2>1. Told(o) /\ Told(o)'
    BY <1>7, Mapped, MappedNext DEF ToldAll
  <2>2. Taken(t, o) /\ WordsOK(o)
    BY <1>1, <1>2, <1>7 DEF Taken, EInv, ObjectOK
  <2>3. Has(t, o) /\ held[t][o] = 0
    BY <1>3, <1>7, <2>2 DEF Has, WordsOK
  <2>4. Own[o] = t /\ Nst[o] = 1
    BY <2>1, <2>3 DEF Told, Nested
  <2>5. Own'[o] = t /\ Nst'[o] = 1
    BY <1>3, <1>7, <2>1, <2>3 DEF Told, Nested
  <2>6. Own' = Own /\ Nst' = Nst
    <3>1. Own' = [Own EXCEPT ![o] = Own[o]] /\ Nst' = [Nst EXCEPT ![o] = Nst[o]]
      BY <1>5, <1>7, <2>4, <2>5
    <3> QED BY <3>1 DEF Own, Nst
  <2> QED BY <1>5, <1>6, <2>6 DEF Stutters, Promised
<1>8. CASE o \notin Mutexes
  BY <1>5, <1>6, <1>8 DEF Stutters, Promised
<1> QED BY <1>7, <1>8

\* The end of a call, and of a thread.
LEMMA LeavePromised ==
  ASSUME Tame, Tame', NEW t \in Threads, Leave(t) \/ Exit(t)
  PROVE  Promised
<1>1. Typed /\ PlaceOK(t)
  BY DEF Tame, EInv
<1>2. CASE Leave(t)
  <2>1. /\ pc[t] = "done" /\ pc' = [pc EXCEPT ![t] = "idle"] /\ call' = [call EXCEPT ![t] = NoCall]
        /\ i' = [i EXCEPT ![t] = 1] /\ UNCHANGED <<fd, held>>
    BY <1>2 DEF Leave, Goto
  <2>2. Stay(t) /\ pc'[t] = "idle" /\ call'[t] = NoCall
    BY <1>1, <2>1 DEF Typed, Stay
  <2>3. Wants(t) = {} /\ Wants(t)' = {} /\ \A m : ~Near(t, m) /\ ~Near(t, m)'
    BY <2>1, <2>2 DEF Wants, Wanting, Near, NoCall
  <2> QED BY <2>1, <2>2, <2>3, Quiet DEF Promised
<1>3. CASE Exit(t)
  <2>1. pc[t] = "idle" /\ pc' = [pc EXCEPT ![t] = "dead"] /\ UNCHANGED <<fd, call, i, held>>
    BY <1>3 DEF Exit, Goto, local
  <2>2. Stay(t) /\ pc'[t] = "dead"
    BY <1>1, <2>1 DEF Typed, Stay
  <2>8. call[t] = NoCall /\ call'[t] = NoCall
    BY <1>1, <2>1 DEF PlaceOK
  <2>3. Wants(t) = {} /\ Wants(t)' = {} /\ \A m : ~Near(t, m) /\ ~Near(t, m)'
    BY <2>1, <2>2, <2>8 DEF Wants, Wanting, Near, NoCall
  <2>4. Sig' = Sig
    BY <2>1, SigKept
  <2>5. Own' = Own /\ Nst' = Nst
    BY <2>1, <2>2, <2>3, Framed, MutexesKept
  <2>6. Wnt' = Wnt /\ Wnt[t] = {}
    BY <2>2, <2>3, Framed, Mapped DEF ToldAll
  <2>7. Ended' = Ended \cup {t}
    <3>1. Ended = {u \in Threads : pc[u] = "dead"} /\ Ended' = {u \in Threads : pc'[u] = "dead"}
      BY Mapped, MappedNext DEF ToldAll
    <3> QED BY <2>2, <3>1 DEF Stay
  <2> QED BY <2>4, <2>5, <2>6, <2>7 DEF Ends, Promised
<1> QED BY <1>2, <1>3

\* The server gives back what a thread owned that has ended, and nobody sees whom it wakes.
LEMMA SweepPromised ==
  ASSUME Tame, Tame', Sweep \/ UNCHANGED vars
  PROVE  Promised
<1>1. EInv /\ EInv' /\ Typed /\ ServerOK
  BY DEF Tame, EInv
<1>2. UNCHANGED <<pc, call, i>>
  BY DEF Sweep, Abandon, WakeAbandoned, Swept, vars, local
<1>3. Wnt' = Wnt /\ Ended' = Ended /\ \A t, m : Near(t, m)' <=> Near(t, m)
  <2>1. \A t \in Threads : Wants(t)' = Wants(t)
    BY <1>2 DEF Wants, Wanting, Waited
  <2>2. \A t \in Threads : Wnt[t] = Wants(t) /\ Wnt'[t] = Wants(t)'
    BY Mapped, MappedNext DEF ToldAll
  <2>3. Wnt = [t \in Threads |-> Wnt[t]] /\ Wnt' = [t \in Threads |-> Wnt'[t]]
    BY DEF Wnt
  <2>4. Wnt' = Wnt
    BY <2>1, <2>2, <2>3
  <2>5. Ended = {u \in Threads : pc[u] = "dead"} /\ Ended' = {u \in Threads : pc'[u] = "dead"}
    BY Mapped, MappedNext DEF ToldAll
  <2> QED BY <1>2, <2>4, <2>5 DEF Near, obj
<1>4. ASSUME \A o \in Semaphores \cup AutoEvents : fd'[o] = fd[o], held' = held PROVE Promised
  <2>1. Sig' = Sig
    BY <1>4, SigKept
  <2>2. Own' = Own /\ Nst' = Nst
    BY <1>3, <1>4, MutexesKept
  <2> QED BY <1>3, <2>1, <2>2 DEF Stutters, Promised
<1>5. CASE WakeAbandoned
  <2>1. PICK m \in waking : fd' = [fd EXCEPT ![m] = @ + 1]
    BY <1>5 DEF WakeAbandoned
  <2>2. \A o \in Semaphores \cup AutoEvents : fd'[o] = fd[o]
    BY <1>1, <2>1, Types DEF Typed
  <2> QED BY <1>4, <1>5, <2>2 DEF WakeAbandoned, local
<1>6. CASE Swept \/ UNCHANGED vars
  BY <1>4, <1>6 DEF Swept, vars, local
<1>7. CASE Abandon
  <2>1. PICK m \in todo :
          \/ /\ tid[m] = victim /\ held' = [held EXCEPT ![victim][m] = 0] /\ waking' = {m}
          \/ UNCHANGED held
    BY <1>7 DEF Abandon
  <2>2. victim # 0 /\ victim \in Threads /\ pc[victim] = "dead" /\ m \in Mutexes /\ fd' = fd
    BY <1>1, <1>7 DEF Abandon, ServerOK, Typed
  <2>3. CASE tid[m] = victim /\ held' = [held EXCEPT ![victim][m] = 0] /\ waking' = {m}
    <3>1. Has(victim, m)
      BY <1>1, <2>2, <2>3, Owner1
    <3>2. Told(m) /\ Told(m)'
      BY <2>2, Mapped, MappedNext DEF ToldAll
    <3>3. Own[m] = victim
      BY <2>2, <3>1, <3>2 DEF Told
    <3>4. \A u \in Threads : ~Has(u, m)'
      <4>1. UnitOK(m)'
        BY <1>1, <2>2, Types DEF EInv, ObjectOK
      <4> QED BY <2>3, <4>1 DEF UnitOK
    <3>5. Own'[m] = 0 /\ Nst'[m] = 0
      BY <3>2, <3>4 DEF Told
    <3>6. \A u \in Threads : \A n \in Mutexes \ {m} : held'[u][n] = held[u][n]
      BY <1>1, <2>2, <2>3 DEF Typed
    <3>7. Own' = [Own EXCEPT ![m] = 0] /\ Nst' = [Nst EXCEPT ![m] = 0]
      BY <1>3, <2>2, <3>5, <3>6, MutexOne
    <3>8. victim \in Ended
      BY <2>2, Mapped DEF ToldAll
    <3>9. Sig' = Sig
      BY <2>2, SigKept
    <3>10. Abandons(victim)
      BY <1>3, <2>2, <3>3, <3>7, <3>8, <3>9 DEF Abandons
    <3> QED BY <2>2, <3>10 DEF Promised
  <2>4. CASE UNCHANGED held
    BY <1>4, <2>2, <2>4
  <2> QED BY <2>1, <2>3, <2>4
<1> QED BY <1>5, <1>6, <1>7 DEF Sweep
-----------------------------------------------------------------------------
(* The programs without waits for all objects stay what they are.          *)

\* What a step changes of the eventfds, of the calls and of the program.
Shaped ==
  /\ role' = role
  /\ \/ call' = call
     \/ \E t \in Threads : call' = [call EXCEPT ![t] = NoCall]
     \/ \E t \in Threads : \E l, op, objs, units, timeout : Enter(t, l, op, objs, units, timeout)
  /\ \/ fd' = fd
     \/ \E o : fd' = Read(o)
     \/ \E o, n : fd' = Plus(o, n)
     \/ \E m \in waking : fd' = [fd EXCEPT ![m] = @ + 1]

\* Every step is of one of these shapes.
LEMMA NextShaped == [Next]_vars => Shaped
<1> SUFFICES ASSUME [Next]_vars PROVE Shaped
  OBVIOUS
<1>1. ASSUME NEW t \in Threads, Calls(t) PROVE Shaped
  <2>1. \E l, op, objs, units, timeout : Enter(t, l, op, objs, units, timeout)
    BY <1>1, Zenon DEF Calls, CallReleaseSemaphore, CallReleaseMutex, CallEvent, CallWaitAny, CallWaitAll
  <2>2. role' = role /\ fd' = fd
    BY <2>1 DEF Enter
  <2> QED BY <2>1, <2>2 DEF Shaped
<1>2. ASSUME NEW t \in Threads, Signal(t) PROVE Shaped
  <2>1. UNCHANGED <<call, role>>
    BY <1>2 DEF Signal, Release, Lock, Unlock, Set, Reset, Drain, NotOwned, ReleaseMutex, Disown, Write, local
  <2>2. fd' = fd \/ fd' = Read(obj(t)) \/ fd' = Plus(obj(t), call[t].units)
    BY <1>2 DEF Signal, Release, Lock, Unlock, Set, Reset, Drain, NotOwned, ReleaseMutex, Disown, Write
  <2> QED BY <2>1, <2>2 DEF Shaped
<1>3. ASSUME NEW t \in Threads, WaitAny(t) \/ WaitAll(t) \/ TimedOut(t) \/ Exit(t) PROVE Shaped
  <2>1. UNCHANGED <<call, role>>
    BY <1>3 DEF WaitAny, TryOwned, SeeManual, TryHinted, Skip, Grab, Grabbed, Poll, TimedOut, Exit,
                WaitAll, PollOne, PollAll, GrabOne, TooSlow, PutBack, Keep, local
  <2>2. fd' = fd \/ fd' = Read(obj(t)) \/ fd' = Plus(obj(t), 1)
    BY <1>3 DEF WaitAny, TryOwned, SeeManual, TryHinted, Skip, Grab, Grabbed, Poll, TimedOut, Exit,
                WaitAll, PollOne, PollAll, GrabOne, TooSlow, PutBack, Keep
  <2> QED BY <2>1, <2>2 DEF Shaped
<1>4. ASSUME NEW t \in Threads, Leave(t) PROVE Shaped
  BY <1>4 DEF Leave, Shaped
<1>5. CASE Sweep \/ UNCHANGED vars
  <2>1. UNCHANGED <<call, role>>
    BY <1>5 DEF Sweep, Abandon, WakeAbandoned, Swept, vars, local
  <2>2. fd' = fd \/ \E m \in waking : fd' = [fd EXCEPT ![m] = @ + 1]
    BY <1>5 DEF Sweep, Abandon, WakeAbandoned, Swept, vars
  <2> QED BY <2>1, <2>2 DEF Shaped
<1> QED BY <1>1, <1>2, <1>3, <1>4, <1>5 DEF Next, Step

\* Such a program has no wait for all objects, ever, and an auto-reset event one unit at most.
LEMMA NextTame ==
  ASSUME Tame, SumsFit, [Next]_vars
  PROVE  Tame'
<1>1. EInv' /\ Typed /\ Shaped
  BY NextEInv, NextShaped DEF Tame, EInv
<1>2. Plain'
  BY <1>1 DEF Tame, Plain, Shaped
<1>3. \A u \in Threads : call'[u].op # "all"
  <2>1. CASE \E t \in Threads : call' = [call EXCEPT ![t] = NoCall]
    BY <1>1, <2>1 DEF Tame, NoCall, Typed
  <2>2. ASSUME NEW t \in Threads, NEW l, NEW op, NEW objs, NEW units, NEW timeout, Enter(t, l, op, objs, units, timeout)
        PROVE  \A u \in Threads : call'[u].op # "all"
    <3>1. op # "all"
      BY <2>2 DEF Enter, Tame, Plain
    <3> DEFINE c == [op |-> op, objs |-> objs, units |-> units, timeout |-> timeout]
    <3>2. call' = [call EXCEPT ![t] = c] /\ c.op # "all"
      BY <2>2, <3>1 DEF Enter
    <3> HIDE DEF c
    <3> QED BY <1>1, <3>2 DEF Tame, Typed
  <2>3. CASE call' = call
    BY <2>3 DEF Tame
  <2> QED BY <1>1, <2>1, <2>2, <2>3 DEF Shaped
<1>4. \A e \in AutoEvents : fd'[e] \in {0, 1}
  <2>1. \A e \in AutoEvents : fd[e] \in {0, 1} /\ e \in Objects /\ e \notin Semaphores /\ e \notin Mutexes
    BY Types DEF Tame
  <2>2. ASSUME NEW o, fd' = Read(o) PROVE \A e \in AutoEvents : fd'[e] \in {0, 1}
    BY <1>1, <2>1, <2>2 DEF Read, Typed
  <2>3. ASSUME NEW o, NEW n, fd' = Plus(o, n) PROVE \A e \in AutoEvents : fd'[e] \in {0, 1}
    BY <1>1, <2>1, <2>3 DEF Plus, Typed
  <2>4. ASSUME NEW m \in waking, fd' = [fd EXCEPT ![m] = @ + 1] PROVE \A e \in AutoEvents : fd'[e] \in {0, 1}
    BY <1>1, <2>1, <2>4 DEF Typed
  <2> QED BY <1>1, <2>1, <2>2, <2>3, <2>4 DEF Shaped
<1> QED BY <1>1, <1>2, <1>3, <1>4 DEF Tame

\* Every step of such a program is promised.
LEMMA NextPromised ==
  ASSUME Tame, Tame', [Next]_vars
  PROVE  Promised
<1>1. \A t \in Threads : ~WaitAll(t)
  <2>1. \A t \in Threads : pc[t] \notin InAll
    BY Mapped DEF ToldAll
  <2> QED BY <2>1 DEF InAll, WaitAll, PollOne, PollAll, GrabOne, TooSlow, PutBack, Keep
<1>2. ASSUME NEW t \in Threads, Calls(t) \/ Leave(t) \/ Exit(t) \/ TimedOut(t)
      PROVE  Promised
  BY <1>2, CallsPromised, LeavePromised, LooksPromised
<1>3. ASSUME NEW t \in Threads, Signal(t)
      PROVE  Promised
  BY <1>3, QuietPromised, GiveBackPromised, WritePromised, DrainPromised DEF Signal
<1>4. ASSUME NEW t \in Threads, WaitAny(t)
      PROVE  Promised
  BY <1>4, LooksPromised, OwnedPromised, GrabPromised, GrabbedPromised DEF WaitAny
<1>5. CASE Sweep \/ UNCHANGED vars
  BY <1>5, SweepPromised
<1> QED BY <1>1, <1>2, <1>3, <1>4, <1>5 DEF Next, Step

\* The initial states are initial states of NtSync.
LEMMA InitMapped == Init => Nt!NInit /\ (Plain => Tame)
<1> SUFFICES ASSUME Init PROVE Nt!NInit /\ (Plain => Tame)
  OBVIOUS
<1>1. /\ fd = [o \in Objects |-> IF o \in Mutexes \cup Initial THEN 1 ELSE 0] /\ waking = {} /\ EInv
      /\ pc = [t \in Threads |-> "idle"] /\ call = [t \in Threads |-> NoCall]
      /\ held = [t \in Threads |-> [m \in Mutexes |-> 0]]
  BY InitEInv DEF Init
<1>2. Plain => Tame
  BY <1>1, Types DEF Tame, NoCall
<1>3. Sig \in [Semaphores \cup AutoEvents -> 0 .. SemMax]
  <2>1. \A o \in Semaphores \cup AutoEvents : Sig[o] \in {0, 1}
    BY <1>1, Types DEF Sig
  <2>2. 0 \in 0 .. SemMax /\ 1 \in 0 .. SemMax
    BY Types
  <2> QED BY <2>1, <2>2 DEF Sig
<1>4. Own = [m \in Mutexes |-> 0] /\ Nst = [m \in Mutexes |-> 0]
  <2>1. ASSUME NEW m \in Mutexes PROVE Owner(m) = 0
    <3> DEFINE own == {t \in Threads : held[t][m] > 0 \/ Taken(t, m) \/ (pc[t] \in {"disown", "write"} /\ obj(t) = m)}
    <3>1. \A t \in Threads : pc[t] = "idle" /\ held[t][m] = 0 /\ ~Taken(t, m)
      BY <1>1 DEF Taken
    <3>2. own = {}
      BY <3>1
    <3>3. Owner(m) = IF own = {} THEN 0 ELSE CHOOSE t \in own : TRUE
      BY DEF Owner
    <3> QED BY <3>2, <3>3
  <2> QED BY <2>1 DEF Own, Nst
<1>5. Wnt = [t \in Threads |-> {}] /\ Ended = {}
  BY <1>1 DEF Wnt, Wanting, NoCall, Ended
<1>6. (Semaphores \cup Mutexes \cup AutoEvents \cup {}) \ Mutexes = Semaphores \cup AutoEvents
  BY Types
<1>7. Nt!NInit
  BY <1>3, <1>4, <1>5, <1>6 DEF Nt!NInit, Nt!Objects, Sig, Own, Nst, Wnt, Ended
<1> QED BY <1>2, <1>7

\* Of the programs with waits for all objects nothing is mapped.
LEMMA OthersStutter ==
  ASSUME ~Plain, [Next]_vars
  PROVE  ~Plain' /\ Stutters
<1>1. ~Plain'
  BY NextShaped DEF Shaped, Plain
<1> QED BY <1>1 DEF Stutters, Sig, Own, Nst, Wnt, Ended

\* esync keeps the promise of the NT objects: whatever threads do with the hints in shared memory,
\* the reads and writes of eventfds and what they poll, and when they die, is what they could
\* have done by the atomic operations of NtSync, as long as no release wraps the sum.
THEOREM EsyncImplementsNtSync == SumsFit => (Spec => ImplementsNtSync)
<1> SUFFICES ASSUME SumsFit PROVE Spec => ImplementsNtSync
  OBVIOUS
<1> DEFINE I == Plain => Tame
<1>1. Init => I /\ Nt!NInit
  BY InitMapped
<1>2. I /\ [Next]_vars => I' /\ [Nt!NNext]_(Nt!nvars)
  <2>1. CASE Plain
    BY <2>1, NextTame, NextPromised, PromisedIsNt
  <2>2. CASE ~Plain
    BY <2>2, OthersStutter, PromisedIsNt DEF Promised
  <2> QED BY <2>1, <2>2
<1> QED BY <1>1, <1>2, PTL DEF Spec, ImplementsNtSync, Nt!NSpec
=============================================================================
