---------------------------- MODULE InprocCache ----------------------------
(***************************************************************************)
(* The handle cache of the in-process synchronization objects, in          *)
(* dlls/ntdll/unix/sync_pro11.c: lookups without a lock that may only      *)
(* increment a reference count which is not 0, a cache filled and emptied  *)
(* under fd_cache_mutex, and file descriptors that are closed with the     *)
(* last reference.  One client process, with its handle table in the       *)
(* server.                                                                 *)
(***************************************************************************)
EXTENDS Integers, Sequences, FiniteSets, SequencesExt

CONSTANTS
    Threads,      \* the threads of the process
    Handles,      \* handle values
    Cacheable,    \* those that have an entry in the cache
    Objects,      \* synchronization objects of the server
    Type,         \* enum inproc_sync_type of each
    Fds,          \* file descriptors the process can open
    Lookups,      \* what a thread may call: handles and the type they must have
    Closes,       \* the handles a thread may close
    Given,        \* the objects a handle value may be given to
    Nothing       \* no object, no file descriptor, nobody

Unknown == "unknown"   \* INPROC_SYNC_UNKNOWN
Types   == {Type[o] : o \in Objects}

ASSUME ConstantsAssumption ==
    /\ Nothing \notin Threads \union Objects \union Fds \union Handles
    /\ Unknown \notin Types /\ Cacheable \subseteq Handles
    /\ Fds \subseteq Nat
    /\ \A t \in Threads : Lookups[t] \subseteq [handles : Seq(Handles) \ {<<>>}, type : Types \union {Unknown}]
                         /\ Closes[t] \subseteq Handles
    /\ Given \in [Handles -> SUBSET Objects]

VARIABLES
    table,   \* the handle table of the process, in the server
    open,    \* the object behind each file descriptor
    entry,   \* struct inproc_sync of each handle: refcount, fd, type, closed
    mutex,   \* who holds fd_cache_mutex
    pc, call,
    syncs,   \* the struct inproc_sync * a call has, in order
    stack,   \* the struct on the stack it is about to fill the cache with
    fd,      \* release_inproc_sync's fd
    named    \* ghost: what each handle of the call has stood for during it

client == <<entry, mutex, call, syncs, stack, fd>>
vars   == <<table, open, pc, named, client>>

NoCall  == [kind |-> "none", handles |-> <<>>, type |-> Unknown, then |-> "done"]
Unused  == [refcount |-> 0, fd |-> Nothing, type |-> Unknown, closed |-> FALSE]

\* A struct inproc_sync *: an entry of the cache, or a struct on the stack.
Entry(h)        == [at |-> h, fd |-> Nothing, type |-> Unknown]
OnStack(f, typ) == [at |-> Nothing, fd |-> f, type |-> typ]
NoSync          == OnStack(Nothing, Unknown)

FdOf(s)   == IF s.at # Nothing THEN entry[s.at].fd ELSE s.fd
TypeOf(s) == IF s.at # Nothing THEN entry[s.at].type ELSE s.type

Init ==
    /\ table = [h \in Handles |-> Nothing]
    /\ open  = [f \in Fds |-> Nothing]
    /\ entry = [h \in Handles |-> Unused]
    /\ mutex = Nothing
    /\ pc    = [t \in Threads |-> "idle"]
    /\ call  = [t \in Threads |-> NoCall]
    /\ syncs = [t \in Threads |-> <<>>]
    /\ stack = [t \in Threads |-> NoSync]
    /\ fd    = [t \in Threads |-> Nothing]
    /\ named = [t \in Threads |-> <<>>]

Goto(t, l) == pc' = [pc EXCEPT ![t] = l]

Then(t, l) == call' = [call EXCEPT ![t].then = l]

\* Where a thread goes from a release or a failure: to the server, to release
\* what else it has, to close_handle, or back to its caller.
After(t, rest) ==
    IF call[t].then = "miss" THEN "miss"
    ELSE IF rest # <<>> THEN "release"
    ELSE IF call[t].kind = "close" THEN "close_handle"
    ELSE "return"

\* The handle get_inproc_sync or close_inproc_sync is looking up.
handle(t) == call[t].handles[Len(syncs[t]) + 1]

Hold(t, s) == syncs' = [syncs EXCEPT ![t] = Append(@, s)]

-----------------------------------------------------------------------------
(* The calls.                                                              *)

Standing(h) == IF table[h] = Nothing THEN {} ELSE {table[h]}

Enter(t, c) ==
    /\ pc[t] = "idle"
    /\ call'  = [call EXCEPT ![t] = c]
    /\ named' = [named EXCEPT ![t] = [k \in DOMAIN c.handles |-> Standing(c.handles[k])]]
    /\ UNCHANGED <<table, open, entry, mutex, syncs, stack, fd>>

\* NtSetEvent and its kind, with one handle; NtSignalAndWaitForSingleObject
\* with two; NtWaitForMultipleObjects.
CallLookup(t) ==
    \E l \in Lookups[t] :
      /\ Enter(t, [kind |-> "lookup", handles |-> l.handles, type |-> l.type, then |-> "done"])
      /\ Goto(t, "lookup")

\* NtClose, NtDuplicateObject with DUPLICATE_CLOSE_SOURCE.
CallClose(t) ==
    \E h \in Closes[t] :
      /\ Enter(t, [kind |-> "close", handles |-> <<h>>, type |-> Unknown, then |-> "done"])
      /\ Goto(t, "lock")

Lock(t) ==
    /\ pc[t] = "lock"
    /\ mutex = Nothing
    /\ mutex' = t
    /\ Goto(t, "lookup")
    /\ UNCHANGED <<table, open, entry, call, syncs, stack, fd, named>>

Unlock(t) ==
    /\ pc[t] = "unlock"
    /\ mutex' = Nothing
    /\ Goto(t, IF call[t].kind = "close" THEN "return"
               ELSE IF call[t].then = "verify" THEN "verify"
               ELSE After(t, syncs[t]))
    /\ UNCHANGED <<table, open, entry, call, syncs, stack, fd, named>>

-----------------------------------------------------------------------------
(* get_cached_inproc_sync.                                                 *)

\* interlocked_inc_if_nonzero.
Lookup(t) ==
    /\ pc[t] = "lookup"
    /\ entry[handle(t)].refcount # 0
    /\ entry' = [entry EXCEPT ![handle(t)].refcount = @ + 1]
    /\ Hold(t, Entry(handle(t)))
    /\ Goto(t, "check")
    /\ UNCHANGED <<table, open, mutex, call, stack, fd, named>>

\* get_inproc_sync tries again with the mutex, then asks the server;
\* close_inproc_sync has nothing to do.
Miss(t) ==
    /\ \/ pc[t] = "lookup" /\ entry[handle(t)].refcount = 0
       \/ pc[t] = "miss"
    /\ Goto(t, IF call[t].kind = "close" THEN "close_handle"
               ELSE IF mutex = t THEN "fetch" ELSE "lock")
    /\ UNCHANGED <<table, open, named, client>>

CheckClosed(t) ==
    /\ pc[t] = "check"
    /\ entry[Last(syncs[t]).at].closed
    /\ Goto(t, "release")
    /\ Then(t, "miss")
    /\ UNCHANGED <<table, open, entry, mutex, syncs, stack, fd, named>>

Check(t) ==
    /\ pc[t] = "check"
    /\ ~entry[Last(syncs[t]).at].closed
    /\ Goto(t, IF call[t].kind = "close" THEN "mark"
               ELSE IF mutex = t THEN "unlock" ELSE "verify")
    /\ Then(t, "verify")
    /\ UNCHANGED <<table, open, entry, mutex, syncs, stack, fd, named>>

-----------------------------------------------------------------------------
(* get_server_inproc_sync and cache_inproc_sync, with the mutex.           *)

FreeFds == {f \in Fds : open[f] = Nothing}

FetchFails(t) ==
    /\ pc[t] = "fetch"
    /\ table[handle(t)] = Nothing
    /\ Then(t, "done")
    /\ Goto(t, "unlock")
    /\ UNCHANGED <<table, open, entry, mutex, syncs, stack, fd, named>>

\* The kernel gives the lowest file descriptor that is free.
Fetch(t) ==
    LET o == table[handle(t)] IN
    /\ pc[t] = "fetch"
    /\ o # Nothing
    /\ \E f \in FreeFds :
         /\ \A g \in FreeFds : f <= g
         /\ open'  = [open EXCEPT ![f] = o]
         /\ stack' = [stack EXCEPT ![t] = OnStack(f, Type[o])]
    /\ Then(t, "verify")
    /\ Goto(t, "cache")
    /\ UNCHANGED <<table, entry, mutex, syncs, fd, named>>

\* The handle has no entry, or the entry is still used for an object the handle
\* stood for before: the caller keeps the struct on its stack.
KeepOnStack(t) ==
    /\ pc[t] = "cache"
    /\ handle(t) \notin Cacheable \/ entry[handle(t)].refcount # 0
    /\ Hold(t, stack[t])
    /\ stack' = [stack EXCEPT ![t] = NoSync]
    /\ Goto(t, "unlock")
    /\ UNCHANGED <<table, open, entry, mutex, call, fd, named>>

\* Mutant: an entry in use is filled.
FillAlways(t) ==
    /\ pc[t] = "cache"
    /\ handle(t) \in Cacheable
    /\ entry' = [entry EXCEPT ![handle(t)].fd = stack[t].fd, ![handle(t)].type = stack[t].type,
                              ![handle(t)].closed = FALSE]
    /\ Goto(t, "publish")
    /\ UNCHANGED <<table, open, mutex, call, syncs, stack, fd, named>>

Fill(t) ==
    /\ pc[t] = "cache"
    /\ handle(t) \in Cacheable
    /\ entry[handle(t)].refcount = 0
    /\ entry' = [entry EXCEPT ![handle(t)].fd = stack[t].fd, ![handle(t)].type = stack[t].type,
                              ![handle(t)].closed = FALSE]
    /\ Goto(t, "publish")
    /\ UNCHANGED <<table, open, mutex, call, syncs, stack, fd, named>>

\* Two references: the handle's and the caller's.
Publish(t) ==
    /\ pc[t] = "publish"
    /\ entry' = [entry EXCEPT ![handle(t)].refcount = 2]
    /\ Hold(t, Entry(handle(t)))
    /\ stack' = [stack EXCEPT ![t] = NoSync]
    /\ Goto(t, "unlock")
    /\ UNCHANGED <<table, open, mutex, call, fd, named>>

-----------------------------------------------------------------------------
(* The use of the objects, and their release.                              *)

Mismatch(t) ==
    /\ pc[t] = "verify"
    /\ call[t].type \notin {Unknown, TypeOf(Last(syncs[t]))}
    /\ Then(t, "done")
    /\ Goto(t, "release")
    /\ UNCHANGED <<table, open, entry, mutex, syncs, stack, fd, named>>

\* A wait goes on with its next handle.
Verify(t) ==
    /\ pc[t] = "verify"
    /\ call[t].type \in {Unknown, TypeOf(Last(syncs[t]))}
    /\ Goto(t, IF Len(syncs[t]) < Len(call[t].handles) THEN "lookup" ELSE "use")
    /\ UNCHANGED <<table, open, named, client>>

\* The ioctl, which may block, is over.
Used(t) ==
    /\ pc[t] = "use"
    /\ Then(t, "done")
    /\ Goto(t, "release")
    /\ UNCHANGED <<table, open, entry, mutex, syncs, stack, fd, named>>

\* "save the fd now; as soon as the refcount hits 0 we cannot access the cache"
SaveFd(t) ==
    /\ pc[t] = "release"
    /\ fd' = [fd EXCEPT ![t] = FdOf(Last(syncs[t]))]
    /\ Goto(t, "drop")
    /\ UNCHANGED <<table, open, entry, mutex, call, syncs, stack, named>>

Drop(t) ==
    LET s == Last(syncs[t])
        r == IF s.at # Nothing THEN entry[s.at].refcount - 1 ELSE 0
    IN
    /\ pc[t] = "drop"
    /\ entry' = IF s.at # Nothing THEN [entry EXCEPT ![s.at].refcount = r] ELSE entry
    /\ syncs' = [syncs EXCEPT ![t] = Front(@)]
    /\ IF r = 0 THEN Goto(t, "close_fd") /\ UNCHANGED fd
       ELSE Goto(t, After(t, Front(syncs[t]))) /\ fd' = [fd EXCEPT ![t] = Nothing]
    /\ UNCHANGED <<table, open, mutex, call, stack, named>>

CloseFd(t) ==
    /\ pc[t] = "close_fd"
    /\ open' = [open EXCEPT ![fd[t]] = Nothing]
    /\ fd'   = [fd EXCEPT ![t] = Nothing]
    /\ Goto(t, After(t, syncs[t]))
    /\ UNCHANGED <<table, entry, mutex, call, syncs, stack, named>>

-----------------------------------------------------------------------------
(* close_inproc_sync, then the server.                                     *)

\* Mutant: only the reference that has just been taken is released.
MarkOnce(t) ==
    /\ pc[t] = "mark"
    /\ entry' = [entry EXCEPT ![Last(syncs[t]).at].closed = TRUE]
    /\ Then(t, "done")
    /\ Goto(t, "release")
    /\ UNCHANGED <<table, open, mutex, syncs, stack, fd, named>>

\* Two references are to be released: the one just taken and the handle's.
Mark(t) ==
    /\ pc[t] = "mark"
    /\ entry' = [entry EXCEPT ![Last(syncs[t]).at].closed = TRUE]
    /\ Hold(t, Last(syncs[t]))
    /\ Then(t, "done")
    /\ Goto(t, "release")
    /\ UNCHANGED <<table, open, mutex, stack, fd, named>>

\* close_handle may fail: the handle stays, and will be cached again.
CloseHandle(t) ==
    /\ pc[t] = "close_handle"
    /\ \E o \in {Nothing, table[call[t].handles[1]]} :
         table' = [table EXCEPT ![call[t].handles[1]] = o]
    /\ Goto(t, "unlock")
    /\ UNCHANGED <<open, entry, mutex, call, syncs, stack, fd, named>>

Return(t) ==
    /\ pc[t] = "return"
    /\ Goto(t, "idle")
    /\ call'  = [call EXCEPT ![t] = NoCall]
    /\ named' = [named EXCEPT ![t] = <<>>]
    /\ UNCHANGED <<table, open, entry, mutex, syncs, stack, fd>>

\* The server gives a handle to an object: it is created, opened or duplicated,
\* by this process or into it.
NewHandle(h, o) ==
    /\ table[h] = Nothing
    /\ table' = [table EXCEPT ![h] = o]
    /\ named' = [t \in Threads |->
                   [k \in DOMAIN named[t] |->
                      IF call[t].handles[k] = h THEN named[t][k] \union {o} ELSE named[t][k]]]
    /\ UNCHANGED <<open, pc, client>>

Step(t) ==
    \/ Lock(t) \/ Unlock(t)
    \/ Lookup(t) \/ Miss(t) \/ CheckClosed(t) \/ Check(t)
    \/ FetchFails(t) \/ Fetch(t) \/ KeepOnStack(t) \/ Fill(t) \/ Publish(t)
    \/ Mismatch(t) \/ Verify(t) \/ Used(t)
    \/ SaveFd(t) \/ Drop(t) \/ CloseFd(t)
    \/ Mark(t) \/ CloseHandle(t) \/ Return(t)

Next ==
    \/ \E t \in Threads : CallLookup(t) \/ CallClose(t) \/ Step(t)
    \/ \E h \in Handles : \E o \in Given[h] : NewHandle(h, o)

Spec == Init /\ [][Next]_vars

-----------------------------------------------------------------------------
(* Properties.                                                             *)

PCs == {"idle", "lock", "unlock", "lookup", "miss", "check", "fetch", "cache", "publish",
        "verify", "use", "release", "drop", "close_fd", "mark", "close_handle", "return"}

Syncs == {Entry(h) : h \in Handles} \union {OnStack(f, typ) : f \in Fds, typ \in Types}

\* Type correctness; in particular no reference count falls below 0, which
\* release_inproc_sync asserts.
TypeOK ==
    /\ table \in [Handles -> Objects \union {Nothing}]
    /\ open \in [Fds -> Objects \union {Nothing}]
    /\ \A h \in Handles : /\ entry[h].refcount \in Nat /\ entry[h].closed \in BOOLEAN
                         /\ entry[h].fd \in Fds \union {Nothing}
                         /\ entry[h].type \in Types \union {Unknown}
    /\ mutex \in Threads \union {Nothing}
    /\ pc \in [Threads -> PCs]
    /\ \A t \in Threads : /\ syncs[t] \in Seq(Syncs)
                         /\ stack[t] \in Syncs \union {NoSync}
                         /\ fd[t] \in Fds \union {Nothing}
                         /\ \A k \in DOMAIN named[t] : named[t][k] \subseteq Objects

\* The pointers calls have: by thread and place.
Held == UNION {{<<t, k>> : k \in DOMAIN syncs[t]} : t \in Threads}

Pointers(h) == {p \in Held : syncs[p[1]][p[2]].at = h}

\* The count of an entry is the pointers calls have to it, and one for the handle
\* while that is cached: so the object is released neither early nor never,
\* however lookups, releases and closes of the handle interleave.
RefsExact ==
    \A h \in Handles :
      entry[h].refcount = Cardinality(Pointers(h))
                            + (IF entry[h].refcount # 0 /\ ~entry[h].closed THEN 1 ELSE 0)

\* Who has to close a file descriptor: an entry in use, a struct on a stack, or
\* the thread whose release was the last.
Owners(f) ==
    {<<"entry", h>> : h \in {g \in Handles : entry[g].refcount # 0 /\ entry[g].fd = f}}
      \union {<<"held", p>> : p \in {q \in Held : syncs[q[1]][q[2]].fd = f}}
      \union {<<"fetched", t>> : t \in {u \in Threads : stack[u].fd = f}}
      \union {<<"closing", t>> : t \in {u \in Threads : pc[u] = "close_fd" /\ fd[u] = f}}

\* Every open file descriptor has one owner and a closed one has none: none
\* leaks, none is closed twice or while a call still uses it.
FdOwnedOnce ==
    \A f \in Fds : Cardinality(Owners(f)) = IF open[f] = Nothing THEN 0 ELSE 1

\* References and file descriptors are released when the last user goes, once: the
\* parts above.
CacheExact == TypeOK /\ RefsExact /\ FdOwnedOnce

\* A call works on an object its handle has stood for at some time during the
\* call, also when the handle is closed and given to another object meanwhile.
RightObject ==
    \A t \in Threads : pc[t] \in {"verify", "use"} =>
      \A k \in DOMAIN syncs[t] : LET s == syncs[t][k] IN
        /\ open[FdOf(s)] \in named[t][k]
        /\ TypeOf(s) = Type[open[FdOf(s)]]
=============================================================================
