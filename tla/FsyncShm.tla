------------------------------ MODULE FsyncShm ------------------------------
(***************************************************************************)
(* Where fsync's objects live: one shared memory section of 16-byte slots. *)
(* The server (server/fsync_pro10.c) hands out the slots' indices from a   *)
(* bitmap; every slot counts its references, one for the server's object   *)
(* and one for every thread of any process that is in a call on it.  The   *)
(* clients (dlls/ntdll/unix/fsync_pro10.c) take and drop theirs without    *)
(* the server, through a cache from handles to indices that has no lock.   *)
(*                                                                         *)
(* A handle is an object a process has open; the same handle is used again *)
(* for the object's next incarnation.                                      *)
(***************************************************************************)
EXTENDS Integers, FiniteSets

CONSTANTS
    Processes,      \* the process ids
    Threads,
    Process,        \* the process of each thread
    Objects,        \* the names of the objects
    Uses,           \* the objects each process has handles of at some time
    WordBits,       \* BITS_IN_FREE_MAP_WORD: 64 in the code
    InitialWords,   \* shm_idx_free_map_size at start: 256
    GrowBy,         \* what it grows by: 256
    MaxWords,       \* bound: the size at which the model stops growing it
    Uninitialized,  \* what the uninitialized shm_idx of fsync_alloc_shm may hold
    ClosedDuring,   \* where a thread may be in a call when another closes its handle
    Mortal          \* the processes that may be killed

\* The places of a call on an object: get_object, the call, put_object.
Places == {"load", "request", "grab", "check", "recheck", "use", "wait", "put", "sub", "free"}

ASSUME ProcessAssumption ==
    /\ Processes \subseteq Nat \ {0}
    /\ Process \in [Threads -> Processes]
    /\ Uses \in [Processes -> SUBSET Objects]
    /\ Mortal \subseteq Processes
ASSUME MapAssumption ==
    /\ WordBits \in Nat \ {0, 1} /\ InitialWords \in Nat \ {0}
    /\ GrowBy \in Nat \ {0} /\ MaxWords \in Nat /\ MaxWords >= InitialWords
    /\ Uninitialized \subseteq 0..(MaxWords * WordBits - 1)
    /\ ClosedDuring \subseteq Places

VARIABLES
    words,    \* shm_idx_free_map_size
    free,     \* the indices whose bit is set in shm_idx_free_map
    hint,     \* shm_idx_free_search_start_hint
    ref,      \* shm[2] of every slot
    lastpid,  \* shm[3]
    index,    \* fsync->shm_idx of an object, 0 if there is no such object
    opened,   \* the objects each process has a handle of
    cache,    \* fsync_list of each process, 0 for an empty entry
    status,   \* "alive", "killed" or "gone", of a process
    pc, target, slot, retry   \* of a thread: its object, the slot it refers to

map     == <<words, free, hint>>
handles == <<index, opened, cache, status>>
locals  == <<target, slot, retry>>
vars    == <<map, ref, lastpid, handles, pc, locals>>

Nothing == "nothing"
Indices == 0..(MaxWords * WordBits - 1)
Bits(w) == (w * WordBits)..(w * WordBits + WordBits - 1)
Word(y) == y \div WordBits

Init ==
    /\ words = InitialWords
    /\ free  = 1..(InitialWords * WordBits - 1)   \* "Avoid allocating shm_index 0."
    /\ hint  = 0
    /\ ref     = [y \in Indices |-> 0]
    /\ lastpid = [y \in Indices |-> 0]
    /\ index   = [o \in Objects |-> 0]
    /\ opened  = [p \in Processes |-> {}]
    /\ cache   = [p \in Processes |-> [o \in Objects |-> 0]]
    /\ status  = [p \in Processes |-> "alive"]
    /\ pc      = [t \in Threads |-> "idle"]
    /\ target  = [t \in Threads |-> Nothing]
    /\ slot    = [t \in Threads |-> 0]
    /\ retry   = [t \in Threads |-> FALSE]

-----------------------------------------------------------------------------
(* The bitmap of free indices.                                             *)

Lowest(S) == CHOOSE y \in S : \A z \in S : y <= z

\* Where the next search starts, after a word has given up an index.
TakenFrom(w, left) == IF left = {} THEN w + 1 ELSE w

HasFree(w) == Bits(w) \intersect free # {}

\* fsync_alloc_shm finds the first word with a free index, or adds words; when
\* the hint is past the last word the search loop is never entered and shm_idx
\* has never been assigned.
Found(y) ==
    \E w \in hint..(words - 1) :
        /\ HasFree(w) /\ \A v \in hint..(w - 1) : ~HasFree(v)
        /\ y = Lowest(Bits(w) \intersect free)
        /\ free' = free \ {y}
        /\ hint' = TakenFrom(w, Bits(w) \intersect free')
        /\ UNCHANGED words

Expanded(y) ==
    /\ \A w \in hint..(words - 1) : ~HasFree(w)
    /\ hint < words \/ 0 \in Uninitialized
    /\ words + GrowBy <= MaxWords
    /\ y = words * WordBits
    /\ words' = words + GrowBy
    /\ free'  = (free \union (y..(words' * WordBits - 1))) \ {y}
    /\ hint'  = TakenFrom(words, Bits(words) \ {y})

Garbage(y) ==
    /\ hint >= words
    /\ y \in Uninitialized \ {0}
    /\ UNCHANGED map

AllocShm(y) ==
    /\ Found(y) \/ Expanded(y) \/ Garbage(y)
    /\ ref'     = [ref EXCEPT ![y] = 1]
    /\ lastpid' = [lastpid EXCEPT ![y] = 0]

HintAfter(Y) ==
    LET freed == {Word(y) : y \in Y} \union {hint} IN Lowest(freed)

\* Mutant: the index is free as soon as the server drops its reference.
FreeAtOnce(Y) ==
    /\ ref'  = [y \in Indices |-> IF y \in Y /\ ref[y] > 0 THEN ref[y] - 1 ELSE ref[y]]
    /\ free' = free \union Y
    /\ hint' = HintAfter(Y)
    /\ UNCHANGED words

\* fsync_free_shm_idx, for every index in Y.
FreeShm(Y) ==
    LET dropped == {y \in Y : ref[y] > 0}
        last    == {y \in dropped : ref[y] = 1}
    IN  /\ ref'  = [y \in Indices |-> IF y \in dropped THEN ref[y] - 1 ELSE ref[y]]
        /\ free' = free \union last
        /\ hint' = HintAfter(last)
        /\ UNCHANGED words

-----------------------------------------------------------------------------
(* Handles.                                                                *)

Alive(t) == status[Process[t]] = "alive"
Goto(t, l) == pc' = [pc EXCEPT ![t] = l]

Return(t) ==
    /\ Goto(t, "idle")
    /\ target' = [target EXCEPT ![t] = Nothing]
    /\ slot'   = [slot EXCEPT ![t] = 0]

\* The threads of a process that are in a call on an object.
Users(p, o) == {t \in Threads : Process[t] = p /\ pc[t] # "idle" /\ target[t] = o}

\* create_fsync, for a name there is no object of yet, or for an existing one
\* (as open_fsync); the new handle goes to the cache.
Create(t, o) ==
    LET p == Process[t] IN
    /\ pc[t] = "idle" /\ Alive(t)
    /\ index[o] = 0 /\ o \in Uses[p] \ opened[p]
    /\ \E y \in Indices :
         /\ AllocShm(y)
         /\ index' = [index EXCEPT ![o] = y]
         /\ cache' = [cache EXCEPT ![p][o] = y]
    /\ opened' = [opened EXCEPT ![p] = @ \union {o}]
    /\ UNCHANGED <<status, pc, locals>>

Open(t, o) ==
    LET p == Process[t] IN
    /\ pc[t] = "idle" /\ Alive(t)
    /\ index[o] # 0 /\ o \in Uses[p] \ opened[p]
    /\ opened' = [opened EXCEPT ![p] = @ \union {o}]
    /\ cache'  = [cache EXCEPT ![p][o] = index[o]]
    /\ UNCHANGED <<map, ref, lastpid, index, status, pc, locals>>

\* fd_cache_mutex of the process is held: NtClose empties the cache entry and
\* has the server close the handle under it.
Locked(p) == \E t \in Threads : Process[t] = p /\ pc[t] = "close"

\* NtDuplicateObject: the new handle, of the same process or of another, is not
\* in the cache of its process.
Duplicate(t, q, o) ==
    /\ pc[t] = "idle" /\ Alive(t) /\ ~Locked(Process[t]) /\ status[q] = "alive"
    /\ o \in opened[Process[t]] /\ o \in Uses[q] \ opened[q]
    /\ opened' = [opened EXCEPT ![q] = @ \union {o}]
    /\ UNCHANGED <<map, ref, lastpid, index, cache, status, pc, locals>>

\* NtClose: fsync_close empties the cache entry, then the server closes the
\* handle.
FsyncClose(t, o) ==
    LET p == Process[t] IN
    /\ pc[t] = "idle" /\ Alive(t) /\ ~Locked(p)
    /\ o \in opened[p]
    /\ \A u \in Users(p, o) : pc[u] \in ClosedDuring
    /\ cache'  = [cache EXCEPT ![p][o] = 0]
    /\ target' = [target EXCEPT ![t] = o]
    /\ Goto(t, "close")
    /\ UNCHANGED <<map, ref, lastpid, index, opened, status, slot, retry>>

\* The objects nobody has open any more are destroyed, and their references
\* dropped.
Closed(p, O) ==
    LET last == {o \in O : \A q \in Processes \ {p} : o \notin opened[q]} IN
    /\ opened' = [opened EXCEPT ![p] = @ \ O]
    /\ index'  = [o \in Objects |-> IF o \in last THEN 0 ELSE index[o]]
    /\ FreeShm({index[o] : o \in last})

CloseHandle(t) ==
    /\ pc[t] = "close" /\ Alive(t)
    /\ Closed(Process[t], {target[t]})
    /\ Return(t)
    /\ UNCHANGED <<lastpid, cache, status, retry>>

-----------------------------------------------------------------------------
(* get_object and put_object, around every call on an object.              *)

Begin(t, o) ==
    /\ pc[t] = "idle" /\ Alive(t)
    /\ o \in opened[Process[t]]
    /\ "load" \in ClosedDuring \/ \A u \in Users(Process[t], o) : pc[u] # "close"
    /\ target' = [target EXCEPT ![t] = o]
    /\ Goto(t, "load")
    /\ UNCHANGED <<map, ref, lastpid, handles, slot, retry>>

Cached(t) == cache[Process[t]][target[t]]

Load(t) ==
    /\ pc[t] = "load" /\ Alive(t)
    /\ slot' = [slot EXCEPT ![t] = Cached(t)]
    /\ Goto(t, IF Cached(t) = 0 THEN "request" ELSE "grab")
    /\ UNCHANGED <<map, ref, lastpid, handles, target, retry>>

\* With fd_cache_mutex held: the cache once more, then get_fsync_idx, which
\* takes the reference, and the cache is filled.
Request(t) ==
    LET p == Process[t]
        y == index[target[t]]
    IN
    /\ pc[t] = "request" /\ Alive(t) /\ ~Locked(p)
    /\ IF Cached(t) # 0
       THEN Goto(t, "load") /\ UNCHANGED <<ref, cache, target, slot>>
       ELSE IF target[t] \notin opened[p]
       THEN Return(t) /\ UNCHANGED <<ref, cache>>
       ELSE /\ UNCHANGED target
            /\ ref'   = [ref EXCEPT ![y] = @ + 1]
            /\ cache' = [cache EXCEPT ![p][target[t]] = y]
            /\ slot'  = [slot EXCEPT ![t] = y]
            /\ Goto(t, "use")
    /\ UNCHANGED <<map, lastpid, index, opened, status, retry>>

Grab(t) ==
    /\ pc[t] = "grab" /\ Alive(t)
    /\ ref' = [ref EXCEPT ![slot[t]] = @ + 1]
    /\ Goto(t, "check")
    /\ UNCHANGED <<map, lastpid, handles, locals>>

\* "Cache changed while getting object": the reference is dropped again.
Stale(t) ==
    /\ Goto(t, "put")
    /\ retry' = [retry EXCEPT ![t] = TRUE]

CheckRef(t) ==
    /\ pc[t] = "check" /\ Alive(t)
    /\ IF ref[slot[t]] < 2 THEN Stale(t) ELSE Goto(t, "recheck") /\ UNCHANGED retry
    /\ UNCHANGED <<map, ref, lastpid, handles, target, slot>>

CheckCache(t) ==
    /\ pc[t] = "recheck" /\ Alive(t)
    /\ IF Cached(t) # slot[t] THEN Stale(t) ELSE Goto(t, "use") /\ UNCHANGED retry
    /\ UNCHANGED <<map, ref, lastpid, handles, target, slot>>

\* A signalling call is over when it has signalled; a wait leaves its process
\* id in the slot as long as it lasts.
Signal(t) ==
    /\ pc[t] = "use" /\ Alive(t)
    /\ Goto(t, "put")
    /\ UNCHANGED <<map, ref, lastpid, handles, locals>>

Wait(t) ==
    /\ pc[t] = "use" /\ Alive(t)
    /\ lastpid' = [lastpid EXCEPT ![slot[t]] = Process[t]]
    /\ Goto(t, "wait")
    /\ UNCHANGED <<map, ref, handles, locals>>

\* Mutant: last_pid is left behind.
WaitLeftBehind(t) ==
    /\ pc[t] = "wait" /\ Alive(t)
    /\ Goto(t, "put")
    /\ UNCHANGED <<map, ref, lastpid, handles, locals>>

EndWait(t) ==
    /\ pc[t] = "wait" /\ Alive(t)
    /\ lastpid' = [lastpid EXCEPT ![slot[t]] = IF @ = Process[t] THEN 0 ELSE @]
    /\ Goto(t, "put")
    /\ UNCHANGED <<map, ref, handles, locals>>

\* put_object looks at the count, and then drops the reference itself or has
\* the server drop the last one.
Put(t) ==
    /\ pc[t] = "put" /\ Alive(t)
    /\ Goto(t, IF ref[slot[t]] = 1 THEN "free" ELSE "sub")
    /\ UNCHANGED <<map, ref, lastpid, handles, locals>>

PutDone(t) ==
    /\ IF retry[t] THEN Goto(t, "load") /\ UNCHANGED <<target, slot>> ELSE Return(t)
    /\ retry' = [retry EXCEPT ![t] = FALSE]

Sub(t) ==
    /\ pc[t] = "sub" /\ Alive(t)
    /\ ref' = [ref EXCEPT ![slot[t]] = @ - 1]
    /\ PutDone(t)
    /\ UNCHANGED <<map, lastpid, handles>>

FreeRequest(t) ==
    /\ pc[t] = "free" /\ Alive(t)
    /\ FreeShm({slot[t]})
    /\ PutDone(t)
    /\ UNCHANGED <<lastpid, handles>>

-----------------------------------------------------------------------------
(* A process is killed: the server closes its handles; when the process    *)
(* object goes, fsync_cleanup_process_shm_indices looks for what the waits *)
(* of its threads have left referenced.                                    *)

Kill(p) ==
    /\ p \in Mortal /\ status[p] = "alive"
    /\ status' = [status EXCEPT ![p] = "killed"]
    /\ Closed(p, opened[p])
    /\ UNCHANGED <<lastpid, cache, pc, locals>>

Holds(t, y) == slot[t] = y /\ pc[t] \in {"check", "recheck", "use", "wait", "put", "sub", "free"}

Orphans(p) ==
    {y \in 1..(words * WordBits - 1) : y \notin free /\ lastpid[y] = p /\ ref[y] = 1}

Cleanup(p) ==
    /\ status[p] = "killed"
    /\ status' = [status EXCEPT ![p] = "gone"]
    /\ FreeShm(Orphans(p))
    /\ pc' = [t \in Threads |->
                IF Process[t] = p /\ \E y \in Orphans(p) : Holds(t, y) THEN "idle" ELSE pc[t]]
    /\ UNCHANGED <<lastpid, index, opened, cache, locals>>

-----------------------------------------------------------------------------

Next ==
    \/ \E t \in Threads, o \in Objects :
         Create(t, o) \/ Open(t, o) \/ FsyncClose(t, o) \/ Begin(t, o)
    \/ \E t \in Threads, q \in Processes, o \in Objects : Duplicate(t, q, o)
    \/ \E t \in Threads :
         \/ CloseHandle(t)
         \/ Load(t) \/ Request(t) \/ Grab(t) \/ CheckRef(t) \/ CheckCache(t)
         \/ Signal(t) \/ Wait(t) \/ EndWait(t)
         \/ Put(t) \/ Sub(t) \/ FreeRequest(t)
    \/ \E p \in Processes : Kill(p) \/ Cleanup(p)

Spec == Init /\ [][Next]_vars

-----------------------------------------------------------------------------

\* Every variable stays in its range; no count of references drops below 0.
TypeOK ==
    /\ words \in InitialWords..MaxWords
    /\ free \subseteq 1..(words * WordBits - 1)
    /\ hint \in 0..words
    /\ ref \in [Indices -> Nat]
    /\ lastpid \in [Indices -> Processes \union {0}]
    /\ index \in [Objects -> Indices]
    /\ opened \in [Processes -> SUBSET Objects]
    /\ cache \in [Processes -> [Objects -> Indices]]
    /\ status \in [Processes -> {"alive", "killed", "gone"}]
    /\ pc \in [Threads -> Places \union {"idle", "close"}]
    /\ target \in [Threads -> Objects \union {Nothing}]
    /\ slot \in [Threads -> Indices]
    /\ retry \in [Threads -> BOOLEAN]

\* An object has its slot for itself: no other object has the same index, and
\* the index is not free (fsync_alloc_shm, fsync_free_shm_idx).
SlotExclusive ==
    \A o \in Objects : index[o] # 0 =>
        /\ index[o] \notin free
        /\ \A q \in Objects \ {o} : index[q] # index[o]

\* A thread in a call on an object works on a slot that has not been given
\* back, not even by the cleanup after another process (get_cached_object,
\* fsync_cleanup_process_shm_indices).
SlotInUse ==
    \A t \in Threads, y \in Indices : Alive(t) /\ Holds(t, y) => y \notin free /\ ref[y] > 0

\* The count of a slot is exactly the number of the object and the threads,
\* dead or alive, that refer to it, and no slot is free that has a reference
\* (grab_object, put_object, fsync_free_shm_idx).
RefsExact ==
    \A y \in 1..(words * WordBits - 1) :
        /\ ref[y] = Cardinality({o \in Objects : index[o] = y})
                     + Cardinality({t \in Threads : Holds(t, y)})
        /\ y \in free => ref[y] = 0

\* "shm_idx_free_search_start_hint is always at the first word with a free
\* index or before that."
HintOK == \A y \in free : hint <= Word(y)

\* fsync_free_shm_idx: "assert( !(shm_idx_free_map[idx] & mask) )".
FreedOnce ==
    \A t \in Threads : pc[t] = "free" /\ Alive(t) =>
        ~(ref[slot[t]] = 1 /\ slot[t] \in free)

\* A slot belongs to one object for as long as anybody uses it, and comes back
\* once, to where the search for a free one finds it: the parts above.
SlotsExact == TypeOK /\ SlotExclusive /\ SlotInUse /\ HintOK /\ FreedOnce
=============================================================================
