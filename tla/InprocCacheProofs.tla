------------------------- MODULE InprocCacheProofs --------------------------
(***************************************************************************)
(* The handle cache of the in-process synchronization objects, proved for  *)
(* any number of threads, handles, objects and file descriptors, and calls *)
(* with any number of handles: counts are exact, every file descriptor is  *)
(* closed once, and a call works on what its handle stands for.            *)
(***************************************************************************)
EXTENDS InprocCache, FiniteSetTheorems, SequenceTheorems, TLAPS

Calls == [kind : {"none", "lookup", "close"}, handles : Seq(Handles),
          type : Types \union {Unknown}, then : {"done", "verify", "miss"}]

Entries == [refcount : Nat, fd : Fds \union {Nothing}, type : Types \union {Unknown},
            closed : BOOLEAN]

Typed ==
    /\ table \in [Handles -> Objects \union {Nothing}]
    /\ open \in [Fds -> Objects \union {Nothing}]
    /\ entry \in [Handles -> Entries]       /\ mutex \in Threads \union {Nothing}
    /\ pc \in [Threads -> PCs]              /\ call \in [Threads -> Calls]
    /\ syncs \in [Threads -> Seq(Syncs)]    /\ stack \in [Threads -> Syncs \union {NoSync}]
    /\ fd \in [Threads -> Fds \union {Nothing}]
    /\ named \in [Threads -> Seq(SUBSET Objects)]

\* How many handles a call has, and how many pointers.
Size(t) == Len(call[t].handles)
Got(t)  == Len(syncs[t])

\* A lookup has pointers to what it has looked up, and returns with none.
LookupAt(t) ==
    call[t].kind = "lookup" =>
      /\ pc[t] \notin {"mark", "close_handle"}
      /\ Got(t) <= Size(t)
      /\ pc[t] \in {"lock", "lookup", "miss", "fetch", "cache", "publish"} => Got(t) < Size(t)
      /\ pc[t] \in {"check", "verify", "use", "release", "drop"} => Got(t) > 0
      /\ pc[t] = "return" => Got(t) = 0
      /\ pc[t] = "unlock" => call[t].then = "done" \/ (call[t].then = "verify" /\ Got(t) > 0)
      /\ pc[t] \in {"cache", "publish"} => call[t].then = "verify"
      /\ pc[t] \in {"release", "drop", "close_fd"} => call[t].then \in {"miss", "done"}
      /\ pc[t] = "close_fd" /\ call[t].then = "miss" => Got(t) < Size(t)
      /\ \A k \in DOMAIN syncs[t] : syncs[t][k].at \in {Nothing, call[t].handles[k]}
      /\ pc[t] = "check" => syncs[t][Got(t)].at # Nothing

\* A close has a pointer to the entry of its handle, and one more to drop the handle's.
CloseAt(t) ==
    call[t].kind = "close" =>
      /\ pc[t] \notin {"fetch", "cache", "publish", "verify", "use"}
      /\ Size(t) = 1
      /\ pc[t] \in {"lock", "lookup", "miss", "close_handle", "unlock", "return"} => Got(t) = 0
      /\ pc[t] \in {"check", "mark"} => Got(t) = 1
      /\ pc[t] \in {"release", "drop"} => Got(t) > 0 /\ (call[t].then = "miss" => Got(t) = 1)
      /\ pc[t] \in {"release", "drop", "close_fd"} => call[t].then \in {"miss", "done"}
      /\ pc[t] = "close_fd" /\ call[t].then = "miss" => Got(t) = 0
      /\ \A k \in DOMAIN syncs[t] : syncs[t][k].at = call[t].handles[1]

Local(t) ==
    /\ LookupAt(t) /\ CloseAt(t)
    /\ pc[t] = "idle" <=> call[t].kind = "none"
    /\ pc[t] = "idle" => Got(t) = 0 /\ Size(t) = 0
    /\ Len(named[t]) = Size(t)
    /\ pc[t] \in {"cache", "publish"} => stack[t].at = Nothing /\ stack[t].fd \in Fds
    /\ pc[t] \notin {"cache", "publish"} => stack[t] = NoSync
    /\ pc[t] = "close_fd" => fd[t] \in Fds

\* Where a call holds fd_cache_mutex.
Exclusive(t) ==
    \/ pc[t] \in {"unlock", "fetch", "cache", "publish", "mark", "close_handle"}
    \/ call[t].kind = "close" /\ pc[t] \notin {"lock", "return"}

Locked(t) == Exclusive(t) => mutex = t

-----------------------------------------------------------------------------
(* What the threads share.                                                 *)

Counted(h) ==
    /\ IsFiniteSet(Pointers(h))
    /\ entry[h].refcount = Cardinality(Pointers(h))
                             + (IF entry[h].refcount # 0 /\ ~entry[h].closed THEN 1 ELSE 0)

Owned(f) == IF open[f] = Nothing THEN Owners(f) = {} ELSE \E a : Owners(f) = {a}

\* An entry in use has a file descriptor of the object it is for, and while the
\* handle is not closed that is the object the handle stands for.
Cached(h) ==
    entry[h].refcount # 0 =>
      /\ entry[h].fd \in Fds /\ open[entry[h].fd] # Nothing
      /\ entry[h].type = Type[open[entry[h].fd]]
      /\ ~entry[h].closed => open[entry[h].fd] = table[h]

\* The pointers of a call that are known to be to what its handles stand for.
Checked(t) ==
    IF call[t].then = "done" /\ pc[t] \in {"release", "drop", "close_fd", "unlock", "return"} THEN 0
    ELSE IF pc[t] \in {"check", "release", "drop"} THEN Got(t) - 1 ELSE Got(t)

Linked(t) ==
    /\ \A k \in DOMAIN named[t] : table[call[t].handles[k]] \in {Nothing} \union named[t][k]
    /\ \A k \in DOMAIN syncs[t] :
         syncs[t][k].at = Nothing => syncs[t][k].type = Type[open[syncs[t][k].fd]]
    /\ call[t].kind = "lookup" =>
         \A k \in 1..Checked(t) : open[FdOf(syncs[t][k])] \in named[t][k]
    /\ pc[t] = "mark" => ~entry[call[t].handles[1]].closed
    /\ call[t].kind = "close" /\ pc[t] \in {"miss", "close_handle", "release", "drop", "close_fd"} =>
         entry[call[t].handles[1]].refcount = 0 \/ entry[call[t].handles[1]].closed
    /\ pc[t] \in {"cache", "publish"} =>
         /\ table[handle(t)] # Nothing
         /\ open[stack[t].fd] = table[handle(t)] /\ stack[t].type = Type[table[handle(t)]]
    /\ pc[t] = "publish" =>
         /\ entry[handle(t)].refcount = 0 /\ ~entry[handle(t)].closed
         /\ entry[handle(t)].fd = stack[t].fd /\ entry[handle(t)].type = stack[t].type
    /\ pc[t] = "drop" => fd[t] = FdOf(syncs[t][Got(t)])

CInv ==
    /\ Typed
    /\ \A t \in Threads : Local(t) /\ Locked(t) /\ Linked(t)
    /\ \A h \in Handles : Counted(h) /\ Cached(h)
    /\ \A f \in Fds : Owned(f)
-----------------------------------------------------------------------------
(* Pointers, sequences of pointers, and owners of file descriptors.        *)

\* A pointer is to an entry of the cache or to a struct on the stack.
LEMMA Kinds ==
    /\ Nothing \notin Threads /\ Nothing \notin Objects /\ Nothing \notin Fds /\ Nothing \notin Handles
    /\ NoSync.at = Nothing /\ NoSync.fd = Nothing /\ NoSync \notin Syncs
    /\ \A h \in Handles : Entry(h) \in Syncs /\ Entry(h).at = h /\ Entry(h).fd = Nothing
    /\ \A f \in Fds, typ \in Types :
         OnStack(f, typ) \in Syncs /\ OnStack(f, typ).at = Nothing
         /\ OnStack(f, typ).fd = f /\ OnStack(f, typ).type = typ
    /\ \A s \in Syncs : \/ s.at \in Handles /\ s.fd = Nothing
                        \/ s.at = Nothing /\ s.fd \in Fds /\ s.type \in Types
<1>1. /\ Nothing \notin Threads /\ Nothing \notin Objects /\ Nothing \notin Fds /\ Nothing \notin Handles
      /\ Unknown \notin Types
  BY ConstantsAssumption
<1>2. /\ NoSync.at = Nothing /\ NoSync.fd = Nothing /\ NoSync.type = Unknown
  BY DEF NoSync, OnStack
<1>3. /\ \A h \in Handles : Entry(h) \in Syncs /\ Entry(h).at = h /\ Entry(h).fd = Nothing
      /\ \A f \in Fds, typ \in Types :
           OnStack(f, typ) \in Syncs /\ OnStack(f, typ).at = Nothing
           /\ OnStack(f, typ).fd = f /\ OnStack(f, typ).type = typ
  BY DEF Syncs, Entry, OnStack
<1>4. ASSUME NEW s \in Syncs
      PROVE  \/ s.at \in Handles /\ s.fd = Nothing
             \/ s.at = Nothing /\ s.fd \in Fds /\ s.type \in Types
  BY DEF Syncs, Entry, OnStack
<1> QED BY <1>1, <1>2, <1>3, <1>4

\* One more pointer, at the end.
LEMMA Growing ==
    ASSUME NEW S, NEW q \in Seq(S), NEW e \in S
    PROVE  /\ Append(q, e) \in Seq(S) /\ Len(Append(q, e)) = Len(q) + 1 /\ Len(q) \in Nat
           /\ DOMAIN q = 1..Len(q) /\ DOMAIN Append(q, e) = 1..(Len(q) + 1)
           /\ \A k \in 1..Len(q) : Append(q, e)[k] = q[k]
           /\ Append(q, e)[Len(q) + 1] = e
OBVIOUS

\* No sequence but the empty one has length 0.
LEMMA Empty == ASSUME NEW S, NEW q \in Seq(S) PROVE q # <<>> <=> Len(q) # 0
OBVIOUS

\* The last pointer gone.
LEMMA Shrinking ==
    ASSUME NEW S, NEW q \in Seq(S), Len(q) > 0
    PROVE  /\ Front(q) \in Seq(S) /\ Len(Front(q)) = Len(q) - 1 /\ Len(q) \in Nat \ {0}
           /\ DOMAIN q = 1..Len(q) /\ DOMAIN Front(q) = 1..(Len(q) - 1)
           /\ \A k \in 1..(Len(q) - 1) : Front(q)[k] = q[k]
           /\ Last(q) = q[Len(q)] /\ Last(q) \in S
<1>1. Len(q) \in Nat \ {0} /\ DOMAIN q = 1..Len(q) /\ \A k \in 1..Len(q) : q[k] \in S
  OBVIOUS
<1>2. /\ Front(q) = SubSeq(q, 1, Len(q) - 1) /\ Last(q) = q[Len(q)]
  BY DEF Front, Last
<1>3. /\ SubSeq(q, 1, Len(q) - 1) \in Seq(S) /\ Len(SubSeq(q, 1, Len(q) - 1)) = Len(q) - 1
      /\ \A k \in 1..(Len(q) - 1) : SubSeq(q, 1, Len(q) - 1)[k] = q[k]
  BY <1>1
<1> QED BY <1>1, <1>2, <1>3

\* Held are the places of all pointers.
LEMMA HeldIs ==
    /\ \A p \in Held : p[1] \in Threads /\ p[2] \in DOMAIN syncs[p[1]] /\ p = <<p[1], p[2]>>
    /\ \A t \in Threads : \A k \in DOMAIN syncs[t] : <<t, k>> \in Held
<1>1. ASSUME NEW p \in Held PROVE p[1] \in Threads /\ p[2] \in DOMAIN syncs[p[1]] /\ p = <<p[1], p[2]>>
  <2>1. PICK t \in Threads : p \in {<<t, k>> : k \in DOMAIN syncs[t]}
    BY DEF Held
  <2> QED BY <2>1
<1>2. ASSUME NEW t \in Threads, NEW k \in DOMAIN syncs[t] PROVE <<t, k>> \in Held
  BY DEF Held
<1> QED BY <1>1, <1>2

\* Who owns a file descriptor, one kind of owner at a time.
LEMMA OwnersAre ==
    ASSUME NEW f \in Fds
    PROVE  /\ \A h \in Handles : entry[h].refcount # 0 /\ entry[h].fd = f => <<"entry", h>> \in Owners(f)
           /\ \A t \in Threads : \A k \in DOMAIN syncs[t] :
                syncs[t][k].fd = f => <<"held", <<t, k>>>> \in Owners(f)
           /\ \A t \in Threads : stack[t].fd = f => <<"fetched", t>> \in Owners(f)
           /\ \A t \in Threads : pc[t] = "close_fd" /\ fd[t] = f => <<"closing", t>> \in Owners(f)
<1>1. \A t \in Threads : \A k \in DOMAIN syncs[t] :
         syncs[t][k].fd = f => <<"held", <<t, k>>>> \in Owners(f)
  <2> SUFFICES ASSUME NEW t \in Threads, NEW k \in DOMAIN syncs[t], syncs[t][k].fd = f
               PROVE  <<"held", <<t, k>>>> \in Owners(f)
    OBVIOUS
  <2>1. <<t, k>> \in Held /\ <<t, k>>[1] = t /\ <<t, k>>[2] = k
    BY HeldIs
  <2>2. <<t, k>> \in {q \in Held : syncs[q[1]][q[2]].fd = f}
    BY <2>1
  <2> QED BY <2>2 DEF Owners
<1> QED BY <1>1 DEF Owners

\* An open file descriptor has one owner, a closed one has none.
LEMMA OneOwner ==
    ASSUME CInv, NEW f \in Fds, NEW a \in Owners(f)
    PROVE  open[f] # Nothing /\ \A b \in Owners(f) : b = a
<1>1. Owned(f)
  BY DEF CInv
<1> QED BY <1>1 DEF Owned

\* A pointer into the cache is counted: its entry is in use, and once more by the
\* handle while that is not closed.
LEMMA PointerCounts ==
    ASSUME CInv, NEW t \in Threads, NEW k \in DOMAIN syncs[t], syncs[t][k].at # Nothing
    PROVE  /\ syncs[t][k].at \in Handles
           /\ <<t, k>> \in Pointers(syncs[t][k].at)
           /\ entry[syncs[t][k].at].refcount \in Nat \ {0}
           /\ ~entry[syncs[t][k].at].closed => entry[syncs[t][k].at].refcount > 1
<1> DEFINE h == syncs[t][k].at
<1>1. syncs[t] \in Seq(Syncs)
  BY DEF CInv, Typed
<1>2. syncs[t][k] \in Syncs
  BY <1>1
<1>3. h \in Handles
  BY <1>2, Kinds
<1>4. <<t, k>> \in Pointers(h)
  <2>1. <<t, k>> \in Held /\ <<t, k>>[1] = t /\ <<t, k>>[2] = k
    BY HeldIs
  <2> QED BY <2>1 DEF Pointers
<1>5. IsFiniteSet(Pointers(h)) /\ Cardinality(Pointers(h)) \in Nat \ {0}
  <2>1. IsFiniteSet(Pointers(h))
    BY <1>3 DEF CInv, Counted
  <2>2. Cardinality(Pointers(h)) \in Nat
    BY <2>1, FS_CardinalityType
  <2>3. Cardinality(Pointers(h)) # 0
    BY <2>1, <1>4, FS_EmptySet
  <2> QED BY <2>1, <2>2, <2>3
<1>6. entry[h].refcount = Cardinality(Pointers(h))
                            + (IF entry[h].refcount # 0 /\ ~entry[h].closed THEN 1 ELSE 0)
  BY <1>3 DEF CInv, Counted
<1> HIDE DEF h
<1>7. entry[h].refcount \in Nat \ {0} /\ (~entry[h].closed => entry[h].refcount > 1)
  BY <1>5, <1>6
<1> QED BY <1>3, <1>4, <1>7 DEF h

\* What a pointer leads to: an open file descriptor, one of whose own it is.
LEMMA PointerLeads ==
    ASSUME CInv, NEW t \in Threads, NEW k \in DOMAIN syncs[t], NEW s, s = syncs[t][k]
    PROVE  /\ s \in Syncs
           /\ FdOf(s) \in Fds /\ open[FdOf(s)] # Nothing /\ TypeOf(s) = Type[open[FdOf(s)]]
           /\ <<(IF s.at # Nothing THEN "entry" ELSE "held"),
                (IF s.at # Nothing THEN s.at ELSE <<t, k>>)>> \in Owners(FdOf(s))
<1>1. syncs[t] \in Seq(Syncs)
  BY DEF CInv, Typed
<1>2. s \in Syncs
  BY <1>1
<1>3. CASE s.at # Nothing
  <2>1. s.at \in Handles /\ entry[s.at].refcount # 0
    BY <1>3, PointerCounts
  <2>2. Cached(s.at)
    BY <2>1 DEF CInv
  <2>3. <<"entry", s.at>> \in Owners(entry[s.at].fd)
    BY <2>1, <2>2, OwnersAre DEF Cached
  <2> QED BY <1>2, <1>3, <2>1, <2>2, <2>3 DEF Cached, FdOf, TypeOf
<1>4. CASE s.at = Nothing
  <2>1. s.fd \in Fds
    BY <1>2, <1>4, Kinds
  <2>2. <<"held", <<t, k>>>> \in Owners(s.fd)
    BY <2>1, OwnersAre
  <2>3. open[s.fd] # Nothing
    BY <2>1, <2>2, OneOwner
  <2>4. s.type = Type[open[s.fd]]
    BY <1>4 DEF CInv, Linked
  <2> QED BY <1>2, <1>4, <2>1, <2>2, <2>3, <2>4 DEF FdOf, TypeOf
<1> QED BY <1>3, <1>4

-----------------------------------------------------------------------------
(* What a thread's step leaves alone.                                      *)

\* Entries in use keep their file descriptor, open file descriptors stay open but for
\* the one the thread has to close, and without the mutex a thread neither changes what
\* is not in use nor closes an entry nor a handle.
Gentle(t) ==
    /\ \A h \in Handles : entry[h].refcount # 0 => entry'[h].fd = entry[h].fd /\ entry'[h].type = entry[h].type
    /\ \A f \in Fds : open[f] # Nothing /\ <<"closing", t>> \notin Owners(f) => open'[f] = open[f]
    /\ mutex # t => \A h \in Handles : /\ table'[h] = table[h] /\ entry'[h].closed = entry[h].closed
                                       /\ entry[h].refcount = 0 => entry'[h] = entry[h]
    /\ \A h \in Handles : table'[h] \in {Nothing, table[h]}
    /\ \A u \in Threads \ {t} :
         /\ pc'[u] = pc[u] /\ call'[u] = call[u] /\ syncs'[u] = syncs[u] /\ stack'[u] = stack[u]
         /\ fd'[u] = fd[u] /\ named'[u] = named[u] /\ (mutex = u => mutex' = u)

\* So every pointer goes on leading to the same open file descriptor.
LEMMA PointerKept ==
    ASSUME CInv, NEW t \in Threads, Gentle(t),
           NEW u \in Threads, NEW k \in DOMAIN syncs[u], NEW s, s = syncs[u][k]
    PROVE  FdOf(s)' = FdOf(s) /\ TypeOf(s)' = TypeOf(s) /\ open'[FdOf(s)] = open[FdOf(s)]
<1>1. /\ s \in Syncs /\ FdOf(s) \in Fds /\ open[FdOf(s)] # Nothing
      /\ <<(IF s.at # Nothing THEN "entry" ELSE "held"),
           (IF s.at # Nothing THEN s.at ELSE <<u, k>>)>> \in Owners(FdOf(s))
  BY PointerLeads
<1>2. <<"closing", t>> \notin Owners(FdOf(s))
  BY <1>1, OneOwner
<1>3. open'[FdOf(s)] = open[FdOf(s)]
  BY <1>1, <1>2 DEF Gentle
<1>4. s.at # Nothing => s.at \in Handles /\ entry[s.at].refcount # 0
  BY PointerCounts
<1>5. s.at # Nothing => entry'[s.at].fd = entry[s.at].fd /\ entry'[s.at].type = entry[s.at].type
  BY <1>4 DEF Gentle
<1> QED BY <1>3, <1>5 DEF FdOf, TypeOf

Acts(t) == CallLookup(t) \/ CallClose(t) \/ Step(t)

\* Every step of a thread is like that.
LEMMA StepsAreGentle ==
    ASSUME CInv, NEW t \in Threads, Acts(t)
    PROVE  Gentle(t)
<1> USE DEF Gentle
<1>0. Typed /\ Local(t) /\ Locked(t) /\ Nothing \notin Threads
  BY Kinds DEF CInv
<1>1. CASE CallLookup(t) \/ CallClose(t)
  BY <1>0, <1>1 DEF CallLookup, CallClose, Enter, Goto, Typed
<1>2. CASE Lock(t) \/ Unlock(t)
  BY <1>0, <1>2 DEF Lock, Unlock, Goto, Typed, Locked, Exclusive
<1>3. CASE Lookup(t) \/ Miss(t)
  <2>1. CASE Lookup(t)
    <3>1. /\ entry[handle(t)].refcount # 0 /\ entry' = [entry EXCEPT ![handle(t)].refcount = @ + 1]
          /\ table' = table /\ open' = open /\ mutex' = mutex
      BY <2>1 DEF Lookup
    <3>2. \A h \in Handles : /\ entry'[h].fd = entry[h].fd /\ entry'[h].type = entry[h].type
                             /\ entry'[h].closed = entry[h].closed
                             /\ entry[h].refcount = 0 => entry'[h] = entry[h]
      BY <1>0, <3>1 DEF Typed, Entries
    <3>3. \A u \in Threads \ {t} :
            /\ pc'[u] = pc[u] /\ call'[u] = call[u] /\ syncs'[u] = syncs[u] /\ stack'[u] = stack[u]
            /\ fd'[u] = fd[u] /\ named'[u] = named[u]
      BY <1>0, <2>1 DEF Lookup, Goto, Hold, Typed
    <3> QED BY <3>1, <3>2, <3>3
  <2>2. CASE Miss(t)
    BY <1>0, <2>2 DEF Miss, Goto, Typed, client
  <2> QED BY <1>3, <2>1, <2>2
<1>4. CASE CheckClosed(t) \/ Check(t)
  BY <1>0, <1>4 DEF CheckClosed, Check, Goto, Then, Typed
<1>5. CASE FetchFails(t) \/ Fetch(t)
  BY <1>0, <1>5 DEF FetchFails, Fetch, FreeFds, Goto, Then, Typed
<1>6. CASE KeepOnStack(t)
  BY <1>0, <1>6 DEF KeepOnStack, Goto, Hold, Typed
<1>7. CASE Fill(t)
  <2>1. mutex = t
    BY <1>0, <1>7 DEF Fill, Locked, Exclusive
  <2>2. \A h \in Handles : entry[h].refcount # 0 => entry'[h] = entry[h]
    BY <1>0, <1>7 DEF Fill, Typed, Entries
  <2> QED BY <1>0, <1>7, <2>1, <2>2 DEF Fill, Goto, Typed
<1>8. CASE Publish(t)
  <2>1. mutex = t
    BY <1>0, <1>8 DEF Publish, Locked, Exclusive
  <2>2. \A h \in Handles : entry'[h].fd = entry[h].fd /\ entry'[h].type = entry[h].type
    BY <1>0, <1>8 DEF Publish, Typed, Entries
  <2> QED BY <1>0, <1>8, <2>1, <2>2 DEF Publish, Goto, Hold, Typed
<1>9. CASE Mismatch(t) \/ Verify(t) \/ Used(t)
  BY <1>0, <1>9 DEF Mismatch, Verify, Used, Goto, Then, Typed, client
<1>10. CASE SaveFd(t)
  BY <1>0, <1>10 DEF SaveFd, Goto, Typed
<1>11. CASE Drop(t)
  <2>1. Got(t) > 0 /\ syncs[t] \in Seq(Syncs)
    BY <1>0, <1>11, ConstantsAssumption DEF Drop, Local, LookupAt, CloseAt, Typed, Calls
  <2>2. Last(syncs[t]) = syncs[t][Got(t)] /\ Got(t) \in DOMAIN syncs[t]
    <3>1. Len(syncs[t]) > 0 /\ syncs[t] \in Seq(Syncs)
      BY <2>1 DEF Got
    <3>2. /\ Len(syncs[t]) \in Nat \ {0} /\ DOMAIN syncs[t] = 1..Len(syncs[t])
          /\ Last(syncs[t]) = syncs[t][Len(syncs[t])]
      BY <3>1, Shrinking
    <3> QED BY <3>2 DEF Got
  <2>3. PICK s : s = syncs[t][Got(t)]
    OBVIOUS
  <2>4. s.at # Nothing => s.at \in Handles /\ entry[s.at].refcount # 0
    BY <2>2, <2>3, PointerCounts
  <2>5. \/ s.at = Nothing /\ entry' = entry
        \/ s.at # Nothing /\ entry' = [entry EXCEPT ![s.at].refcount = entry[s.at].refcount - 1]
    BY <1>11, <2>2, <2>3 DEF Drop
  <2>6. \A h \in Handles : /\ entry'[h].fd = entry[h].fd /\ entry'[h].type = entry[h].type
                           /\ entry'[h].closed = entry[h].closed
                           /\ entry[h].refcount = 0 => entry'[h] = entry[h]
    <3>1. CASE s.at = Nothing
      BY <2>5, <3>1
    <3>2. CASE s.at # Nothing
      <4>1. PICK g \in Handles : g = s.at /\ entry[g].refcount # 0
        BY <2>4, <3>2
      <4>2. entry' = [entry EXCEPT ![g].refcount = entry[g].refcount - 1]
        BY <2>5, <3>2, <4>1
      <4>3. entry \in [Handles -> Entries]
        BY <1>0 DEF Typed
      <4> QED BY <4>1, <4>2, <4>3 DEF Entries
    <3> QED BY <3>1, <3>2
  <2>7. \A u \in Threads \ {t} :
          /\ pc'[u] = pc[u] /\ call'[u] = call[u] /\ syncs'[u] = syncs[u] /\ stack'[u] = stack[u]
          /\ fd'[u] = fd[u] /\ named'[u] = named[u] /\ (mutex = u => mutex' = u)
    BY <1>0, <1>11 DEF Drop, Goto, Typed
  <2>8. table' = table /\ open' = open
    BY <1>11 DEF Drop
  <2> QED BY <2>6, <2>7, <2>8
<1>12. CASE CloseFd(t)
  <2>1. fd[t] \in Fds /\ <<"closing", t>> \in Owners(fd[t])
    BY <1>0, <1>12, OwnersAre DEF CloseFd, Local
  <2>2. \A f \in Fds : open[f] # Nothing /\ <<"closing", t>> \notin Owners(f) => open'[f] = open[f]
    BY <1>0, <1>12, <2>1 DEF CloseFd, Typed
  <2> QED BY <1>0, <1>12, <2>2 DEF CloseFd, Goto, Typed
<1>13. CASE Mark(t)
  <2>1. mutex = t
    BY <1>0, <1>13 DEF Mark, Locked, Exclusive
  <2>2. \A h \in Handles : entry'[h].fd = entry[h].fd /\ entry'[h].type = entry[h].type
    BY <1>0, <1>13 DEF Mark, Typed, Entries
  <2> QED BY <1>0, <1>13, <2>1, <2>2 DEF Mark, Goto, Hold, Then, Typed
<1>14. CASE CloseHandle(t)
  <2>1. mutex = t
    BY <1>0, <1>14 DEF CloseHandle, Locked, Exclusive
  <2> QED BY <1>0, <1>14, <2>1 DEF CloseHandle, Goto, Typed
<1>15. CASE Return(t)
  BY <1>0, <1>15 DEF Return, Goto, Typed
<1> QED
  BY <1>1, <1>2, <1>3, <1>4, <1>5, <1>6, <1>7, <1>8, <1>9, <1>10, <1>11, <1>12, <1>13, <1>14,
     <1>15 DEF Acts, Step

\* The other threads' part of the invariant is kept.
LEMMA OthersKept ==
    ASSUME CInv, NEW t \in Threads, Gentle(t), NEW u \in Threads \ {t}
    PROVE  Local(u)' /\ Locked(u)' /\ Linked(u)'
<1>0. /\ Typed /\ Local(u) /\ Locked(u) /\ Linked(u)
      /\ pc'[u] = pc[u] /\ call'[u] = call[u] /\ syncs'[u] = syncs[u] /\ stack'[u] = stack[u]
      /\ fd'[u] = fd[u] /\ named'[u] = named[u] /\ (mutex = u => mutex' = u)
  BY DEF CInv, Gentle
<1>1. Local(u)'
  BY <1>0 DEF Local, LookupAt, CloseAt, Got, Size
<1>2. Locked(u)'
  BY <1>0 DEF Locked, Exclusive
<1>3. \A k \in DOMAIN syncs[u] :
        /\ syncs[u][k] \in Syncs
        /\ FdOf(syncs[u][k])' = FdOf(syncs[u][k])
        /\ open'[FdOf(syncs[u][k])] = open[FdOf(syncs[u][k])]
  <2> SUFFICES ASSUME NEW k \in DOMAIN syncs[u]
               PROVE  /\ syncs[u][k] \in Syncs
                      /\ FdOf(syncs[u][k])' = FdOf(syncs[u][k])
                      /\ open'[FdOf(syncs[u][k])] = open[FdOf(syncs[u][k])]
    OBVIOUS
  <2>1. PICK s : s = syncs[u][k]
    OBVIOUS
  <2>2. FdOf(s)' = FdOf(s) /\ open'[FdOf(s)] = open[FdOf(s)] /\ s \in Syncs
    BY <2>1, PointerKept, PointerLeads
  <2>3. syncs'[u][k] = s
    BY <1>0, <2>1
  <2>4. FdOf(syncs[u][k])' = FdOf(s)'
    BY <2>1, <2>3 DEF FdOf
  <2> QED BY <2>1, <2>2, <2>4
<1>4. \A k \in DOMAIN syncs[u] :
        syncs[u][k].at = Nothing => open'[syncs[u][k].fd] = open[syncs[u][k].fd]
  BY <1>3 DEF FdOf
<1>5. /\ Checked(u)' = Checked(u) /\ handle(u)' = handle(u) /\ Got(u)' = Got(u) /\ Size(u)' = Size(u)
      /\ Checked(u) <= Got(u) /\ DOMAIN syncs[u] = 1..Got(u) /\ Got(u) \in Nat
  BY <1>0 DEF Checked, handle, Got, Size, Typed
<1>6. DOMAIN named[u] = 1..Size(u) /\ call[u].handles \in Seq(Handles)
      /\ (call[u].kind = "close" => Size(u) = 1)
      /\ \A k \in 1..Size(u) : call[u].handles[k] \in Handles
  BY <1>0 DEF Typed, Calls, Local, Size, CloseAt
<1>7. ASSUME pc[u] \in {"cache", "publish"}
      PROVE  /\ handle(u) \in Handles /\ stack[u].fd \in Fds
             /\ open'[stack[u].fd] = open[stack[u].fd] /\ mutex = u
             /\ open[stack[u].fd] # Nothing
  <2>1. mutex = u
    BY <1>0, <1>7 DEF Locked, Exclusive
  <2>2. call[u].kind = "lookup" /\ stack[u].fd \in Fds
    BY <1>0, <1>7 DEF Local, CloseAt, Typed, Calls
  <2>3. Got(u) < Size(u)
    BY <1>0, <1>7, <2>2 DEF Local, LookupAt
  <2>4. handle(u) \in Handles
    BY <1>5, <1>6, <2>3 DEF handle, Size, Got
  <2>5. <<"fetched", u>> \in Owners(stack[u].fd)
    BY <2>2, OwnersAre
  <2>6. open[stack[u].fd] # Nothing /\ <<"closing", t>> \notin Owners(stack[u].fd)
    BY <2>2, <2>5, OneOwner
  <2> QED BY <2>1, <2>2, <2>4, <2>6 DEF Gentle
<1>8. \A k \in DOMAIN named[u] : table'[call[u].handles[k]] \in {Nothing} \union named[u][k]
  BY <1>0, <1>6 DEF Linked, Gentle
<1>9. call[u].kind = "lookup" => \A k \in 1..Checked(u) : open'[FdOf(syncs[u][k])'] \in named[u][k]
  <2>1. \A k \in 1..Checked(u) : k \in DOMAIN syncs[u]
    BY <1>5 DEF Checked
  <2> QED BY <1>0, <1>3, <2>1 DEF Linked
<1>10. pc[u] = "mark" => ~entry'[call[u].handles[1]].closed
  <2>1. pc[u] = "mark" => mutex = u /\ call[u].handles[1] \in Handles
    BY <1>0, <1>6 DEF Locked, Exclusive, Local, LookupAt, Typed, Calls, Size
  <2> QED BY <1>0, <2>1, Kinds DEF Gentle, Linked
<1>11. call[u].kind = "close" /\ pc[u] \in {"miss", "close_handle", "release", "drop", "close_fd"} =>
         entry'[call[u].handles[1]].refcount = 0 \/ entry'[call[u].handles[1]].closed
  <2>1. call[u].kind = "close" /\ pc[u] \in {"miss", "close_handle", "release", "drop", "close_fd"} =>
           mutex = u /\ call[u].handles[1] \in Handles
    BY <1>0, <1>6 DEF Locked, Exclusive, Size
  <2> QED BY <1>0, <2>1, Kinds DEF Gentle, Linked
<1>12. pc[u] \in {"cache", "publish"} => table'[handle(u)] = table[handle(u)]
  BY <1>7, Kinds DEF Gentle
<1>13. pc[u] = "publish" => entry'[handle(u)] = entry[handle(u)]
  BY <1>0, <1>7, Kinds DEF Gentle, Linked
<1>14. pc[u] = "drop" => fd[u] = FdOf(syncs[u][Got(u)])'
  <2>1. pc[u] = "drop" => Got(u) \in DOMAIN syncs[u]
    <3>1. pc[u] = "drop" => Got(u) > 0
      BY <1>0 DEF Local, LookupAt, CloseAt, Typed, Calls
    <3> QED BY <1>5, <3>1
  <2>2. PICK g : g = Got(u) /\ Got(u)' = g
    BY <1>5
  <2>3. pc[u] = "drop" => FdOf(syncs[u][g])' = FdOf(syncs[u][g]) /\ fd[u] = FdOf(syncs[u][g])
    BY <1>0, <1>3, <2>1, <2>2 DEF Linked
  <2>4. FdOf(syncs[u][Got(u)])' = FdOf(syncs[u][g])'
    BY <2>2 DEF FdOf
  <2> QED BY <2>3, <2>4
<1>15. Linked(u)'
  <2>1. \A k \in DOMAIN syncs'[u] :
           syncs'[u][k].at = Nothing => syncs'[u][k].type = Type[open'[syncs'[u][k].fd]]
    BY <1>0, <1>4 DEF Linked
  <2>2. call'[u].kind = "lookup" => \A k \in 1..Checked(u)' : open'[FdOf(syncs[u][k])'] \in named'[u][k]
    BY <1>0, <1>5, <1>9
  <2>3. \A k \in DOMAIN named'[u] : table'[call'[u].handles[k]] \in {Nothing} \union named'[u][k]
    BY <1>0, <1>8
  <2>4. pc'[u] \in {"cache", "publish"} =>
         /\ table'[handle(u)'] # Nothing
         /\ open'[stack'[u].fd] = table'[handle(u)'] /\ stack'[u].type = Type[table'[handle(u)']]
    BY <1>0, <1>5, <1>7, <1>12 DEF Linked
  <2>5. pc'[u] = "publish" =>
         /\ entry'[handle(u)'].refcount = 0 /\ ~entry'[handle(u)'].closed
         /\ entry'[handle(u)'].fd = stack'[u].fd /\ entry'[handle(u)'].type = stack'[u].type
    BY <1>0, <1>5, <1>13 DEF Linked
  <2>6. /\ pc'[u] = "drop" => fd'[u] = FdOf(syncs[u][Got(u)])'
        /\ pc'[u] = "mark" => ~entry'[call'[u].handles[1]].closed
        /\ call'[u].kind = "close" /\ pc'[u] \in {"miss", "close_handle", "release", "drop", "close_fd"} =>
             entry'[call'[u].handles[1]].refcount = 0 \/ entry'[call'[u].handles[1]].closed
    BY <1>0, <1>10, <1>11, <1>14
  <2> QED BY <2>1, <2>2, <2>3, <2>4, <2>5, <2>6 DEF Linked
<1> QED BY <1>1, <1>2, <1>15

-----------------------------------------------------------------------------
(* Types and places.                                                       *)

\* The handle a call is at.
LEMMA AtHandle ==
    ASSUME CInv, NEW t \in Threads,
           pc[t] \in {"lock", "lookup", "miss", "fetch", "cache", "publish"}
    PROVE  /\ Got(t) < Size(t) /\ Got(t) \in Nat /\ Size(t) \in Nat
           /\ handle(t) \in Handles /\ handle(t) = call[t].handles[Got(t) + 1]
           /\ DOMAIN syncs[t] = 1..Got(t) /\ syncs[t] \in Seq(Syncs)
           /\ call[t].kind \in {"lookup", "close"}
<1>1. Typed /\ Local(t)
  BY DEF CInv
<1>2. Got(t) \in Nat /\ Size(t) \in Nat /\ call[t].handles \in Seq(Handles) /\ syncs[t] \in Seq(Syncs)
  BY <1>1 DEF Typed, Calls, Got, Size
<1>3. call[t].kind \in {"lookup", "close"}
  BY <1>1 DEF Local, Typed, Calls
<1>4. Got(t) < Size(t)
  BY <1>1, <1>2, <1>3 DEF Local, LookupAt, CloseAt
<1>5. call[t].handles[Got(t) + 1] \in Handles
  BY <1>2, <1>4 DEF Size
<1> QED BY <1>2, <1>3, <1>4, <1>5 DEF handle, Got

\* The pointer a call is at.
LEMMA AtPointer ==
    ASSUME CInv, NEW t \in Threads,
           pc[t] \in {"check", "verify", "use", "release", "drop", "mark"}
    PROVE  /\ Got(t) \in Nat \ {0} /\ Got(t) \in DOMAIN syncs[t] /\ DOMAIN syncs[t] = 1..Got(t)
           /\ Last(syncs[t]) = syncs[t][Got(t)] /\ Last(syncs[t]) \in Syncs
           /\ syncs[t] \in Seq(Syncs) /\ Len(syncs[t]) = Got(t)
           /\ call[t].kind \in {"lookup", "close"}
<1>1. Typed /\ Local(t)
  BY DEF CInv
<1>2. syncs[t] \in Seq(Syncs) /\ call[t].kind \in {"lookup", "close"}
  BY <1>1 DEF Local, Typed, Calls
<1>3. Got(t) > 0
  BY <1>1, <1>2 DEF Local, LookupAt, CloseAt
<1>4. Len(syncs[t]) > 0
  BY <1>3 DEF Got
<1>5. /\ Len(syncs[t]) \in Nat \ {0} /\ DOMAIN syncs[t] = 1..Len(syncs[t])
      /\ Last(syncs[t]) = syncs[t][Len(syncs[t])] /\ Last(syncs[t]) \in Syncs
  BY <1>2, <1>4, Shrinking
<1> QED BY <1>2, <1>5 DEF Got

\* A call is in one of these places after a release.
LEMMA AfterIs ==
    ASSUME NEW t, NEW rest
    PROVE  After(t, rest) \in {"miss", "release", "close_handle", "return"}
BY DEF After

\* Types are kept.
LEMMA TypedKept ==
    ASSUME CInv, NEW t \in Threads, Acts(t)
    PROVE  Typed'
<1>0. Typed /\ Local(t)
  BY DEF CInv
<1>1. ASSUME NEW l, NEW ph, Goto(t, l), l \in PCs PROVE pc' \in [Threads -> PCs]
  BY <1>0, <1>1 DEF Goto, Typed
<1>2. ASSUME NEW l, Then(t, l), l \in {"done", "verify", "miss"} PROVE call' \in [Threads -> Calls]
  BY <1>0, <1>2 DEF Then, Typed, Calls
<1>3. ASSUME NEW s \in Syncs, Hold(t, s) PROVE syncs' \in [Threads -> Seq(Syncs)]
  <2>1. Append(syncs[t], s) \in Seq(Syncs)
    BY <1>0 DEF Typed
  <2> QED BY <1>0, <1>3, <2>1 DEF Hold, Typed
<1>4. ASSUME CallLookup(t) \/ CallClose(t) PROVE Typed'
  <2>1. PICK c \in Calls, l \in {"lookup", "lock"} : Enter(t, c) /\ Goto(t, l)
    <3>1. CASE CallLookup(t)
      <4>1. PICK l \in Lookups[t] :
              /\ Enter(t, [kind |-> "lookup", handles |-> l.handles, type |-> l.type, then |-> "done"])
              /\ Goto(t, "lookup")
        BY <3>1 DEF CallLookup
      <4>2. l.handles \in Seq(Handles) /\ l.type \in Types \union {Unknown}
        BY ConstantsAssumption
      <4> QED BY <4>1, <4>2 DEF Calls
    <3>2. CASE CallClose(t)
      <4>1. PICK h \in Closes[t] :
              /\ Enter(t, [kind |-> "close", handles |-> <<h>>, type |-> Unknown, then |-> "done"])
              /\ Goto(t, "lock")
        BY <3>2 DEF CallClose
      <4>2. h \in Handles
        BY ConstantsAssumption
      <4>3. <<h>> \in Seq(Handles)
        BY <4>2
      <4> QED BY <4>1, <4>3 DEF Calls
    <3> QED BY <1>4, <3>1, <3>2
  <2>2. [k \in DOMAIN c.handles |-> Standing(c.handles[k])] \in Seq(SUBSET Objects)
    <3>1. c.handles \in Seq(Handles)
      BY DEF Calls
    <3>2. \A k \in DOMAIN c.handles : Standing(c.handles[k]) \in SUBSET Objects
      BY <1>0, <3>1 DEF Standing, Typed
    <3>3. DOMAIN c.handles = 1..Len(c.handles) /\ Len(c.handles) \in Nat
      BY <3>1
    <3> QED BY <3>2, <3>3
  <2>3. /\ call' = [call EXCEPT ![t] = c]
        /\ named' = [named EXCEPT ![t] = [k \in DOMAIN c.handles |-> Standing(c.handles[k])]]
        /\ UNCHANGED <<table, open, entry, mutex, syncs, stack, fd>>
        /\ pc' = [pc EXCEPT ![t] = l]
    BY <2>1 DEF Enter, Goto
  <2> QED BY <1>0, <2>2, <2>3 DEF Typed, PCs
<1>5. CASE Lock(t) \/ Unlock(t)
  <2>1. PICK l \in PCs : Goto(t, l)
    BY <1>5, AfterIs DEF Lock, Unlock, PCs
  <2>2. pc' \in [Threads -> PCs]
    BY <1>1, <2>1
  <2> QED BY <1>0, <1>5, <2>2 DEF Lock, Unlock, Typed
<1>6. CASE Lookup(t)
  <2>1. handle(t) \in Handles
    BY <1>6, AtHandle DEF Lookup
  <2>2. Entry(handle(t)) \in Syncs
    BY <2>1, Kinds
  <2>3. entry' \in [Handles -> Entries]
    <3>1. PICK h \in Handles : h = handle(t)
      BY <2>1
    <3>2. entry' = [entry EXCEPT ![h].refcount = entry[h].refcount + 1]
      BY <1>6, <3>1 DEF Lookup
    <3>3. entry \in [Handles -> Entries]
      BY <1>0 DEF Typed
    <3> QED BY <3>2, <3>3 DEF Entries
  <2>4. syncs' \in [Threads -> Seq(Syncs)]
    BY <1>3, <1>6, <2>2 DEF Lookup
  <2> QED BY <1>0, <1>6, <2>3, <2>4 DEF Lookup, Goto, Typed, PCs
<1>7. CASE Miss(t)
  BY <1>0, <1>7 DEF Miss, Goto, Typed, PCs, client
<1>8. CASE CheckClosed(t) \/ Check(t)
  <2>1. call' \in [Threads -> Calls]
    BY <1>2, <1>8 DEF CheckClosed, Check
  <2> QED BY <1>0, <1>8, <2>1 DEF CheckClosed, Check, Goto, Typed, PCs
<1>9. CASE FetchFails(t)
  <2>1. call' \in [Threads -> Calls]
    BY <1>2, <1>9 DEF FetchFails
  <2> QED BY <1>0, <1>9, <2>1 DEF FetchFails, Goto, Typed, PCs
<1>10. CASE Fetch(t)
  <2>1. call' \in [Threads -> Calls]
    BY <1>2, <1>10 DEF Fetch
  <2>2. PICK f \in FreeFds : /\ open' = [open EXCEPT ![f] = table[handle(t)]]
                             /\ stack' = [stack EXCEPT ![t] = OnStack(f, Type[table[handle(t)]])]
    BY <1>10 DEF Fetch
  <2>3. handle(t) \in Handles
    BY <1>10, AtHandle DEF Fetch
  <2>4. table[handle(t)] \in Objects /\ f \in Fds
    BY <1>0, <1>10, <2>3 DEF Fetch, FreeFds, Typed
  <2>5. OnStack(f, Type[table[handle(t)]]) \in Syncs
    BY <2>4 DEF Syncs, Types
  <2>6. stack' \in [Threads -> Syncs \union {NoSync}] /\ open' \in [Fds -> Objects \union {Nothing}]
    BY <1>0, <2>2, <2>4, <2>5 DEF Typed
  <2> QED BY <1>0, <1>10, <2>1, <2>6 DEF Fetch, Goto, Typed, PCs
<1>11. CASE KeepOnStack(t)
  <2>1. stack[t] \in Syncs
    BY <1>0, <1>11, Kinds DEF KeepOnStack, Local, Typed
  <2>2. syncs' \in [Threads -> Seq(Syncs)]
    BY <1>3, <1>11, <2>1 DEF KeepOnStack
  <2> QED BY <1>0, <1>11, <2>2 DEF KeepOnStack, Goto, Typed, PCs
<1>12. CASE Fill(t)
  <2>1. handle(t) \in Handles
    BY <1>12, AtHandle DEF Fill
  <2>2. stack[t] \in Syncs
    BY <1>0, <1>12, Kinds DEF Fill, Local, Typed
  <2>3. stack[t].fd \in Fds /\ stack[t].type \in Types
    BY <1>0, <1>12, <2>2, Kinds DEF Fill, Local
  <2>4. entry' \in [Handles -> Entries]
    <3>1. PICK h \in Handles : h = handle(t)
      BY <2>1
    <3>2. entry' = [entry EXCEPT ![h].fd = stack[t].fd, ![h].type = stack[t].type, ![h].closed = FALSE]
      BY <1>12, <3>1 DEF Fill
    <3>3. /\ entry \in [Handles -> Entries]
          /\ [[[entry[h] EXCEPT !.fd = stack[t].fd] EXCEPT !.type = stack[t].type] EXCEPT !.closed = FALSE]
               \in Entries
      BY <1>0, <2>3 DEF Typed, Entries
    <3>4. \A g \in Handles : entry'[g] \in Entries
      BY <2>3, <3>2, <3>3 DEF Entries
    <3>5. entry' = [g \in Handles |-> entry'[g]]
      BY <3>2, <3>3
    <3> QED BY <3>4, <3>5
  <2> QED BY <1>0, <1>12, <2>4 DEF Fill, Goto, Typed, PCs
<1>13. CASE Publish(t)
  <2>1. handle(t) \in Handles
    BY <1>13, AtHandle DEF Publish
  <2>2. syncs' \in [Threads -> Seq(Syncs)]
    BY <1>3, <1>13, <2>1, Kinds DEF Publish
  <2>3. entry' \in [Handles -> Entries]
    BY <1>0, <1>13, <2>1 DEF Publish, Typed, Entries
  <2> QED BY <1>0, <1>13, <2>2, <2>3 DEF Publish, Goto, Typed, PCs
<1>14. CASE Mismatch(t) \/ Used(t)
  <2>1. call' \in [Threads -> Calls]
    BY <1>2, <1>14 DEF Mismatch, Used
  <2> QED BY <1>0, <1>14, <2>1 DEF Mismatch, Used, Goto, Typed, PCs
<1>15. CASE Verify(t)
  BY <1>0, <1>15 DEF Verify, Goto, Typed, PCs, client
<1>16. CASE SaveFd(t)
  <2>1. FdOf(Last(syncs[t])) \in Fds
    BY <1>16, AtPointer, PointerLeads DEF SaveFd
  <2> QED BY <1>0, <1>16, <2>1 DEF SaveFd, Goto, Typed, PCs
<1>17. CASE Drop(t)
  <2>1. /\ Got(t) \in DOMAIN syncs[t] /\ Last(syncs[t]) = syncs[t][Got(t)]
        /\ syncs[t] \in Seq(Syncs) /\ Len(syncs[t]) > 0
    BY <1>17, AtPointer DEF Drop
  <2>2. PICK s : s = Last(syncs[t])
    OBVIOUS
  <2>3. s.at # Nothing => s.at \in Handles /\ entry[s.at].refcount \in Nat \ {0}
    BY <2>1, <2>2, PointerCounts
  <2>4. entry' \in [Handles -> Entries]
    <3>1. CASE s.at = Nothing
      BY <1>0, <1>17, <2>2, <3>1 DEF Drop, Typed
    <3>2. CASE s.at # Nothing
      <4>1. PICK g \in Handles : g = s.at /\ entry[g].refcount \in Nat \ {0}
        BY <2>3, <3>2
      <4>2. entry' = [entry EXCEPT ![g].refcount = entry[g].refcount - 1]
        BY <1>17, <2>2, <3>2, <4>1 DEF Drop
      <4>3. entry \in [Handles -> Entries] /\ entry[g].refcount - 1 \in Nat
        BY <1>0, <4>1 DEF Typed
      <4> QED BY <4>2, <4>3 DEF Entries
    <3> QED BY <3>1, <3>2
  <2>5. Front(syncs[t]) \in Seq(Syncs)
    BY <2>1, Shrinking
  <2>6. pc' \in [Threads -> PCs] /\ fd' \in [Threads -> Fds \union {Nothing}]
    <3>1. PICK l \in PCs : Goto(t, l)
      BY <1>17, AfterIs DEF Drop, PCs
    <3>2. pc' \in [Threads -> PCs]
      BY <1>1, <3>1
    <3> QED BY <1>0, <1>17, <3>2 DEF Drop, Typed
  <2> QED BY <1>0, <1>17, <2>4, <2>5, <2>6 DEF Drop, Typed
<1>18. CASE CloseFd(t)
  BY <1>0, <1>18, AfterIs DEF CloseFd, Goto, Typed, PCs
<1>19. CASE Mark(t)
  <2>1. Last(syncs[t]) \in Syncs
    BY <1>19, AtPointer DEF Mark
  <2>2. call' \in [Threads -> Calls] /\ syncs' \in [Threads -> Seq(Syncs)]
    BY <1>2, <1>3, <1>19, <2>1 DEF Mark
  <2>3. entry' \in [Handles -> Entries]
    BY <1>0, <1>19 DEF Mark, Typed, Entries
  <2> QED BY <1>0, <1>19, <2>2, <2>3 DEF Mark, Goto, Typed, PCs
<1>20. CASE CloseHandle(t)
  <2>1. table' \in [Handles -> Objects \union {Nothing}]
    BY <1>0, <1>20 DEF CloseHandle, Typed
  <2> QED BY <1>0, <1>20, <2>1 DEF CloseHandle, Goto, Typed, PCs
<1>21. CASE Return(t)
  <2>1. NoCall \in Calls
    BY DEF NoCall, Calls
  <2> QED BY <1>0, <1>21, <2>1 DEF Return, Goto, Typed, PCs
<1> QED
  BY <1>4, <1>5, <1>6, <1>7, <1>8, <1>9, <1>10, <1>11, <1>12, <1>13, <1>14, <1>15, <1>16, <1>17,
     <1>18, <1>19, <1>20, <1>21 DEF Acts, Step

\* What a new pointer changes.
LEMMA HoldEffect ==
    ASSUME Typed, NEW t \in Threads, NEW s \in Syncs, Hold(t, s)
    PROVE  /\ Got(t)' = Got(t) + 1 /\ Got(t) \in Nat
           /\ DOMAIN syncs[t] = 1..Got(t) /\ DOMAIN syncs'[t] = 1..(Got(t) + 1)
           /\ \A k \in 1..Got(t) : syncs'[t][k] = syncs[t][k]
           /\ syncs'[t][Got(t) + 1] = s
           /\ \A u \in Threads \ {t} : syncs'[u] = syncs[u]
<1>1. syncs[t] \in Seq(Syncs)
  BY DEF Typed
<1>2. syncs'[t] = Append(syncs[t], s) /\ \A u \in Threads \ {t} : syncs'[u] = syncs[u]
  BY DEF Hold, Typed
<1>3. /\ Len(Append(syncs[t], s)) = Len(syncs[t]) + 1 /\ Len(syncs[t]) \in Nat
      /\ DOMAIN syncs[t] = 1..Len(syncs[t]) /\ DOMAIN Append(syncs[t], s) = 1..(Len(syncs[t]) + 1)
      /\ \A k \in 1..Len(syncs[t]) : Append(syncs[t], s)[k] = syncs[t][k]
      /\ Append(syncs[t], s)[Len(syncs[t]) + 1] = s
  BY <1>1, Growing
<1> QED BY <1>2, <1>3 DEF Got

\* What a released pointer changes.
LEMMA DropEffect ==
    ASSUME CInv, NEW t \in Threads, Drop(t)
    PROVE  /\ Got(t)' = Got(t) - 1 /\ Got(t) \in Nat \ {0}
           /\ DOMAIN syncs[t] = 1..Got(t) /\ DOMAIN syncs'[t] = 1..(Got(t) - 1)
           /\ \A k \in 1..(Got(t) - 1) : syncs'[t][k] = syncs[t][k]
           /\ \A u \in Threads \ {t} : syncs'[u] = syncs[u]
           /\ syncs'[t] # <<>> <=> Got(t) > 1
           /\ Front(syncs[t]) = syncs'[t]
<1>1. syncs[t] \in Seq(Syncs) /\ Got(t) \in Nat \ {0} /\ Len(syncs[t]) = Got(t)
  BY AtPointer DEF Drop
<1>2. syncs'[t] = Front(syncs[t]) /\ \A u \in Threads \ {t} : syncs'[u] = syncs[u]
  BY DEF Drop, CInv, Typed
<1>3. /\ Front(syncs[t]) \in Seq(Syncs) /\ Len(Front(syncs[t])) = Len(syncs[t]) - 1
      /\ DOMAIN syncs[t] = 1..Len(syncs[t]) /\ DOMAIN Front(syncs[t]) = 1..(Len(syncs[t]) - 1)
      /\ \A k \in 1..(Len(syncs[t]) - 1) : Front(syncs[t])[k] = syncs[t][k]
  BY <1>1, Shrinking
<1>4. Front(syncs[t]) # <<>> <=> Len(Front(syncs[t])) # 0
  BY <1>3, Empty
<1> QED BY <1>1, <1>2, <1>3, <1>4 DEF Got

\* A thread's own place is kept in order.
LEMMA LocalKept ==
    ASSUME CInv, NEW t \in Threads, Acts(t)
    PROVE  Local(t)'
<1>0. /\ Typed /\ Local(t) /\ LookupAt(t) /\ CloseAt(t) /\ Got(t) \in Nat /\ Size(t) \in Nat
      /\ call[t].kind \in {"none", "lookup", "close"} /\ pc[t] \in PCs
      /\ DOMAIN syncs[t] = 1..Got(t)
  BY DEF CInv, Local, Typed, Calls, Got, Size
<1> USE DEF Local, LookupAt, CloseAt, Got, Size
<1>1. CASE CallLookup(t)
  <2>0. PICK l \in Lookups[t] :
          /\ Enter(t, [kind |-> "lookup", handles |-> l.handles, type |-> l.type, then |-> "done"])
          /\ pc'[t] = "lookup"
    BY <1>0, <1>1 DEF CallLookup, Goto, Typed
  <2>1. PICK c : /\ c = [kind |-> "lookup", handles |-> l.handles, type |-> l.type, then |-> "done"]
                 /\ Enter(t, c) /\ pc'[t] = "lookup"
    BY <2>0
  <2>2. l.handles \in Seq(Handles) \ {<<>>}
    BY ConstantsAssumption
  <2>3. Len(l.handles) \in Nat \ {0} /\ DOMAIN l.handles = 1..Len(l.handles)
    BY <2>2
  <2>4. /\ call'[t] = c /\ c.kind = "lookup" /\ c.handles = l.handles /\ syncs' = syncs /\ stack' = stack
        /\ named'[t] = [k \in DOMAIN l.handles |-> Standing(l.handles[k])] /\ pc[t] = "idle"
    BY <1>0, <2>1 DEF Enter, Typed
  <2>5. Len(named'[t]) = Len(l.handles)
    BY <2>3, <2>4
  <2> QED BY <1>0, <2>1, <2>3, <2>4, <2>5
<1>2. CASE CallClose(t)
  <2>0. PICK h \in Closes[t] :
          /\ Enter(t, [kind |-> "close", handles |-> <<h>>, type |-> Unknown, then |-> "done"])
          /\ pc'[t] = "lock"
    BY <1>0, <1>2 DEF CallClose, Goto, Typed
  <2>1. PICK c : /\ c = [kind |-> "close", handles |-> <<h>>, type |-> Unknown, then |-> "done"]
                 /\ Enter(t, c) /\ pc'[t] = "lock"
    BY <2>0
  <2>2. /\ call'[t] = c /\ c.kind = "close" /\ c.handles = <<h>> /\ syncs' = syncs /\ stack' = stack
        /\ named'[t] = [k \in DOMAIN c.handles |-> Standing(c.handles[k])] /\ pc[t] = "idle"
    BY <1>0, <2>1 DEF Enter, Typed
  <2>3. Len(<<h>>) = 1 /\ DOMAIN <<h>> = 1..1
    OBVIOUS
  <2>4. Len(named'[t]) = 1
    BY <2>2, <2>3
  <2> QED BY <1>0, <2>1, <2>2, <2>3, <2>4
<1>3. CASE Lock(t) \/ Miss(t)
  <2>1. pc'[t] \in {"lookup", "close_handle", "fetch", "lock"} /\ pc[t] \in {"lock", "lookup", "miss"}
        /\ call' = call /\ syncs' = syncs /\ stack' = stack /\ named' = named
        /\ (pc'[t] = "close_handle" => call[t].kind = "close")
        /\ (pc'[t] = "fetch" => call[t].kind # "close")
    BY <1>0, <1>3 DEF Lock, Miss, Goto, Typed, client
  <2> QED BY <1>0, <2>1
<1>4. CASE Unlock(t)
  <2>1. syncs[t] \in Seq(Syncs)
    BY <1>0 DEF Typed
  <2>2. syncs[t] # <<>> <=> Len(syncs[t]) # 0
    BY <2>1
  <2>3. /\ pc[t] = "unlock" /\ call' = call /\ syncs' = syncs /\ stack' = stack /\ named' = named
        /\ pc'[t] = IF call[t].kind = "close" THEN "return"
                    ELSE IF call[t].then = "verify" THEN "verify" ELSE After(t, syncs[t])
    BY <1>0, <1>4 DEF Unlock, Goto, Typed
  <2> QED BY <1>0, <2>2, <2>3 DEF After
<1>5. CASE Lookup(t)
  <2>1. handle(t) \in Handles /\ handle(t) = call[t].handles[Got(t) + 1] /\ Got(t) < Size(t)
        /\ call[t].kind \in {"lookup", "close"}
    BY <1>5, AtHandle DEF Lookup
  <2>2. PICK s \in Syncs : s = Entry(handle(t)) /\ Hold(t, s) /\ s.at = handle(t) /\ s.at # Nothing
    BY <1>5, <2>1, Kinds DEF Lookup
  <2>3. /\ Got(t)' = Got(t) + 1 /\ DOMAIN syncs'[t] = 1..(Got(t) + 1)
        /\ \A k \in 1..Got(t) : syncs'[t][k] = syncs[t][k]
        /\ syncs'[t][Got(t) + 1] = s
    BY <1>0, <2>2, HoldEffect
  <2>4. pc[t] = "lookup" /\ pc'[t] = "check" /\ call' = call /\ stack' = stack /\ named' = named
    BY <1>0, <1>5 DEF Lookup, Goto, Typed
  <2>5. CASE call[t].kind = "lookup"
    <3>1. \A k \in 1..Got(t) : syncs[t][k].at \in {Nothing, call[t].handles[k]}
      BY <1>0, <2>5
    <3>2. \A k \in 1..(Got(t) + 1) : syncs'[t][k].at \in {Nothing, call'[t].handles[k]}
      <4>1. ASSUME NEW k \in 1..(Got(t) + 1) PROVE syncs'[t][k].at \in {Nothing, call[t].handles[k]}
        <5>1. CASE k = Got(t) + 1
          BY <2>1, <2>2, <2>3, <5>1
        <5>2. CASE k # Got(t) + 1
          <6>1. k \in 1..Got(t)
            BY <1>0, <5>2
          <6> QED BY <2>3, <3>1, <6>1
        <5> QED BY <5>1, <5>2
      <4> QED BY <2>4, <4>1
    <3>3. syncs'[t][Got(t)'].at # Nothing /\ Got(t)' \in Nat \ {0} /\ Got(t)' <= Size(t)
      BY <1>0, <2>1, <2>2, <2>3
    <3> QED BY <1>0, <2>3, <2>4, <2>5, <3>2, <3>3
  <2>6. CASE call[t].kind = "close"
    BY <1>0, <2>1, <2>2, <2>3, <2>4, <2>6
  <2> QED BY <2>1, <2>5, <2>6
<1>6. CASE CheckClosed(t) \/ Check(t)
  <2>1. /\ call'[t].kind = call[t].kind /\ call'[t].handles = call[t].handles
        /\ syncs' = syncs /\ stack' = stack /\ named' = named /\ pc[t] = "check"
        /\ \/ pc'[t] = "release" /\ call'[t].then = "miss"
           \/ call[t].kind = "close" /\ pc'[t] = "mark"
           \/ call[t].kind # "close" /\ pc'[t] \in {"unlock", "verify"} /\ call'[t].then = "verify"
    BY <1>0, <1>6 DEF CheckClosed, Check, Goto, Then, Typed, Calls
  <2>2. CASE pc'[t] = "release" /\ call'[t].then = "miss"
    BY <1>0, <2>1, <2>2
  <2>3. CASE call[t].kind = "close" /\ pc'[t] = "mark"
    BY <1>0, <2>1, <2>3
  <2>4. CASE call[t].kind # "close" /\ pc'[t] \in {"unlock", "verify"} /\ call'[t].then = "verify"
    BY <1>0, <2>1, <2>4
  <2> QED BY <2>1, <2>2, <2>3, <2>4
<1>7. CASE FetchFails(t)
  <2>1. /\ call'[t].kind = call[t].kind /\ call'[t].handles = call[t].handles
        /\ syncs' = syncs /\ stack' = stack /\ named' = named /\ pc[t] = "fetch"
        /\ pc'[t] = "unlock" /\ call'[t].then = "done"
    BY <1>0, <1>7 DEF FetchFails, Goto, Then, Typed, Calls
  <2> QED BY <1>0, <2>1
<1>8. CASE Fetch(t)
  <2>1. PICK f \in FreeFds : stack' = [stack EXCEPT ![t] = OnStack(f, Type[table[handle(t)]])]
    BY <1>8 DEF Fetch
  <2>2. stack'[t].at = Nothing /\ stack'[t].fd \in Fds
    BY <1>0, <2>1 DEF FreeFds, Typed, OnStack
  <2>3. /\ call'[t].kind = call[t].kind /\ call'[t].handles = call[t].handles
        /\ syncs' = syncs /\ named' = named /\ pc[t] = "fetch"
        /\ pc'[t] = "cache" /\ call'[t].then = "verify"
    BY <1>0, <1>8 DEF Fetch, Goto, Then, Typed, Calls
  <2> QED BY <1>0, <2>2, <2>3
<1>9. CASE KeepOnStack(t) \/ Publish(t)
  <2>1. handle(t) \in Handles /\ handle(t) = call[t].handles[Got(t) + 1] /\ Got(t) < Size(t)
        /\ call[t].kind = "lookup" /\ pc[t] \in {"cache", "publish"}
    BY <1>0, <1>9, AtHandle DEF KeepOnStack, Publish
  <2>2. PICK s \in Syncs : Hold(t, s) /\ s.at \in {Nothing, handle(t)}
    <3>1. stack[t] \in Syncs /\ stack[t].at = Nothing
      BY <1>0, <2>1, Kinds DEF Typed
    <3> QED BY <1>9, <2>1, <3>1, Kinds DEF KeepOnStack, Publish
  <2>3. /\ Got(t)' = Got(t) + 1 /\ DOMAIN syncs'[t] = 1..(Got(t) + 1)
        /\ \A k \in 1..Got(t) : syncs'[t][k] = syncs[t][k]
        /\ syncs'[t][Got(t) + 1] = s
    BY <1>0, <2>2, HoldEffect
  <2>4. pc'[t] = "unlock" /\ call' = call /\ stack'[t] = NoSync /\ named' = named
    BY <1>0, <1>9 DEF KeepOnStack, Publish, Goto, Typed
  <2>5. \A k \in 1..Got(t) : syncs[t][k].at \in {Nothing, call[t].handles[k]}
    BY <1>0, <2>1
  <2>6. \A k \in 1..(Got(t) + 1) : syncs'[t][k].at \in {Nothing, call'[t].handles[k]}
    <3>1. ASSUME NEW k \in 1..(Got(t) + 1) PROVE syncs'[t][k].at \in {Nothing, call[t].handles[k]}
      <4>1. CASE k = Got(t) + 1
        BY <2>1, <2>2, <2>3, <4>1
      <4>2. CASE k # Got(t) + 1
        <5>1. k \in 1..Got(t)
          BY <1>0, <4>2
        <5> QED BY <2>3, <2>5, <5>1
      <4> QED BY <4>1, <4>2
    <3> QED BY <2>4, <3>1
  <2>7. call[t].then = "verify"
    BY <1>0, <2>1
  <2> QED BY <1>0, <2>1, <2>3, <2>4, <2>6, <2>7
<1>10. CASE Fill(t)
  <2>1. pc[t] = "cache" /\ pc'[t] = "publish" /\ call' = call /\ syncs' = syncs /\ stack' = stack /\ named' = named
    BY <1>0, <1>10 DEF Fill, Goto, Typed
  <2> QED BY <1>0, <2>1
<1>11. CASE Mismatch(t) \/ Used(t)
  <2>1. /\ call'[t].kind = call[t].kind /\ call'[t].handles = call[t].handles
        /\ syncs' = syncs /\ stack' = stack /\ named' = named /\ pc[t] \in {"verify", "use"}
        /\ pc'[t] = "release" /\ call'[t].then = "done"
    BY <1>0, <1>11 DEF Mismatch, Used, Goto, Then, Typed, Calls
  <2> QED BY <1>0, <2>1
<1>12. CASE Verify(t)
  <2>1. /\ call' = call /\ syncs' = syncs /\ stack' = stack /\ named' = named /\ pc[t] = "verify"
        /\ pc'[t] = IF Len(syncs[t]) < Len(call[t].handles) THEN "lookup" ELSE "use"
    BY <1>0, <1>12 DEF Verify, Goto, Typed, client
  <2> QED BY <1>0, <2>1
<1>13. CASE SaveFd(t)
  <2>1. call' = call /\ syncs' = syncs /\ stack' = stack /\ named' = named /\ pc[t] = "release" /\ pc'[t] = "drop"
    BY <1>0, <1>13 DEF SaveFd, Goto, Typed
  <2> QED BY <1>0, <2>1
<1>14. CASE Drop(t)
  <2>1. /\ Got(t)' = Got(t) - 1 /\ Got(t) \in Nat \ {0} /\ DOMAIN syncs'[t] = 1..(Got(t) - 1)
        /\ \A k \in 1..(Got(t) - 1) : syncs'[t][k] = syncs[t][k]
        /\ (syncs'[t] # <<>> <=> Got(t) > 1) /\ Front(syncs[t]) = syncs'[t]
    BY <1>14, DropEffect
  <2>2. call' = call /\ stack' = stack /\ named' = named /\ pc[t] = "drop"
        /\ \/ pc'[t] = "close_fd" /\ fd' = fd
           \/ pc'[t] = After(t, syncs'[t])
    BY <1>0, <1>14, <2>1 DEF Drop, Goto, Typed
  <2>3. pc'[t] = "close_fd" => fd'[t] \in Fds
    <3>1. fd[t] = FdOf(syncs[t][Got(t)]) /\ Got(t) \in DOMAIN syncs[t]
      BY <1>0, <2>1, <2>2 DEF CInv, Linked
    <3>2. fd[t] \in Fds
      BY <3>1, PointerLeads
    <3> QED BY <2>2, <3>2 DEF After
  <2>4. CASE call[t].kind = "lookup"
    <3>0. \A k \in 1..Got(t) : syncs[t][k].at \in {Nothing, call[t].handles[k]}
      BY <1>0, <2>4
    <3>1. \A k \in DOMAIN syncs'[t] : syncs'[t][k].at \in {Nothing, call'[t].handles[k]}
      <4>1. ASSUME NEW k \in 1..(Got(t) - 1) PROVE syncs'[t][k].at \in {Nothing, call[t].handles[k]}
        <5>1. k \in 1..Got(t)
          BY <2>1
        <5> QED BY <2>1, <3>0, <5>1
      <4> QED BY <2>1, <2>2, <4>1
    <3>2. Got(t)' < Size(t) /\ Got(t)' \in Nat
      BY <1>0, <2>1, <2>2, <2>4
    <3>3. CASE pc'[t] = "close_fd"
      BY <1>0, <2>1, <2>2, <2>3, <2>4, <3>1, <3>2, <3>3
    <3>4. CASE pc'[t] = After(t, syncs'[t])
      <4>1. call[t].then \in {"miss", "done"}
        BY <1>0, <2>2, <2>4
      <4>2. \/ call[t].then = "miss" /\ pc'[t] = "miss"
            \/ call[t].then = "done" /\ pc'[t] = "release" /\ Got(t) > 1
            \/ call[t].then = "done" /\ pc'[t] = "return" /\ Got(t) = 1
        <5>1. CASE call[t].then = "miss"
          BY <3>4, <5>1 DEF After
        <5>2. CASE call[t].then = "done" /\ syncs'[t] # <<>>
          BY <2>1, <3>4, <5>2 DEF After
        <5>3. CASE call[t].then = "done" /\ syncs'[t] = <<>>
          <6>1. pc'[t] = "return"
            BY <2>4, <3>4, <5>3 DEF After
          <6>2. Got(t) = 1
            BY <2>1, <5>3
          <6> QED BY <5>3, <6>1, <6>2
        <5> QED BY <4>1, <5>1, <5>2, <5>3
      <4> QED BY <1>0, <2>1, <2>2, <2>4, <3>1, <3>2, <4>1, <4>2
    <3> QED BY <2>2, <3>3, <3>4
  <2>5. CASE call[t].kind = "close"
    BY <1>0, <2>1, <2>2, <2>3, <2>5 DEF After
  <2> QED BY <1>0, <2>2, <2>4, <2>5
<1>15. CASE CloseFd(t)
  <2>1. syncs[t] \in Seq(Syncs)
    BY <1>0 DEF Typed
  <2>2. syncs[t] # <<>> <=> Len(syncs[t]) # 0
    BY <2>1
  <2>3. /\ pc[t] = "close_fd" /\ call' = call /\ syncs' = syncs /\ stack' = stack /\ named' = named
        /\ pc'[t] = After(t, syncs[t])
    BY <1>0, <1>15 DEF CloseFd, Goto, Typed
  <2> QED BY <1>0, <2>2, <2>3 DEF After
<1>16. CASE Mark(t)
  <2>1. Last(syncs[t]) = syncs[t][Got(t)] /\ Last(syncs[t]) \in Syncs /\ call[t].kind = "close"
    BY <1>0, <1>16, AtPointer DEF Mark
  <2>2. /\ Got(t)' = Got(t) + 1 /\ DOMAIN syncs'[t] = 1..(Got(t) + 1)
        /\ \A k \in 1..Got(t) : syncs'[t][k] = syncs[t][k]
        /\ syncs'[t][Got(t) + 1] = syncs[t][Got(t)]
    BY <1>0, <1>16, <2>1, HoldEffect DEF Mark
  <2>3. /\ call'[t].kind = call[t].kind /\ call'[t].handles = call[t].handles /\ call'[t].then = "done"
        /\ stack' = stack /\ named' = named /\ pc[t] = "mark" /\ pc'[t] = "release"
    BY <1>0, <1>16 DEF Mark, Goto, Then, Typed, Calls
  <2> QED BY <1>0, <2>1, <2>2, <2>3
<1>17. CASE CloseHandle(t)
  <2>1. call' = call /\ syncs' = syncs /\ stack' = stack /\ named' = named
        /\ pc[t] = "close_handle" /\ pc'[t] = "unlock"
    BY <1>0, <1>17 DEF CloseHandle, Goto, Typed
  <2> QED BY <1>0, <2>1
<1>18. CASE Return(t)
  <2>1. /\ call'[t] = NoCall /\ syncs' = syncs /\ stack' = stack /\ named'[t] = <<>>
        /\ pc[t] = "return" /\ pc'[t] = "idle"
    BY <1>0, <1>18 DEF Return, Goto, Typed
  <2> QED BY <1>0, <2>1 DEF NoCall
<1> QED
  BY <1>1, <1>2, <1>3, <1>4, <1>5, <1>6, <1>7, <1>8, <1>9, <1>10, <1>11, <1>12, <1>13, <1>14,
     <1>15, <1>16, <1>17, <1>18 DEF Acts, Step

\* Where a thread needs the mutex, it has it.
LEMMA LockedKept ==
    ASSUME CInv, NEW t \in Threads, Acts(t)
    PROVE  Locked(t)'
<1>0. /\ Typed /\ Local(t) /\ Locked(t) /\ LookupAt(t) /\ CloseAt(t)
      /\ call[t].kind \in {"none", "lookup", "close"}
  BY DEF CInv, Local, Typed, Calls
<1> USE DEF Locked, Exclusive
<1>1. CASE CallLookup(t) \/ CallClose(t)
  <2>1. CASE CallLookup(t)
    <3>1. pc'[t] = "lookup" /\ call'[t].kind = "lookup"
      BY <1>0, <2>1 DEF CallLookup, Enter, Goto, Typed
    <3> QED BY <3>1
  <2>2. CASE CallClose(t)
    <3>1. pc'[t] = "lock"
      BY <1>0, <2>2 DEF CallClose, Goto, Typed
    <3> QED BY <3>1
  <2> QED BY <1>1, <2>1, <2>2
<1>2. CASE Lock(t) \/ Unlock(t) \/ Miss(t)
  BY <1>0, <1>2 DEF Lock, Unlock, Miss, After, Goto, Typed, client, Local, LookupAt
<1>3. CASE Lookup(t) \/ CheckClosed(t) \/ Check(t)
  BY <1>0, <1>3 DEF Lookup, CheckClosed, Check, Goto, Then, Typed, Calls
<1>4. CASE FetchFails(t) \/ Fetch(t)
  BY <1>0, <1>4 DEF FetchFails, Fetch, Goto, Then, Typed, Calls
<1>5. CASE KeepOnStack(t) \/ Fill(t) \/ Publish(t)
  BY <1>0, <1>5 DEF KeepOnStack, Fill, Publish, Goto, Typed
<1>6. CASE Mismatch(t) \/ Verify(t) \/ Used(t)
  BY <1>0, <1>6 DEF Mismatch, Verify, Used, Goto, Then, Typed, Calls, client, CloseAt
<1>7. CASE SaveFd(t) \/ Drop(t) \/ CloseFd(t)
  BY <1>0, <1>7 DEF SaveFd, Drop, CloseFd, After, Goto, Typed
<1>8. CASE Mark(t) \/ CloseHandle(t) \/ Return(t)
  BY <1>0, <1>8 DEF Mark, CloseHandle, Return, Goto, Then, Typed, Calls, NoCall
<1> QED
  BY <1>1, <1>2, <1>3, <1>4, <1>5, <1>6, <1>7, <1>8 DEF Acts, Step

-----------------------------------------------------------------------------
(* Reference counts.                                                       *)

\* A new pointer has a new place.
LEMMA HeldMore ==
    ASSUME Typed, NEW t \in Threads, NEW s \in Syncs, Hold(t, s)
    PROVE  /\ Held' = Held \union {<<t, Got(t) + 1>>} /\ <<t, Got(t) + 1>> \notin Held
           /\ \A p \in Held : syncs'[p[1]][p[2]] = syncs[p[1]][p[2]]
           /\ syncs'[<<t, Got(t) + 1>>[1]][<<t, Got(t) + 1>>[2]] = s
<1>1. /\ Got(t) \in Nat /\ DOMAIN syncs[t] = 1..Got(t) /\ DOMAIN syncs'[t] = 1..(Got(t) + 1)
      /\ \A k \in 1..Got(t) : syncs'[t][k] = syncs[t][k]
      /\ syncs'[t][Got(t) + 1] = s
      /\ \A u \in Threads \ {t} : syncs'[u] = syncs[u]
  BY HoldEffect
<1>2. PICK new : new = <<t, Got(t) + 1>> /\ new[1] = t /\ new[2] = Got(t) + 1
  <2>1. <<t, Got(t) + 1>>[1] = t /\ <<t, Got(t) + 1>>[2] = Got(t) + 1
    OBVIOUS
  <2> QED BY <2>1, Zenon
<1>3. Held' = Held \union {new} /\ new \notin Held
  <2>1. \A u \in Threads : DOMAIN syncs'[u] = DOMAIN syncs[u] \union (IF u = t THEN {Got(t) + 1} ELSE {})
    BY <1>1
  <2>2. new \notin Held
    BY <1>1, <1>2, HeldIs
  <2>3. ASSUME NEW p \in Held' PROVE p \in Held \union {new}
    <3>1. PICK u \in Threads : p \in {<<u, k>> : k \in DOMAIN syncs'[u]}
      BY <2>3 DEF Held
    <3>2. PICK k \in DOMAIN syncs'[u] : p = <<u, k>>
      BY <3>1
    <3>3. k \in DOMAIN syncs[u] \/ (u = t /\ k = Got(t) + 1)
      BY <2>1
    <3> QED BY <1>2, <3>2, <3>3, HeldIs
  <2>4. \A u \in Threads : \A k \in DOMAIN syncs'[u] : <<u, k>> \in Held'
    BY DEF Held
  <2>5. ASSUME NEW p \in Held PROVE p \in Held'
    BY <2>1, <2>4, HeldIs
  <2>6. new \in Held'
    BY <1>2, <2>1, <2>4
  <2> QED BY <2>2, <2>3, <2>5, <2>6
<1>4. \A p \in Held : syncs'[p[1]][p[2]] = syncs[p[1]][p[2]]
  BY <1>1, HeldIs
<1>5. syncs'[new[1]][new[2]] = s
  BY <1>1, <1>2
<1> QED BY <1>2, <1>3, <1>4, <1>5

\* A new pointer is one more pointer to its entry and to no other.
LEMMA OneMore ==
    ASSUME Typed, NEW t \in Threads, NEW s \in Syncs, Hold(t, s), NEW h \in Handles,
           IsFiniteSet(Pointers(h))
    PROVE  /\ IsFiniteSet(Pointers(h)') /\ Cardinality(Pointers(h)) \in Nat
           /\ Cardinality(Pointers(h)') = Cardinality(Pointers(h)) + (IF s.at = h THEN 1 ELSE 0)
<1>1. PICK new : new = <<t, Got(t) + 1>>
  OBVIOUS
<1>3. /\ Held' = Held \union {new} /\ new \notin Held
      /\ \A p \in Held : syncs'[p[1]][p[2]] = syncs[p[1]][p[2]]
      /\ syncs'[new[1]][new[2]] = s
  BY <1>1, HeldMore
<1>5. Pointers(h)' = {p \in Held' : syncs'[p[1]][p[2]].at = h}
  BY DEF Pointers
<1>7. CASE s.at = h
  <2>1. Pointers(h)' = Pointers(h) \union {new} /\ new \notin Pointers(h)
    BY <1>3, <1>5, <1>7 DEF Pointers
  <2> QED BY <1>7, <2>1, FS_AddElement, FS_CardinalityType
<1>8. CASE s.at # h
  <2>1. Pointers(h)' = Pointers(h)
    BY <1>3, <1>5, <1>8 DEF Pointers
  <2>2. Cardinality(Pointers(h)) \in Nat
    BY FS_CardinalityType
  <2> QED BY <1>8, <2>1, <2>2
<1> QED BY <1>7, <1>8

\* A released pointer leaves its place.
LEMMA HeldLess ==
    ASSUME CInv, NEW t \in Threads, Drop(t)
    PROVE  /\ Held' = Held \ {<<t, Got(t)>>} /\ <<t, Got(t)>> \in Held
           /\ \A p \in Held' : syncs'[p[1]][p[2]] = syncs[p[1]][p[2]]
           /\ syncs[<<t, Got(t)>>[1]][<<t, Got(t)>>[2]] = Last(syncs[t])
<1>1. /\ Got(t) \in Nat \ {0} /\ DOMAIN syncs[t] = 1..Got(t) /\ DOMAIN syncs'[t] = 1..(Got(t) - 1)
      /\ \A k \in 1..(Got(t) - 1) : syncs'[t][k] = syncs[t][k]
      /\ \A u \in Threads \ {t} : syncs'[u] = syncs[u]
  BY DropEffect
<1>2. PICK old : old = <<t, Got(t)>> /\ old[1] = t /\ old[2] = Got(t)
  <2>1. <<t, Got(t)>>[1] = t /\ <<t, Got(t)>>[2] = Got(t)
    OBVIOUS
  <2> QED BY <2>1, Zenon
<1>4. Held' = Held \ {old} /\ old \in Held
  <2>1. \A u \in Threads : DOMAIN syncs'[u] = DOMAIN syncs[u] \ (IF u = t THEN {Got(t)} ELSE {})
    BY <1>1
  <2>2. old \in Held
    BY <1>1, <1>2, HeldIs
  <2>3. ASSUME NEW p \in Held' PROVE p \in Held \ {old}
    <3>1. PICK u \in Threads : p \in {<<u, k>> : k \in DOMAIN syncs'[u]}
      BY <2>3 DEF Held
    <3>2. PICK k \in DOMAIN syncs'[u] : p = <<u, k>>
      BY <3>1
    <3>3. k \in DOMAIN syncs[u] /\ ~(u = t /\ k = Got(t))
      BY <2>1
    <3> QED BY <1>2, <3>2, <3>3, HeldIs
  <2>4. \A u \in Threads : \A k \in DOMAIN syncs'[u] : <<u, k>> \in Held'
    BY DEF Held
  <2>5. ASSUME NEW p \in Held \ {old} PROVE p \in Held'
    <3>1. p[1] \in Threads /\ p[2] \in DOMAIN syncs[p[1]] /\ p = <<p[1], p[2]>>
      BY HeldIs
    <3>2. ~(p[1] = t /\ p[2] = Got(t))
      BY <1>2, <3>1
    <3> QED BY <2>1, <2>4, <3>1, <3>2
  <2> QED BY <2>2, <2>3, <2>5
<1>5. \A p \in Held' : syncs'[p[1]][p[2]] = syncs[p[1]][p[2]]
  <2> SUFFICES ASSUME NEW p \in Held' PROVE syncs'[p[1]][p[2]] = syncs[p[1]][p[2]]
    OBVIOUS
  <2>1. p \in Held /\ p # old
    BY <1>4
  <2>2. p[1] \in Threads /\ p[2] \in DOMAIN syncs[p[1]] /\ p = <<p[1], p[2]>>
    BY <2>1, HeldIs
  <2>3. ~(p[1] = t /\ p[2] = Got(t))
    BY <1>2, <2>1, <2>2
  <2> QED BY <1>1, <2>2, <2>3
<1>6. Last(syncs[t]) = syncs[t][Got(t)]
  BY AtPointer DEF Drop
<1>7. syncs[old[1]][old[2]] = Last(syncs[t])
  BY <1>2, <1>6
<1> QED BY <1>2, <1>4, <1>5, <1>7

\* So it is one less to its entry and to no other.
LEMMA OneLess ==
    ASSUME CInv, NEW t \in Threads, Drop(t), NEW h \in Handles
    PROVE  /\ IsFiniteSet(Pointers(h)') /\ Cardinality(Pointers(h)) \in Nat
           /\ Cardinality(Pointers(h)') = Cardinality(Pointers(h)) - (IF Last(syncs[t]).at = h THEN 1 ELSE 0)
<1>1. PICK old : old = <<t, Got(t)>>
  OBVIOUS
<1>2. PICK s : s = Last(syncs[t])
  OBVIOUS
<1>3. /\ Held' = Held \ {old} /\ old \in Held
      /\ \A p \in Held' : syncs'[p[1]][p[2]] = syncs[p[1]][p[2]]
      /\ syncs[old[1]][old[2]] = s
  BY <1>1, <1>2, HeldLess
<1>4. IsFiniteSet(Pointers(h)) /\ Cardinality(Pointers(h)) \in Nat
  BY FS_CardinalityType DEF CInv, Counted
<1>5. Pointers(h)' = {p \in Held' : syncs'[p[1]][p[2]].at = h}
  BY DEF Pointers
<1>6. CASE s.at = h
  <2>1. Pointers(h)' = Pointers(h) \ {old} /\ old \in Pointers(h)
    BY <1>3, <1>5, <1>6 DEF Pointers
  <2>2. IsFiniteSet(Pointers(h)') /\ Cardinality(Pointers(h)') = Cardinality(Pointers(h)) - 1
    BY <1>4, <2>1, FS_RemoveElement
  <2> QED BY <1>2, <1>4, <1>6, <2>2
<1>7. CASE s.at # h
  <2>1. Pointers(h)' = Pointers(h)
    BY <1>3, <1>5, <1>7 DEF Pointers
  <2> QED BY <1>2, <1>4, <1>7, <2>1
<1> QED BY <1>6, <1>7

\* Steps that neither hold nor release a pointer, nor count.
LEMMA SameCount ==
    ASSUME NEW h \in Handles, Counted(h), syncs' = syncs,
           entry'[h].refcount = entry[h].refcount,
           entry[h].refcount # 0 => entry'[h].closed = entry[h].closed
    PROVE  Counted(h)'
<1>1. Held' = Held
  BY DEF Held
<1>2. Pointers(h)' = Pointers(h)
  BY <1>1 DEF Pointers
<1> QED BY <1>2 DEF Counted

\* Counts stay exact.
LEMMA CountedKept ==
    ASSUME CInv, NEW t \in Threads, Acts(t), NEW h \in Handles
    PROVE  Counted(h)'
<1>0. /\ Typed /\ Local(t) /\ Linked(t) /\ Counted(h)
      /\ entry \in [Handles -> Entries] /\ entry[h].refcount \in Nat /\ entry[h].closed \in BOOLEAN
      /\ IsFiniteSet(Pointers(h))
  BY DEF CInv, Typed, Entries, Counted
<1>1. ASSUME syncs' = syncs, entry' = entry PROVE Counted(h)'
  BY <1>0, <1>1, SameCount
<1>2. CASE Lookup(t)
  <2>1. handle(t) \in Handles
    BY <1>2, AtHandle DEF Lookup
  <2>2. PICK g \in Handles, s \in Syncs : g = handle(t) /\ s = Entry(g) /\ s.at = g
    BY <2>1, Kinds
  <2>3. Hold(t, s) /\ entry[g].refcount # 0 /\ entry' = [entry EXCEPT ![g].refcount = entry[g].refcount + 1]
    BY <1>2, <2>2 DEF Lookup
  <2>4. /\ IsFiniteSet(Pointers(h)') /\ Cardinality(Pointers(h)) \in Nat
        /\ Cardinality(Pointers(h)') = Cardinality(Pointers(h)) + (IF g = h THEN 1 ELSE 0)
    BY <1>0, <2>2, <2>3, OneMore
  <2>5. /\ entry'[h].refcount = entry[h].refcount + (IF g = h THEN 1 ELSE 0)
        /\ entry'[h].closed = entry[h].closed
    BY <1>0, <2>3 DEF Entries
  <2> QED BY <1>0, <2>3, <2>4, <2>5 DEF Counted
<1>3. CASE KeepOnStack(t)
  <2>1. stack[t] \in Syncs /\ stack[t].at = Nothing /\ Nothing \notin Handles
    BY <1>0, <1>3, Kinds DEF KeepOnStack, Local, Typed
  <2>2. Hold(t, stack[t]) /\ entry' = entry
    BY <1>3 DEF KeepOnStack
  <2>3. /\ IsFiniteSet(Pointers(h)') /\ Cardinality(Pointers(h)) \in Nat
        /\ Cardinality(Pointers(h)') = Cardinality(Pointers(h)) + 0
    BY <1>0, <2>1, <2>2, OneMore
  <2> QED BY <1>0, <2>2, <2>3 DEF Counted
<1>4. CASE Fill(t)
  <2>1. handle(t) \in Handles
    BY <1>4, AtHandle DEF Fill
  <2>2. entry'[h].refcount = entry[h].refcount /\ (entry[h].refcount # 0 => entry'[h] = entry[h])
    BY <1>0, <1>4, <2>1 DEF Fill, Entries
  <2>3. syncs' = syncs
    BY <1>4 DEF Fill
  <2> QED BY <1>0, <2>2, <2>3, SameCount
<1>5. CASE Publish(t)
  <2>1. handle(t) \in Handles
    BY <1>5, AtHandle DEF Publish
  <2>2. PICK g \in Handles, s \in Syncs : g = handle(t) /\ s = Entry(g) /\ s.at = g
    BY <2>1, Kinds
  <2>3. Hold(t, s) /\ entry' = [entry EXCEPT ![g].refcount = 2]
        /\ entry[g].refcount = 0 /\ ~entry[g].closed
    BY <1>0, <1>5, <2>2 DEF Publish, Linked
  <2>4. /\ IsFiniteSet(Pointers(h)') /\ Cardinality(Pointers(h)) \in Nat
        /\ Cardinality(Pointers(h)') = Cardinality(Pointers(h)) + (IF g = h THEN 1 ELSE 0)
    BY <1>0, <2>2, <2>3, OneMore
  <2>5. /\ entry'[h].refcount = IF g = h THEN 2 ELSE entry[h].refcount
        /\ entry'[h].closed = entry[h].closed
    BY <1>0, <2>3 DEF Entries
  <2> QED BY <1>0, <2>3, <2>4, <2>5 DEF Counted
<1>6. CASE Drop(t)
  <2>1. PICK s \in Syncs : s = Last(syncs[t]) /\ s = syncs[t][Got(t)] /\ Got(t) \in DOMAIN syncs[t]
    BY <1>6, AtPointer DEF Drop
  <2>2. /\ IsFiniteSet(Pointers(h)') /\ Cardinality(Pointers(h)) \in Nat
        /\ Cardinality(Pointers(h)') = Cardinality(Pointers(h)) - (IF s.at = h THEN 1 ELSE 0)
    BY <1>6, <2>1, OneLess
  <2>3. CASE s.at # h
    <3>1. entry'[h] = entry[h]
      BY <1>0, <1>6, <2>1, <2>3 DEF Drop
    <3> QED BY <1>0, <2>2, <2>3, <3>1 DEF Counted
  <2>4. CASE s.at = h
    <3>1. h # Nothing
      BY Kinds
    <3>2. entry[h].refcount \in Nat \ {0} /\ (~entry[h].closed => entry[h].refcount > 1)
      BY <2>1, <2>4, <3>1, PointerCounts
    <3>3. entry' = [entry EXCEPT ![h].refcount = entry[h].refcount - 1]
      BY <1>6, <2>1, <2>4, <3>1 DEF Drop
    <3>4. entry'[h].refcount = entry[h].refcount - 1 /\ entry'[h].closed = entry[h].closed
      BY <1>0, <3>3 DEF Entries
    <3> QED BY <1>0, <2>2, <2>4, <3>2, <3>4 DEF Counted
  <2> QED BY <2>3, <2>4
<1>7. CASE Mark(t)
  <2>1. PICK s \in Syncs : s = Last(syncs[t]) /\ s = syncs[t][Got(t)] /\ Got(t) \in DOMAIN syncs[t]
    BY <1>7, AtPointer DEF Mark
  <2>2. call[t].kind = "close" /\ Got(t) = 1 /\ s.at = call[t].handles[1] /\ s.at \in Handles
    <3>1. call[t].kind = "close" /\ Got(t) = 1
      BY <1>0, <1>7 DEF Mark, Local, LookupAt, CloseAt, Typed, Calls
    <3>2. call[t].handles[1] \in Handles
      BY <1>0, <3>1 DEF Local, CloseAt, Typed, Calls, Size
    <3> QED BY <1>0, <2>1, <3>1, <3>2 DEF Local, CloseAt
  <2>3. PICK g \in Handles : g = s.at
    BY <2>2
  <2>4. entry' = [entry EXCEPT ![g].closed = TRUE] /\ Hold(t, s) /\ ~entry[g].closed
    BY <1>0, <1>7, <2>1, <2>2, <2>3 DEF Mark, Linked
  <2>5. entry[g].refcount # 0
    <3>1. syncs[t][Got(t)].at # Nothing
      BY <2>1, <2>3, Kinds
    <3> QED BY <2>1, <2>3, <3>1, PointerCounts
  <2>6. /\ IsFiniteSet(Pointers(h)') /\ Cardinality(Pointers(h)) \in Nat
        /\ Cardinality(Pointers(h)') = Cardinality(Pointers(h)) + (IF g = h THEN 1 ELSE 0)
    BY <1>0, <2>3, <2>4, OneMore
  <2>7. /\ entry'[h].refcount = entry[h].refcount
        /\ entry'[h].closed = IF g = h THEN TRUE ELSE entry[h].closed
    BY <1>0, <2>4 DEF Entries
  <2> QED BY <1>0, <2>4, <2>5, <2>6, <2>7 DEF Counted
<1>8. CASE CallLookup(t) \/ CallClose(t)
  BY <1>1, <1>8 DEF CallLookup, CallClose, Enter
<1>9. CASE Lock(t) \/ Unlock(t) \/ Miss(t) \/ CheckClosed(t) \/ Check(t) \/ FetchFails(t) \/ Fetch(t)
  BY <1>1, <1>9 DEF Lock, Unlock, Miss, CheckClosed, Check, FetchFails, Fetch, client
<1>10. CASE Mismatch(t) \/ Verify(t) \/ Used(t) \/ SaveFd(t) \/ CloseFd(t) \/ CloseHandle(t) \/ Return(t)
  BY <1>1, <1>10 DEF Mismatch, Verify, Used, SaveFd, CloseFd, CloseHandle, Return, client
<1> QED
  BY <1>2, <1>3, <1>4, <1>5, <1>6, <1>7, <1>8, <1>9, <1>10 DEF Acts, Step

-----------------------------------------------------------------------------
(* Owners of file descriptors.                                             *)

EntriesWith(f) == {g \in Handles : entry[g].refcount # 0 /\ entry[g].fd = f}
HeldWith(f)    == {p \in Held : syncs[p[1]][p[2]].fd = f}
FetchedBy(f)   == {u \in Threads : stack[u].fd = f}
ClosedBy(f)    == {u \in Threads : pc[u] = "close_fd" /\ fd[u] = f}

Tags == {"entry", "held", "fetched", "closing"}

Tagged(S) == UNION {{<<g, x>> : x \in S[g]} : g \in Tags}

\* The owners of each kind.
By(f) == [entry |-> EntriesWith(f), held |-> HeldWith(f), fetched |-> FetchedBy(f), closing |-> ClosedBy(f)]

\* What one owner says of all kinds.
LEMMA OneTag ==
    ASSUME NEW S
    PROVE  /\ Tagged(S) = {} <=> \A g \in Tags : S[g] = {}
           /\ \A g \in Tags : \A x :
                Tagged(S) = {<<g, x>>} <=> S[g] = {x} /\ \A other \in Tags \ {g} : S[other] = {}
<1>1. \A g \in Tags : \A x : <<g, x>> \in Tagged(S) <=> x \in S[g]
  BY DEF Tagged
<1>2. \A y \in Tagged(S) : \E g \in Tags : \E x \in S[g] : y = <<g, x>>
  BY DEF Tagged
<1>3. Tagged(S) = {} <=> \A g \in Tags : S[g] = {}
  BY <1>1, <1>2
<1>4. ASSUME NEW g \in Tags, NEW x, Tagged(S) = {<<g, x>>}
      PROVE  S[g] = {x} /\ \A other \in Tags \ {g} : S[other] = {}
  <2>1. x \in S[g] /\ \A y \in S[g] : y = x
    <3>1. ASSUME NEW y \in S[g] PROVE y = x
      <4>1. <<g, y>> = <<g, x>>
        BY <1>1, <1>4
      <4> QED BY <4>1
    <3>2. x \in S[g]
      BY <1>1, <1>4
    <3> QED BY <3>1, <3>2
  <2>2. ASSUME NEW other \in Tags \ {g}, NEW y \in S[other] PROVE FALSE
    <3>1. <<other, y>> = <<g, x>>
      BY <1>1, <1>4
    <3> QED BY <3>1
  <2> QED BY <2>1, <2>2
<1>5. ASSUME NEW g \in Tags, NEW x, S[g] = {x}, \A other \in Tags \ {g} : S[other] = {}
      PROVE  Tagged(S) = {<<g, x>>}
  <2>1. <<g, x>> \in Tagged(S)
    BY <1>1, <1>5
  <2>2. ASSUME NEW y \in Tagged(S) PROVE y = <<g, x>>
    BY <1>2, <1>5
  <2> QED BY <2>1, <2>2
<1> QED BY <1>3, <1>4, <1>5

\* The owners of a file descriptor are of these kinds.
LEMMA OwnersTagged == ASSUME NEW f PROVE Owners(f) = Tagged(By(f))
<1>1. /\ By(f)["entry"] = EntriesWith(f) /\ By(f)["held"] = HeldWith(f)
      /\ By(f)["fetched"] = FetchedBy(f) /\ By(f)["closing"] = ClosedBy(f)
  BY DEF By
<1>2. Tagged(By(f)) = {<<"entry", x>> : x \in EntriesWith(f)} \union {<<"held", x>> : x \in HeldWith(f)}
                        \union {<<"fetched", x>> : x \in FetchedBy(f)} \union {<<"closing", x>> : x \in ClosedBy(f)}
  BY <1>1 DEF Tagged, Tags
<1> QED BY <1>2 DEF Owners, EntriesWith, HeldWith, FetchedBy, ClosedBy

\* What one owner says, of any file descriptor, before a step and after it.
SoleOf(f) ==
    /\ Owners(f) = Tagged(By(f))
    /\ Owners(f) = {} <=> EntriesWith(f) = {} /\ HeldWith(f) = {} /\ FetchedBy(f) = {} /\ ClosedBy(f) = {}
    /\ \A x : /\ Owners(f) = {<<"entry", x>>} <=>
                   EntriesWith(f) = {x} /\ HeldWith(f) = {} /\ FetchedBy(f) = {} /\ ClosedBy(f) = {}
              /\ Owners(f) = {<<"held", x>>} <=>
                   EntriesWith(f) = {} /\ HeldWith(f) = {x} /\ FetchedBy(f) = {} /\ ClosedBy(f) = {}
              /\ Owners(f) = {<<"fetched", x>>} <=>
                   EntriesWith(f) = {} /\ HeldWith(f) = {} /\ FetchedBy(f) = {x} /\ ClosedBy(f) = {}
              /\ Owners(f) = {<<"closing", x>>} <=>
                   EntriesWith(f) = {} /\ HeldWith(f) = {} /\ FetchedBy(f) = {} /\ ClosedBy(f) = {x}

Sole == \A f \in Fds : SoleOf(f)

\* It holds in every state.
LEMMA SoleHolds == Sole
<1> SUFFICES ASSUME NEW f \in Fds PROVE SoleOf(f)
  BY DEF Sole
<1>1. PICK S : S = By(f)
  OBVIOUS
<1>2. /\ S["entry"] = EntriesWith(f) /\ S["held"] = HeldWith(f)
      /\ S["fetched"] = FetchedBy(f) /\ S["closing"] = ClosedBy(f)
  BY <1>1 DEF By
<1>3. Owners(f) = Tagged(S)
  BY <1>1, OwnersTagged
<1>4. /\ Tagged(S) = {} <=> \A g \in Tags : S[g] = {}
      /\ \A g \in Tags : \A x :
           Tagged(S) = {<<g, x>>} <=> S[g] = {x} /\ \A other \in Tags \ {g} : S[other] = {}
  BY OneTag
<1>5. /\ Owners(f) = {} <=> S["entry"] = {} /\ S["held"] = {} /\ S["fetched"] = {} /\ S["closing"] = {}
      /\ \A x : /\ Owners(f) = {<<"entry", x>>} <=>
                     S["entry"] = {x} /\ S["held"] = {} /\ S["fetched"] = {} /\ S["closing"] = {}
                /\ Owners(f) = {<<"held", x>>} <=>
                     S["entry"] = {} /\ S["held"] = {x} /\ S["fetched"] = {} /\ S["closing"] = {}
                /\ Owners(f) = {<<"fetched", x>>} <=>
                     S["entry"] = {} /\ S["held"] = {} /\ S["fetched"] = {x} /\ S["closing"] = {}
                /\ Owners(f) = {<<"closing", x>>} <=>
                     S["entry"] = {} /\ S["held"] = {} /\ S["fetched"] = {} /\ S["closing"] = {x}
  BY <1>3, <1>4 DEF Tags
<1> QED BY <1>1, <1>2, <1>3, <1>5 DEF SoleOf

\* It is about the state alone, and so about the next one too.
LEMMA SoleNext == Sole'
BY SoleHolds, PTL

\* Structs on stacks change hands with the pointers to them.
LEMMA HeldWithSame == ASSUME NEW f, syncs' = syncs PROVE HeldWith(f)' = HeldWith(f)
<1>1. Held' = Held
  BY DEF Held
<1> QED BY <1>1 DEF HeldWith

\* A pointer that is held adds the struct it points to.
LEMMA HeldWithMore ==
    ASSUME Typed, NEW t \in Threads, NEW s \in Syncs, Hold(t, s), NEW f
    PROVE  HeldWith(f)' = HeldWith(f) \union (IF s.fd = f THEN {<<t, Got(t) + 1>>} ELSE {})
<1>1. PICK new : new = <<t, Got(t) + 1>>
  OBVIOUS
<1>2. /\ Held' = Held \union {new} /\ new \notin Held
      /\ \A p \in Held : syncs'[p[1]][p[2]] = syncs[p[1]][p[2]]
      /\ syncs'[new[1]][new[2]] = s
  BY <1>1, HeldMore
<1>3. HeldWith(f)' = {p \in Held' : syncs'[p[1]][p[2]].fd = f}
  BY DEF HeldWith
<1>4. HeldWith(f)' = HeldWith(f) \union (IF s.fd = f THEN {new} ELSE {})
  BY <1>2, <1>3 DEF HeldWith
<1> QED BY <1>1, <1>4

\* A pointer that is released takes the struct with it.
LEMMA HeldWithLess ==
    ASSUME CInv, NEW t \in Threads, Drop(t), NEW f
    PROVE  HeldWith(f)' = HeldWith(f) \ {<<t, Got(t)>>}
<1>1. PICK old : old = <<t, Got(t)>>
  OBVIOUS
<1>2. Held' = Held \ {old} /\ \A p \in Held' : syncs'[p[1]][p[2]] = syncs[p[1]][p[2]]
  BY <1>1, HeldLess
<1>3. HeldWith(f)' = {p \in Held' : syncs'[p[1]][p[2]].fd = f}
  BY DEF HeldWith
<1>4. HeldWith(f)' = HeldWith(f) \ {old}
  BY <1>2, <1>3 DEF HeldWith
<1> QED BY <1>1, <1>4

\* Where nothing is said of a file descriptor, it is owned as before.
LEMMA OwnedSame ==
    ASSUME NEW f \in Fds, Owned(f), EntriesWith(f)' = EntriesWith(f), HeldWith(f)' = HeldWith(f),
           FetchedBy(f)' = FetchedBy(f), ClosedBy(f)' = ClosedBy(f), open'[f] = open[f]
    PROVE  Owned(f)'
<1>1. Owners(f) = Tagged(By(f)) /\ Owners(f)' = Tagged(By(f))'
  BY SoleHolds, SoleNext DEF Sole, SoleOf
<1>2. By(f)' = By(f)
  BY DEF By
<1>3. Tagged(By(f))' = Tagged(By(f))
  BY <1>2 DEF Tagged
<1> QED BY <1>1, <1>3 DEF Owned

\* An owner of a file descriptor that is there is the only one.
LEMMA TheOwner ==
    ASSUME CInv, NEW f \in Fds, NEW a \in Owners(f)
    PROVE  Owners(f) = {a} /\ open[f] # Nothing
BY OneOwner

\* Every file descriptor that is open has one owner after a step, too.
LEMMA OwnedKept ==
    ASSUME CInv, NEW t \in Threads, Acts(t), NEW f \in Fds
    PROVE  Owned(f)'
<1>0. /\ Typed /\ Local(t) /\ Linked(t) /\ Owned(f) /\ SoleOf(f) /\ SoleOf(f)'
      /\ pc \in [Threads -> PCs] /\ stack \in [Threads -> Syncs \union {NoSync}]
      /\ fd \in [Threads -> Fds \union {Nothing}] /\ open \in [Fds -> Objects \union {Nothing}]
      /\ entry \in [Handles -> Entries]
  BY SoleHolds, SoleNext DEF CInv, Typed, Sole
<1>1. \A u \in Threads \ {t} :
        pc'[u] = pc[u] /\ stack'[u] = stack[u] /\ fd'[u] = fd[u]
  BY StepsAreGentle DEF Gentle
<1>2. ASSUME entry' = entry PROVE EntriesWith(f)' = EntriesWith(f)
  BY <1>2 DEF EntriesWith
<1>3. ASSUME stack' = stack PROVE FetchedBy(f)' = FetchedBy(f)
  BY <1>3 DEF FetchedBy
<1>4. ASSUME pc[t] # "close_fd", pc'[t] # "close_fd" PROVE ClosedBy(f)' = ClosedBy(f)
  BY <1>1, <1>4 DEF ClosedBy
<1>5. ASSUME entry' = entry, stack' = stack, syncs' = syncs, open' = open,
             pc[t] # "close_fd", pc'[t] # "close_fd"
      PROVE  Owned(f)'
  BY <1>0, <1>2, <1>3, <1>4, <1>5, HeldWithSame, OwnedSame
<1>6. CASE Lookup(t)
  <2>1. handle(t) \in Handles
    BY <1>6, AtHandle DEF Lookup
  <2>2. PICK g \in Handles, s \in Syncs : g = handle(t) /\ s = Entry(g) /\ s.fd = Nothing /\ f # Nothing
    BY <2>1, Kinds
  <2>3. Hold(t, s) /\ entry[g].refcount # 0 /\ entry' = [entry EXCEPT ![g].refcount = entry[g].refcount + 1]
    BY <1>6, <2>2 DEF Lookup
  <2>4. HeldWith(f)' = HeldWith(f)
    <3>1. HeldWith(f)' = HeldWith(f) \union (IF s.fd = f THEN {<<t, Got(t) + 1>>} ELSE {})
      BY <1>0, <2>2, <2>3, HeldWithMore
    <3>2. s.fd # f
      BY <2>2
    <3> QED BY <3>1, <3>2
  <2>5. \A h \in Handles : (entry'[h].refcount # 0 <=> entry[h].refcount # 0) /\ entry'[h].fd = entry[h].fd
    BY <1>0, <2>3 DEF Entries
  <2>6. EntriesWith(f)' = EntriesWith(f)
    BY <2>5 DEF EntriesWith
  <2>7. stack' = stack /\ open' = open /\ pc[t] # "close_fd" /\ pc'[t] # "close_fd"
    BY <1>0, <1>6 DEF Lookup, Goto
  <2> QED BY <1>0, <1>3, <1>4, <2>4, <2>6, <2>7, OwnedSame
<1>7. CASE Fetch(t)
  <2>1. PICK e \in FreeFds : /\ open' = [open EXCEPT ![e] = table[handle(t)]]
                             /\ stack' = [stack EXCEPT ![t] = OnStack(e, Type[table[handle(t)]])]
    BY <1>7 DEF Fetch
  <2>2. /\ e \in Fds /\ open[e] = Nothing /\ table[handle(t)] # Nothing
        /\ entry' = entry /\ syncs' = syncs /\ pc[t] # "close_fd" /\ pc'[t] # "close_fd"
        /\ stack[t] = NoSync
    BY <1>0, <1>7, <2>1 DEF Fetch, FreeFds, Goto, Local
  <2>3. stack'[t].fd = e /\ stack[t].fd # f
    BY <1>0, <2>1, <2>2, Kinds DEF OnStack
  <2>4. EntriesWith(f)' = EntriesWith(f) /\ HeldWith(f)' = HeldWith(f) /\ ClosedBy(f)' = ClosedBy(f)
    BY <1>2, <1>4, <2>2, HeldWithSame
  <2>5. CASE f = e
    <3>1. Owners(f) = {}
      BY <1>0, <2>2, <2>5 DEF Owned
    <3>2. EntriesWith(f)' = {} /\ HeldWith(f)' = {} /\ FetchedBy(f) = {} /\ ClosedBy(f)' = {}
      BY <1>0, <2>4, <3>1 DEF SoleOf
    <3>3. FetchedBy(f)' = {t}
      BY <1>1, <2>3, <2>5, <3>2 DEF FetchedBy
    <3>4. Owners(f)' = {<<"fetched", t>>}
      BY <1>0, <3>2, <3>3 DEF SoleOf
    <3>5. open'[f] # Nothing
      BY <1>0, <2>1, <2>2, <2>5
    <3> QED BY <3>4, <3>5 DEF Owned
  <2>6. CASE f # e
    <3>1. FetchedBy(f)' = FetchedBy(f)
      BY <1>1, <2>3, <2>6 DEF FetchedBy
    <3>2. open'[f] = open[f]
      BY <1>0, <2>1, <2>6
    <3> QED BY <1>0, <2>4, <3>1, <3>2, OwnedSame
  <2> QED BY <2>5, <2>6
<1>8. CASE KeepOnStack(t)
  <2>1. PICK s \in Syncs : s = stack[t] /\ s.fd \in Fds
    BY <1>0, <1>8, Kinds DEF KeepOnStack, Local
  <2>2. /\ Hold(t, s) /\ stack' = [stack EXCEPT ![t] = NoSync] /\ entry' = entry /\ open' = open
        /\ pc[t] # "close_fd" /\ pc'[t] # "close_fd"
    BY <1>0, <1>8, <2>1 DEF KeepOnStack, Goto
  <2>3. stack'[t].fd # f
    BY <1>0, <2>2, Kinds
  <2>4. EntriesWith(f)' = EntriesWith(f) /\ ClosedBy(f)' = ClosedBy(f)
    BY <1>2, <1>4, <2>2
  <2>5. HeldWith(f)' = HeldWith(f) \union (IF s.fd = f THEN {<<t, Got(t) + 1>>} ELSE {})
    BY <1>0, <2>2, HeldWithMore
  <2>6. CASE s.fd = f
    <3>1. Owners(f) = {<<"fetched", t>>} /\ open[f] # Nothing
      BY <2>1, <2>6, OwnersAre, TheOwner
    <3>2. EntriesWith(f)' = {} /\ HeldWith(f) = {} /\ FetchedBy(f) = {t} /\ ClosedBy(f)' = {}
      BY <1>0, <2>4, <3>1 DEF SoleOf
    <3>3. FetchedBy(f)' = {}
      BY <1>1, <2>3, <3>2 DEF FetchedBy
    <3>4. HeldWith(f)' = {<<t, Got(t) + 1>>}
      BY <2>5, <2>6, <3>2
    <3>5. Owners(f)' = {<<"held", <<t, Got(t) + 1>>>>}
      BY <1>0, <3>2, <3>3, <3>4 DEF SoleOf
    <3> QED BY <2>2, <3>1, <3>5 DEF Owned
  <2>7. CASE s.fd # f
    <3>1. FetchedBy(f)' = FetchedBy(f)
      BY <1>1, <2>1, <2>3, <2>7 DEF FetchedBy
    <3>2. HeldWith(f)' = HeldWith(f)
      BY <2>5, <2>7
    <3> QED BY <1>0, <2>2, <2>4, <3>1, <3>2, OwnedSame
  <2> QED BY <2>6, <2>7
<1>9. CASE Fill(t)
  <2>1. PICK g \in Handles : g = handle(t)
    BY <1>9, AtHandle DEF Fill
  <2>2. /\ entry[g].refcount = 0
        /\ entry' = [entry EXCEPT ![g].fd = stack[t].fd, ![g].type = stack[t].type, ![g].closed = FALSE]
        /\ syncs' = syncs /\ stack' = stack /\ open' = open /\ pc[t] # "close_fd" /\ pc'[t] # "close_fd"
    BY <1>0, <1>9, <2>1 DEF Fill, Goto
  <2>3. \A h \in Handles : entry'[h].refcount = entry[h].refcount /\ (entry[h].refcount # 0 => entry'[h] = entry[h])
    BY <1>0, <2>1, <2>2 DEF Entries
  <2>4. EntriesWith(f)' = EntriesWith(f)
    BY <2>3 DEF EntriesWith
  <2> QED BY <1>0, <1>3, <1>4, <2>2, <2>4, HeldWithSame, OwnedSame
<1>10. CASE Publish(t)
  <2>1. PICK g \in Handles, s \in Syncs : g = handle(t) /\ s = Entry(g) /\ s.fd = Nothing /\ f # Nothing
    BY <1>10, AtHandle, Kinds DEF Publish
  <2>2. /\ entry[g].refcount = 0 /\ entry[g].fd = stack[t].fd /\ stack[t].fd \in Fds
        /\ entry' = [entry EXCEPT ![g].refcount = 2] /\ Hold(t, s) /\ stack' = [stack EXCEPT ![t] = NoSync]
        /\ open' = open /\ pc[t] # "close_fd" /\ pc'[t] # "close_fd"
    BY <1>0, <1>10, <2>1 DEF Publish, Goto, Linked, Local
  <2>3. \A h \in Handles : entry'[h].refcount = (IF h = g THEN 2 ELSE entry[h].refcount)
                           /\ entry'[h].fd = entry[h].fd
    BY <1>0, <2>1, <2>2 DEF Entries
  <2>4. EntriesWith(f)' = EntriesWith(f) \union (IF stack[t].fd = f THEN {g} ELSE {})
    BY <2>2, <2>3 DEF EntriesWith
  <2>5. HeldWith(f)' = HeldWith(f)
    <3>1. HeldWith(f)' = HeldWith(f) \union (IF s.fd = f THEN {<<t, Got(t) + 1>>} ELSE {})
      BY <1>0, <2>1, <2>2, HeldWithMore
    <3>2. s.fd # f
      BY <2>1
    <3> QED BY <3>1, <3>2
  <2>6. stack'[t].fd # f
    BY <1>0, <2>2, Kinds
  <2>7. ClosedBy(f)' = ClosedBy(f)
    BY <1>4, <2>2
  <2>8. CASE stack[t].fd = f
    <3>1. Owners(f) = {<<"fetched", t>>} /\ open[f] # Nothing
      BY <2>8, OwnersAre, TheOwner
    <3>2. EntriesWith(f) = {} /\ HeldWith(f)' = {} /\ FetchedBy(f) = {t} /\ ClosedBy(f)' = {}
      BY <1>0, <2>5, <2>7, <3>1 DEF SoleOf
    <3>3. FetchedBy(f)' = {}
      BY <1>1, <2>6, <3>2 DEF FetchedBy
    <3>4. EntriesWith(f)' = {g}
      BY <2>4, <2>8, <3>2
    <3>5. Owners(f)' = {<<"entry", g>>}
      BY <1>0, <3>2, <3>3, <3>4 DEF SoleOf
    <3> QED BY <2>2, <3>1, <3>5 DEF Owned
  <2>9. CASE stack[t].fd # f
    <3>1. FetchedBy(f)' = FetchedBy(f)
      BY <1>1, <2>6, <2>9 DEF FetchedBy
    <3>2. EntriesWith(f)' = EntriesWith(f)
      BY <2>4, <2>9
    <3> QED BY <1>0, <2>2, <2>5, <2>7, <3>1, <3>2, OwnedSame
  <2> QED BY <2>8, <2>9
<1>11. CASE CloseFd(t)
  <2>1. PICK e \in Fds : e = fd[t]
    BY <1>0, <1>11 DEF CloseFd, Local
  <2>2. /\ open' = [open EXCEPT ![e] = Nothing] /\ pc[t] = "close_fd" /\ fd[t] = e
        /\ entry' = entry /\ syncs' = syncs /\ stack' = stack /\ pc'[t] # "close_fd"
    BY <1>0, <1>11, <2>1, AfterIs DEF CloseFd, Goto
  <2>3. EntriesWith(f)' = EntriesWith(f) /\ HeldWith(f)' = HeldWith(f) /\ FetchedBy(f)' = FetchedBy(f)
    BY <1>2, <1>3, <2>2, HeldWithSame
  <2>4. CASE f = e
    <3>1. Owners(f) = {<<"closing", t>>}
      BY <2>2, <2>4, OwnersAre, TheOwner
    <3>2. EntriesWith(f)' = {} /\ HeldWith(f)' = {} /\ FetchedBy(f)' = {} /\ ClosedBy(f) = {t}
      BY <1>0, <2>3, <3>1 DEF SoleOf
    <3>3. ClosedBy(f)' = {}
      BY <1>1, <2>2, <3>2 DEF ClosedBy
    <3>4. Owners(f)' = {}
      BY <1>0, <3>2, <3>3 DEF SoleOf
    <3>5. open'[f] = Nothing
      BY <1>0, <2>2, <2>4
    <3> QED BY <3>4, <3>5 DEF Owned
  <2>5. CASE f # e
    <3>1. ClosedBy(f)' = ClosedBy(f)
      BY <1>1, <2>2, <2>5 DEF ClosedBy
    <3>2. open'[f] = open[f]
      BY <1>0, <2>2, <2>5
    <3> QED BY <1>0, <2>3, <3>1, <3>2, OwnedSame
  <2> QED BY <2>4, <2>5
<1>12. CASE Mark(t)
  <2>1. PICK s \in Syncs : s = Last(syncs[t]) /\ s = syncs[t][Got(t)] /\ Got(t) \in DOMAIN syncs[t]
                           /\ call[t].kind \in {"lookup", "close"}
    BY <1>12, AtPointer DEF Mark
  <2>2. s.at = call[t].handles[1] /\ call[t].handles[1] \in Handles
    BY <1>0, <1>12, <2>1 DEF Mark, Local, LookupAt, CloseAt, Typed, Calls, Size
  <2>3. PICK g \in Handles : g = s.at /\ s.fd = Nothing /\ f # Nothing
    BY <2>2, Kinds
  <2>4. entry' = [entry EXCEPT ![g].closed = TRUE] /\ Hold(t, s) /\ stack' = stack /\ open' = open
        /\ pc[t] # "close_fd" /\ pc'[t] # "close_fd"
    BY <1>0, <1>12, <2>1, <2>3 DEF Mark, Goto
  <2>5. \A h \in Handles : entry'[h].refcount = entry[h].refcount /\ entry'[h].fd = entry[h].fd
    BY <1>0, <2>3, <2>4 DEF Entries
  <2>6. EntriesWith(f)' = EntriesWith(f)
    BY <2>5 DEF EntriesWith
  <2>7. HeldWith(f)' = HeldWith(f)
    <3>1. HeldWith(f)' = HeldWith(f) \union (IF s.fd = f THEN {<<t, Got(t) + 1>>} ELSE {})
      BY <1>0, <2>3, <2>4, HeldWithMore
    <3>2. s.fd # f
      BY <2>3, <2>3
    <3> QED BY <3>1, <3>2
  <2> QED BY <1>0, <1>3, <1>4, <2>4, <2>6, <2>7, OwnedSame
<1>14. CASE CallLookup(t) \/ CallClose(t)
  <2>1. pc[t] # "close_fd" /\ pc'[t] # "close_fd"
    BY <1>0, <1>14 DEF CallLookup, CallClose, Enter, Goto
  <2> QED BY <1>5, <1>14, <2>1 DEF CallLookup, CallClose, Enter
<1>15. CASE Lock(t) \/ Unlock(t) \/ Miss(t) \/ CheckClosed(t) \/ Check(t) \/ FetchFails(t)
  <2>1. pc[t] # "close_fd" /\ pc'[t] # "close_fd"
    BY <1>0, <1>15, AfterIs DEF Lock, Unlock, Miss, CheckClosed, Check, FetchFails, Goto
  <2> QED BY <1>5, <1>15, <2>1 DEF Lock, Unlock, Miss, CheckClosed, Check, FetchFails, client
<1>16. CASE Mismatch(t) \/ Verify(t) \/ Used(t) \/ SaveFd(t) \/ CloseHandle(t) \/ Return(t)
  <2>1. pc[t] # "close_fd" /\ pc'[t] # "close_fd"
    BY <1>0, <1>16 DEF Mismatch, Verify, Used, SaveFd, CloseHandle, Return, Goto
  <2> QED BY <1>5, <1>16, <2>1 DEF Mismatch, Verify, Used, SaveFd, CloseHandle, Return, client
<1>13. CASE Drop(t)
  <2>1. PICK s \in Syncs : s = Last(syncs[t]) /\ s = syncs[t][Got(t)] /\ Got(t) \in DOMAIN syncs[t]
    BY <1>13, AtPointer DEF Drop
  <2>2. /\ fd[t] = FdOf(s) /\ fd[t] \in Fds /\ open[fd[t]] # Nothing
        /\ Owners(fd[t]) = {<<(IF s.at # Nothing THEN "entry" ELSE "held"),
                              (IF s.at # Nothing THEN s.at ELSE <<t, Got(t)>>)>>}
    <3>1. fd[t] = FdOf(s)
      BY <1>0, <1>13, <2>1 DEF Drop, Linked
    <3>2. PICK a : a = <<(IF s.at # Nothing THEN "entry" ELSE "held"),
                         (IF s.at # Nothing THEN s.at ELSE <<t, Got(t)>>)>>
      OBVIOUS
    <3>3. fd[t] \in Fds /\ a \in Owners(fd[t])
      BY <2>1, <3>1, <3>2, PointerLeads
    <3> QED BY <3>1, <3>2, <3>3, TheOwner
  <2>3. stack' = stack /\ open' = open /\ pc[t] = "drop" /\ FetchedBy(f)' = FetchedBy(f)
    BY <1>3, <1>13 DEF Drop
  <2>4. HeldWith(f)' = HeldWith(f) \ {<<t, Got(t)>>}
    BY <1>13, HeldWithLess
  <2>5. CASE s.at # Nothing
    <3>1. PICK g \in Handles : g = s.at /\ entry[g].refcount \in Nat \ {0} /\ s.fd = Nothing /\ f # Nothing
      <4>1. s.at \in Handles /\ entry[s.at].refcount \in Nat \ {0}
        BY <2>1, <2>5, PointerCounts
      <4>2. s.fd = Nothing /\ f # Nothing
        BY <2>5, Kinds
      <4> QED BY <4>1, <4>2
    <3>2. /\ entry' = [entry EXCEPT ![g].refcount = entry[g].refcount - 1]
          /\ IF entry[g].refcount - 1 = 0 THEN pc'[t] = "close_fd" /\ fd' = fd
             ELSE pc'[t] # "close_fd"
      BY <1>0, <1>13, <2>1, <2>5, <3>1, AfterIs DEF Drop, Goto
    <3>3. \A h \in Handles : /\ entry'[h].fd = entry[h].fd
                             /\ entry'[h].refcount = IF h = g THEN entry[g].refcount - 1 ELSE entry[h].refcount
      BY <1>0, <3>1, <3>2 DEF Entries
    <3>4. HeldWith(f)' = HeldWith(f)
      BY <2>1, <2>4, <3>1 DEF HeldWith
    <3>5. CASE entry[g].refcount # 1
      <4>1. EntriesWith(f)' = EntriesWith(f)
        BY <3>1, <3>3, <3>5 DEF EntriesWith
      <4>2. ClosedBy(f)' = ClosedBy(f)
        BY <1>4, <2>3, <3>1, <3>2, <3>5
      <4> QED BY <1>0, <2>3, <3>4, <4>1, <4>2, OwnedSame
    <3>6. CASE entry[g].refcount = 1 /\ fd[t] # f
      <4>1. entry[g].fd # f
        BY <2>2, <2>5, <3>1, <3>6 DEF FdOf
      <4>2. EntriesWith(f)' = EntriesWith(f)
        BY <3>3, <4>1 DEF EntriesWith
      <4>3. ClosedBy(f)' = ClosedBy(f)
        BY <1>1, <2>3, <3>2, <3>6 DEF ClosedBy
      <4> QED BY <1>0, <2>3, <3>4, <4>2, <4>3, OwnedSame
    <3>7. CASE entry[g].refcount = 1 /\ fd[t] = f
      <4>1. Owners(f) = {<<"entry", g>>}
        BY <2>2, <2>5, <3>1, <3>7
      <4>2. EntriesWith(f) = {g} /\ HeldWith(f)' = {} /\ FetchedBy(f)' = {} /\ ClosedBy(f) = {}
        BY <1>0, <2>3, <3>4, <4>1 DEF SoleOf
      <4>3. EntriesWith(f)' = {}
        BY <3>3, <3>7, <4>2 DEF EntriesWith
      <4>4. ClosedBy(f)' = {t}
        BY <1>1, <3>2, <3>7, <4>2 DEF ClosedBy
      <4>5. Owners(f)' = {<<"closing", t>>}
        BY <1>0, <4>2, <4>3, <4>4 DEF SoleOf
      <4> QED BY <2>2, <2>3, <3>7, <4>5 DEF Owned
    <3> QED BY <3>5, <3>6, <3>7
  <2>6. CASE s.at = Nothing
    <3>1. entry' = entry /\ pc'[t] = "close_fd" /\ fd' = fd /\ s.fd = fd[t]
      BY <1>0, <1>13, <2>1, <2>2, <2>6 DEF Drop, Goto, FdOf
    <3>2. EntriesWith(f)' = EntriesWith(f)
      BY <1>2, <3>1
    <3>3. CASE fd[t] # f
      <4>1. HeldWith(f)' = HeldWith(f)
        BY <2>1, <2>4, <3>1, <3>3 DEF HeldWith
      <4>2. ClosedBy(f)' = ClosedBy(f)
        BY <1>1, <2>3, <3>1, <3>3 DEF ClosedBy
      <4> QED BY <1>0, <2>3, <3>2, <4>1, <4>2, OwnedSame
    <3>4. CASE fd[t] = f
      <4>1. Owners(f) = {<<"held", <<t, Got(t)>>>>}
        BY <2>2, <2>6, <3>4
      <4>2. EntriesWith(f)' = {} /\ HeldWith(f) = {<<t, Got(t)>>} /\ FetchedBy(f)' = {} /\ ClosedBy(f) = {}
        BY <1>0, <2>3, <3>2, <4>1 DEF SoleOf
      <4>3. HeldWith(f)' = {}
        BY <2>4, <4>2
      <4>4. ClosedBy(f)' = {t}
        BY <1>1, <3>1, <3>4, <4>2 DEF ClosedBy
      <4>5. Owners(f)' = {<<"closing", t>>}
        BY <1>0, <4>2, <4>3, <4>4 DEF SoleOf
      <4> QED BY <2>2, <2>3, <3>4, <4>5 DEF Owned
    <3> QED BY <3>3, <3>4
  <2> QED BY <2>5, <2>6
<1> QED
  BY <1>6, <1>7, <1>8, <1>9, <1>10, <1>11, <1>12, <1>13, <1>14, <1>15, <1>16 DEF Acts, Step

-----------------------------------------------------------------------------
(* Entries in use.                                                         *)

\* An entry comes into use when it is published; in use, it is never reopened, and its
\* handle is not closed while it is open.
LEMMA UseKept ==
    ASSUME CInv, NEW t \in Threads, Acts(t), NEW h \in Handles
    PROVE  /\ entry[h].refcount # 0 /\ ~entry'[h].closed => ~entry[h].closed /\ table'[h] = table[h]
           /\ entry[h].refcount = 0 /\ entry'[h].refcount # 0 => Publish(t) /\ handle(t) = h
<1>0. Typed /\ Local(t) /\ Linked(t) /\ entry \in [Handles -> Entries]
  BY DEF CInv, Typed
<1>1. CASE Lookup(t)
  <2>1. PICK g \in Handles : g = handle(t)
    BY <1>1, AtHandle DEF Lookup
  <2>2. entry[g].refcount # 0 /\ entry' = [entry EXCEPT ![g].refcount = entry[g].refcount + 1] /\ table' = table
    BY <1>1, <2>1 DEF Lookup
  <2> QED BY <1>0, <2>2 DEF Entries
<1>2. CASE Fill(t)
  <2>1. PICK g \in Handles : g = handle(t)
    BY <1>2, AtHandle DEF Fill
  <2>2. /\ entry[g].refcount = 0 /\ table' = table
        /\ entry' = [entry EXCEPT ![g].fd = stack[t].fd, ![g].type = stack[t].type, ![g].closed = FALSE]
    BY <1>2, <2>1 DEF Fill
  <2> QED BY <1>0, <2>2 DEF Entries
<1>3. CASE Publish(t)
  <2>1. PICK g \in Handles : g = handle(t)
    BY <1>3, AtHandle DEF Publish
  <2>2. entry' = [entry EXCEPT ![g].refcount = 2] /\ table' = table
    BY <1>3, <2>1 DEF Publish
  <2>3. entry'[h].closed = entry[h].closed /\ (h # g => entry'[h] = entry[h])
    BY <1>0, <2>2 DEF Entries
  <2> QED BY <1>3, <2>1, <2>2, <2>3
<1>4. CASE Drop(t)
  <2>1. PICK s \in Syncs : s = Last(syncs[t]) /\ s = syncs[t][Got(t)] /\ Got(t) \in DOMAIN syncs[t]
    BY <1>4, AtPointer DEF Drop
  <2>2. CASE s.at # Nothing
    <3>1. PICK g \in Handles : g = s.at /\ entry[g].refcount \in Nat \ {0}
      BY <2>1, <2>2, PointerCounts
    <3>2. entry' = [entry EXCEPT ![g].refcount = entry[g].refcount - 1] /\ table' = table
      BY <1>4, <2>1, <2>2, <3>1 DEF Drop
    <3> QED BY <1>0, <3>1, <3>2 DEF Entries
  <2>3. CASE s.at = Nothing
    BY <1>4, <2>1, <2>3 DEF Drop
  <2> QED BY <2>2, <2>3
<1>5. CASE Mark(t)
  <2>1. \A g \in Handles : entry'[g].refcount = entry[g].refcount /\ (entry[g].closed => entry'[g].closed)
    BY <1>0, <1>5 DEF Mark, Entries
  <2> QED BY <1>5, <2>1 DEF Mark
<1>6. CASE CloseHandle(t)
  <2>1. pc[t] = "close_handle" /\ entry' = entry
    BY <1>6 DEF CloseHandle
  <2>2. call[t].kind = "close"
    BY <1>0, <2>1 DEF Local, LookupAt, Typed, Calls
  <2>3. entry[call[t].handles[1]].refcount = 0 \/ entry[call[t].handles[1]].closed
    BY <1>0, <2>1, <2>2 DEF Linked
  <2>4. h # call[t].handles[1] => table'[h] = table[h]
    BY <1>0, <1>6 DEF CloseHandle, Typed
  <2> QED BY <2>1, <2>3, <2>4
<1>7. CASE CallLookup(t) \/ CallClose(t)
  BY <1>7 DEF CallLookup, CallClose, Enter
<1>8. CASE Lock(t) \/ Unlock(t) \/ Miss(t) \/ CheckClosed(t) \/ Check(t) \/ FetchFails(t) \/ Fetch(t)
  BY <1>8 DEF Lock, Unlock, Miss, CheckClosed, Check, FetchFails, Fetch, client
<1>9. CASE KeepOnStack(t) \/ Mismatch(t) \/ Verify(t) \/ Used(t) \/ SaveFd(t) \/ CloseFd(t) \/ Return(t)
  BY <1>9 DEF KeepOnStack, Mismatch, Verify, Used, SaveFd, CloseFd, Return, client
<1> QED
  BY <1>1, <1>2, <1>3, <1>4, <1>5, <1>6, <1>7, <1>8, <1>9 DEF Acts, Step

\* An entry in use stays as it was, or starts as what the handle stands for.
LEMMA CachedKept ==
    ASSUME CInv, NEW t \in Threads, Acts(t), NEW h \in Handles
    PROVE  Cached(h)'
<1>0. Typed /\ Local(t) /\ Linked(t) /\ Cached(h) /\ Gentle(t) /\ entry \in [Handles -> Entries]
  BY StepsAreGentle DEF CInv, Typed
<1>1. CASE entry[h].refcount # 0
  <2>1. /\ entry[h].fd \in Fds /\ open[entry[h].fd] # Nothing
        /\ entry[h].type = Type[open[entry[h].fd]]
        /\ ~entry[h].closed => open[entry[h].fd] = table[h]
    BY <1>0, <1>1 DEF Cached
  <2>2. <<"entry", h>> \in Owners(entry[h].fd)
    BY <1>1, <2>1, OwnersAre
  <2>3. <<"closing", t>> \notin Owners(entry[h].fd)
    BY <2>1, <2>2, OneOwner
  <2>4. open'[entry[h].fd] = open[entry[h].fd] /\ entry'[h].fd = entry[h].fd /\ entry'[h].type = entry[h].type
    BY <1>0, <1>1, <2>1, <2>3 DEF Gentle
  <2>5. ~entry'[h].closed => ~entry[h].closed /\ table'[h] = table[h]
    BY <1>1, UseKept
  <2> QED BY <2>1, <2>4, <2>5 DEF Cached
<1>2. CASE entry[h].refcount = 0 /\ entry'[h].refcount # 0
  <2>1. Publish(t) /\ handle(t) = h
    BY <1>2, UseKept
  <2>2. /\ pc[t] = "publish" /\ entry' = [entry EXCEPT ![h].refcount = 2] /\ open' = open /\ table' = table
    BY <2>1 DEF Publish
  <2>3. /\ table[h] # Nothing /\ stack[t].fd \in Fds
        /\ open[stack[t].fd] = table[h] /\ stack[t].type = Type[table[h]]
        /\ entry[h].fd = stack[t].fd /\ entry[h].type = stack[t].type
    BY <1>0, <2>1, <2>2 DEF Linked, Local
  <2>4. entry'[h].fd = entry[h].fd /\ entry'[h].type = entry[h].type
    BY <1>0, <2>2 DEF Entries
  <2> QED BY <2>2, <2>3, <2>4 DEF Cached
<1>3. CASE entry[h].refcount = 0 /\ entry'[h].refcount = 0
  BY <1>3 DEF Cached
<1> QED BY <1>1, <1>2, <1>3

-----------------------------------------------------------------------------
(* What the pointers of a call lead to.                                    *)

\* A pointer that stays leads to the same file descriptor, of the same object.
LEMMA PlaceKept ==
    ASSUME CInv, NEW t \in Threads, Gentle(t), NEW k \in DOMAIN syncs[t], syncs'[t][k] = syncs[t][k]
    PROVE  /\ FdOf(syncs[t][k])' = FdOf(syncs[t][k])
           /\ open'[FdOf(syncs[t][k])] = open[FdOf(syncs[t][k])]
           /\ syncs[t][k].at = Nothing => open'[syncs[t][k].fd] = open[syncs[t][k].fd]
<1>1. PICK s : s = syncs[t][k]
  OBVIOUS
<1>2. FdOf(s)' = FdOf(s) /\ open'[FdOf(s)] = open[FdOf(s)]
  BY <1>1, PointerKept
<1>3. FdOf(syncs[t][k])' = FdOf(s)'
  BY <1>1 DEF FdOf
<1>4. syncs[t][k].at = Nothing => FdOf(syncs[t][k]) = syncs[t][k].fd
  BY DEF FdOf
<1> QED BY <1>1, <1>2, <1>3, <1>4

\* What a call's handles stand for is remembered.
LEMMA NamedKept ==
    ASSUME CInv, NEW t \in Threads, Acts(t)
    PROVE  \A k \in DOMAIN named'[t] : table'[call'[t].handles[k]] \in {Nothing} \union named'[t][k]
<1>0. /\ Typed /\ Local(t) /\ Linked(t) /\ Gentle(t)
      /\ call \in [Threads -> Calls] /\ named \in [Threads -> Seq(SUBSET Objects)]
  BY StepsAreGentle DEF CInv, Typed
<1>1. \A k \in DOMAIN named[t] : call[t].handles[k] \in Handles
  <2>1. call[t].handles \in Seq(Handles) /\ named[t] \in Seq(SUBSET Objects) /\ Len(named[t]) = Len(call[t].handles)
    BY <1>0 DEF Calls, Local, Size
  <2> QED BY <2>1
<1>2. ASSUME call'[t].handles = call[t].handles, named'[t] = named[t]
      PROVE  \A k \in DOMAIN named'[t] : table'[call'[t].handles[k]] \in {Nothing} \union named'[t][k]
  BY <1>0, <1>1, <1>2 DEF Gentle, Linked
<1>3. CASE CallLookup(t) \/ CallClose(t)
  <2>1. PICK c : Enter(t, c)
    BY <1>3 DEF CallLookup, CallClose
  <2>2. call'[t] = c /\ named'[t] = [k \in DOMAIN c.handles |-> Standing(c.handles[k])] /\ table' = table
    BY <1>0, <2>1 DEF Enter
  <2> QED BY <2>2 DEF Standing
<1>4. CASE Return(t)
  <2>1. named'[t] = <<>>
    BY <1>0, <1>4 DEF Return
  <2> QED BY <2>1
<1>5. CASE Lock(t) \/ Unlock(t) \/ Lookup(t) \/ Miss(t) \/ KeepOnStack(t) \/ Fill(t) \/ Publish(t)
  BY <1>2, <1>5 DEF Lock, Unlock, Lookup, Miss, KeepOnStack, Fill, Publish, client
<1>6. CASE Verify(t) \/ SaveFd(t) \/ Drop(t) \/ CloseFd(t) \/ CloseHandle(t)
  BY <1>2, <1>6 DEF Verify, SaveFd, Drop, CloseFd, CloseHandle, client
<1>7. CASE CheckClosed(t) \/ Check(t) \/ FetchFails(t) \/ Fetch(t) \/ Mismatch(t) \/ Used(t) \/ Mark(t)
  <2>1. named' = named /\ \E l : Then(t, l)
    BY <1>7 DEF CheckClosed, Check, FetchFails, Fetch, Mismatch, Used, Mark
  <2>2. call'[t].handles = call[t].handles
    BY <1>0, <2>1 DEF Then, Calls
  <2> QED BY <1>2, <2>1, <2>2
<1> QED
  BY <1>3, <1>4, <1>5, <1>6, <1>7 DEF Acts, Step

\* Steps that neither hold nor release a pointer.
Still(t) ==
    \/ CallLookup(t) \/ CallClose(t) \/ Lock(t) \/ Unlock(t) \/ Miss(t) \/ CheckClosed(t) \/ Check(t)
    \/ FetchFails(t) \/ Fetch(t) \/ Fill(t) \/ Mismatch(t) \/ Verify(t) \/ Used(t)
    \/ SaveFd(t) \/ CloseFd(t) \/ CloseHandle(t) \/ Return(t)

\* They leave the pointers alone.
LEMMA StillSyncs ==
    ASSUME NEW t \in Threads, Still(t)
    PROVE  syncs' = syncs
<1>1. CASE CallLookup(t) \/ CallClose(t) \/ Lock(t) \/ Unlock(t) \/ Miss(t) \/ CheckClosed(t) \/ Check(t)
  BY <1>1 DEF CallLookup, CallClose, Enter, Lock, Unlock, Miss, CheckClosed, Check, client
<1>2. CASE FetchFails(t) \/ Fetch(t) \/ Fill(t) \/ Mismatch(t) \/ Verify(t) \/ Used(t)
  BY <1>2 DEF FetchFails, Fetch, Fill, Mismatch, Verify, Used, client
<1>3. CASE SaveFd(t) \/ CloseFd(t) \/ CloseHandle(t) \/ Return(t)
  BY <1>3 DEF SaveFd, CloseFd, CloseHandle, Return
<1> QED BY <1>1, <1>2, <1>3 DEF Still

\* A struct on the stack that a call holds has the type of its object.
LEMMA StacksKept ==
    ASSUME CInv, NEW t \in Threads, Acts(t)
    PROVE  \A k \in DOMAIN syncs'[t] :
             syncs'[t][k].at = Nothing => syncs'[t][k].type = Type[open'[syncs'[t][k].fd]]
<1>0. /\ Typed /\ Local(t) /\ Linked(t) /\ Gentle(t)
      /\ \A k \in DOMAIN syncs[t] :
           syncs[t][k].at = Nothing => syncs[t][k].type = Type[open[syncs[t][k].fd]]
  BY StepsAreGentle DEF CInv, Linked
<1>1. ASSUME NEW k \in DOMAIN syncs[t], syncs'[t][k] = syncs[t][k]
      PROVE  syncs'[t][k].at = Nothing => syncs'[t][k].type = Type[open'[syncs'[t][k].fd]]
  BY <1>0, <1>1, PlaceKept
<1>2. CASE Still(t)
  BY <1>1, <1>2, StillSyncs
<1>3. ASSUME NEW s \in Syncs, Hold(t, s), s.at = Nothing => s.type = Type[open'[s.fd]]
      PROVE  \A k \in DOMAIN syncs'[t] :
               syncs'[t][k].at = Nothing => syncs'[t][k].type = Type[open'[syncs'[t][k].fd]]
  <2>1. /\ Got(t) \in Nat /\ DOMAIN syncs[t] = 1..Got(t) /\ DOMAIN syncs'[t] = 1..(Got(t) + 1)
        /\ \A k \in 1..Got(t) : syncs'[t][k] = syncs[t][k]
        /\ syncs'[t][Got(t) + 1] = s
    BY <1>0, <1>3, HoldEffect
  <2> SUFFICES ASSUME NEW k \in 1..(Got(t) + 1)
               PROVE  syncs'[t][k].at = Nothing => syncs'[t][k].type = Type[open'[syncs'[t][k].fd]]
    BY <2>1
  <2>2. CASE k = Got(t) + 1
    BY <1>3, <2>1, <2>2
  <2>3. CASE k # Got(t) + 1
    <3>1. k \in 1..Got(t)
      BY <2>1, <2>3
    <3> QED BY <1>1, <2>1, <3>1
  <2> QED BY <2>2, <2>3
<1>4. CASE Lookup(t) \/ Publish(t)
  <2>1. PICK s \in Syncs : s = Entry(handle(t)) /\ s.at # Nothing
    BY <1>4, AtHandle, Kinds DEF Lookup, Publish
  <2> QED BY <1>3, <1>4, <2>1 DEF Lookup, Publish
<1>5. CASE KeepOnStack(t)
  <2>1. stack[t] \in Syncs
    BY <1>0, <1>5, Kinds DEF KeepOnStack, Local, Typed
  <2>2. stack[t].type = Type[open[stack[t].fd]] /\ open' = open
    BY <1>0, <1>5 DEF KeepOnStack, Linked
  <2> QED BY <1>3, <1>5, <2>1, <2>2 DEF KeepOnStack
<1>6. CASE Mark(t)
  <2>1. PICK s \in Syncs : s = Last(syncs[t]) /\ s = syncs[t][Got(t)] /\ Got(t) \in DOMAIN syncs[t]
    BY <1>6, AtPointer DEF Mark
  <2>2. s.at = Nothing => s.type = Type[open'[s.fd]]
    BY <1>0, <1>6, <2>1 DEF Mark
  <2> QED BY <1>3, <1>6, <2>1, <2>2 DEF Mark
<1>7. CASE Drop(t)
  <2>1. /\ Got(t) \in Nat \ {0} /\ DOMAIN syncs[t] = 1..Got(t) /\ DOMAIN syncs'[t] = 1..(Got(t) - 1)
        /\ \A k \in 1..(Got(t) - 1) : syncs'[t][k] = syncs[t][k]
    BY <1>7, DropEffect
  <2>2. \A k \in 1..(Got(t) - 1) : k \in 1..Got(t)
    BY <2>1
  <2> QED BY <1>1, <2>1, <2>2
<1> QED BY <1>2, <1>4, <1>5, <1>6, <1>7 DEF Acts, Step, Still

\* The pointers a call has checked lead to what its handles have stood for during the
\* call: a pointer joins them when its entry is not closed, or when it has just been
\* fetched from the server.
LEMMA ChecksKept ==
    ASSUME CInv, NEW t \in Threads, Acts(t), call'[t].kind = "lookup"
    PROVE  \A k \in 1..Checked(t)' : open'[FdOf(syncs[t][k])'] \in named'[t][k]
<1>0. /\ Typed /\ Local(t) /\ Linked(t) /\ Gentle(t) /\ Got(t) \in Nat /\ DOMAIN syncs[t] = 1..Got(t)
      /\ call \in [Threads -> Calls] /\ pc \in [Threads -> PCs] /\ named \in [Threads -> Seq(SUBSET Objects)]
      /\ stack \in [Threads -> Syncs \union {NoSync}] /\ entry \in [Handles -> Entries]
      /\ call[t].kind \in {"none", "lookup", "close"} /\ call[t].then \in {"done", "verify", "miss"}
      /\ pc[t] \in PCs
  BY StepsAreGentle DEF CInv, Typed, Calls, Got
<1>1. ASSUME NEW k \in 1..Checked(t), call[t].kind = "lookup", k \in 1..Got(t),
             syncs'[t][k] = syncs[t][k], named'[t] = named[t]
      PROVE  open'[FdOf(syncs[t][k])'] \in named'[t][k]
  <2>1. open[FdOf(syncs[t][k])] \in named[t][k]
    BY <1>0, <1>1 DEF Linked
  <2>2. FdOf(syncs[t][k])' = FdOf(syncs[t][k]) /\ open'[FdOf(syncs[t][k])] = open[FdOf(syncs[t][k])]
    BY <1>0, <1>1, PlaceKept
  <2> QED BY <1>1, <2>1, <2>2
<1>2. ASSUME call[t].kind = "lookup", syncs' = syncs, named'[t] = named[t], Checked(t)' <= Checked(t),
             Checked(t) \in Int, Checked(t)' \in Int, Checked(t) <= Got(t)
      PROVE  \A k \in 1..Checked(t)' : open'[FdOf(syncs[t][k])'] \in named'[t][k]
  <2> SUFFICES ASSUME NEW k \in 1..Checked(t)'
               PROVE  open'[FdOf(syncs[t][k])'] \in named'[t][k]
    OBVIOUS
  <2>1. k \in 1..Checked(t) /\ k \in 1..Got(t)
    BY <1>0, <1>2
  <2> QED BY <1>1, <1>2, <2>1
<1>3. CASE CallLookup(t)
  <2>1. pc[t] = "idle" /\ pc'[t] = "lookup" /\ syncs' = syncs
    BY <1>0, <1>3 DEF CallLookup, Enter, Goto
  <2>2. Got(t) = 0
    BY <1>0, <2>1 DEF Local
  <2>3. Checked(t)' = 0
    BY <2>1, <2>2 DEF Checked, Got
  <2> QED BY <2>3
<1>4. CASE CallClose(t) \/ Return(t)
  <2>1. CASE CallClose(t)
    <3>1. PICK c : c.kind = "close" /\ Enter(t, c)
      BY <2>1 DEF CallClose
    <3>2. call'[t].kind = "close"
      BY <1>0, <3>1 DEF Enter
    <3> QED BY <3>2
  <2>2. CASE Return(t)
    <3>1. call'[t].kind = "none"
      BY <1>0, <2>2 DEF Return, NoCall
    <3> QED BY <3>1
  <2> QED BY <1>4, <2>1, <2>2
<1>5. CASE Lock(t) \/ Miss(t) \/ Verify(t) \/ SaveFd(t)
  <2>1. /\ call' = call /\ syncs' = syncs /\ named' = named
        /\ \/ pc[t] \in {"lock", "lookup", "miss", "verify"} /\ pc'[t] \in {"lookup", "close_handle", "fetch", "lock", "use"}
           \/ pc[t] = "release" /\ pc'[t] = "drop"
    BY <1>0, <1>5 DEF Lock, Miss, Verify, SaveFd, Goto, client
  <2> QED BY <1>0, <1>2, <2>1 DEF Checked, Got
<1>6. CASE Fill(t)
  <2>1. call' = call /\ syncs' = syncs /\ named' = named /\ pc[t] = "cache" /\ pc'[t] = "publish"
    BY <1>0, <1>6 DEF Fill, Goto
  <2> QED BY <1>0, <1>2, <2>1 DEF Checked, Got
<1>7. CASE Unlock(t)
  <2>1. /\ call' = call /\ syncs' = syncs /\ named' = named /\ pc[t] = "unlock" /\ call[t].kind = "lookup"
        /\ pc'[t] = IF call[t].then = "verify" THEN "verify" ELSE After(t, syncs[t])
    BY <1>0, <1>7 DEF Unlock, Goto
  <2>2. CASE call[t].then = "verify"
    BY <1>0, <1>2, <2>1, <2>2 DEF Checked, Got
  <2>3. CASE call[t].then = "done"
    <3>1. pc'[t] \in {"release", "return"}
      BY <2>1, <2>3 DEF After
    <3>2. Checked(t)' = 0
      BY <2>1, <2>3, <3>1 DEF Checked
    <3> QED BY <3>2
  <2> QED BY <1>0, <2>1, <2>2, <2>3 DEF Local, LookupAt
<1>8. CASE FetchFails(t) \/ Mismatch(t) \/ Used(t)
  <2>1. pc'[t] \in {"unlock", "release"} /\ call'[t].then = "done"
    BY <1>0, <1>8 DEF FetchFails, Mismatch, Used, Goto, Then, Calls
  <2>2. Checked(t)' = 0
    BY <2>1 DEF Checked
  <2> QED BY <2>2
<1>9. CASE CheckClosed(t) \/ Fetch(t)
  <2>1. /\ call'[t].kind = call[t].kind /\ syncs' = syncs /\ named' = named
        /\ \/ pc[t] = "check" /\ pc'[t] = "release" /\ call'[t].then = "miss"
           \/ pc[t] = "fetch" /\ pc'[t] = "cache"
    BY <1>0, <1>9 DEF CheckClosed, Fetch, Goto, Then, Calls
  <2> QED BY <1>0, <1>2, <2>1 DEF Checked, Got
<1>10. CASE Lookup(t)
  <2>1. PICK s \in Syncs : s = Entry(handle(t)) /\ Hold(t, s)
    BY <1>10, AtHandle, Kinds DEF Lookup
  <2>2. /\ Got(t)' = Got(t) + 1 /\ \A k \in 1..Got(t) : syncs'[t][k] = syncs[t][k]
    BY <1>0, <2>1, HoldEffect
  <2>3. call' = call /\ named' = named /\ pc[t] = "lookup" /\ pc'[t] = "check"
    BY <1>0, <1>10 DEF Lookup, Goto
  <2>4. Checked(t)' = Got(t) /\ Checked(t) = Got(t)
    BY <1>0, <2>2, <2>3 DEF Checked
  <2> QED BY <1>1, <2>2, <2>3, <2>4
<1>11. ASSUME NEW s, Hold(t, s), s \in Syncs, call' = call, named' = named,
              pc[t] \in {"cache", "publish"}, pc'[t] = "unlock",
              open'[FdOf(s)'] = table[handle(t)]
       PROVE  \A k \in 1..Checked(t)' : open'[FdOf(syncs[t][k])'] \in named'[t][k]
  <2>1. /\ Got(t)' = Got(t) + 1 /\ \A k \in 1..Got(t) : syncs'[t][k] = syncs[t][k]
        /\ syncs'[t][Got(t) + 1] = s
    BY <1>0, <1>11, HoldEffect
  <2>2. call[t].kind = "lookup" /\ call[t].then = "verify" /\ Got(t) < Size(t) /\ Len(named[t]) = Size(t)
        /\ Size(t) \in Nat
    BY <1>0, <1>11 DEF Local, LookupAt, CloseAt, Size, Calls
  <2>3. Checked(t)' = Got(t) + 1 /\ Checked(t) = Got(t)
    BY <1>0, <1>11, <2>1, <2>2 DEF Checked
  <2>4. table[handle(t)] \in named[t][Got(t) + 1]
    <3>1. handle(t) = call[t].handles[Got(t) + 1]
      BY DEF handle, Got
    <3>2. Got(t) + 1 \in DOMAIN named[t]
      <4>1. named[t] \in Seq(SUBSET Objects)
        BY <1>0
      <4>2. DOMAIN named[t] = 1..Len(named[t])
        BY <4>1
      <4> QED BY <1>0, <2>2, <4>2
    <3>3. table[handle(t)] # Nothing
      BY <1>0, <1>11 DEF Linked
    <3> QED BY <1>0, <3>1, <3>2, <3>3 DEF Linked
  <2> SUFFICES ASSUME NEW k \in 1..(Got(t) + 1)
               PROVE  open'[FdOf(syncs[t][k])'] \in named'[t][k]
    BY <2>3
  <2>5. CASE k = Got(t) + 1
    <3>1. FdOf(syncs[t][k])' = FdOf(s)'
      BY <2>1, <2>5 DEF FdOf
    <3> QED BY <1>11, <2>4, <2>5, <3>1
  <2>6. CASE k # Got(t) + 1
    <3>1. k \in 1..Got(t)
      BY <1>0, <2>6
    <3> QED BY <1>1, <1>11, <2>1, <2>2, <2>3, <3>1
  <2> QED BY <2>5, <2>6
<1>12. CASE KeepOnStack(t)
  <2>1. PICK s \in Syncs : s = stack[t] /\ s.at = Nothing
    BY <1>0, <1>12, Kinds DEF KeepOnStack, Local
  <2>2. FdOf(s)' = s.fd
    BY <2>1 DEF FdOf
  <2>3. /\ Hold(t, s) /\ call' = call /\ named' = named /\ pc[t] = "cache" /\ pc'[t] = "unlock"
        /\ open' = open /\ open[s.fd] = table[handle(t)]
    BY <1>0, <1>12, <2>1 DEF KeepOnStack, Goto, Linked
  <2> QED BY <1>11, <2>1, <2>2, <2>3
<1>13. CASE Publish(t)
  <2>1. PICK g \in Handles, s \in Syncs : g = handle(t) /\ s = Entry(g) /\ s.at = g /\ g # Nothing
    BY <1>13, AtHandle, Kinds DEF Publish
  <2>2. /\ Hold(t, s) /\ call' = call /\ named' = named /\ pc[t] = "publish" /\ pc'[t] = "unlock"
        /\ open' = open /\ entry' = [entry EXCEPT ![g].refcount = 2]
        /\ open[entry[g].fd] = table[handle(t)]
    BY <1>0, <1>13, <2>1 DEF Publish, Goto, Linked
  <2>3. entry'[g].fd = entry[g].fd
    BY <1>0, <2>2 DEF Entries
  <2>4. FdOf(s)' = entry[g].fd
    BY <2>1, <2>3 DEF FdOf
  <2> QED BY <1>11, <2>1, <2>2, <2>4
<1>14. CASE Check(t)
  <2>1. PICK s \in Syncs : s = Last(syncs[t]) /\ s = syncs[t][Got(t)] /\ Got(t) \in DOMAIN syncs[t] /\ Got(t) \in Nat \ {0}
    BY <1>14, AtPointer DEF Check
  <2>2. /\ call[t].kind = "lookup" /\ call'[t].then = "verify" /\ syncs' = syncs /\ named' = named
        /\ pc[t] = "check" /\ pc'[t] \in {"unlock", "verify"} /\ ~entry[s.at].closed /\ table' = table
    BY <1>0, <1>14, <2>1 DEF Check, Goto, Then, Calls
  <2>3. Checked(t)' = Got(t) /\ Checked(t) = Got(t) - 1
    BY <1>0, <2>2 DEF Checked, Got
  <2>4. s.at = call[t].handles[Got(t)] /\ s.at # Nothing /\ Got(t) <= Size(t)
    BY <1>0, <2>1, <2>2 DEF Local, LookupAt
  <2>5. PICK g \in Handles : g = s.at /\ entry[g].refcount # 0
    BY <2>1, <2>4, PointerCounts
  <2>6. open[entry[g].fd] = table[g] /\ open[entry[g].fd] # Nothing
    BY <2>2, <2>5 DEF CInv, Cached
  <2>7. open[FdOf(syncs[t][Got(t)])] \in named[t][Got(t)]
    <3>1. Got(t) \in DOMAIN named[t]
      <4>1. named[t] \in Seq(SUBSET Objects) /\ Len(named[t]) = Size(t)
        BY <1>0 DEF Local
      <4>2. DOMAIN named[t] = 1..Len(named[t]) /\ Len(named[t]) \in Nat
        BY <4>1
      <4> QED BY <2>1, <2>4, <4>1, <4>2
    <3>2. table[g] \in {Nothing} \union named[t][Got(t)]
      BY <1>0, <2>4, <2>5, <3>1 DEF Linked
    <3>3. FdOf(syncs[t][Got(t)]) = entry[g].fd
      BY <2>1, <2>4, <2>5 DEF FdOf
    <3> QED BY <2>6, <3>2, <3>3
  <2> SUFFICES ASSUME NEW k \in 1..Got(t)
               PROVE  open'[FdOf(syncs[t][k])'] \in named'[t][k]
    BY <2>3
  <2>8. FdOf(syncs[t][k])' = FdOf(syncs[t][k]) /\ open'[FdOf(syncs[t][k])] = open[FdOf(syncs[t][k])]
    BY <1>0, <2>2, PlaceKept
  <2>9. CASE k = Got(t)
    BY <2>2, <2>7, <2>8, <2>9
  <2>10. CASE k # Got(t)
    <3>1. k \in 1..Checked(t)
      BY <1>0, <2>3, <2>10
    <3> QED BY <1>0, <1>1, <2>2, <3>1
  <2> QED BY <2>9, <2>10
<1>15. CASE Mark(t) \/ CloseHandle(t)
  <2>1. call'[t].kind = call[t].kind /\ pc[t] \in {"mark", "close_handle"}
    BY <1>0, <1>15 DEF Mark, CloseHandle, Then, Calls
  <2> QED BY <1>0, <2>1 DEF Local, LookupAt
<1>16. CASE Drop(t)
  <2>1. /\ Got(t)' = Got(t) - 1 /\ Got(t) \in Nat \ {0}
        /\ \A k \in 1..(Got(t) - 1) : syncs'[t][k] = syncs[t][k]
    BY <1>16, DropEffect
  <2>2. /\ call' = call /\ named' = named /\ pc[t] = "drop" /\ call[t].kind = "lookup"
        /\ pc'[t] \in {"close_fd", After(t, Front(syncs[t]))}
    BY <1>0, <1>16 DEF Drop, Goto
  <2>3. CASE call[t].then = "done"
    <3>1. pc'[t] \in {"close_fd", "release", "return"}
      BY <2>2, <2>3 DEF After
    <3>2. Checked(t)' = 0
      BY <2>2, <2>3, <3>1 DEF Checked
    <3> QED BY <3>2
  <2>4. CASE call[t].then = "miss"
    <3>1. pc'[t] \in {"close_fd", "miss"}
      BY <2>2, <2>4 DEF After
    <3>2. Checked(t)' = Got(t) - 1 /\ Checked(t) = Got(t) - 1
      BY <2>1, <2>2, <2>4, <3>1 DEF Checked
    <3> QED BY <1>1, <2>1, <2>2, <3>2
  <2> QED BY <1>0, <2>2, <2>3, <2>4 DEF Local, LookupAt
<1>17. CASE CloseFd(t)
  <2>1. /\ call' = call /\ syncs' = syncs /\ named' = named /\ pc[t] = "close_fd" /\ call[t].kind = "lookup"
        /\ pc'[t] = After(t, syncs[t])
    BY <1>0, <1>17 DEF CloseFd, Goto
  <2>2. CASE call[t].then = "done"
    <3>1. pc'[t] \in {"release", "return"}
      BY <2>1, <2>2 DEF After
    <3>2. Checked(t)' = 0
      BY <2>1, <2>2, <3>1 DEF Checked
    <3> QED BY <3>2
  <2>3. CASE call[t].then = "miss"
    <3>1. pc'[t] = "miss"
      BY <2>1, <2>3 DEF After
    <3>2. Checked(t)' = Got(t) /\ Checked(t) = Got(t)
      BY <2>1, <2>3, <3>1 DEF Checked, Got
    <3> QED BY <1>0, <1>2, <2>1, <3>2
  <2> QED BY <1>0, <2>1, <2>2, <2>3 DEF Local, LookupAt
<1> QED
  BY <1>3, <1>4, <1>5, <1>6, <1>7, <1>8, <1>9, <1>10, <1>12, <1>13, <1>14, <1>15, <1>16, <1>17
     DEF Acts, Step

-----------------------------------------------------------------------------
(* Closing, fetching, releasing.                                           *)

\* An entry a close is about to mark is open, and once it is past marking or has found
\* nothing to mark, its entry is closed or not in use.
LEMMA ClosingKept ==
    ASSUME CInv, NEW t \in Threads, Acts(t)
    PROVE  /\ pc'[t] = "mark" => ~entry'[call'[t].handles[1]].closed
           /\ call'[t].kind = "close" /\ pc'[t] \in {"miss", "close_handle", "release", "drop", "close_fd"} =>
                entry'[call'[t].handles[1]].refcount = 0 \/ entry'[call'[t].handles[1]].closed
<1>0. /\ Typed /\ Local(t) /\ Linked(t)
      /\ call \in [Threads -> Calls] /\ pc \in [Threads -> PCs] /\ entry \in [Handles -> Entries]
      /\ call[t].kind \in {"none", "lookup", "close"} /\ pc[t] \in PCs
  BY DEF CInv, Typed, Calls
<1>1. ASSUME call'[t].kind = call[t].kind, call'[t].handles = call[t].handles, ~Publish(t),
             call[t].kind = "close" /\ pc'[t] \in {"miss", "close_handle", "release", "drop", "close_fd"} =>
               pc[t] \in {"miss", "close_handle", "release", "drop", "close_fd"}
      PROVE  call'[t].kind = "close" /\ pc'[t] \in {"miss", "close_handle", "release", "drop", "close_fd"} =>
               entry'[call'[t].handles[1]].refcount = 0 \/ entry'[call'[t].handles[1]].closed
  <2> SUFFICES ASSUME call[t].kind = "close", pc[t] \in {"miss", "close_handle", "release", "drop", "close_fd"}
               PROVE  entry'[call[t].handles[1]].refcount = 0 \/ entry'[call[t].handles[1]].closed
    BY <1>1
  <2>1. entry[call[t].handles[1]].refcount = 0 \/ entry[call[t].handles[1]].closed
    BY <1>0 DEF Linked
  <2>2. PICK g \in Handles : g = call[t].handles[1]
    BY <1>0 DEF Local, CloseAt, Calls, Size
  <2> QED BY <1>1, <2>1, <2>2, UseKept
<1>2. CASE CallLookup(t) \/ CallClose(t) \/ Lock(t) \/ Lookup(t) \/ Fill(t) \/ KeepOnStack(t) \/ Publish(t)
  <2>1. pc'[t] \in {"lookup", "lock", "check", "publish", "unlock"}
    BY <1>0, <1>2 DEF CallLookup, CallClose, Lock, Lookup, Fill, KeepOnStack, Publish, Goto
  <2> QED BY <2>1
<1>3. CASE FetchFails(t) \/ Fetch(t) \/ Verify(t) \/ CloseHandle(t) \/ Return(t)
  <2>1. pc'[t] \in {"lookup", "use", "cache", "unlock", "idle"}
    BY <1>0, <1>3 DEF FetchFails, Fetch, Verify, CloseHandle, Return, Goto
  <2> QED BY <2>1
<1>4. CASE Unlock(t)
  <2>1. call' = call /\ pc'[t] # "mark" /\ (call[t].kind = "close" => pc'[t] = "return")
    BY <1>0, <1>4, AfterIs DEF Unlock, Goto
  <2> QED BY <2>1
<1>5. CASE Miss(t)
  <2>1. call' = call /\ entry' = entry /\ pc'[t] # "mark" /\ pc[t] \in {"lookup", "miss"}
        /\ (pc[t] = "lookup" => entry[handle(t)].refcount = 0)
    BY <1>0, <1>5 DEF Miss, Goto, client
  <2>2. call[t].kind = "close" /\ pc[t] = "lookup" => handle(t) = call[t].handles[1]
    BY <1>0 DEF Local, CloseAt, handle, Got
  <2> QED BY <1>0, <2>1, <2>2 DEF Linked
<1>6. CASE CheckClosed(t) \/ Check(t)
  <2>1. PICK s \in Syncs : s = Last(syncs[t]) /\ s = syncs[t][Got(t)] /\ Got(t) \in DOMAIN syncs[t]
    BY <1>6, AtPointer DEF CheckClosed, Check
  <2>2. /\ call'[t].kind = call[t].kind /\ call'[t].handles = call[t].handles /\ pc[t] = "check" /\ entry' = entry
        /\ \/ pc'[t] = "release" /\ entry[s.at].closed
           \/ pc'[t] = "mark" /\ call[t].kind = "close" /\ ~entry[s.at].closed
           \/ pc'[t] \in {"unlock", "verify"}
    BY <1>0, <1>6, <2>1 DEF CheckClosed, Check, Goto, Then, Calls
  <2>3. call[t].kind = "close" => s.at = call[t].handles[1]
    BY <1>0, <2>1 DEF Local, CloseAt
  <2> QED BY <2>2, <2>3
<1>7. CASE Mismatch(t) \/ Used(t)
  <2>1. call'[t].kind = call[t].kind /\ pc[t] \in {"verify", "use"} /\ pc'[t] = "release"
    BY <1>0, <1>7 DEF Mismatch, Used, Goto, Then, Calls
  <2> QED BY <1>0, <2>1 DEF Local, CloseAt
<1>8. CASE SaveFd(t) \/ Drop(t) \/ CloseFd(t)
  <2>1. call' = call /\ pc[t] \in {"release", "drop", "close_fd"} /\ pc'[t] # "mark"
    BY <1>0, <1>8, AfterIs DEF SaveFd, Drop, CloseFd, Goto
  <2>2. ~Publish(t)
    BY <2>1 DEF Publish
  <2> QED BY <1>1, <2>1, <2>2
<1>9. CASE Mark(t)
  <2>1. PICK s \in Syncs : s = Last(syncs[t]) /\ s = syncs[t][Got(t)] /\ Got(t) \in DOMAIN syncs[t]
    BY <1>9, AtPointer DEF Mark
  <2>2. call[t].kind = "close" /\ s.at = call[t].handles[1] /\ call[t].handles[1] \in Handles
    BY <1>0, <1>9, <2>1 DEF Mark, Local, LookupAt, CloseAt, Calls, Size
  <2>3. PICK g \in Handles : g = s.at
    BY <2>2
  <2>4. /\ entry' = [entry EXCEPT ![g].closed = TRUE] /\ call'[t].handles = call[t].handles /\ pc'[t] = "release"
    BY <1>0, <1>9, <2>1, <2>3 DEF Mark, Goto, Then, Calls
  <2>5. entry'[g].closed
    BY <1>0, <2>4 DEF Entries
  <2> QED BY <2>2, <2>3, <2>4, <2>5
<1> QED BY <1>2, <1>3, <1>4, <1>5, <1>6, <1>7, <1>8, <1>9 DEF Acts, Step

\* A file descriptor on its way into the cache is of the object the handle stands for,
\* and the fd a release has saved is the one of the struct it releases.
LEMMA FetchedKept ==
    ASSUME CInv, NEW t \in Threads, Acts(t)
    PROVE  /\ pc'[t] \in {"cache", "publish"} =>
                /\ table'[handle(t)'] # Nothing
                /\ open'[stack'[t].fd] = table'[handle(t)'] /\ stack'[t].type = Type[table'[handle(t)']]
           /\ pc'[t] = "publish" =>
                /\ entry'[handle(t)'].refcount = 0 /\ ~entry'[handle(t)'].closed
                /\ entry'[handle(t)'].fd = stack'[t].fd /\ entry'[handle(t)'].type = stack'[t].type
           /\ pc'[t] = "drop" => fd'[t] = FdOf(syncs[t][Got(t)])'
<1>0. /\ Typed /\ Local(t) /\ Linked(t)
      /\ call \in [Threads -> Calls] /\ pc \in [Threads -> PCs] /\ entry \in [Handles -> Entries]
      /\ stack \in [Threads -> Syncs \union {NoSync}] /\ open \in [Fds -> Objects \union {Nothing}]
      /\ fd \in [Threads -> Fds \union {Nothing}]
  BY DEF CInv, Typed
<1>1. CASE Fetch(t)
  <2>1. PICK e \in FreeFds : /\ open' = [open EXCEPT ![e] = table[handle(t)]]
                             /\ stack' = [stack EXCEPT ![t] = OnStack(e, Type[table[handle(t)]])]
    BY <1>1 DEF Fetch
  <2>2. /\ e \in Fds /\ table[handle(t)] # Nothing /\ table' = table /\ syncs' = syncs
        /\ call'[t].handles = call[t].handles /\ pc'[t] = "cache"
    BY <1>0, <1>1, <2>1 DEF Fetch, FreeFds, Goto, Then, Calls
  <2>3. handle(t)' = handle(t)
    BY <2>2 DEF handle
  <2>4. stack'[t] = OnStack(e, Type[table[handle(t)]]) /\ open'[e] = table[handle(t)]
    BY <1>0, <2>1, <2>2
  <2>5. stack'[t].fd = e /\ stack'[t].type = Type[table[handle(t)]]
    BY <2>4 DEF OnStack
  <2> QED BY <2>2, <2>3, <2>4, <2>5
<1>2. CASE Fill(t)
  <2>1. PICK g \in Handles : g = handle(t)
    BY <1>2, AtHandle DEF Fill
  <2>2. /\ entry[g].refcount = 0 /\ pc[t] = "cache" /\ pc'[t] = "publish"
        /\ entry' = [entry EXCEPT ![g].fd = stack[t].fd, ![g].type = stack[t].type, ![g].closed = FALSE]
        /\ table' = table /\ open' = open /\ call' = call /\ syncs' = syncs /\ stack' = stack
    BY <1>0, <1>2, <2>1 DEF Fill, Goto
  <2>3. handle(t)' = g
    BY <2>1, <2>2 DEF handle
  <2>4. entry'[g].refcount = 0 /\ ~entry'[g].closed /\ entry'[g].fd = stack[t].fd /\ entry'[g].type = stack[t].type
    BY <1>0, <2>2 DEF Entries
  <2> QED BY <1>0, <2>1, <2>2, <2>3, <2>4 DEF Linked
<1>3. CASE SaveFd(t)
  <2>1. /\ fd'[t] = FdOf(Last(syncs[t])) /\ syncs' = syncs /\ entry' = entry /\ pc'[t] = "drop"
    BY <1>0, <1>3 DEF SaveFd, Goto
  <2>2. Last(syncs[t]) = syncs[t][Got(t)]
    BY <1>3, AtPointer DEF SaveFd
  <2>3. FdOf(syncs[t][Got(t)])' = FdOf(syncs[t][Got(t)])
    BY <2>1 DEF FdOf, Got
  <2> QED BY <2>1, <2>2, <2>3
<1>4. CASE CallLookup(t) \/ CallClose(t) \/ Lock(t) \/ Lookup(t) \/ Miss(t) \/ CheckClosed(t) \/ Check(t)
  <2>1. pc'[t] \notin {"cache", "publish", "drop"}
    BY <1>0, <1>4 DEF CallLookup, CallClose, Lock, Lookup, Miss, CheckClosed, Check, Goto
  <2> QED BY <2>1
<1>7. CASE Unlock(t)
  <2>1. pc'[t] \notin {"cache", "publish", "drop"}
    BY <1>0, <1>7, AfterIs DEF Unlock, Goto
  <2> QED BY <2>1
<1>5. CASE FetchFails(t) \/ KeepOnStack(t) \/ Publish(t) \/ Mismatch(t) \/ Verify(t) \/ Used(t)
  <2>1. pc'[t] \notin {"cache", "publish", "drop"}
    BY <1>0, <1>5 DEF FetchFails, KeepOnStack, Publish, Mismatch, Verify, Used, Goto
  <2> QED BY <2>1
<1>6. CASE Drop(t) \/ CloseFd(t) \/ Mark(t) \/ CloseHandle(t) \/ Return(t)
  <2>1. pc'[t] \notin {"cache", "publish", "drop"}
    BY <1>0, <1>6, AfterIs DEF Drop, CloseFd, Mark, CloseHandle, Return, Goto
  <2> QED BY <2>1
<1> QED BY <1>1, <1>2, <1>3, <1>4, <1>5, <1>6, <1>7 DEF Acts, Step

\* So what a thread has is what it takes it for.
LEMMA LinkedKept ==
    ASSUME CInv, NEW t \in Threads, Acts(t)
    PROVE  Linked(t)'
<1>1. /\ \A k \in DOMAIN named'[t] : table'[call'[t].handles[k]] \in {Nothing} \union named'[t][k]
      /\ \A k \in DOMAIN syncs'[t] :
           syncs'[t][k].at = Nothing => syncs'[t][k].type = Type[open'[syncs'[t][k].fd]]
  BY NamedKept, StacksKept
<1>2. call'[t].kind = "lookup" => \A k \in 1..Checked(t)' : open'[FdOf(syncs[t][k])'] \in named'[t][k]
  BY ChecksKept
<1>3. /\ pc'[t] = "mark" => ~entry'[call'[t].handles[1]].closed
      /\ call'[t].kind = "close" /\ pc'[t] \in {"miss", "close_handle", "release", "drop", "close_fd"} =>
           entry'[call'[t].handles[1]].refcount = 0 \/ entry'[call'[t].handles[1]].closed
  BY ClosingKept
<1>4. /\ pc'[t] \in {"cache", "publish"} =>
           /\ table'[handle(t)'] # Nothing
           /\ open'[stack'[t].fd] = table'[handle(t)'] /\ stack'[t].type = Type[table'[handle(t)']]
      /\ pc'[t] = "publish" =>
           /\ entry'[handle(t)'].refcount = 0 /\ ~entry'[handle(t)'].closed
           /\ entry'[handle(t)'].fd = stack'[t].fd /\ entry'[handle(t)'].type = stack'[t].type
      /\ pc'[t] = "drop" => fd'[t] = FdOf(syncs[t][Got(t)])'
  BY FetchedKept
<1> QED BY <1>1, <1>2, <1>3, <1>4 DEF Linked

-----------------------------------------------------------------------------
(* The theorems.                                                           *)

\* A thread's step keeps the invariant.
LEMMA ThreadStep == ASSUME CInv, NEW t \in Threads, Acts(t) PROVE CInv'
<1>1. Typed' /\ Gentle(t)
  BY TypedKept, StepsAreGentle
<1>2. ASSUME NEW u \in Threads PROVE Local(u)' /\ Locked(u)' /\ Linked(u)'
  <2>1. CASE u = t
    BY <2>1, LocalKept, LockedKept, LinkedKept
  <2>2. CASE u # t
    <3>1. u \in Threads \ {t}
      BY <2>2
    <3> QED BY <1>1, <3>1, OthersKept
  <2> QED BY <2>1, <2>2
<1>3. ASSUME NEW h \in Handles PROVE Counted(h)' /\ Cached(h)'
  BY CountedKept, CachedKept
<1>4. ASSUME NEW f \in Fds PROVE Owned(f)'
  BY OwnedKept
<1> QED BY <1>1, <1>2, <1>3, <1>4 DEF CInv

\* So does a new handle, which no call has a fetched object for and no entry is open for.
LEMMA NewHandleStep ==
    ASSUME CInv, NEW h \in Handles, NEW o \in Given[h], NewHandle(h, o)
    PROVE  CInv'
<1>0. /\ Typed /\ table \in [Handles -> Objects \union {Nothing}] /\ call \in [Threads -> Calls]
      /\ named \in [Threads -> Seq(SUBSET Objects)] /\ syncs \in [Threads -> Seq(Syncs)]
  BY DEF CInv, Typed
<1>1. /\ table[h] = Nothing /\ table' = [table EXCEPT ![h] = o] /\ open' = open /\ pc' = pc
      /\ entry' = entry /\ mutex' = mutex /\ call' = call /\ syncs' = syncs /\ stack' = stack /\ fd' = fd
      /\ named' = [t \in Threads |->
                     [k \in DOMAIN named[t] |->
                        IF call[t].handles[k] = h THEN named[t][k] \union {o} ELSE named[t][k]]]
  BY DEF NewHandle, client
<1>2. o \in Objects
  <2>1. Given[h] \in SUBSET Objects
    BY ConstantsAssumption
  <2> QED BY <2>1
<1>3. ASSUME NEW t \in Threads
      PROVE  /\ named'[t] \in Seq(SUBSET Objects) /\ Len(named'[t]) = Len(named[t])
             /\ DOMAIN named'[t] = DOMAIN named[t] /\ DOMAIN named[t] = 1..Len(named[t])
             /\ \A k \in DOMAIN named[t] :
                  named'[t][k] = IF call[t].handles[k] = h THEN named[t][k] \union {o} ELSE named[t][k]
  <2>1. /\ named[t] \in Seq(SUBSET Objects) /\ DOMAIN named[t] = 1..Len(named[t]) /\ Len(named[t]) \in Nat
        /\ \A k \in DOMAIN named[t] : named[t][k] \in SUBSET Objects
    BY <1>0
  <2>2. /\ named'[t] = [k \in 1..Len(named[t]) |->
                          IF call[t].handles[k] = h THEN named[t][k] \union {o} ELSE named[t][k]]
        /\ \A k \in 1..Len(named[t]) :
             (IF call[t].handles[k] = h THEN named[t][k] \union {o} ELSE named[t][k]) \in SUBSET Objects
    BY <1>1, <1>2, <2>1
  <2> QED BY <2>1, <2>2
<1>4. Typed'
  <2>1. named' \in [Threads -> Seq(SUBSET Objects)]
    BY <1>1, <1>3
  <2>2. table' \in [Handles -> Objects \union {Nothing}]
    BY <1>0, <1>1, <1>2
  <2> QED BY <1>0, <1>1, <2>1, <2>2 DEF Typed
<1>5. ASSUME NEW t \in Threads PROVE Local(t)' /\ Locked(t)' /\ Linked(t)'
  <2>0. Local(t) /\ Locked(t) /\ Linked(t)
    BY DEF CInv
  <2>1. Local(t)'
    BY <1>1, <1>3, <2>0 DEF Local, LookupAt, CloseAt, Got, Size
  <2>2. Locked(t)'
    BY <1>1, <2>0 DEF Locked, Exclusive
  <2>3. \A k \in DOMAIN named[t] : call[t].handles[k] \in Handles
    <3>1. call[t].handles \in Seq(Handles) /\ Len(named[t]) = Len(call[t].handles)
      BY <1>0, <2>0 DEF Calls, Local, Size
    <3> QED BY <1>3, <3>1
  <2>4. \A k \in DOMAIN named[t] : table'[call[t].handles[k]] \in {Nothing} \union named'[t][k]
    BY <1>0, <1>1, <1>3, <2>0, <2>3 DEF Linked
  <2>5. call[t].kind = "lookup" => \A k \in 1..Checked(t) : open[FdOf(syncs[t][k])] \in named'[t][k]
    <3> SUFFICES ASSUME call[t].kind = "lookup", NEW k \in 1..Checked(t)
                 PROVE  open[FdOf(syncs[t][k])] \in named'[t][k]
      OBVIOUS
    <3>1. open[FdOf(syncs[t][k])] \in named[t][k]
      BY <2>0 DEF Linked
    <3>2. k \in DOMAIN named[t]
      <4>1. Got(t) \in Nat /\ Got(t) <= Size(t) /\ Len(named[t]) = Size(t)
        BY <1>0, <2>0 DEF Local, LookupAt, Got
      <4>2. k \in 1..Got(t)
        BY <4>1 DEF Checked
      <4>3. Size(t) \in Nat
        BY <1>0 DEF Calls, Size
      <4> QED BY <1>3, <4>1, <4>2, <4>3
    <3> QED BY <1>3, <3>1, <3>2
  <2>6. handle(t)' = handle(t) /\ Checked(t)' = Checked(t)
    BY <1>1 DEF handle, Checked, Got
  <2>7. \A k : FdOf(syncs[t][k])' = FdOf(syncs[t][k])
    BY <1>1 DEF FdOf
  <2>8. FdOf(syncs[t][Got(t)])' = FdOf(syncs[t][Got(t)])
    BY <1>1 DEF FdOf, Got
  <2>9. pc[t] \in {"cache", "publish"} => table'[handle(t)] = table[handle(t)]
    <3>1. pc[t] \in {"cache", "publish"} => handle(t) \in Handles /\ table[handle(t)] # Nothing
      BY <2>0, AtHandle DEF Linked
    <3> QED BY <1>0, <1>1, <3>1
  <2>10. Linked(t)'
    <3>1. /\ \A k \in DOMAIN named'[t] : table'[call'[t].handles[k]] \in {Nothing} \union named'[t][k]
          /\ \A k \in DOMAIN syncs'[t] :
               syncs'[t][k].at = Nothing => syncs'[t][k].type = Type[open'[syncs'[t][k].fd]]
      BY <1>1, <1>3, <2>0, <2>4 DEF Linked
    <3>2. call'[t].kind = "lookup" => \A k \in 1..Checked(t)' : open'[FdOf(syncs[t][k])'] \in named'[t][k]
      BY <1>1, <2>5, <2>6, <2>7
    <3>3. /\ pc'[t] = "mark" => ~entry'[call'[t].handles[1]].closed
          /\ call'[t].kind = "close" /\ pc'[t] \in {"miss", "close_handle", "release", "drop", "close_fd"} =>
               entry'[call'[t].handles[1]].refcount = 0 \/ entry'[call'[t].handles[1]].closed
      BY <1>1, <2>0 DEF Linked
    <3>4. /\ pc'[t] \in {"cache", "publish"} =>
               /\ table'[handle(t)'] # Nothing
               /\ open'[stack'[t].fd] = table'[handle(t)'] /\ stack'[t].type = Type[table'[handle(t)']]
          /\ pc'[t] = "publish" =>
               /\ entry'[handle(t)'].refcount = 0 /\ ~entry'[handle(t)'].closed
               /\ entry'[handle(t)'].fd = stack'[t].fd /\ entry'[handle(t)'].type = stack'[t].type
          /\ pc'[t] = "drop" => fd'[t] = FdOf(syncs[t][Got(t)])'
      BY <1>1, <2>0, <2>6, <2>8, <2>9 DEF Linked
    <3> QED BY <3>1, <3>2, <3>3, <3>4 DEF Linked
  <2> QED BY <2>1, <2>2, <2>10
<1>6. ASSUME NEW g \in Handles PROVE Counted(g)' /\ Cached(g)'
  <2>1. Counted(g) /\ Cached(g)
    BY DEF CInv
  <2>2. Pointers(g)' = Pointers(g)
    BY <1>1 DEF Pointers, Held
  <2>3. Counted(g)'
    BY <1>1, <2>1, <2>2 DEF Counted
  <2>4. Cached(g)'
    BY <1>0, <1>1, <2>1 DEF Cached
  <2> QED BY <2>3, <2>4
<1>7. ASSUME NEW f \in Fds PROVE Owned(f)'
  <2>1. Owners(f)' = Owners(f)
    BY <1>1 DEF Owners, Held
  <2> QED BY <1>1, <2>1 DEF CInv, Owned
<1> QED BY <1>4, <1>5, <1>6, <1>7 DEF CInv

\* It holds to begin with.
LEMMA InitInv == Init => CInv
<1> SUFFICES ASSUME Init PROVE CInv
  OBVIOUS
<1> USE DEF Init
<1>0. /\ Nothing \notin Threads /\ Nothing \notin Objects /\ Nothing \notin Fds /\ Nothing \notin Handles
      /\ NoSync.fd = Nothing
  BY Kinds
<1>1. Typed
  <2>1. NoCall \in Calls /\ Unused \in Entries
    BY DEF NoCall, Unused, Calls, Entries
  <2> QED BY <2>1 DEF Typed, PCs
<1>2. ASSUME NEW t \in Threads PROVE Local(t) /\ Locked(t) /\ Linked(t)
  <2>1. /\ pc[t] = "idle" /\ call[t] = NoCall /\ syncs[t] = <<>> /\ stack[t] = NoSync /\ named[t] = <<>>
        /\ NoCall.kind = "none" /\ NoCall.handles = <<>>
    BY DEF NoCall
  <2>2. Local(t)
    BY <2>1 DEF Local, LookupAt, CloseAt, Got, Size
  <2>3. Locked(t)
    BY <2>1 DEF Locked, Exclusive
  <2>4. Linked(t)
    BY <2>1 DEF Linked
  <2> QED BY <2>2, <2>3, <2>4
<1>3. Held = {}
  BY DEF Held
<1>4. ASSUME NEW h \in Handles PROVE Counted(h) /\ Cached(h)
  <2>1. Pointers(h) = {}
    BY <1>3 DEF Pointers
  <2>2. IsFiniteSet(Pointers(h)) /\ Cardinality(Pointers(h)) = 0
    BY <2>1, FS_EmptySet
  <2>3. entry[h].refcount = 0
    BY DEF Unused
  <2> QED BY <2>2, <2>3 DEF Counted, Cached
<1>5. ASSUME NEW f \in Fds PROVE Owned(f)
  <2>1. f # Nothing
    BY <1>0
  <2>2. \A h \in Handles : entry[h].refcount = 0
    BY DEF Unused
  <2>3. \A t \in Threads : stack[t].fd # f /\ pc[t] # "close_fd"
    BY <1>0, <2>1
  <2>4. Owners(f) = {}
    BY <1>3, <2>2, <2>3 DEF Owners
  <2> QED BY <2>4 DEF Owned
<1> QED BY <1>1, <1>2, <1>4, <1>5 DEF CInv

\* The invariant is inductive, for any threads, handles, objects and file descriptors.
THEOREM Inductive == Spec => []CInv
<1>1. Init => CInv
  BY InitInv
<1>2. CInv /\ [Next]_vars => CInv'
  <2> SUFFICES ASSUME CInv, [Next]_vars PROVE CInv'
    OBVIOUS
  <2>1. CASE Next
    <3>1. ASSUME NEW t \in Threads, CallLookup(t) \/ CallClose(t) \/ Step(t) PROVE CInv'
      BY <3>1, ThreadStep DEF Acts
    <3>2. ASSUME NEW h \in Handles, NEW o \in Given[h], NewHandle(h, o) PROVE CInv'
      BY <3>2, NewHandleStep
    <3> QED BY <2>1, <3>1, <3>2 DEF Next
  <2>2. CASE UNCHANGED vars
    <3>1. /\ table' = table /\ open' = open /\ entry' = entry /\ mutex' = mutex /\ pc' = pc /\ call' = call
          /\ syncs' = syncs /\ stack' = stack /\ fd' = fd /\ named' = named
      BY <2>2 DEF vars, client
    <3>2. Typed'
      BY <3>1 DEF CInv, Typed
    <3>3. ASSUME NEW t \in Threads PROVE Local(t)' /\ Locked(t)' /\ Linked(t)'
      BY <3>1 DEF CInv, Local, LookupAt, CloseAt, Got, Size, Locked, Exclusive, Linked, Checked, handle, FdOf
    <3>4. ASSUME NEW h \in Handles PROVE Counted(h)' /\ Cached(h)'
      BY <3>1 DEF CInv, Counted, Pointers, Held, Cached
    <3>5. ASSUME NEW f \in Fds PROVE Owned(f)'
      <4>1. Owners(f)' = Owners(f)
        BY <3>1 DEF Owners, Held
      <4> QED BY <3>1, <4>1 DEF CInv, Owned
    <3> QED BY <3>2, <3>3, <3>4, <3>5 DEF CInv
  <2> QED BY <2>1, <2>2
<1> QED BY <1>1, <1>2, PTL DEF Spec

\* References and file descriptors are released when the last user goes, once: the count
\* of an entry is that of the pointers to it and one for the handle while that is cached,
\* and every open file descriptor has one owner, a closed one none.
THEOREM CountsAndFdsAreExact == Spec => []CacheExact
<1>1. CInv => CacheExact
  <2> SUFFICES ASSUME CInv PROVE CacheExact
    OBVIOUS
  <2>1. TypeOK
    <3>1. Typed
      BY DEF CInv
    <3>2. \A t \in Threads : \A k \in DOMAIN named[t] : named[t][k] \subseteq Objects
      BY <3>1 DEF Typed
    <3> QED BY <3>1, <3>2 DEF TypeOK, Typed, Entries
  <2>2. RefsExact
    BY DEF RefsExact, CInv, Counted
  <2>3. FdOwnedOnce
    <3> SUFFICES ASSUME NEW f \in Fds
                 PROVE  Cardinality(Owners(f)) = IF open[f] = Nothing THEN 0 ELSE 1
      BY DEF FdOwnedOnce
    <3>1. IF open[f] = Nothing THEN Owners(f) = {} ELSE \E a : Owners(f) = {a}
      BY DEF CInv, Owned
    <3> QED BY <3>1, FS_EmptySet, FS_Singleton
  <2> QED BY <2>1, <2>2, <2>3 DEF CacheExact
<1> QED BY <1>1, Inductive, PTL

\* A call works on an object its handle has stood for during the call, of the type it has
\* been told, whatever other threads close and cache meanwhile.
THEOREM CallsUseTheRightObject == Spec => []RightObject
<1>1. CInv => RightObject
  <2> SUFFICES ASSUME CInv, NEW t \in Threads, pc[t] \in {"verify", "use"}, NEW k \in DOMAIN syncs[t]
               PROVE  /\ open[FdOf(syncs[t][k])] \in named[t][k]
                      /\ TypeOf(syncs[t][k]) = Type[open[FdOf(syncs[t][k])]]
    BY DEF RightObject
  <2>1. Local(t) /\ Linked(t) /\ call[t].kind \in {"lookup", "close"} /\ DOMAIN syncs[t] = 1..Got(t)
    BY AtPointer DEF CInv
  <2>2. call[t].kind = "lookup" /\ Checked(t) = Got(t)
    BY <2>1 DEF Local, CloseAt, Checked
  <2>3. open[FdOf(syncs[t][k])] \in named[t][k]
    BY <2>1, <2>2 DEF Linked
  <2>4. TypeOf(syncs[t][k]) = Type[open[FdOf(syncs[t][k])]]
    BY PointerLeads
  <2> QED BY <2>3, <2>4
<1> QED BY <1>1, Inductive, PTL

=============================================================================
