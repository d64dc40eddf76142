------------------------------ MODULE VmProofs ------------------------------
(***************************************************************************)
(* The promises of VmPages and of VmViews, proved for every value of their *)
(* constants; names of VmViews begin with V where VmPages has the same.    *)
(*                                                                         *)
(* VmPages' HostExact alone is not inductive: that write exceptions reach  *)
(* all their pages needs that no page of a stack is executable, and that   *)
(* the guard page is the only page of the stack whose fault changes flags  *)
(* needs StackLaid, which itself needs that nobody but its owner waits for *)
(* a fault there, and that again HostExact.                                *)
(*                                                                         *)
(* VmViews' MappingsExact is kept as long as no assertion fails.  It needs *)
(* that areas are aligned to granules and that nothing is reserved where a *)
(* system view lies: such a view may be dropped without being unmapped.    *)
(***************************************************************************)
EXTENDS VmPages, VmViews, TLAPS, NaturalsInduction, WellFoundedInduction, FiniteSetTheorems,
        SequenceTheorems

Used == {"read", "write", "commit"}

\* The stack is reserved up to the guard page, if there is one left, and used above it.
StackLaid ==
  Stack \subseteq Pages =>
    /\ \A p \in Stack : p >= limit => vprot[p] = Used
    /\ \A p \in Stack : 0 < p /\ p < limit - 1 => vprot[p] = {"read", "write"}
    /\ limit > 1 => vprot[limit - 1] = Used \cup {"guard"}
    /\ vprot[0] = {}
    /\ limit = 1 \/ limit \in Limits \/ limit > Guaranteed

\* A thread that does not run on the stack has no fault to handle there.
OthersOffStack == \A t \in Threads \ {Owner} : pending[t] = NoFault \/ pending[t].page \notin Stack

NoExecStack == \A p \in Pages : "exec" \in vprot[p] => p \in Watch \cup Data \cup Image

\* A locked call that opened no page found no watch, and nothing sets one meanwhile.
CallKept == call.opened \/ \A p \in call.pages : "watch" \notin vprot[p]

\* With write exceptions on, an executable page outside the views with write watches
\* that may be written is watched, or was written since.
ExecWatched ==
  write_exceptions =>
    \A p \in Pages \ Watch : ExecWrite(vprot[p]) => "watch" \in vprot[p] \/ p \in dirty

IInv ==
  /\ HostExact /\ WatchExact /\ StackLaid /\ OthersOffStack /\ NoExecStack /\ CallKept
  /\ ExecWatched

----------------------------------------------------------------------------
\* Protections are made of "r", "w" and "x", whatever the flags.
LEMMA ProtType ==
  \A v, force : UnixProt(v) \subseteq {"r", "w", "x"} /\ Forced(force, UnixProt(v)) \subseteq {"r", "w", "x"}
  BY DEF UnixProt, Forced

\* A page with no flag but those named is as usable as they say.
LEMMA UsedProt == UnixProt(Used) = {"r", "w"}
  <1>1. "commit" \in Used /\ "guard" \notin Used /\ "watch" \notin Used /\ "exec" \notin Used
        /\ "read" \in Used /\ "write" \in Used
    BY DEF Used
  <1> QED
    BY <1>1 DEF UnixProt

\* Whoever may write to a page may not while it is watched.
LEMMA WatchedProt == \A v, force : "watch" \in v => "w" \notin Forced(force, UnixProt(v))
  BY DEF UnixProt, Forced

\* get_vprot_flags gives no page a guard or a watch.
LEMMA FlagsType ==
  ASSUME NEW p, NEW world \in Worlds, NEW v \in {Watch \cap world, Data \cap world, Image \cap world},
         NEW want \in Protects[v]
  PROVE  Flags(p, want.access) \subseteq {"read", "write", "copy", "exec"}
  <1>1. want.access \in {"readonly", "readwrite", "writecopy", "execute", "execute_read",
                         "execute_readwrite", "execute_writecopy", "noaccess"}
    BY WorldsAssumption
  <1> QED
    BY <1>1 DEF Flags

\* The pages of a run's world are the stack's, all or none, and those of the views.
LEMMA PagesLaid ==
  ASSUME TypeOK
  PROVE  /\ Pages \subseteq Stack \cup Watch \cup Data \cup Image
         /\ Stack \subseteq Pages \/ Stack \cap Pages = {}
         /\ Stack \cap (Watch \cup Data \cup Image) = {}
         /\ Pages \subseteq Nat /\ StackEnd \notin Pages
  <1>1. Stack \cap (Watch \cup Data \cup Image) = {} /\ StackEnd \notin Stack \cup Watch \cup Data \cup Image
    BY PagesAssumption DEF Stack
  <1>2. Pages \in Worlds
    BY DEF TypeOK
  <1>3. Pages \subseteq Stack \cup Watch \cup Data \cup Image
        /\ (Stack \subseteq Pages \/ Stack \cap Pages = {})
    BY <1>2, WorldsAssumption DEF Stack
  <1>4. Stack \cup Watch \cup Data \cup Image \subseteq Nat
    BY PagesAssumption DEF Stack
  <1> QED
    BY <1>1, <1>3, <1>4

\* A call's range of pages lies within one view, and off the stack.
LEMMA RunInView ==
  ASSUME TypeOK, NEW v \in Views, NEW some \in Runs(v)
  PROVE  some \subseteq v /\ some \subseteq Pages /\ some \cap Stack = {} /\ some # {}
  <1>1. v \in {Watch \cap Pages, Data \cap Pages, Image \cap Pages} /\ Pages \in Worlds
    BY DEF Views, TypeOK
  <1>3. \A b \in v, e \in v : b .. e \subseteq v
    <2>1. Convex(Watch \cap Pages) /\ Convex(Data \cap Pages) /\ Convex(Image \cap Pages)
      BY <1>1, WorldsAssumption, Zenon
    <2>2. CASE v = Watch \cap Pages
      BY <2>1, <2>2 DEF Convex
    <2>3. CASE v = Data \cap Pages
      BY <2>1, <2>3 DEF Convex
    <2>4. CASE v = Image \cap Pages
      BY <2>1, <2>4 DEF Convex
    <2> QED
      BY <1>1, <2>2, <2>3, <2>4
  <1>4. some \in {b .. e : b \in v, e \in v} /\ some # {}
    BY DEF Runs
  <1>5. some \subseteq v /\ some # {}
    <2>1. PICK b \in v, e \in v : some = b .. e
      BY <1>4
    <2> QED
      BY <1>3, <1>4, <2>1
  <1>6. v \subseteq Pages /\ v \subseteq Watch \cup Data \cup Image
    BY <1>1
  <1> QED
    BY <1>5, <1>6, PagesLaid

\* Without a locked call the host's protections are those of the flags.
LEMMA HostFree == IInv /\ Free => call.pages = {} /\ ~call.opened /\ \A p \in Pages : host[p] = Prot(vprot[p])
  BY DEF IInv, HostExact, Free, NoCall

----------------------------------------------------------------------------
\* The stack stays as it is laid when its pages keep their flags and it its limit.
LEMMA StackKept ==
  ASSUME IInv, limit' = limit, Pages' = Pages, \A p \in Stack : p \in Pages => vprot'[p] = vprot[p]
  PROVE  StackLaid'
  <1>1. limit \in 1 .. StackEnd /\ StackEnd \in Nat /\ 0 \in Stack
    BY PagesAssumption DEF IInv, HostExact, TypeOK, Stack
  <1>2. limit > 1 => limit - 1 \in Stack
    BY <1>1 DEF Stack
  <1>3. StackLaid
    BY DEF IInv
  <1> QED
    BY <1>1, <1>2, <1>3 DEF StackLaid

\* What the calls that hold virtual_mutex have in common: they change the flags of
\* pages off the stack and tell the host; only what they do to watches differs.
LEMMA ChangeKeeps ==
  ASSUME IInv, Free, NEW some,
         some \cap Stack = {}, Pages' = Pages,
         \A p \in Pages : vprot'[p] \subseteq AllFlags /\ (p \notin some => vprot'[p] = vprot[p]),
         DOMAIN host' = Pages,
         \A p \in Pages : host'[p] = IF p \in some THEN Prot(vprot'[p]) ELSE host[p],
         UNCHANGED <<limit, force_exec, call>>,
         write_exceptions' \in BOOLEAN, dirty' \subseteq Pages,
         DOMAIN pending' = Threads,
         \A t \in Threads : pending'[t] = NoFault \/ pending'[t] = pending[t],
         WatchExact', ExecWatched'
  PROVE  IInv'
  <1>1. TypeOK
    BY DEF IInv, HostExact
  <1>2. call' = call /\ call.pages = {} /\ ~call.opened /\ \A p \in Pages : host[p] = Prot(vprot[p])
    BY HostFree
  <1>3. TypeOK'
    <2>1. \A p \in Pages : host'[p] \subseteq {"r", "w", "x"}
      BY <1>1, ProtType DEF TypeOK, Prot
    <2>2. \A t \in Threads : pending'[t] = NoFault \/ pending'[t].page \in Pages
      BY <1>1 DEF TypeOK
    <2> QED
      BY <1>1, <1>2, <2>1, <2>2 DEF TypeOK
  <1>4. HostExact'
    BY <1>2, <1>3 DEF HostExact, Prot
  <1>5. StackLaid'
    BY StackKept
  <1>6. OthersOffStack'
    BY DEF IInv, OthersOffStack, Stack
  <1>7. NoExecStack'
    BY <1>1, PagesLaid DEF IInv, NoExecStack
  <1>8. CallKept'
    BY <1>2 DEF CallKept
  <1> QED
    BY <1>4, <1>5, <1>6, <1>7, <1>8 DEF IInv

----------------------------------------------------------------------------
\* Of the stack's pages only the guard page has the guard, and none is watched or executable.
LEMMA StackFlags ==
  ASSUME IInv, NEW p \in Stack, p \in Pages
  PROVE  /\ vprot[p] \subseteq Used \cup {"guard"}
         /\ "guard" \in vprot[p] => p > 0 /\ p = limit - 1
  <1>1. Stack \subseteq Pages /\ StackLaid /\ limit \in 1 .. StackEnd /\ p \in Nat
    BY PagesLaid, PagesAssumption DEF IInv, HostExact, TypeOK, Stack
  <1>2. "guard" \notin Used /\ {"read", "write"} \subseteq Used
    BY DEF Used
  <1>3. CASE p >= limit
    BY <1>1, <1>2, <1>3 DEF StackLaid
  <1>4. CASE p < limit /\ p # 0 /\ p # limit - 1
    <2>1. 0 < p /\ p < limit - 1
      BY <1>1, <1>4
    <2>2. vprot[p] = {"read", "write"}
      BY <1>1, <2>1 DEF StackLaid
    <2> QED
      BY <1>2, <2>2
  <1>5. CASE p = 0
    BY <1>1, <1>5 DEF StackLaid
  <1>6. CASE p # 0 /\ p = limit - 1
    BY <1>1, <1>6 DEF StackLaid
  <1> QED
    BY <1>1, <1>3, <1>4, <1>5, <1>6

\* NtProtectVirtualMemory and NtAllocateVirtualMemory.
LEMMA SetProtectionKeeps ==
  ASSUME IInv, NEW v \in Views, NEW some \in Runs(v), NEW want \in Protects[v], NEW commits \in BOOLEAN,
         SetProtection(some, want, commits)
  PROVE  IInv'
  <1> DEFINE asked == Flags(Min(some), want.access)
             flags == asked \cup {"commit"} \cup (IF want.guard THEN {"guard"} ELSE {})
             kept(p) == IF p \in Watch THEN vprot[p] \cap {"watch"}
                        ELSE IF write_exceptions /\ ExecWrite(flags) THEN {"watch"} ELSE {}
  <1>1. TypeOK /\ some \subseteq Pages /\ some \cap Stack = {}
    BY RunInView DEF IInv, HostExact
  <1>2. asked \subseteq {"read", "write", "copy", "exec"}
    <2>1. Pages \in Worlds /\ v \in {Watch \cap Pages, Data \cap Pages, Image \cap Pages}
      BY <1>1 DEF TypeOK, Views
    <2> QED
      BY <2>1, FlagsType
  <1> HIDE DEF asked
  <1>3. flags \subseteq AllFlags \ {"watch"}
    BY <1>2 DEF AllFlags
  <1>4. SetVprot(some, flags)
    BY DEF SetProtection, asked
  <1> HIDE DEF flags
  <1>5. /\ Pages' = Pages /\ DOMAIN host' = Pages
        /\ \A p \in Pages : /\ vprot'[p] = IF p \in some THEN flags \cup kept(p) ELSE vprot[p]
                            /\ host'[p] = IF p \in some THEN Prot(vprot'[p]) ELSE host[p]
    BY <1>4 DEF SetVprot, Apply, Pages
  <1>6. Free /\ UNCHANGED <<limit, force_exec, write_exceptions, call, pending>>
        /\ dirty' = dirty \ {p \in some \ Watch : "watch" \in vprot'[p]}
    BY DEF SetProtection
  <1>7. \A p \in Pages : vprot'[p] \subseteq AllFlags
    BY <1>1, <1>3, <1>5 DEF TypeOK, AllFlags
  <1>8. WatchExact'
    BY <1>1, <1>3, <1>5, <1>6 DEF WatchExact, IInv, TypeOK
  <1>9. ExecWatched'
    <2> SUFFICES ASSUME write_exceptions, NEW p \in Pages \ Watch, ExecWrite(vprot'[p])
                 PROVE  "watch" \in vprot'[p] \/ p \in dirty'
      BY <1>5, <1>6 DEF ExecWatched
    <2>1. CASE p \in some
      <3>1. vprot'[p] = flags \cup kept(p) /\ kept(p) \subseteq {"watch"}
        BY <1>5, <2>1
      <3>2. ExecWrite(flags)
        BY <3>1 DEF ExecWrite
      <3> QED
        BY <3>1, <3>2
    <2>2. CASE p \notin some
      BY <1>5, <1>6, <2>2 DEF ExecWatched, IInv
    <2> QED
      BY <2>1, <2>2
  <1> QED
    BY <1>1, <1>5, <1>6, <1>7, <1>8, <1>9, ChangeKeeps DEF TypeOK

\* decommit_pages
LEMMA DecommitKeeps ==
  ASSUME IInv, NEW v \in Views, NEW some \in Runs(v), Decommit(some)
  PROVE  IInv'
  <1>1. TypeOK /\ some \subseteq Pages /\ some \cap Stack = {}
    BY RunInView DEF IInv, HostExact
  <1>2. /\ Pages' = Pages /\ DOMAIN host' = Pages
        /\ \A p \in Pages : /\ vprot'[p] = IF p \in some THEN vprot[p] \ {"commit"} ELSE vprot[p]
                            /\ host'[p] = IF p \in some THEN {} ELSE host[p]
    BY DEF Decommit, Bits, Pages
  <1>3. \A p \in some : Prot(vprot'[p]) = {}
    BY <1>1, <1>2 DEF Prot, Forced, UnixProt
  <1>4. Free /\ UNCHANGED <<limit, force_exec, write_exceptions, call, pending, dirty>>
    BY DEF Decommit
  <1>5. WatchExact'
    BY <1>1, <1>2, <1>4 DEF WatchExact, IInv, TypeOK
  <1>6. ExecWatched'
    BY <1>1, <1>2, <1>4 DEF ExecWatched, ExecWrite, IInv
  <1>7. \A p \in Pages : vprot'[p] \subseteq AllFlags /\ (p \notin some => vprot'[p] = vprot[p])
                         /\ host'[p] = IF p \in some THEN Prot(vprot'[p]) ELSE host[p]
    BY <1>1, <1>2, <1>3 DEF TypeOK
  <1> QED
    BY <1>1, <1>2, <1>4, <1>5, <1>6, <1>7, ChangeKeeps DEF TypeOK

\* NtGetWriteWatch and NtResetWriteWatch, of the pages that are watched again.
LEMMA WatchKeeps ==
  ASSUME IInv, Free, NEW v \in Views, NEW all \in Runs(v), NEW some \in SUBSET all,
         Apply(Bits(some, {"watch"}, {}), some), dirty' = dirty \ some,
         UNCHANGED <<limit, force_exec, write_exceptions, call, pending>>
  PROVE  IInv'
  <1>1. TypeOK /\ some \subseteq Pages /\ some \cap Stack = {}
    BY RunInView DEF IInv, HostExact
  <1>2. /\ Pages' = Pages /\ DOMAIN host' = Pages
        /\ \A p \in Pages : /\ vprot'[p] = IF p \in some THEN vprot[p] \cup {"watch"} ELSE vprot[p]
                            /\ host'[p] = IF p \in some THEN Prot(vprot'[p]) ELSE host[p]
    BY DEF Apply, Bits, Pages
  <1>3. WatchExact'
    BY <1>1, <1>2 DEF WatchExact, IInv, TypeOK
  <1>4. ExecWatched'
    BY <1>1, <1>2 DEF ExecWatched, ExecWrite, IInv
  <1>5. \A p \in Pages : vprot'[p] \subseteq AllFlags /\ (p \notin some => vprot'[p] = vprot[p])
    BY <1>1, <1>2 DEF TypeOK, AllFlags
  <1> QED
    BY <1>1, <1>2, <1>3, <1>4, <1>5, ChangeKeeps DEF TypeOK

\* virtual_enable_write_exceptions: every executable page is in one of the views it walks.
LEMMA EnableKeeps ==
  ASSUME IInv, NEW enable \in BOOLEAN, EnableWriteExceptions(enable)
  PROVE  IInv'
  <1> DEFINE exec == {p \in Pages : ExecWrite(vprot[p])}
             changed == UNION {v \in Views : v \cap exec # {}}
             told == IF enable THEN changed ELSE {}
  <1>1. TypeOK /\ Free
    BY DEF IInv, HostExact, EnableWriteExceptions
  <1>2. changed \subseteq Pages /\ changed \cap Stack = {}
    BY <1>1, PagesLaid DEF Views
  <1>3. exec \subseteq changed
    <2> SUFFICES ASSUME NEW p \in Pages, ExecWrite(vprot[p])
                 PROVE  \E v \in Views : p \in v
      BY DEF exec
    <2>1. p \in Watch \cup Data \cup Image
      BY DEF IInv, NoExecStack, ExecWrite
    <2> QED
      BY <2>1 DEF Views
  <1>4. /\ UNCHANGED <<limit, force_exec, call, pending>> /\ write_exceptions' = enable
        /\ IF enable THEN Apply(Bits(exec, {"watch"}, {}), changed) /\ dirty' = dirty \ exec
           ELSE UNCHANGED <<vprot, host, dirty>>
    BY DEF EnableWriteExceptions
  <1> HIDE DEF changed
  <1>5. /\ Pages' = Pages /\ DOMAIN host' = Pages /\ dirty' \subseteq dirty
        /\ \A p \in Pages :
             /\ vprot'[p] = IF enable /\ p \in exec THEN vprot[p] \cup {"watch"} ELSE vprot[p]
             /\ host'[p] = IF p \in told THEN Prot(vprot'[p]) ELSE host[p]
    BY <1>1, <1>4 DEF Apply, Bits, Pages, TypeOK
  <1>6. WatchExact'
    BY <1>1, <1>4, <1>5 DEF WatchExact, IInv, TypeOK
  <1>7. ExecWatched'
    BY <1>1, <1>4, <1>5 DEF ExecWatched, ExecWrite, IInv
  <1>8. \A p \in Pages : vprot'[p] \subseteq AllFlags /\ (p \notin told => vprot'[p] = vprot[p])
    BY <1>1, <1>3, <1>5 DEF TypeOK, AllFlags
  <1>9. told \cap Stack = {}
    BY <1>2
  <1> QED
    BY <1>1, <1>4, <1>5, <1>6, <1>7, <1>8, <1>9, ChangeKeeps DEF TypeOK

----------------------------------------------------------------------------
\* grow_thread_stack leaves a stack that is laid as before, or all in use.
LEMMA GrowKeeps ==
  ASSUME IInv, Free, NEW p \in Stack, p \in Pages, "guard" \in vprot[p], Grow(p),
         UNCHANGED <<force_exec, write_exceptions, call, dirty>>,
         DOMAIN pending' = Threads,
         \A t \in Threads : pending'[t] = NoFault \/ pending'[t] = pending[t]
  PROVE  IInv'
  <1> DEFINE changed == IF Overflows(p) THEN Kept ELSE {p - 1}
             flags(q) == (vprot[q] \ {"guard"}) \cup {"commit"}
                         \cup (IF Overflows(p) \/ q = p THEN {} ELSE {"guard"})
  <1>1. /\ TypeOK /\ Stack \subseteq Pages /\ StackLaid
        /\ limit \in 1 .. StackEnd /\ StackEnd \in Nat /\ Guaranteed \in 2 .. (StackEnd - 2)
        /\ p \in Nat /\ p > 0 /\ p = limit - 1
    BY PagesLaid, StackFlags, PagesAssumption DEF IInv, HostExact, TypeOK, Stack
  <1>2. Kept \subseteq Stack \ {0} /\ (Overflows(p) => p \in Kept) /\ (~Overflows(p) => p - 1 \in Stack \ {0})
    BY <1>1 DEF Kept, Overflows, Stack
  <1>3. /\ Pages' = Pages /\ DOMAIN host' = Pages /\ limit' = IF Overflows(p) THEN 1 ELSE p
        /\ \A q \in Pages : /\ vprot'[q] = IF q \in changed \cup {p} THEN flags(q) ELSE vprot[q]
                            /\ host'[q] = IF q \in changed \cup {p} THEN Prot(vprot'[q]) ELSE host[q]
    <2>1. p \notin changed \/ Overflows(p)
      BY <1>1
    <2>2. vprot' = Grown(p)[1] /\ host' = [q \in Pages |-> IF q \in Grown(p)[2] THEN Prot(Grown(p)[1][q]) ELSE host[q]]
          /\ limit' = IF Overflows(p) THEN 1 ELSE p
      BY DEF Grow, Apply
    <2>3. Grown(p)[2] = changed \cup {p}
      BY DEF Grown
    <2>4. Pages' = Pages /\ \A q \in Pages : vprot'[q] = IF q \in changed \cup {p} THEN flags(q) ELSE vprot[q]
      BY <2>1, <2>2 DEF Grown, Bits, Pages
    <2> QED
      BY <2>2, <2>3, <2>4
  <1>4. changed \cup {p} \subseteq Stack
    BY <1>2
  <1>5. \A q \in Pages \ Stack : vprot'[q] = vprot[q]
    BY <1>3, <1>4
  <1>6. \A q \in Stack : vprot[q] \subseteq Used \cup {"guard"}
    BY <1>1, StackFlags
  <1> HIDE DEF changed
  <1>7. \A q \in Stack : vprot'[q] \subseteq Used \cup {"guard"}
    BY <1>1, <1>3, <1>6 DEF Used
  <1>8. Used \cup {"guard"} \subseteq AllFlags \ {"watch", "exec"}
    BY DEF Used, AllFlags
  <1>9. TypeOK'
    <2>1. \A q \in Pages : host'[q] \subseteq {"r", "w", "x"}
      <3>1. \A q \in Pages : host'[q] = Prot(vprot'[q]) \/ host'[q] = host[q]
        BY <1>3
      <3>2. \A q \in Pages : host[q] \subseteq {"r", "w", "x"} /\ Prot(vprot'[q]) \subseteq {"r", "w", "x"}
        BY <1>1, ProtType DEF TypeOK, Prot
      <3> QED
        BY <3>1, <3>2
    <2>2. \A q \in Pages : vprot'[q] \subseteq AllFlags
      BY <1>1, <1>5, <1>7, <1>8 DEF TypeOK
    <2> QED
      BY <1>1, <1>3, <2>1, <2>2 DEF TypeOK
  <1>10. HostExact'
    BY <1>3, <1>9, HostFree DEF HostExact, Prot
  <1>11. WatchExact'
    BY <1>1, <1>5, PagesLaid DEF WatchExact, IInv, TypeOK
  <1>12. StackLaid'
    <2>1. ASSUME Overflows(p)
          PROVE  (\A q \in Stack : q >= 1 => vprot'[q] = Used) /\ vprot'[0] = {} /\ limit' = 1
      <3>1. changed = Kept /\ limit' = 1 /\ p \in Kept /\ 0 \notin Kept
        BY <1>2, <1>3, <2>1 DEF changed
      <3>2. 0 \in Stack /\ vprot[0] = {}
        BY <1>1 DEF StackLaid, Stack
      <3>3. ASSUME NEW q \in Stack, q >= 1
            PROVE  vprot'[q] = Used
        <4>1. CASE q \in Kept
          <5>1. {"read", "write"} \subseteq vprot[q]
            <6>1. q \in Nat
              BY DEF Stack
            <6>2. vprot[q] = Used \/ vprot[q] = {"read", "write"} \/ vprot[q] = Used \cup {"guard"}
              BY <1>1, <3>3, <6>1 DEF StackLaid
            <6> QED
              BY <6>2 DEF Used
          <5>2. vprot'[q] = (vprot[q] \ {"guard"}) \cup {"commit"}
            BY <1>1, <1>3, <2>1, <3>1, <4>1
          <5> QED
            BY <1>6, <5>1, <5>2 DEF Used
        <4>2. CASE q \notin Kept
          <5>1. q >= limit
            BY <1>1, <2>1, <3>3, <4>2 DEF Kept, Overflows, Stack
          <5>2. vprot'[q] = vprot[q]
            BY <1>1, <1>3, <3>1, <4>2
          <5> QED
            BY <1>1, <5>1, <5>2 DEF StackLaid
        <4> QED
          BY <4>1, <4>2
      <3>4. vprot'[0] = vprot[0]
        BY <1>1, <1>3, <3>1, <3>2
      <3> QED
        BY <3>1, <3>2, <3>3, <3>4
    <2>2. ASSUME ~Overflows(p)
          PROVE  StackLaid'
      <3>1. changed = {p - 1} /\ limit' = p /\ p > Guaranteed /\ p >= 3 /\ p - 1 \in Stack
        BY <1>1, <1>2, <1>3, <2>2 DEF changed, Overflows
      <3>2. vprot'[p] = Used
        <4>1. vprot[p] = Used \cup {"guard"}
          BY <1>1 DEF StackLaid
        <4>2. vprot'[p] = (vprot[p] \ {"guard"}) \cup {"commit"}
          BY <1>1, <1>3, <2>2
        <4> QED
          BY <4>1, <4>2 DEF Used
      <3>3. vprot'[p - 1] = Used \cup {"guard"}
        <4>1. vprot[p - 1] = {"read", "write"}
          BY <1>1, <3>1 DEF StackLaid
        <4>2. vprot'[p - 1] = (vprot[p - 1] \ {"guard"}) \cup {"commit"} \cup {"guard"}
          <5>1. p - 1 \in Pages /\ p - 1 \in changed /\ p - 1 # p
            BY <1>1, <3>1
          <5> QED
            BY <1>3, <2>2, <5>1
        <4> QED
          BY <4>1, <4>2 DEF Used
      <3>4. \A q \in Stack : q # p /\ q # p - 1 => vprot'[q] = vprot[q]
        BY <1>1, <1>3, <3>1
      <3>5. \A q \in Stack : q >= p => vprot'[q] = Used
        BY <1>1, <3>2, <3>4 DEF StackLaid, Stack
      <3>6. \A q \in Stack : 0 < q /\ q < p - 1 => vprot'[q] = {"read", "write"}
        BY <1>1, <3>4 DEF StackLaid, Stack
      <3>7. vprot'[0] = {}
        BY <1>1, <3>1, <3>4 DEF StackLaid, Stack
      <3> QED
        BY <3>1, <3>3, <3>5, <3>6, <3>7 DEF StackLaid
    <2> QED
      BY <2>1, <2>2 DEF StackLaid, Stack
  <1>13. OthersOffStack'
    BY DEF IInv, OthersOffStack, Stack
  <1>14. NoExecStack'
    BY <1>3, <1>5, <1>7, <1>8 DEF IInv, NoExecStack
  <1>15. CallKept'
    BY HostFree DEF CallKept
  <1>16. ExecWatched'
    BY <1>3, <1>5, <1>7, <1>8 DEF IInv, ExecWatched, ExecWrite
  <1> QED
    BY <1>10, <1>11, <1>12, <1>13, <1>14, <1>15, <1>16 DEF IInv

\* virtual_handle_fault: on the stack only its owner's guard page has anything to handle.
LEMMA FaultKeeps ==
  ASSUME IInv, NEW t \in Threads, HandleFault(t)
  PROVE  IInv'
  <1> DEFINE p == pending[t].page
  <1>1. /\ TypeOK /\ Free /\ p \in Pages /\ pending[t] # NoFault
        /\ UNCHANGED <<force_exec, write_exceptions, call>>
        /\ DOMAIN pending' = Threads
        /\ \A u \in Threads : pending'[u] = NoFault \/ pending'[u] = pending[u]
        /\ dirty' = IF "watch" \in vprot[p] /\ "watch" \notin vprot'[p] THEN dirty \cup {p} ELSE dirty
    BY DEF HandleFault, IInv, HostExact, TypeOK
  <1>2. PICK on_signal_stack \in BOOLEAN : Handle(t, p, pending[t].access = "w", on_signal_stack)
    BY DEF HandleFault
  <1>3. p \in Stack => "watch" \notin vprot[p]
    BY <1>1, StackFlags DEF Used
  <1>4. CASE Guarded(p, on_signal_stack) /\ InStack(t, p)
    <2>1. p \in Stack /\ "guard" \in vprot[p] /\ Grow(p)
      BY <1>1, <1>2, <1>4, PagesLaid, PagesAssumption DEF Handle, Guarded, InStack, Stack
    <2>2. dirty' = dirty
      BY <1>1, <1>3, <2>1
    <2> HIDE DEF p
    <2> QED
      BY <1>1, <2>1, <2>2, GrowKeeps
  <1>5. ASSUME NEW cleared \in {"guard", "watch"}, p \notin Stack, "watch" \in vprot[p] \/ cleared = "guard",
               Apply(Bits({p}, {}, {cleared}), {p}), limit' = limit
        PROVE  IInv'
    <2>1. /\ Pages' = Pages /\ DOMAIN host' = Pages
          /\ \A q \in Pages : /\ vprot'[q] = IF q = p THEN vprot[q] \ {cleared} ELSE vprot[q]
                              /\ host'[q] = IF q \in {p} THEN Prot(vprot'[q]) ELSE host[q]
      BY <1>5 DEF Apply, Bits, Pages
    <2> HIDE DEF p
    <2>2. dirty' \subseteq Pages /\ WatchExact'
      BY <1>1, <1>5, <2>1 DEF WatchExact, IInv, TypeOK
    <2>3. ExecWatched'
      BY <1>1, <1>5, <2>1 DEF ExecWatched, ExecWrite, IInv
    <2>4. \A q \in Pages : vprot'[q] \subseteq AllFlags /\ (q \notin {p} => vprot'[q] = vprot[q])
      BY <1>1, <2>1 DEF TypeOK
    <2>5. {p} \cap Stack = {} /\ UNCHANGED <<limit, force_exec, call>> /\ write_exceptions' \in BOOLEAN
      BY <1>1, <1>5 DEF TypeOK
    <2> QED
      BY <1>1, <2>1, <2>2, <2>3, <2>4, <2>5, ChangeKeeps
  <1>6. CASE Guarded(p, on_signal_stack) /\ ~InStack(t, p)
    <2>1. p \notin Stack
      <3>1. p \in Stack => p > 0
        BY <1>1, <1>6, StackFlags DEF Guarded
      <3>2. t # Owner => p \notin Stack
        BY <1>1 DEF IInv, OthersOffStack
      <3> QED
        BY <1>6, <3>1, <3>2, PagesAssumption DEF InStack, Stack
    <2>2. Apply(Bits({p}, {}, {"guard"}), {p}) /\ limit' = limit
      BY <1>2, <1>6 DEF Handle
    <2> QED
      BY <1>5, <2>1, <2>2
  <1>7. CASE ~Guarded(p, on_signal_stack) /\ pending[t].access = "w" /\ Lifts(t, p)
    <2>1. "watch" \in vprot[p] /\ Apply(Bits({p}, {}, {"watch"}), {p}) /\ limit' = limit
      BY <1>2, <1>7 DEF Handle, Lifts
    <2> QED
      BY <1>3, <1>5, <2>1
  <1>8. CASE ~Guarded(p, on_signal_stack) /\ ~(pending[t].access = "w" /\ Lifts(t, p))
    <2>1. UNCHANGED <<vprot, host, limit>>
      BY <1>2, <1>8 DEF Handle
    <2>2. dirty' = dirty /\ Pages' = Pages
      BY <1>1, <2>1 DEF Pages
    <2>3. WatchExact' /\ ExecWatched'
      BY <1>1, <2>1, <2>2 DEF WatchExact, ExecWatched, IInv
    <2>4. {} \cap Stack = {} /\ write_exceptions' \in BOOLEAN /\ dirty' \subseteq Pages
          /\ DOMAIN host' = Pages
      BY <1>1, <2>1, <2>2 DEF TypeOK
    <2>5. \A q \in Pages : /\ vprot'[q] \subseteq AllFlags /\ (q \notin {} => vprot'[q] = vprot[q])
                           /\ host'[q] = IF q \in {} THEN Prot(vprot'[q]) ELSE host[q]
      BY <1>1, <2>1 DEF TypeOK
    <2> QED
      BY <1>1, <2>1, <2>2, <2>3, <2>4, <2>5, ChangeKeeps
  <1> QED
    BY <1>4, <1>6, <1>7, <1>8

\* virtual_setup_exception
LEMMA ExceptionKeeps ==
  ASSUME IInv, NEW sp \in Stack \cap Pages, NEW q \in {sp, sp - 1}, SetupException(sp, q)
  PROVE  IInv'
  <1>1. /\ TypeOK /\ Free /\ UNCHANGED <<force_exec, write_exceptions, call, pending, dirty>>
        /\ q \in Stack /\ q \in Pages
    <2>1. q \in Stack
      BY PagesAssumption DEF SetupException, Stack
    <2>2. Stack \subseteq Pages
      BY PagesLaid DEF IInv, HostExact
    <2> QED
      BY <2>1, <2>2 DEF SetupException, IInv, HostExact
  <1>2. CASE q < limit /\ "guard" \in vprot[q]
    <2>1. Grow(q)
      BY <1>2 DEF SetupException
    <2> QED
      BY <1>1, <1>2, <2>1, GrowKeeps DEF TypeOK
  <1>3. CASE ~(q < limit /\ "guard" \in vprot[q])
    <2>1. UNCHANGED vars
      BY <1>1, <1>3 DEF SetupException, vars
    <2> QED
      BY <2>1 DEF vars, IInv, HostExact, TypeOK, WatchExact, StackLaid, OthersOffStack, NoExecStack,
                  CallKept, ExecWatched, Pages, Prot
  <1> QED
    BY <1>2, <1>3

----------------------------------------------------------------------------
\* What a thread may write by the host's protections and nobody opened is not watched.
LEMMA WrittenUnwatched ==
  ASSUME IInv, NEW p \in Pages, "w" \in host[p], "watch" \in vprot[p]
  PROVE  call.opened /\ p \in call.pages
  BY WatchedProt DEF IInv, HostExact, Prot

\* A thread touches a page: only its owner runs into a fault on the stack.
LEMMA TouchKeeps ==
  ASSUME IInv, NEW t \in Threads, NEW p \in Pages \ Below(t), NEW access \in {"r", "w"}, Touch(t, p, access)
  PROVE  IInv'
  <1>1. TypeOK /\ UNCHANGED <<vprot, host, limit, force_exec, write_exceptions, call>> /\ Pages' = Pages
    BY DEF IInv, HostExact, Touch, Pages
  <1>2. dirty \subseteq dirty' /\ dirty' \subseteq Pages
        /\ (p \in dirty' => p \in dirty \/ "watch" \notin vprot[p])
        /\ \A q \in dirty' : q \in dirty \/ q = p
    <2>1. "w" \in host[p] /\ "watch" \in vprot[p] => p \in call.pages
      BY WrittenUnwatched
    <2> QED
      BY <1>1, <2>1 DEF Touch, TypeOK
  <1>3. DOMAIN pending' = Threads
        /\ \A u \in Threads : pending'[u] = pending[u]
                              \/ (u = t /\ pending'[u].page = p /\ access \notin host[p])
    BY <1>1 DEF Touch, TypeOK
  <1>4. TypeOK'
    BY <1>1, <1>2, <1>3 DEF TypeOK
  <1>5. HostExact'
    BY <1>1, <1>4 DEF IInv, HostExact, Prot
  <1>6. WatchExact'
    BY <1>1, <1>2 DEF IInv, WatchExact
  <1>7. OthersOffStack'
    <2> SUFFICES ASSUME NEW u \in Threads \ {Owner}, u = t, access \notin host[p], p \in Stack
                 PROVE  FALSE
      BY <1>3 DEF IInv, OthersOffStack, Stack
    <2>1. limit \in 1 .. StackEnd /\ StackEnd \in Nat /\ p \in Nat /\ p >= limit /\ Stack \subseteq Pages
      BY <1>1, PagesLaid, PagesAssumption DEF Below, TypeOK, Stack
    <2>2. vprot[p] = Used
      BY <2>1 DEF IInv, StackLaid
    <2>3. host[p] = Forced(force_exec, UnixProt(Used))
      BY <2>2, UsedProt DEF IInv, HostExact, Prot, Used
    <2> QED
      BY <2>3, UsedProt DEF Forced
  <1>8. StackLaid' /\ NoExecStack' /\ CallKept'
    BY <1>1, StackKept DEF IInv, NoExecStack, CallKept
  <1>9. ExecWatched'
    BY <1>1, <1>2 DEF IInv, ExecWatched
  <1> QED
    BY <1>5, <1>6, <1>7, <1>8, <1>9 DEF IInv

\* A locked call opens its pages, if it has to.
LEMMA BeginKeeps ==
  ASSUME IInv, NEW t \in Threads, NEW v \in Views, NEW some \in Runs(v), BeginLocked(t, some)
  PROVE  IInv'
  <1> DEFINE watched == \E p \in some : "watch" \in vprot[p]
  <1>1. TypeOK /\ some \subseteq Pages
    BY RunInView DEF IInv, HostExact
  <1>2. /\ UNCHANGED <<vprot, limit, force_exec, write_exceptions, pending, dirty>> /\ Pages' = Pages
        /\ call' = [by |-> t, pages |-> some, opened |-> watched]
        /\ DOMAIN host' = Pages
        /\ \A p \in Pages : host'[p] = IF watched /\ p \in some THEN Prot(vprot[p] \ {"watch"}) ELSE host[p]
    BY DEF BeginLocked, Pages
  <1>3. \A p \in Pages : host[p] = Prot(vprot[p])
    BY HostFree DEF BeginLocked
  <1>4. \A p \in Pages : Prot(vprot[p]) \subseteq {"r", "w", "x"} /\ Prot(vprot[p] \ {"watch"}) \subseteq {"r", "w", "x"}
    BY ProtType DEF Prot
  <1>5. TypeOK'
    <2>1. watched \in BOOLEAN
      OBVIOUS
    <2> HIDE DEF watched
    <2>2. call'.by = t /\ call'.pages = some /\ call'.opened = watched
      BY <1>2
    <2>3. \A p \in Pages : host'[p] \subseteq {"r", "w", "x"}
      BY <1>2, <1>3, <1>4
    <2> QED
      BY <1>1, <1>2, <2>1, <2>2, <2>3 DEF TypeOK
  <1>6. HostExact'
    <2> HIDE DEF watched
    <2> QED
      BY <1>2, <1>3, <1>5 DEF HostExact, Prot
  <1>7. StackLaid' /\ OthersOffStack' /\ NoExecStack' /\ WatchExact' /\ ExecWatched'
    BY <1>2, StackKept DEF IInv, OthersOffStack, NoExecStack, WatchExact, ExecWatched, Stack
  <1>8. CallKept'
    BY <1>2 DEF CallKept
  <1> QED
    BY <1>6, <1>7, <1>8 DEF IInv

\* update_write_watches: the pages are closed again, and those written stay unwatched.
LEMMA EndKeeps ==
  ASSUME IInv, NEW n \in 0 .. Cardinality(call.pages), EndLocked(n)
  PROVE  IInv'
  <1> DEFINE told == IF call.opened THEN call.pages ELSE {}
             cleared == IF call.opened THEN Accessed(n) ELSE {}
  <1>1. TypeOK /\ call.pages \subseteq Pages /\ Accessed(n) \subseteq call.pages /\ cleared \subseteq told
    BY DEF IInv, HostExact, TypeOK, Accessed
  <1> HIDE DEF Accessed
  <1>2. /\ UNCHANGED <<limit, force_exec, write_exceptions, pending>> /\ call' = NoCall
        /\ dirty' = dirty \cup Accessed(n) /\ Pages' = Pages /\ DOMAIN host' = Pages
        /\ \A p \in Pages : /\ vprot'[p] = IF p \in cleared THEN vprot[p] \ {"watch"} ELSE vprot[p]
                            /\ host'[p] = IF p \in told THEN Prot(vprot'[p]) ELSE host[p]
    BY <1>1 DEF EndLocked, Restore, Apply, Bits, Pages, TypeOK
  <1>3. \A p \in Pages : host'[p] = Prot(vprot'[p])
    BY <1>1, <1>2 DEF IInv, HostExact
  <1>4. \A p \in Accessed(n) : "watch" \notin vprot'[p]
    BY <1>1, <1>2 DEF IInv, CallKept
  <1>5. TypeOK'
    <2>1. NoCall.by \in Threads /\ NoCall.pages = {} /\ NoCall.opened = FALSE
      BY PagesAssumption DEF NoCall
    <2>2. \A p \in Pages : host'[p] \subseteq {"r", "w", "x"} /\ vprot'[p] \subseteq AllFlags
      <3>1. \A p \in Pages : Prot(vprot'[p]) \subseteq {"r", "w", "x"}
        BY ProtType DEF Prot
      <3>2. \A p \in Pages : vprot'[p] \subseteq vprot[p]
        BY <1>2
      <3> QED
        BY <1>1, <1>3, <3>1, <3>2 DEF TypeOK
    <2> QED
      BY <1>1, <1>2, <2>1, <2>2 DEF TypeOK
  <1>6. HostExact'
    BY <1>2, <1>3, <1>5 DEF HostExact, Prot, NoCall
  <1>7. WatchExact'
    BY <1>1, <1>2, <1>4 DEF IInv, WatchExact, TypeOK
  <1>8. StackLaid'
    <2>1. \A p \in Stack : p \in Pages => "watch" \notin vprot[p]
      BY StackFlags DEF Used
    <2> QED
      BY <1>2, <2>1, StackKept
  <1>9. OthersOffStack' /\ NoExecStack' /\ CallKept'
    BY <1>2 DEF IInv, OthersOffStack, NoExecStack, CallKept, NoCall, Stack
  <1>10. ExecWatched'
    BY <1>1, <1>2 DEF IInv, ExecWatched, ExecWrite
  <1> QED
    BY <1>6, <1>7, <1>8, <1>9, <1>10 DEF IInv

\* virtual_set_force_exec
LEMMA ForceKeeps ==
  ASSUME IInv, NEW enable \in BOOLEAN, SetForceExec(enable)
  PROVE  IInv'
  <1>1. TypeOK /\ UNCHANGED <<vprot, limit, write_exceptions, call, pending, dirty>> /\ Pages' = Pages
        /\ force_exec' = enable /\ DOMAIN host' = Pages
        /\ \A p \in Pages : host'[p] = Forced(enable, UnixProt(vprot[p]))
    BY DEF SetForceExec, IInv, HostExact, Pages
  <1>2. ~call.opened
    BY HostFree DEF SetForceExec
  <1>3. TypeOK'
    BY <1>1, ProtType DEF TypeOK
  <1>4. HostExact'
    BY <1>1, <1>2, <1>3 DEF HostExact, Prot
  <1> QED
    BY <1>1, <1>4, StackKept
       DEF IInv, WatchExact, OthersOffStack, NoExecStack, CallKept, ExecWatched, Stack

----------------------------------------------------------------------------
\* The views and the stack as a run finds them.
LEMMA Initially == Init => IInv
  <1> SUFFICES ASSUME Init
               PROVE  IInv
    OBVIOUS
  <1>1. PICK some \in Worlds : vprot = [p \in some |-> InitFlags(p, limit)]
    BY DEF Init
  <1>2. Pages = some /\ DOMAIN host = Pages
        /\ \A p \in Pages : vprot[p] = InitFlags(p, limit) /\ host[p] = UnixProt(vprot[p])
    BY <1>1 DEF Init, Pages
  <1>3. limit \in 2 .. StackEnd /\ StackEnd \in Nat /\ limit \in Limits
    BY PagesAssumption DEF Init
  <1>4. /\ force_exec = FALSE /\ write_exceptions = FALSE /\ call = NoCall /\ dirty = {}
        /\ pending = [t \in Threads |-> NoFault]
    BY DEF Init
  <1>5. \A p \in Pages : vprot[p] \subseteq AllFlags \ {"exec"}
    BY <1>2 DEF InitFlags, AllFlags
  <1>6. TypeOK
    <2>1. call.by \in Threads /\ call.pages = {} /\ call.opened = FALSE
      BY <1>4, PagesAssumption DEF NoCall
    <2>2. \A p \in Pages : host[p] \subseteq {"r", "w", "x"}
      BY <1>2, ProtType
    <2>3. Pages \in Worlds /\ limit \in 1 .. StackEnd /\ \A p \in Pages : vprot[p] \subseteq AllFlags
      BY <1>2, <1>3, <1>5
    <2>4. DOMAIN pending = Threads /\ \A t \in Threads : pending[t] = NoFault
      BY <1>4
    <2> QED
      BY <1>2, <1>4, <2>1, <2>2, <2>3, <2>4 DEF TypeOK
  <1>7. HostExact
    BY <1>2, <1>4, <1>6 DEF HostExact, Prot, Forced, NoCall
  <1>8. StackLaid
    <2>1. Stack \subseteq Nat /\ 0 \in Stack /\ limit - 1 \in Stack
      BY <1>3 DEF Stack
    <2>2. \A p \in Stack : InitFlags(p, limit) = IF p = 0 THEN {} ELSE IF p >= limit THEN Used
                             ELSE IF p = limit - 1 THEN Used \cup {"guard"} ELSE {"read", "write"}
      <3> SUFFICES ASSUME NEW p \in Stack
                   PROVE  InitFlags(p, limit) = IF p = 0 THEN {} ELSE IF p >= limit THEN Used
                             ELSE IF p = limit - 1 THEN Used \cup {"guard"} ELSE {"read", "write"}
        OBVIOUS
      <3>1. p \in Nat /\ limit \in Nat /\ limit >= 2 /\ p \notin Watch \cup Data
        BY <1>3, <2>1, PagesAssumption DEF Stack
      <3>2. CASE p = 0
        BY <3>1, <3>2 DEF InitFlags
      <3>3. CASE p >= limit
        BY <3>1, <3>3 DEF InitFlags, Used
      <3>4. CASE p = limit - 1
        BY <3>1, <3>4 DEF InitFlags, Used
      <3>5. CASE 0 < p /\ p < limit - 1
        BY <3>1, <3>5 DEF InitFlags, Used
      <3> QED
        BY <3>1, <3>2, <3>3, <3>4, <3>5
    <2> QED
      BY <1>2, <1>3, <2>1, <2>2 DEF StackLaid
  <1>9. WatchExact /\ OthersOffStack /\ NoExecStack /\ CallKept /\ ExecWatched
    BY <1>4, <1>5 DEF WatchExact, OthersOffStack, NoExecStack, CallKept, ExecWatched, NoCall
  <1> QED
    BY <1>7, <1>8, <1>9 DEF IInv

\* Every step keeps the invariant.
LEMMA StepKeeps == IInv /\ [Next]_vars => IInv'
  <1> SUFFICES ASSUME IInv, [Next]_vars
               PROVE  IInv'
    OBVIOUS
  <1>1. CASE \E t \in Threads : \E p \in Pages \ Below(t), access \in {"r", "w"} : Touch(t, p, access)
    BY <1>1, TouchKeeps
  <1>2. CASE \E t \in Threads : HandleFault(t)
    BY <1>2, FaultKeeps
  <1>3. CASE \E sp \in Stack \cap Pages : \E q \in {sp, sp - 1} : SetupException(sp, q)
    BY <1>3, ExceptionKeeps
  <1>4. CASE \E v \in Views : \E some \in Runs(v) : \E want \in Protects[v] : SetProtection(some, want, FALSE)
    BY <1>4, SetProtectionKeeps
  <1>5. CASE \E v \in Views \ {Image} : \E some \in Runs(v) : \E want \in Protects[v] :
               SetProtection(some, want, TRUE)
    BY <1>5, SetProtectionKeeps
  <1>6. CASE \E v \in Views : \E some \in Runs(v) : Decommit(some)
    BY <1>6, DecommitKeeps
  <1>7. CASE \E some \in Watches : \E count \in 1 .. Cardinality(some) : GetWriteWatch(some, count)
    <2>1. PICK all \in Watches : \E count \in 1 .. Cardinality(all) : GetWriteWatch(all, count)
      BY <1>7
    <2>2. PICK count \in 1 .. Cardinality(all) : GetWriteWatch(all, count)
      BY <2>1
    <2>3. Scanned(all, count) \in SUBSET all /\ Watch \cap Pages \in Views /\ all \in Runs(Watch \cap Pages)
      BY DEF Scanned, Watches, Views
    <2> QED
      BY <2>2, <2>3, WatchKeeps DEF GetWriteWatch, ResetScanned
  <1>8. CASE \E some \in Watches : ResetWriteWatch(some)
    <2>1. PICK all \in Watches : ResetWriteWatch(all)
      BY <1>8
    <2>2. all \in SUBSET all /\ Watch \cap Pages \in Views /\ all \in Runs(Watch \cap Pages)
      BY DEF Watches, Views
    <2> QED
      BY <2>1, <2>2, WatchKeeps DEF ResetWriteWatch
  <1>9. CASE \E t \in Threads : \E v \in Views : \E some \in Runs(v) : BeginLocked(t, some)
    BY <1>9, BeginKeeps
  <1>10. CASE \E n \in 0 .. Cardinality(call.pages) : EndLocked(n)
    BY <1>10, EndKeeps
  <1>11. CASE \E enable \in BOOLEAN : SetForceExec(enable)
    BY <1>11, ForceKeeps
  <1>12. CASE \E enable \in BOOLEAN : EnableWriteExceptions(enable)
    BY <1>12, EnableKeeps
  <1>13. CASE UNCHANGED vars
    BY <1>13 DEF vars, IInv, HostExact, TypeOK, WatchExact, StackLaid, OthersOffStack, NoExecStack,
                 CallKept, ExecWatched, Pages, Prot
  <1> QED
    BY <1>1, <1>2, <1>3, <1>4, <1>5, <1>6, <1>7, <1>8, <1>9, <1>10, <1>11, <1>12, <1>13 DEF Next

\* What holds of every state of every run.
THEOREM Inductive == Spec => []IInv
  BY Initially, StepKeeps, PTL DEF Spec

\* The host protects every page as its flags say, whatever changed them and in
\* whatever order: set_page_vprot and mprotect_range never part, but for the pages
\* that a locked call has opened.
THEOREM HostFollowsFlags == Spec => []HostExact
  <1>1. IInv => HostExact
    BY DEF IInv
  <1> QED
    BY <1>1, Inductive, PTL

\* No write to a view with write watches goes unreported, also not one that
\* races with the reset of its watch or with a locked call on the same page.
THEOREM NoWriteIsMissed == Spec => []WatchExact
  <1>1. IInv => WatchExact
    BY DEF IInv
  <1> QED
    BY <1>1, Inductive, PTL

\* A page of such a view that may be written never answers with an access violation,
\* whoever lifted its watch before virtual_handle_fault came to it.
THEOREM NoWriteIsRefused == Spec => []WriteNotRefused
  <1>1. WriteNotRefused
    BY DEF WriteNotRefused, Answer, Lifts
  <1> QED
    BY <1>1, PTL

\* grow_thread_stack and virtual_setup_exception leave every stack with its guard page,
\* of any size and with any part kept for an overflow.
THEOREM StackIsGuarded == Spec => []StackGuarded
  <1>1. IInv => StackGuarded
    <2> SUFFICES ASSUME IInv, Stack \subseteq Pages
                 PROVE  /\ \A p \in limit .. (StackEnd - 1) : "w" \in UnixProt(vprot[p])
                        /\ limit > 1 => "guard" \in vprot[limit - 1]
                        /\ limit = 1 \/ limit \in Limits \/ limit > Guaranteed
      BY DEF StackGuarded
    <2>1. StackLaid /\ limit \in 1 .. StackEnd /\ StackEnd \in Nat
      BY PagesAssumption DEF IInv, HostExact, TypeOK
    <2>2. \A p \in limit .. (StackEnd - 1) : p \in Stack /\ p >= limit
      BY <2>1 DEF Stack
    <2>3. \A p \in limit .. (StackEnd - 1) : vprot[p] = Used
      BY <2>1, <2>2 DEF StackLaid
    <2> QED
      BY <2>1, <2>3, UsedProt DEF StackLaid
  <1> QED
    BY <1>1, Inductive, PTL

\* With write exceptions on, the first write of a thread without permission to an
\* executable page faults.
THEOREM FirstWriteIsCaught == Spec => FirstWriteCaught
  <1>1. IInv /\ [Next]_vars =>
          [\A t \in Threads \ Allowed, p \in Data \cap Pages :
             write_exceptions /\ ExecWrite(vprot[p]) /\ p \notin dirty /\ p \notin call.pages
               => ~(Touch(t, p, "w") /\ p \in dirty')]_vars
    <2> SUFFICES ASSUME IInv, NEW t \in Threads \ Allowed, NEW p \in Data \cap Pages, write_exceptions,
                        ExecWrite(vprot[p]), p \notin dirty, p \notin call.pages, Touch(t, p, "w"), p \in dirty'
                 PROVE  FALSE
      OBVIOUS
    <2>1. "watch" \in vprot[p]
      BY PagesAssumption DEF IInv, ExecWatched
    <2>2. "w" \in host[p]
      BY DEF Touch
    <2> QED
      BY <2>1, <2>2, WrittenUnwatched
  <1> QED
    BY <1>1, Inductive, PTL DEF Spec, FirstWriteCaught

----------------------------------------------------------------------------
(* Numbers.                                                                 *)

\* A set of naturals has a least.
LEMMA LeastNatural ==
  ASSUME NEW S \in SUBSET Nat, S # {}
  PROVE  \E m \in S : \A n \in S : m <= n
<1>1. PICK m \in S : \A n \in S : ~(<<n, m>> \in OpToRel(<, Nat))
  BY NatLessThanWellFounded, WFMin
<1>2. \A n \in S : ~(n < m)
  BY <1>1 DEF OpToRel
<1> QED BY <1>2

\* What is rounded down is a multiple.
LEMMA Multiple ==
  ASSUME NEW a \in Int, NEW unit \in Nat \ {0}
  PROVE  \E d \in Int : Down(a, unit) = unit * d
BY DEF Down

\* Rounding down gives the highest multiple that is not higher.
LEMMA Rounding ==
  ASSUME NEW a \in Int, NEW unit \in Nat \ {0}
  PROVE  /\ Down(a, unit) \in Int /\ Down(a, unit) <= a /\ a < Down(a, unit) + unit
         /\ \A c \in Int : c % unit = 0 /\ c <= a => c <= Down(a, unit)
<1>1. a % unit \in 0 .. (unit - 1)
  OBVIOUS
<1>2. Down(a, unit) \in Int /\ Down(a, unit) <= a /\ a < Down(a, unit) + unit
  BY <1>1 DEF Down
<1>3. ASSUME NEW c \in Int, c % unit = 0, c <= a, c > Down(a, unit)
      PROVE  FALSE
  <2>1. PICK k \in Int : c = unit * k
    BY <1>3
  <2>2. PICK d \in Int : Down(a, unit) = unit * d
    BY DEF Down
  <2>3. k > d
    <3>1. SUFFICES ASSUME k <= d PROVE FALSE
      OBVIOUS
    <3>2. unit * k <= unit * d
      BY <3>1
    <3> QED BY <3>2, <2>1, <2>2, <1>3
  <2>4. unit * k >= unit * (d + 1)
    BY <2>3
  <2>5. unit * (d + 1) = unit * d + unit
    OBVIOUS
  <2> QED BY <2>1, <2>2, <2>4, <2>5, <1>2, <1>3
<1> QED BY <1>2, <1>3

\* Rounding up gives the lowest.
LEMMA RoundingUp ==
  ASSUME NEW a \in Int, NEW unit \in Nat \ {0}
  PROVE  /\ Up(a, unit) \in Int /\ a <= Up(a, unit)
         /\ \A c \in Int : c % unit = 0 /\ a <= c => Up(a, unit) <= c
<1> DEFINE b == a + unit - 1
<1>1. b \in Int /\ b = a + unit - 1 /\ Up(a, unit) = Down(b, unit)
  BY DEF Up
<1> HIDE DEF b
<1>2. /\ Down(b, unit) \in Int /\ Down(b, unit) <= b /\ b < Down(b, unit) + unit
      /\ \A c \in Int : c % unit = 0 /\ c <= b => c <= Down(b, unit)
  BY <1>1, Rounding
<1>3. a <= Down(b, unit)
  BY <1>1, <1>2
<1>4. ASSUME NEW c \in Int, c % unit = 0, a <= c, c < Down(b, unit)
      PROVE  FALSE
  <2>1. PICK k \in Int : c = unit * k
    BY <1>4
  <2>2. unit * (k + 1) = c + unit /\ c + unit \in Int
    BY <2>1
  <2>3. PICK d \in Int : Down(b, unit) = unit * d
    BY <1>1, Multiple
  <2>4. d > k
    <3>1. SUFFICES ASSUME d <= k PROVE FALSE
      OBVIOUS
    <3>2. unit * d <= unit * k
      BY <3>1
    <3> QED BY <3>2, <2>1, <2>3, <1>4
  <2>5. unit * d >= unit * (k + 1)
    BY <2>4
  <2> QED BY <2>2, <2>3, <2>5, <1>1, <1>2, <1>4
<1> QED BY <1>1, <1>2, <1>3, <1>4

\* A set of numbers between two bounds has a least and a greatest.
LEMMA Extremes ==
  ASSUME NEW b \in Nat, NEW S \in SUBSET (0 .. b), S # {}
  PROVE  /\ Min(S) \in S /\ \A x \in S : Min(S) <= x
         /\ Max(S) \in S /\ \A x \in S : x <= Max(S)
<1>1. PICK m \in S : \A n \in S : m <= n
  BY LeastNatural
<1>2. Min(S) \in S /\ \A x \in S : Min(S) <= x
  BY <1>1 DEF Min
<1> DEFINE R == {b - x : x \in S}
<1>3. R \in SUBSET Nat /\ R # {}
  OBVIOUS
<1>4. PICK k \in R : \A n \in R : k <= n
  BY <1>3, LeastNatural
<1>5. PICK z \in S : k = b - z
  BY <1>4
<1>6. \A x \in S : x <= z
  <2>1. TAKE x \in S
  <2>2. b - z <= b - x
    BY <1>4, <1>5
  <2> QED BY <2>2
<1>7. Max(S) \in S /\ \A x \in S : x <= Max(S)
  BY <1>6 DEF Max
<1> QED BY <1>2, <1>7

Areas == {a \in [base : Nat, end : Nat] : a.base <= a.end /\ a.end <= SpaceLimit}

\* The hull of spans that touch w has the pages of them all, and its ends are ends of theirs.
LEMMA HullIsUnion ==
  ASSUME NEW w, w.base \in Nat, w.end \in Nat, w.base <= w.end, w.end <= SpaceLimit,
         NEW some, \A x \in some : /\ x.base \in Nat /\ x.end \in Nat /\ x.end <= SpaceLimit
                                  /\ x.base <= x.end /\ x.base <= w.end /\ w.base <= x.end
  PROVE  /\ Hull(w, some) \in Areas
         /\ Hull(w, some).base <= w.base /\ w.end <= Hull(w, some).end
         /\ Hull(w, some).base \in {w.base} \cup {x.base : x \in some}
         /\ Hull(w, some).end \in {w.end} \cup {x.end : x \in some}
         /\ \A p \in Int : p \in PagesOf(Hull(w, some)) <=>
                             p \in PagesOf(w) \/ \E x \in some : p \in PagesOf(x)
<1> DEFINE B == {w.base} \cup {x.base : x \in some}
           E == {w.end} \cup {x.end : x \in some}
           h == Hull(w, some)
<1>0. SpaceLimit \in Nat
  BY SpaceAssumption
<1>1. B \in SUBSET (0 .. SpaceLimit) /\ B # {} /\ E \in SUBSET (0 .. SpaceLimit) /\ E # {}
  BY <1>0
<1>2. h = [base |-> Min(B), end |-> Max(E)]
  BY DEF Hull, Span
<1>3. /\ h.base \in B /\ \A x \in B : h.base <= x
      /\ h.end \in E /\ \A x \in E : x <= h.end
  <2> HIDE DEF B, E
  <2>1. h.base = Min(B) /\ h.end = Max(E)
    BY <1>2
  <2>2. Min(B) \in B /\ \A x \in B : Min(B) <= x
    BY <1>0, <1>1, Extremes
  <2>3. Max(E) \in E /\ \A x \in E : x <= Max(E)
    BY <1>0, <1>1, Extremes
  <2> QED BY <2>1, <2>2, <2>3
<1>4. h.base \in Nat /\ h.end \in Nat /\ h.base <= w.base /\ w.end <= h.end /\ h.end <= SpaceLimit
  BY <1>0, <1>1, <1>3
<1>5. h \in Areas
  BY <1>2, <1>4 DEF Areas
<1>6. ASSUME NEW p \in Int PROVE p \in PagesOf(h) <=> p \in PagesOf(w) \/ \E x \in some : p \in PagesOf(x)
  <2>1. ASSUME p \in PagesOf(w) PROVE p \in PagesOf(h)
    BY <2>1, <1>4 DEF PagesOf
  <2>2. ASSUME NEW x \in some, p \in PagesOf(x) PROVE p \in PagesOf(h)
    <3>1. h.base <= x.base /\ x.end <= h.end
      BY <1>3
    <3> QED BY <2>2, <3>1, <1>4 DEF PagesOf
  <2>3. ASSUME p \in PagesOf(h), p \notin PagesOf(w) PROVE \E x \in some : p \in PagesOf(x)
    <3>1. h.base <= p /\ p < h.end /\ (p < w.base \/ w.end <= p)
      BY <2>3, <1>4 DEF PagesOf
    <3>2. CASE p < w.base
      <4>1. PICK x \in some : x.base = h.base
        BY <3>1, <3>2, <1>3, <1>4
      <4>2. p \in PagesOf(x)
        BY <3>1, <3>2, <4>1 DEF PagesOf
      <4> QED BY <4>2
    <3>3. CASE w.end <= p
      <4>1. PICK x \in some : x.end = h.end
        BY <3>1, <3>3, <1>3, <1>4
      <4>2. p \in PagesOf(x)
        BY <3>1, <3>3, <4>1 DEF PagesOf
      <4> QED BY <4>2
    <3> QED BY <3>1, <3>2, <3>3
  <2> QED BY <2>1, <2>2, <2>3
<1> HIDE DEF h
<1> QED BY <1>3, <1>4, <1>5, <1>6 DEF h

----------------------------------------------------------------------------
(* The states an operation hands on, and what its steps do to them.         *)

Ranges == {r \in [base : Int, end : Int] : r.base < r.end}
ViewSet == {v \in [base : Nat, end : Nat, kind : Kinds] : v.base < v.end /\ v.end <= SpaceLimit}
Hows == {"none", "held", "view", "native"}
States == [views : SUBSET ViewSet, free : Seq(Ranges), areas : SUBSET Areas,
           mem : [0 .. (SpaceLimit - 1) -> {"none", "held", "view", "native"}], ok : BOOLEAN]

\* From s to t only the views have changed, to vs, and the free ranges.
Only(t, s, vs) == /\ t \in States /\ t.views = vs
                  /\ t.areas = s.areas /\ t.mem = s.mem /\ (t.ok => s.ok)

\* A part of a sequence replaced by another is a sequence.
LEMMA Splice ==
  ASSUME NEW R, NEW ranges \in Seq(R), NEW i \in DOMAIN ranges, NEW mid \in Seq(R),
         NEW j \in i .. (Len(ranges) + 1)
  PROVE  SubSeq(ranges, 1, i - 1) \o mid \o SubSeq(ranges, j, Len(ranges)) \in Seq(R)
<1>1. i \in 1 .. Len(ranges) /\ Len(ranges) \in Nat
  OBVIOUS
<1>2. SubSeq(ranges, 1, i - 1) \in Seq(R)
  BY <1>1, SubSeqProperties
<1>3. SubSeq(ranges, j, Len(ranges)) \in Seq(R)
  BY <1>1, SubSeqProperties
<1> QED BY <1>2, <1>3, ConcatProperties

\* What may be left of a range is a sequence of ranges.
LEMMA IfAnyTyped ==
  ASSUME NEW b \in Int, NEW e \in Int
  PROVE  IfAny(Span(b, e)) \in Seq(Ranges)
<1>1. CASE b < e
  <2>1. Span(b, e) \in Ranges
    BY <1>1 DEF Span, Ranges
  <2>2. IfAny(Span(b, e)) = <<Span(b, e)>>
    BY <1>1 DEF IfAny, NotEmpty, Span
  <2> QED BY <2>1, <2>2
<1>2. CASE ~(b < e)
  BY <1>2 DEF IfAny, NotEmpty, Span
<1> QED BY <1>1, <1>2

\* Cutting a range leaves free ranges (free_ranges_insert_view).
LEMMA WithoutTyped ==
  ASSUME NEW s \in States, NEW i \in DOMAIN s.free, NEW base \in Int, NEW end \in Int
  PROVE  Only(Without(s, i, base, end), s, s.views)
<1> DEFINE mid == IfAny(Span(s.free[i].base, base)) \o IfAny(Span(end, s.free[i].end))
           rest == SubSeq(s.free, i + 1, Len(s.free))
           new == SubSeq(s.free, 1, i - 1) \o IfAny(Span(s.free[i].base, base))
                    \o IfAny(Span(end, s.free[i].end)) \o rest
<1>1. s.free \in Seq(Ranges) /\ s.free[i].base \in Int /\ s.free[i].end \in Int /\ i \in 1 .. Len(s.free)
  BY DEF States, Ranges
<1>2. /\ IfAny(Span(s.free[i].base, base)) \in Seq(Ranges)
      /\ IfAny(Span(end, s.free[i].end)) \in Seq(Ranges)
  BY <1>1, IfAnyTyped
<1>3. SubSeq(s.free, 1, i - 1) \in Seq(Ranges) /\ rest \in Seq(Ranges)
  BY <1>1, SubSeqProperties
<1>4. new \in Seq(Ranges)
  BY <1>2, <1>3, ConcatProperties
<1>5. Without(s, i, base, end) = IF end <= base THEN s ELSE [s EXCEPT !.free = new]
  BY DEF Without
<1> HIDE DEF new
<1> QED BY <1>4, <1>5 DEF Only, States

\* free_ranges_insert_view changes nothing but the free ranges, or an assertion fails.
LEMMA InsertTyped ==
  ASSUME NEW s \in States, NEW v \in ViewSet
  PROVE  Only(InsertView(s, v), s, s.views)
<1> DEFINE g == Granules(v)
           i == LowerBound(s.free, g.base)
           b == Most(g.base, s.free[i].base)
           e == Least(g.end, s.free[i].end)
<1>1. CASE Found(s.free, i, g.base)
  <2>1. i \in DOMAIN s.free /\ s.free \in Seq(Ranges)
    BY <1>1 DEF Found, States
  <2>2. s.free[i].base \in Int /\ s.free[i].end \in Int
    BY <2>1 DEF Ranges
  <2>3. g.base \in Int /\ g.end \in Int
    BY Rounding, RoundingUp, SpaceAssumption DEF Granules, Span, ViewSet
  <2>4. b \in Int /\ e \in Int
    BY <2>2, <2>3 DEF Most, Least
  <2>5. InsertView(s, v) = InsertIn(s, i, b, e)
    BY <1>1 DEF InsertView
  <2> HIDE DEF b, e, i
  <2> QED BY <2>1, <2>4, <2>5, WithoutTyped DEF InsertIn
<1>2. CASE ~Found(s.free, i, g.base)
  <2>1. InsertView(s, v) = [s EXCEPT !.ok = FALSE]
    BY <1>2 DEF InsertView
  <2> QED BY <2>1 DEF Only, States
<1> QED BY <1>1, <1>2

\* Registering a view adds it, and no host mapping or reserved area changes.
LEMMA Registers ==
  ASSUME NEW s \in States, NEW v \in ViewSet
  PROVE  Only(Register(s, v), s, s.views \cup {v})
<1> DEFINE t == [s EXCEPT !.views = @ \cup {v}]
<1>1. t \in States /\ t.views = s.views \cup {v} /\ t.areas = s.areas /\ t.mem = s.mem /\ t.ok = s.ok
  BY DEF States
<1>2. Register(s, v) = InsertView(t, v)
  BY DEF Register
<1> HIDE DEF t
<1> QED BY <1>1, <1>2, InsertTyped DEF Only

\* The granules of a view have it between them, and no aligned address.
LEMMA GranulesTyped ==
  ASSUME NEW w, w.base \in Int, w.end \in Int
  PROVE  /\ Granules(w).base \in Int /\ Granules(w).end \in Int
         /\ Granules(w).base <= w.base /\ w.end <= Granules(w).end
         /\ \A c \in Int : c % Granule = 0 /\ c <= w.base => c <= Granules(w).base
         /\ \A c \in Int : c % Granule = 0 /\ w.end <= c => Granules(w).end <= c
<1>1. Granules(w).base = Down(w.base, Granule) /\ Granules(w).end = Up(w.end, Granule)
  BY DEF Granules, Span
<1>2. Granule \in Nat \ {0}
  BY SpaceAssumption
<1>3. /\ Down(w.base, Granule) \in Int /\ Down(w.base, Granule) <= w.base
      /\ \A c \in Int : c % Granule = 0 /\ c <= w.base => c <= Down(w.base, Granule)
  BY <1>2, Rounding
<1>4. /\ Up(w.end, Granule) \in Int /\ w.end <= Up(w.end, Granule)
      /\ \A c \in Int : c % Granule = 0 /\ w.end <= c => Up(w.end, Granule) <= c
  BY <1>2, RoundingUp
<1> QED BY <1>1, <1>3, <1>4

\* Adding a range leaves free ranges, each below its end (free_ranges_remove_view).
LEMMA JoinTyped ==
  ASSUME NEW ranges \in Seq(Ranges), NEW i \in DOMAIN ranges, NEW w,
         w.base \in Int, w.end \in Int, w.base < w.end
  PROVE  JoinAt(ranges, i, w) \in Seq(Ranges)
<1> DEFINE below == ranges[i].end = w.base
           above == IF below THEN i < Len(ranges) /\ ranges[i + 1].base = w.end
                             ELSE ranges[i].base = w.end
           k == IF below THEN i + 1 ELSE i
           new == Span(IF below THEN ranges[i].base ELSE w.base,
                       IF above THEN ranges[k].end ELSE w.end)
           j == i + (IF below THEN 1 ELSE 0) + (IF above THEN 1 ELSE 0)
<1>1. i \in 1 .. Len(ranges) /\ Len(ranges) \in Nat /\ \A n \in 1 .. Len(ranges) : ranges[n] \in Ranges
  OBVIOUS
<1>2. (above => k \in 1 .. Len(ranges)) /\ j \in i .. (Len(ranges) + 1)
  BY <1>1
<1>3. new \in Ranges
  <2> DEFINE b == IF below THEN ranges[i].base ELSE w.base
             e == IF above THEN ranges[k].end ELSE w.end
  <2>1. b \in Int /\ b <= w.base
    BY <1>1 DEF Ranges
  <2>2. e \in Int /\ w.end <= e
    <3>1. CASE above
      <4>1. ranges[k].base = w.end /\ ranges[k] \in Ranges
        BY <1>2, <3>1, <1>1
      <4> QED BY <4>1, <3>1 DEF Ranges
    <3>2. CASE ~above
      BY <3>2
    <3> QED BY <3>1, <3>2
  <2> HIDE DEF b, e
  <2>3. Span(b, e) \in Ranges
    BY <2>1, <2>2 DEF Span, Ranges
  <2> QED BY <2>3 DEF b, e
<1>4. JoinAt(ranges, i, w) = SubSeq(ranges, 1, i - 1) \o <<new>> \o SubSeq(ranges, j, Len(ranges))
  BY DEF JoinAt
<1> HIDE DEF new, j
<1>5. <<new>> \in Seq(Ranges)
  BY <1>3
<1> QED BY <1>2, <1>4, <1>5, Splice

\* free_ranges_remove_view changes nothing but the free ranges, or an assertion fails.
LEMMA FreeTyped ==
  ASSUME NEW s \in States, NEW i, NEW w, w.base \in Int, w.end \in Int
  PROVE  Only(FreeAt(s, i, w), s, s.views)
<1>1. CASE w.end <= w.base \/ (Found(s.free, i, w.base) /\ s.free[i].base <= w.base /\ s.free[i].end >= w.end)
  BY <1>1 DEF FreeAt, Only
<1>2. CASE /\ ~(w.end <= w.base \/ (Found(s.free, i, w.base) /\ s.free[i].base <= w.base /\ s.free[i].end >= w.end))
           /\ ~Found(s.free, i, w.base) \/ Overlap(s.free[i], w)
  <2>1. FreeAt(s, i, w) = [s EXCEPT !.ok = FALSE]
    BY <1>2 DEF FreeAt
  <2> QED BY <2>1 DEF Only, States
<1>3. CASE /\ ~(w.end <= w.base \/ (Found(s.free, i, w.base) /\ s.free[i].base <= w.base /\ s.free[i].end >= w.end))
           /\ ~(~Found(s.free, i, w.base) \/ Overlap(s.free[i], w))
  <2>1. FreeAt(s, i, w) = [s EXCEPT !.free = JoinAt(@, i, w)]
    BY <1>3 DEF FreeAt
  <2>2. JoinAt(s.free, i, w) \in Seq(Ranges)
    BY <1>3, JoinTyped DEF Found, States
  <2> QED BY <2>1, <2>2 DEF Only, States
<1> QED BY <1>1, <1>2, <1>3

\* Unregistering a view removes it, and no host mapping or reserved area changes.
LEMMA Unregisters ==
  ASSUME NEW s \in States, NEW v \in ViewSet
  PROVE  Only(Unregister(s, v), s, s.views \ {v})
<1> DEFINE b == FreedFrom(s, v)
           e == FreedTo(s, v, b)
           t == RemoveView(s, v)
<1>1. s.views \subseteq ViewSet
  BY DEF States
<1>2. \A u \in ViewSet : Granules(u).base \in Int /\ Granules(u).end \in Int
  BY GranulesTyped DEF ViewSet
<1>3. b \in Int
  <2>1. Prev(s, v) \subseteq ViewSet
    BY <1>1 DEF Prev
  <2>2. Prev(s, v) # {} => (CHOOSE u \in Prev(s, v) : TRUE) \in ViewSet
    BY <2>1
  <2> QED BY <1>2, <2>2 DEF FreedFrom
<1> HIDE DEF b
<1>4. e \in Int
  <2>1. Succ(s, v) \subseteq ViewSet
    BY <1>1 DEF Succ
  <2>2. Succ(s, v) # {} => (CHOOSE u \in Succ(s, v) : TRUE) \in ViewSet
    BY <2>1
  <2> QED BY <1>2, <2>2 DEF FreedTo
<1> HIDE DEF e
<1>5. Span(b, e).base \in Int /\ Span(b, e).end \in Int
  BY <1>3, <1>4 DEF Span
<1>6. t = FreeAt(s, LowerBound(s.free, Granules(v).base), Span(b, e))
  BY DEF RemoveView, b, e
<1>7. Only(t, s, s.views)
  BY <1>5, <1>6, FreeTyped
<1> HIDE DEF t
<1>8. Unregister(s, v) = [t EXCEPT !.views = @ \ {v}]
  BY DEF Unregister, t
<1> QED BY <1>7, <1>8 DEF Only, States

----------------------------------------------------------------------------
(* Unregistering all of a finite set, one after the other.                  *)

One(r) == CHOOSE x \in r : TRUE
Folded(g, s, r) == IF r = {} THEN s ELSE Unregister(g[r \ {One(r)}], One(r))
Folds(g, s, some) == g = [r \in SUBSET some |-> Folded(g, s, r)]

\* A set without one of its elements has one element less.
LEMMA Fewer ==
  ASSUME NEW some, IsFiniteSet(some), NEW r \in SUBSET some, r # {}
  PROVE  /\ One(r) \in r /\ r \ {One(r)} \in SUBSET some
         /\ Cardinality(r) \in Nat /\ Cardinality(r \ {One(r)}) \in Nat
         /\ Cardinality(r \ {One(r)}) = Cardinality(r) - 1
<1>1. One(r) \in r
  BY DEF One
<1>2. IsFiniteSet(r) /\ IsFiniteSet(r \ {One(r)})
  BY FS_Subset
<1> QED BY <1>1, <1>2, FS_CardinalityType, FS_RemoveElement

\* The function by which a fold is defined exists: there is one that is right for the subsets of
\* at most n views, for every n.
LEMMA FoldExists ==
  ASSUME NEW s, NEW some, IsFiniteSet(some)
  PROVE  \E g : Folds(g, s, some)
<1> DEFINE Right(g, n) == \A r \in SUBSET some : Cardinality(r) <= n => g[r] = Folded(g, s, r)
           T == {n \in Nat : ~\E g : Right(g, n)}
<1>1. T = {}
  <2>1. SUFFICES ASSUME T # {} PROVE FALSE
    OBVIOUS
  <2>2. PICK m \in T : \A n \in T : m <= n
    BY <2>1, LeastNatural
  <2>3. CASE m = 0
    <3> DEFINE g == [r \in SUBSET some |-> s]
    <3>1. ASSUME NEW r \in SUBSET some, Cardinality(r) <= 0 PROVE g[r] = Folded(g, s, r)
      <4>1. r = {}
        <5>1. IsFiniteSet(r) /\ Cardinality(r) \in Nat
          BY FS_Subset, FS_CardinalityType
        <5>2. Cardinality(r) = 0
          BY <3>1, <5>1
        <5> QED BY <5>1, <5>2, FS_EmptySet
      <4> QED BY <4>1 DEF Folded
    <3>2. Right(g, 0)
      BY <3>1
    <3> QED BY <2>2, <2>3, <3>2
  <2>4. CASE m # 0
    <3>1. m - 1 \in Nat /\ m - 1 \notin T
      BY <2>2, <2>4
    <3>2. PICK g : Right(g, m - 1)
      BY <3>1
    <3> DEFINE h == [r \in SUBSET some |-> Folded(g, s, r)]
    <3>3. ASSUME NEW r \in SUBSET some, Cardinality(r) <= m PROVE h[r] = Folded(h, s, r)
      <4>1. CASE r = {}
        BY <4>1 DEF Folded
      <4>2. CASE r # {}
        <5> DEFINE q == r \ {One(r)}
        <5>1. q \in SUBSET some /\ Cardinality(q) \in Nat /\ Cardinality(q) <= m - 1
          BY <3>1, <3>3, <4>2, Fewer
        <5>2. g[q] = Folded(g, s, q) /\ h[q] = Folded(g, s, q)
          BY <3>2, <5>1
        <5>3. h[r] = Unregister(g[q], One(r)) /\ Folded(h, s, r) = Unregister(h[q], One(r))
          BY <4>2 DEF Folded
        <5> QED BY <5>2, <5>3
      <4> QED BY <4>1, <4>2
    <3>4. Right(h, m)
      BY <3>3
    <3> QED BY <2>2, <3>4
  <2> QED BY <2>3, <2>4
<1>2. Cardinality(some) \in Nat
  BY FS_CardinalityType
<1>3. PICK g : Right(g, Cardinality(some))
  BY <1>1, <1>2
<1>4. \A r \in SUBSET some : g[r] = Folded(g, s, r)
  <2>1. TAKE r \in SUBSET some
  <2>2. Cardinality(r) <= Cardinality(some)
    BY FS_Subset
  <2> QED BY <1>3, <2>2
<1> DEFINE h == [r \in SUBSET some |-> g[r]]
<1>5. \A r \in SUBSET some : h[r] = Folded(h, s, r)
  <2>1. TAKE r \in SUBSET some
  <2>2. CASE r = {}
    BY <1>4, <2>2 DEF Folded
  <2>3. CASE r # {}
    <3>1. r \ {One(r)} \in SUBSET some
      BY <2>3, Fewer
    <3>2. h[r \ {One(r)}] = g[r \ {One(r)}]
      BY <3>1
    <3>3. h[r] = Folded(g, s, r)
      BY <1>4
    <3> QED BY <2>3, <3>2, <3>3 DEF Folded
  <2> QED BY <2>2, <2>3
<1>6. h = [r \in SUBSET some |-> Folded(h, s, r)]
  BY <1>5
<1> QED BY <1>6 DEF Folds

\* Unregistering all of a finite set removes them and changes no host mapping or area.
LEMMA UnregistersAll ==
  ASSUME NEW s \in States, NEW some \in SUBSET ViewSet, IsFiniteSet(some)
  PROVE  Only(UnregisterAll(s, some), s, s.views \ some)
<1>1. UnregisterAll(s, some) = (CHOOSE g : Folds(g, s, some))[some]
  BY DEF UnregisterAll, FoldSet, MapThenFoldSet, Folds, Folded, One
<1> DEFINE g == CHOOSE g : Folds(g, s, some)
<1>2. Folds(g, s, some)
  BY FoldExists
<1> HIDE DEF g
<1>3. \A r \in SUBSET some : g[r] = Folded(g, s, r)
  BY <1>2 DEF Folds
<1> DEFINE Bad == {r \in SUBSET some : ~Only(g[r], s, s.views \ r)}
           T == {Cardinality(r) : r \in Bad}
<1>4. Bad = {}
  <2>1. SUFFICES ASSUME Bad # {} PROVE FALSE
    OBVIOUS
  <2>2. T \in SUBSET Nat /\ T # {}
    <3>1. \A r \in Bad : IsFiniteSet(r)
      BY FS_Subset
    <3>2. \A r \in Bad : Cardinality(r) \in Nat
      BY <3>1, FS_CardinalityType
    <3> HIDE DEF Bad
    <3> QED BY <2>1, <3>2
  <2>3. PICK m \in T : \A n \in T : m <= n
    BY <2>2, LeastNatural
  <2>4. PICK r \in Bad : Cardinality(r) = m
    OBVIOUS
  <2>5. CASE r = {}
    BY <2>4, <2>5, <1>3 DEF Folded, Only
  <2>6. CASE r # {}
    <3> DEFINE q == r \ {One(r)}
    <3>1. /\ One(r) \in r /\ q \in SUBSET some
          /\ Cardinality(r) \in Nat /\ Cardinality(q) \in Nat /\ Cardinality(q) = Cardinality(r) - 1
      BY <2>4, <2>6, Fewer
    <3>2. q \notin Bad
      <4>1. SUFFICES ASSUME q \in Bad PROVE FALSE
        OBVIOUS
      <4>2. Cardinality(q) \in T
        BY <4>1
      <4>3. m <= Cardinality(q)
        BY <2>3, <4>2
      <4> QED BY <2>4, <3>1, <4>3
    <3>3. Only(g[q], s, s.views \ q)
      BY <3>1, <3>2
    <3>4. g[r] = Unregister(g[q], One(r))
      BY <2>4, <2>6, <1>3 DEF Folded
    <3>5. Only(g[r], g[q], g[q].views \ {One(r)})
      <4>1. g[q] \in States /\ One(r) \in ViewSet
        BY <2>4, <3>1, <3>3 DEF Only
      <4> QED BY <3>4, <4>1, Unregisters
    <3>6. (s.views \ q) \ {One(r)} = s.views \ r
      BY <3>1
    <3>7. Only(g[r], s, s.views \ r)
      BY <3>3, <3>5, <3>6 DEF Only
    <3> QED BY <2>4, <3>7
  <2> QED BY <2>5, <2>6
<1> QED BY <1>1, <1>4 DEF g

----------------------------------------------------------------------------
(* What must be true of a state that an operation begins or ends with.      *)

UserLimits == {UserLimit, SpaceLimit}
OwnPage(s, p) == \E v \in s.views : ~System(v) /\ p \in PagesOf(v)
Apart(s) == \A v, w \in s.views : v # w => ~Overlap(v, w)
Exact(s) == \A p \in 0 .. (SpaceLimit - 1) :
              /\ s.mem[p] = "view" <=> OwnPage(s, p)
              /\ s.mem[p] = "held" <=> ~OwnPage(s, p) /\ Reserves(s.areas, p)
Aligned(c) == c % Granule = 0 \/ c >= UserLimit
\* Areas below the first bound are aligned, and once it is raised there are no others.
AreasOK(areas, bound) == \A a \in areas : /\ Aligned(a.base) /\ Aligned(a.end)
                                          /\ bound # UserLimit => a.end <= UserLimit
\* Where a system view lies nothing is reserved.
SystemOK(s) == \A v \in s.views : System(v) => \A p \in PagesOf(v) : ~Reserves(s.areas, p)

Good(s, bound) == /\ s \in States /\ IsFiniteSet(s.views)
                  /\ Apart(s) /\ Exact(s) /\ AreasOK(s.areas, bound) /\ SystemOK(s)

\* The numbers that SpaceAssumption is about.
LEMMA Numbers == /\ SpaceStart \in Nat /\ UserLimit \in Nat /\ SpaceLimit \in Nat
                 /\ 0 < SpaceStart /\ SpaceStart < UserLimit /\ UserLimit <= SpaceLimit
                 /\ UserLimit % Granule = 0 /\ SpaceLimit % Granule = 0 /\ Granule \in Nat \ {0}
BY SpaceAssumption

\* mmap_add_reserved_area reserves the area and nothing else, and keeps areas aligned.
LEMMA AddsArea ==
  ASSUME NEW areas \in SUBSET Areas, NEW w \in Areas, NEW bound \in UserLimits, w.base >= bound
  PROVE  /\ AddArea(areas, w) \in SUBSET Areas
         /\ \A p \in Int : Reserves(AddArea(areas, w), p) <=> Reserves(areas, p) \/ p \in PagesOf(w)
         /\ AreasOK(areas, bound) /\ w.base < w.end => AreasOK(AddArea(areas, w), bound)
<1> DEFINE touching == {a \in areas : a.base <= w.end /\ a.end >= w.base}
           h == Hull(w, touching)
<1>1. AddArea(areas, w) = (areas \ touching) \cup {h}
  BY DEF AddArea
<1>2. /\ w.base \in Nat /\ w.end \in Nat /\ w.base <= w.end /\ w.end <= SpaceLimit
      /\ \A x \in touching : /\ x.base \in Nat /\ x.end \in Nat /\ x.end <= SpaceLimit
                             /\ x.base <= x.end /\ x.base <= w.end /\ w.base <= x.end
  BY DEF Areas
<1>3. /\ h \in Areas
      /\ h.base \in {w.base} \cup {x.base : x \in touching}
      /\ h.end \in {w.end} \cup {x.end : x \in touching}
      /\ \A p \in Int : p \in PagesOf(h) <=> p \in PagesOf(w) \/ \E x \in touching : p \in PagesOf(x)
  <2> HIDE DEF touching
  <2> QED BY <1>2, HullIsUnion
<1> HIDE DEF h
<1>4. \A p \in Int : Reserves(AddArea(areas, w), p) <=> Reserves(areas, p) \/ p \in PagesOf(w)
  BY <1>1, <1>3 DEF Reserves
<1>5. ASSUME AreasOK(areas, bound), w.base < w.end PROVE AreasOK(AddArea(areas, w), bound)
  <2>1. bound = UserLimit
    BY <1>5, <1>2, Numbers DEF UserLimits
  <2>2. Aligned(w.base) /\ Aligned(w.end)
    BY <2>1, <1>2, Numbers DEF Aligned
  <2>3. \A x \in areas : Aligned(x.base) /\ Aligned(x.end)
    BY <1>5 DEF AreasOK
  <2>4. Aligned(h.base) /\ Aligned(h.end)
    BY <1>3, <2>2, <2>3
  <2> QED BY <1>1, <2>1, <2>3, <2>4 DEF AreasOK
<1> QED BY <1>1, <1>3, <1>4, <1>5

\* mmap_remove_reserved_area takes just the area out, and keeps areas aligned.
LEMMA RemovesArea ==
  ASSUME NEW areas \in SUBSET Areas, NEW w, w.base \in Nat, w.end \in Nat, w.base < w.end
  PROVE  /\ RemoveArea(areas, w) \in SUBSET Areas
         /\ \A p \in Int : Reserves(RemoveArea(areas, w), p) <=> Reserves(areas, p) /\ p \notin PagesOf(w)
         /\ \A bound : AreasOK(areas, bound) /\ Aligned(w.base) /\ Aligned(w.end)
                           => AreasOK(RemoveArea(areas, w), bound)
         /\ AreasOK(areas, UserLimit) /\ w.base = UserLimit /\ w.end = SpaceLimit
              => AreasOK(RemoveArea(areas, w), SpaceLimit)
<1> DEFINE lo(a) == Span(a.base, Least(a.end, Most(w.base, a.base)))
           hi(a) == Span(Most(a.base, Least(w.end, a.end)), a.end)
<1>1. RemoveArea(areas, w) = {x \in {lo(a) : a \in areas} \cup {hi(a) : a \in areas} : NotEmpty(x)}
  BY DEF RemoveArea
<1>2. ASSUME NEW a \in areas
      PROVE  /\ lo(a).base = a.base /\ lo(a).end = (IF a.end < w.base THEN a.end ELSE IF w.base < a.base THEN a.base ELSE w.base)
             /\ hi(a).end = a.end /\ hi(a).base = (IF w.end < a.base THEN a.base ELSE IF w.end < a.end THEN w.end ELSE a.end)
             /\ lo(a) \in Areas /\ hi(a) \in Areas
  <2>1. a.base \in Nat /\ a.end \in Nat /\ a.base <= a.end /\ a.end <= SpaceLimit
    BY DEF Areas
  <2> DEFINE e == Least(a.end, Most(w.base, a.base))
             b == Most(a.base, Least(w.end, a.end))
  <2>2. e = (IF a.end < w.base THEN a.end ELSE IF w.base < a.base THEN a.base ELSE w.base)
    BY <2>1 DEF Least, Most
  <2>3. b = (IF w.end < a.base THEN a.base ELSE IF w.end < a.end THEN w.end ELSE a.end)
    BY <2>1 DEF Least, Most
  <2>4. e \in Nat /\ a.base <= e /\ e <= SpaceLimit /\ b \in Nat /\ b <= a.end
    BY <2>1, <2>2, <2>3, Numbers
  <2> HIDE DEF e, b
  <2>5. lo(a) = [base |-> a.base, end |-> e] /\ hi(a) = [base |-> b, end |-> a.end]
    BY DEF Span, e, b
  <2> HIDE DEF lo, hi
  <2> QED BY <2>1, <2>2, <2>3, <2>4, <2>5 DEF Areas
<1> HIDE DEF lo, hi
<1>3. RemoveArea(areas, w) \in SUBSET Areas
  BY <1>1, <1>2
<1>4. ASSUME NEW p \in Int
      PROVE  Reserves(RemoveArea(areas, w), p) <=> Reserves(areas, p) /\ p \notin PagesOf(w)
  <2>1. ASSUME NEW a \in areas
        PROVE  p \in PagesOf(lo(a)) \/ p \in PagesOf(hi(a)) <=> p \in PagesOf(a) /\ p \notin PagesOf(w)
    BY <1>2, <2>1 DEF PagesOf, Areas
  <2>2. \A x \in Areas : p \in PagesOf(x) => NotEmpty(x)
    BY DEF PagesOf, NotEmpty, Areas
  <2>3. ASSUME NEW a \in areas, p \in PagesOf(a), p \notin PagesOf(w)
        PROVE  \E x \in RemoveArea(areas, w) : p \in PagesOf(x)
    BY <1>1, <1>2, <2>1, <2>2, <2>3
  <2>4. ASSUME NEW x \in RemoveArea(areas, w), p \in PagesOf(x)
        PROVE  p \notin PagesOf(w) /\ \E a \in areas : p \in PagesOf(a)
    BY <1>1, <2>1, <2>4
  <2> QED BY <2>3, <2>4 DEF Reserves
<1>5. ASSUME NEW bound, AreasOK(areas, bound), Aligned(w.base), Aligned(w.end)
      PROVE  AreasOK(RemoveArea(areas, w), bound)
  <2>1. ASSUME NEW a \in areas
        PROVE  /\ Aligned(lo(a).base) /\ Aligned(lo(a).end) /\ Aligned(hi(a).base) /\ Aligned(hi(a).end)
               /\ NotEmpty(lo(a)) => lo(a).end <= a.end
               /\ hi(a).end <= a.end
    <3>1. Aligned(a.base) /\ Aligned(a.end) /\ a.end \in Nat /\ a.base \in Nat
      BY <1>5 DEF AreasOK, Areas
    <3> QED BY <3>1, <1>2, <1>5 DEF NotEmpty
  <2>2. ASSUME NEW x \in RemoveArea(areas, w)
        PROVE  Aligned(x.base) /\ Aligned(x.end) /\ \E a \in areas : x.end <= a.end
    BY <1>1, <2>1
  <2>3. \A x \in RemoveArea(areas, w) : x.end \in Nat
    BY <1>3 DEF Areas
  <2>4. \A x \in areas : x.end \in Nat /\ (bound # UserLimit => x.end <= UserLimit)
    BY <1>5 DEF Areas, AreasOK
  <2> QED BY <2>2, <2>3, <2>4, Numbers DEF AreasOK
<1>6. ASSUME AreasOK(areas, UserLimit), w.base = UserLimit, w.end = SpaceLimit
      PROVE  AreasOK(RemoveArea(areas, w), SpaceLimit)
  <2>1. Aligned(w.base) /\ Aligned(w.end)
    BY <1>6, Numbers DEF Aligned
  <2>2. AreasOK(RemoveArea(areas, w), UserLimit)
    BY <1>5, <1>6, <2>1
  <2>3. ASSUME NEW a \in areas
        PROVE  /\ NotEmpty(lo(a)) => lo(a).end <= UserLimit
               /\ ~NotEmpty(hi(a))
    BY <1>2, <1>6, Numbers DEF NotEmpty, Areas
  <2>4. \A x \in RemoveArea(areas, w) : x.end <= UserLimit
    BY <1>1, <2>3
  <2> QED BY <2>2, <2>4 DEF AreasOK
<1> QED BY <1>3, <1>4, <1>5, <1>6

\* Unmapping an area keeps what is reserved, and reserves what is above the bound.
LEMMA Unmaps ==
  ASSUME NEW s \in States, NEW w, w.base \in Nat, w.end \in Nat, w.base <= w.end, w.end <= SpaceLimit,
         user_space_limit \in UserLimits
  PROVE  LET t == UnmapArea(s, w) IN
         /\ t \in States /\ t.views = s.views /\ t.ok = s.ok
         /\ \A p \in Int : Reserves(t.areas, p) <=>
              Reserves(s.areas, p) \/ (p \in PagesOf(w) /\ p >= user_space_limit)
         /\ \A p \in 0 .. (SpaceLimit - 1) :
              t.mem[p] = IF p \notin PagesOf(w) THEN s.mem[p]
                         ELSE IF Reserves(t.areas, p) THEN "held" ELSE "none"
         /\ AreasOK(s.areas, user_space_limit) => AreasOK(t.areas, user_space_limit)
<1> DEFINE above == Span(Most(w.base, user_space_limit), w.end)
           areas == IF NotEmpty(above) THEN AddArea(s.areas, above) ELSE s.areas
           m == [p \in DOMAIN s.mem |-> IF p \notin PagesOf(w) THEN s.mem[p]
                                        ELSE IF Reserves(areas, p) THEN "held" ELSE "none"]
           t == UnmapArea(s, w)
<1>1. t = [s EXCEPT !.areas = areas, !.mem = m]
  BY DEF UnmapArea
<1>2. user_space_limit \in Nat /\ s.areas \in SUBSET Areas
  BY Numbers DEF UserLimits, States
<1>3. /\ above.base = (IF w.base < user_space_limit THEN user_space_limit ELSE w.base)
      /\ above.end = w.end /\ above.base \in Nat
      /\ NotEmpty(above) => above \in Areas /\ above.base >= user_space_limit /\ above.base < above.end
  BY <1>2 DEF Span, Most, NotEmpty, Areas
<1>4. /\ areas \in SUBSET Areas
      /\ \A p \in Int : Reserves(areas, p) <=>
              Reserves(s.areas, p) \/ (p \in PagesOf(w) /\ p >= user_space_limit)
      /\ AreasOK(s.areas, user_space_limit) => AreasOK(areas, user_space_limit)
  <2>1. \A p \in Int : p \in PagesOf(above) <=> p \in PagesOf(w) /\ p >= user_space_limit
    BY <1>2, <1>3 DEF PagesOf
  <2>2. CASE NotEmpty(above)
    <3> HIDE DEF above
    <3>1. /\ AddArea(s.areas, above) \in SUBSET Areas
          /\ \A p \in Int : Reserves(AddArea(s.areas, above), p) <=> Reserves(s.areas, p) \/ p \in PagesOf(above)
          /\ AreasOK(s.areas, user_space_limit) => AreasOK(AddArea(s.areas, above), user_space_limit)
      BY <1>2, <1>3, <2>2, AddsArea
    <3>2. areas = AddArea(s.areas, above)
      BY <2>2
    <3> HIDE DEF areas
    <3>3. \A p \in Int : Reserves(areas, p) <=> Reserves(s.areas, p) \/ p \in PagesOf(above)
      BY <3>1, <3>2
    <3>4. \A p \in Int : Reserves(areas, p) <=>
              Reserves(s.areas, p) \/ (p \in PagesOf(w) /\ p >= user_space_limit)
      BY <2>1, <3>3
    <3>5. areas \in SUBSET Areas /\ (AreasOK(s.areas, user_space_limit) => AreasOK(areas, user_space_limit))
      BY <3>1, <3>2
    <3> QED BY <3>4, <3>5
  <2>3. CASE ~NotEmpty(above)
    <3>1. \A p \in Int : p \notin PagesOf(above)
      BY <2>3, <1>2, <1>3 DEF NotEmpty, PagesOf
    <3>2. areas = s.areas
      BY <2>3
    <3> HIDE DEF areas, above
    <3>3. \A p \in Int : Reserves(areas, p) <=>
              Reserves(s.areas, p) \/ (p \in PagesOf(w) /\ p >= user_space_limit)
      BY <2>1, <3>1, <3>2
    <3>4. areas \in SUBSET Areas /\ (AreasOK(s.areas, user_space_limit) => AreasOK(areas, user_space_limit))
      BY <1>2, <3>2
    <3> QED BY <3>3, <3>4
  <2> QED BY <2>2, <2>3
<1> HIDE DEF areas, above
<1>5. s.mem \in [0 .. (SpaceLimit - 1) -> {"none", "held", "view", "native"}]
  BY DEF States
<1>6. /\ m \in [0 .. (SpaceLimit - 1) -> {"none", "held", "view", "native"}]
      /\ \A p \in 0 .. (SpaceLimit - 1) :
            m[p] = IF p \notin PagesOf(w) THEN s.mem[p] ELSE IF Reserves(areas, p) THEN "held" ELSE "none"
  BY <1>5
<1> HIDE DEF m
<1>7. t \in States /\ t.views = s.views /\ t.ok = s.ok /\ t.areas = areas /\ t.mem = m
  BY <1>1, <1>4, <1>6 DEF States
<1> QED BY <1>4, <1>6, <1>7

----------------------------------------------------------------------------
(* Dropping and making views.                                               *)

Typed(s) == s \in States /\ IsFiniteSet(s.views)

\* t comes from s, with its assertions, and has the same areas and host mappings.
Follows(t, s) == /\ Typed(t) /\ t.areas = s.areas /\ t.mem = s.mem /\ (t.ok => s.ok)

\* A page that two views have shows that they overlap.
LEMMA Shared ==
  ASSUME NEW v \in ViewSet, NEW w \in ViewSet, NEW p \in PagesOf(v), p \in PagesOf(w)
  PROVE  Overlap(v, w)
BY DEF PagesOf, Overlap, ViewSet

\* A step that changes only the views keeps what the next step needs.
LEMMA OnlyFollows ==
  ASSUME NEW s, Typed(s), NEW t, NEW vs, Only(t, s, vs), IsFiniteSet(vs)
  PROVE  Follows(t, s) /\ t.views = vs
BY DEF Only, Typed, Follows

\* What one view less means for the pages.
LEMMA Drops ==
  ASSUME NEW s, Typed(s), Apart(s), NEW v \in s.views, NEW t, Only(t, s, s.views \ {v})
  PROVE  /\ Follows(t, s) /\ t.views = s.views \ {v} /\ Apart(t)
         /\ \A p \in Int : OwnPage(t, p) <=> OwnPage(s, p) /\ ~(~System(v) /\ p \in PagesOf(v))
<1>1. IsFiniteSet(s.views \ {v})
  BY FS_RemoveElement DEF Typed
<1>2. Follows(t, s) /\ t.views = s.views \ {v}
  BY <1>1, OnlyFollows
<1>3. Apart(t)
  BY <1>2 DEF Apart
<1>4. s.views \subseteq ViewSet
  BY DEF Typed, States
<1>5. ASSUME NEW p \in Int
      PROVE  OwnPage(t, p) <=> OwnPage(s, p) /\ ~(~System(v) /\ p \in PagesOf(v))
  <2>1. ASSUME NEW u \in s.views, p \in PagesOf(u), p \in PagesOf(v) PROVE u = v
    BY <2>1, <1>4, Shared DEF Apart
  <2> QED BY <2>1, <1>2 DEF OwnPage
<1> QED BY <1>2, <1>3, <1>5

\* System views that are forgotten leave every page what it is.
LEMMA DropsSystem ==
  ASSUME NEW s, Typed(s), Apart(s), NEW some \in SUBSET s.views, \A v \in some : System(v)
  PROVE  LET t == UnregisterAll(s, some) IN
         /\ Follows(t, s) /\ t.views = s.views \ some /\ Apart(t)
         /\ \A p \in Int : OwnPage(t, p) <=> OwnPage(s, p)
<1> DEFINE t == UnregisterAll(s, some)
<1>1. IsFiniteSet(some) /\ some \in SUBSET ViewSet /\ IsFiniteSet(s.views \ some) /\ s \in States
  BY FS_Subset, FS_Difference DEF Typed, States
<1>2. Only(t, s, s.views \ some)
  BY <1>1, UnregistersAll
<1> HIDE DEF t
<1>3. Follows(t, s) /\ t.views = s.views \ some
  BY <1>1, <1>2, OnlyFollows
<1>4. Apart(t)
  BY <1>3 DEF Apart
<1>5. \A p \in Int : OwnPage(t, p) <=> OwnPage(s, p)
  BY <1>3 DEF OwnPage
<1> QED BY <1>3, <1>4, <1>5 DEF t

\* What one view more means for them.
LEMMA Adds ==
  ASSUME NEW s, Typed(s), Apart(s), NEW v \in ViewSet, \A u \in s.views : u # v => ~Overlap(u, v)
  PROVE  LET t == Register(s, v) IN
         /\ Follows(t, s) /\ t.views = s.views \cup {v} /\ Apart(t)
         /\ \A p \in Int : OwnPage(t, p) <=> OwnPage(s, p) \/ (~System(v) /\ p \in PagesOf(v))
<1> DEFINE t == Register(s, v)
<1>1. IsFiniteSet(s.views \cup {v}) /\ s \in States
  BY FS_AddElement DEF Typed
<1>2. Only(t, s, s.views \cup {v})
  BY <1>1, Registers
<1> HIDE DEF t
<1>3. Follows(t, s) /\ t.views = s.views \cup {v}
  BY <1>1, <1>2, OnlyFollows
<1>4. Apart(t)
  BY <1>3 DEF Apart, Overlap
<1>5. \A p \in Int : OwnPage(t, p) <=> OwnPage(s, p) \/ (~System(v) /\ p \in PagesOf(v))
  BY <1>3 DEF OwnPage
<1> QED BY <1>3, <1>4, <1>5 DEF t

\* A view that is made takes the place of system views only, or an assertion fails.
LEMMA CreatesView ==
  ASSUME NEW s, Typed(s), Apart(s), NEW v \in ViewSet
  PROVE  LET t == CreateView(s, v) IN
         /\ Follows(t, s)
         /\ t.ok => /\ Apart(t) /\ t.views \subseteq s.views \cup {v}
                    /\ \A p \in Int : OwnPage(t, p) <=> OwnPage(s, p) \/ (~System(v) /\ p \in PagesOf(v))
<1> DEFINE others == {u \in s.views : Overlap(u, v)}
           t == CreateView(s, v)
           d == UnregisterAll(s, others)
<1>1. CASE \A u \in others : System(u)
  <2>1. others \in SUBSET s.views
    OBVIOUS
  <2> HIDE DEF others
  <2>2. /\ Follows(d, s) /\ d.views = s.views \ others /\ Apart(d)
        /\ \A p \in Int : OwnPage(d, p) <=> OwnPage(s, p)
    BY <1>1, <2>1, DropsSystem
  <2>3. t = Register(d, v)
    BY <1>1 DEF CreateView, others
  <2>4. \A u \in d.views : ~Overlap(u, v)
    BY <2>2 DEF others
  <2> HIDE DEF d
  <2>5. /\ Follows(t, d) /\ t.views = d.views \cup {v} /\ Apart(t)
        /\ \A p \in Int : OwnPage(t, p) <=> OwnPage(d, p) \/ (~System(v) /\ p \in PagesOf(v))
    <3>1. Typed(d)
      BY <2>2 DEF Follows
    <3> QED BY <2>2, <2>3, <2>4, <3>1, Adds
  <2> HIDE DEF t
  <2>6. Follows(t, s) /\ t.views \subseteq s.views \cup {v}
    BY <2>2, <2>5 DEF Follows
  <2> QED BY <2>2, <2>5, <2>6 DEF t
<1>2. CASE ~\A u \in others : System(u)
  <2>1. t = [s EXCEPT !.ok = FALSE]
    BY <1>2 DEF CreateView
  <2>2. Follows(t, s) /\ ~t.ok
    BY <2>1 DEF Follows, Typed, States
  <2> HIDE DEF t
  <2> QED BY <2>2 DEF t
<1> QED BY <1>1, <1>2

----------------------------------------------------------------------------
(* The operations on views.                                                 *)

\* A page of an own view is mapped as one, and no other is.
LEMMA OwnPages ==
  ASSUME NEW s, NEW bound, Good(s, bound), NEW p \in 0 .. (SpaceLimit - 1)
  PROVE  /\ s.mem[p] = "view" <=> OwnPage(s, p)
         /\ s.mem[p] = "held" <=> ~OwnPage(s, p) /\ Reserves(s.areas, p)
BY DEF Good, Exact

\* The host maps an area, and nothing else changes.
LEMMA Maps ==
  ASSUME NEW s, Typed(s), NEW w, NEW how \in Hows
  PROVE  LET t == Mapped(s, w, how) IN
         /\ Typed(t) /\ t.views = s.views /\ t.areas = s.areas /\ t.ok = s.ok /\ t.free = s.free
         /\ \A p \in 0 .. (SpaceLimit - 1) : t.mem[p] = IF p \in PagesOf(w) THEN how ELSE s.mem[p]
<1> DEFINE m == [p \in DOMAIN s.mem |-> IF p \in PagesOf(w) THEN how ELSE s.mem[p]]
           t == Mapped(s, w, how)
<1>1. t = [s EXCEPT !.mem = m]
  BY DEF Mapped
<1>2. s.mem \in [0 .. (SpaceLimit - 1) -> {"none", "held", "view", "native"}]
  BY DEF Typed, States
<1>3. /\ m \in [0 .. (SpaceLimit - 1) -> {"none", "held", "view", "native"}]
      /\ \A p \in 0 .. (SpaceLimit - 1) : m[p] = IF p \in PagesOf(w) THEN how ELSE s.mem[p]
  BY <1>2 DEF Hows
<1> HIDE DEF m
<1> QED BY <1>1, <1>3 DEF Typed, States

\* A deleted view is unmapped, unless it is a system view.
LEMMA DeletesView ==
  ASSUME NEW s, user_space_limit \in UserLimits, Good(s, user_space_limit), NEW v \in s.views
  PROVE  LET t == DeleteView(s, v) IN
         /\ Good(t, user_space_limit) /\ (t.ok => s.ok) /\ t.views = s.views \ {v}
         /\ System(v) => t.areas = s.areas
<1> DEFINE t == DeleteView(s, v)
           d == IF System(v) THEN s ELSE UnmapArea(s, v)
<1>1. s \in States /\ Typed(s) /\ Apart(s) /\ v \in ViewSet /\ s.views \subseteq ViewSet
  BY DEF Good, Typed, States
<1>2. t = Unregister(d, v)
  BY DEF DeleteView
<1>3. CASE System(v)
  <2>1. Only(t, s, s.views \ {v})
    BY <1>1, <1>2, <1>3, Unregisters
  <2> HIDE DEF t
  <2>2. /\ Follows(t, s) /\ t.views = s.views \ {v} /\ Apart(t)
        /\ \A p \in Int : OwnPage(t, p) <=> OwnPage(s, p) /\ ~(~System(v) /\ p \in PagesOf(v))
    BY <1>1, <2>1, Drops
  <2>3. Exact(t)
    BY <1>3, <2>2, OwnPages DEF Exact, Follows
  <2>4. AreasOK(t.areas, user_space_limit) /\ SystemOK(t)
    BY <2>2 DEF Follows, Good, SystemOK
  <2> QED BY <2>2, <2>3, <2>4 DEF Good, Follows, Typed, t
<1>4. CASE ~System(v)
  <2>1. v.base \in Nat /\ v.end \in Nat /\ v.base <= v.end /\ v.end <= SpaceLimit
    BY <1>1 DEF ViewSet
  <2>2. /\ d \in States /\ d.views = s.views /\ d.ok = s.ok
        /\ \A p \in Int : Reserves(d.areas, p) <=>
              Reserves(s.areas, p) \/ (p \in PagesOf(v) /\ p >= user_space_limit)
        /\ \A p \in 0 .. (SpaceLimit - 1) :
             d.mem[p] = IF p \notin PagesOf(v) THEN s.mem[p]
                        ELSE IF Reserves(d.areas, p) THEN "held" ELSE "none"
        /\ AreasOK(s.areas, user_space_limit) => AreasOK(d.areas, user_space_limit)
    BY <1>1, <1>4, <2>1, Unmaps
  <2> HIDE DEF d
  <2>3. Typed(d) /\ Apart(d)
    BY <1>1, <2>2 DEF Typed, Apart
  <2>4. Only(t, d, d.views \ {v})
    BY <1>1, <1>2, <2>2, Unregisters
  <2> HIDE DEF t
  <2>5. /\ Follows(t, d) /\ t.views = d.views \ {v} /\ Apart(t)
        /\ \A p \in Int : OwnPage(t, p) <=> OwnPage(d, p) /\ ~(~System(v) /\ p \in PagesOf(v))
    BY <2>2, <2>3, <2>4, Drops
  <2>6. \A p \in Int : OwnPage(d, p) <=> OwnPage(s, p)
    BY <2>2 DEF OwnPage
  <2>7. Exact(t)
    <3>1. SUFFICES ASSUME NEW p \in 0 .. (SpaceLimit - 1)
                   PROVE  /\ t.mem[p] = "view" <=> OwnPage(t, p)
                          /\ t.mem[p] = "held" <=> ~OwnPage(t, p) /\ Reserves(t.areas, p)
      BY DEF Exact
    <3>2. p \in Int /\ t.mem = d.mem /\ t.areas = d.areas
      BY <2>5 DEF Follows
    <3>3. CASE p \in PagesOf(v)
      BY <3>2, <3>3, <1>4, <2>2, <2>5
    <3>4. CASE p \notin PagesOf(v)
      BY <3>2, <3>4, <2>2, <2>5, <2>6, OwnPages
    <3> QED BY <3>3, <3>4
  <2>8. AreasOK(t.areas, user_space_limit)
    BY <2>2, <2>5 DEF Follows, Good
  <2>9. SystemOK(t)
    <3>1. SUFFICES ASSUME NEW u \in t.views, System(u), NEW p \in PagesOf(u) PROVE ~Reserves(t.areas, p)
      BY DEF SystemOK
    <3>2. u \in s.views /\ u # v /\ u \in ViewSet /\ p \in Int
      BY <1>1, <2>2, <2>5 DEF ViewSet, PagesOf
    <3>3. p \notin PagesOf(v)
      BY <3>2, <1>1, Shared DEF Apart
    <3>4. ~Reserves(s.areas, p)
      BY <3>1, <3>2 DEF Good, SystemOK
    <3> QED BY <2>2, <2>5, <3>2, <3>3, <3>4 DEF Follows
  <2> QED BY <1>4, <2>2, <2>5, <2>7, <2>8, <2>9 DEF Good, Follows, Typed, t
<1> QED BY <1>3, <1>4

\* A rest of a view is registered like it, unless nothing is left.
LEMMA Keeps ==
  ASSUME NEW s, Typed(s), Apart(s), NEW x, x.base \in Nat, x.end \in Nat, x.end <= SpaceLimit,
         NEW kind \in Kinds, \A u \in s.views : ~Overlap(u, x)
  PROVE  LET t == IF NotEmpty(x) THEN Register(s, View(x, kind)) ELSE s IN
         /\ Follows(t, s) /\ Apart(t) /\ t.views \subseteq s.views \cup {View(x, kind)}
         /\ \A p \in Int : OwnPage(t, p) <=> OwnPage(s, p) \/ (~System(View(x, kind)) /\ p \in PagesOf(x))
<1> DEFINE t == IF NotEmpty(x) THEN Register(s, View(x, kind)) ELSE s
           v == View(x, kind)
<1>1. CASE NotEmpty(x)
  <2>1. v \in ViewSet
    BY <1>1 DEF View, ViewSet, NotEmpty
  <2>2. \A u \in s.views : ~Overlap(u, v)
    BY DEF Overlap, View
  <2>3. PagesOf(v) = PagesOf(x)
    BY DEF PagesOf, View
  <2>4. t = Register(s, v)
    BY <1>1
  <2> HIDE DEF t, v
  <2>5. /\ Follows(t, s) /\ t.views = s.views \cup {v} /\ Apart(t)
        /\ \A p \in Int : OwnPage(t, p) <=> OwnPage(s, p) \/ (~System(v) /\ p \in PagesOf(v))
    BY <2>1, <2>2, <2>4, Adds
  <2> QED BY <2>3, <2>5 DEF t, v
<1>2. CASE ~NotEmpty(x)
  <2>1. t = s
    BY <1>2
  <2>2. \A p \in Int : p \notin PagesOf(x)
    BY <1>2 DEF NotEmpty, PagesOf
  <2> QED BY <2>1, <2>2 DEF Follows
<1> QED BY <1>1, <1>2

\* When pages leave a view the rest of its pages stay views.
LEMMA RemovesPages ==
  ASSUME NEW s, Typed(s), Apart(s), NEW v \in s.views, ~System(v),
         NEW w, w.base \in Nat, w.end \in Nat, v.base <= w.base, w.base < w.end, w.end <= v.end
  PROVE  LET t == RemovePages(s, v, w) IN
         /\ Follows(t, s) /\ Apart(t) /\ \A u \in t.views : System(u) => u \in s.views
         /\ \A p \in Int : OwnPage(t, p) <=> OwnPage(s, p) /\ p \notin PagesOf(w)
<1> DEFINE lo == Span(v.base, w.base)
           hi == Span(w.end, v.end)
           d == Unregister(s, v)
           c == IF NotEmpty(lo) THEN Register(d, View(lo, v.kind)) ELSE d
           t == IF NotEmpty(hi) THEN Register(c, View(hi, v.kind)) ELSE c
<1>1. t = RemovePages(s, v, w)
  BY DEF RemovePages
<1>2. /\ s \in States /\ s.views \subseteq ViewSet /\ v \in ViewSet /\ v.kind \in Kinds
      /\ v.base \in Nat /\ v.end \in Nat /\ v.end <= SpaceLimit /\ v.base < v.end
  BY DEF Typed, States, ViewSet
<1>3. lo.base = v.base /\ lo.end = w.base /\ hi.base = w.end /\ hi.end = v.end
  BY DEF Span
<1>4. SpaceLimit \in Nat
  BY Numbers
<1> HIDE DEF lo, hi
<1>5. Only(d, s, s.views \ {v})
  BY <1>2, Unregisters
<1> HIDE DEF d
<1>6. /\ Follows(d, s) /\ d.views = s.views \ {v} /\ Apart(d)
      /\ \A p \in Int : OwnPage(d, p) <=> OwnPage(s, p) /\ p \notin PagesOf(v)
  BY <1>5, Drops
<1>7. \A u \in d.views : u \in ViewSet /\ ~Overlap(u, v)
  BY <1>2, <1>6 DEF Apart
<1>8. /\ Follows(c, d) /\ Apart(c) /\ c.views \subseteq d.views \cup {View(lo, v.kind)}
      /\ \A p \in Int : OwnPage(c, p) <=> OwnPage(d, p) \/ p \in PagesOf(lo)
  <2>1. \A u \in d.views : ~Overlap(u, lo)
    BY <1>2, <1>3, <1>7 DEF Overlap, ViewSet
  <2>2. Typed(d) /\ lo.base \in Nat /\ lo.end \in Nat /\ lo.end <= SpaceLimit
    BY <1>2, <1>3, <1>4, <1>6 DEF Follows
  <2>3. ~System(View(lo, v.kind))
    BY DEF System, View
  <2> QED BY <1>2, <1>6, <2>1, <2>2, <2>3, Keeps
<1> HIDE DEF c
<1>9. /\ Follows(t, c) /\ Apart(t) /\ t.views \subseteq c.views \cup {View(hi, v.kind)}
      /\ \A p \in Int : OwnPage(t, p) <=> OwnPage(c, p) \/ p \in PagesOf(hi)
  <2>1. \A u \in d.views : ~Overlap(u, hi)
    BY <1>2, <1>3, <1>7 DEF Overlap, ViewSet
  <2>2. ~Overlap(View(lo, v.kind), hi)
    BY <1>2, <1>3 DEF Overlap, View
  <2>3. \A u \in c.views : ~Overlap(u, hi)
    BY <1>8, <2>1, <2>2
  <2>4. Typed(c) /\ hi.base \in Nat /\ hi.end \in Nat /\ hi.end <= SpaceLimit
    BY <1>2, <1>3, <1>8 DEF Follows
  <2>5. ~System(View(hi, v.kind))
    BY DEF System, View
  <2> QED BY <1>2, <1>8, <2>3, <2>4, <2>5, Keeps
<1> HIDE DEF t
<1>10. Follows(t, s)
  BY <1>6, <1>8, <1>9 DEF Follows
<1>11. \A u \in t.views : System(u) => u \in s.views
  <2>1. ~System(View(lo, v.kind)) /\ ~System(View(hi, v.kind))
    BY DEF System, View
  <2> QED BY <1>6, <1>8, <1>9, <2>1
<1>12. ASSUME NEW p \in Int PROVE OwnPage(t, p) <=> OwnPage(s, p) /\ p \notin PagesOf(w)
  <2>1. p \in PagesOf(v) => OwnPage(s, p)
    BY DEF OwnPage
  <2>2. p \in PagesOf(lo) \/ p \in PagesOf(hi) <=> p \in PagesOf(v) /\ p \notin PagesOf(w)
    BY <1>2, <1>3 DEF PagesOf
  <2>3. p \in PagesOf(w) => p \in PagesOf(v)
    BY <1>2 DEF PagesOf
  <2> QED BY <1>6, <1>8, <1>9, <2>1, <2>2, <2>3
<1> QED BY <1>1, <1>9, <1>10, <1>11, <1>12

\* The pieces of a view of the program are freed with what they map.
LEMMA UnmapsPiece ==
  ASSUME NEW s, user_space_limit \in UserLimits, Good(s, user_space_limit), NEW v \in s.views, ~System(v),
         NEW w, w.base \in Nat, w.end \in Nat, v.base <= w.base, w.base < w.end, w.end <= v.end
  PROVE  LET t == UnmapArea(RemovePages(s, v, w), w) IN
         Good(t, user_space_limit) /\ (t.ok => s.ok)
<1> DEFINE c == RemovePages(s, v, w)
           t == UnmapArea(c, w)
<1>1. /\ s \in States /\ Typed(s) /\ Apart(s) /\ v \in ViewSet /\ s.views \subseteq ViewSet
      /\ v.end <= SpaceLimit /\ v.base \in Nat /\ v.end \in Nat
  BY DEF Good, Typed, States, ViewSet
<1>2. /\ Follows(c, s) /\ Apart(c) /\ \A u \in c.views : System(u) => u \in s.views
      /\ \A p \in Int : OwnPage(c, p) <=> OwnPage(s, p) /\ p \notin PagesOf(w)
  BY <1>1, RemovesPages
<1> HIDE DEF c
<1>3. c \in States /\ w.base <= w.end /\ w.end <= SpaceLimit
  BY <1>1, <1>2, Numbers DEF Follows, Typed
<1>4. /\ t \in States /\ t.views = c.views /\ t.ok = c.ok
      /\ \A p \in Int : Reserves(t.areas, p) <=>
            Reserves(c.areas, p) \/ (p \in PagesOf(w) /\ p >= user_space_limit)
      /\ \A p \in 0 .. (SpaceLimit - 1) :
           t.mem[p] = IF p \notin PagesOf(w) THEN c.mem[p]
                      ELSE IF Reserves(t.areas, p) THEN "held" ELSE "none"
      /\ AreasOK(c.areas, user_space_limit) => AreasOK(t.areas, user_space_limit)
  BY <1>3, Unmaps
<1> HIDE DEF t
<1>5. c.areas = s.areas /\ c.mem = s.mem
  BY <1>2 DEF Follows
<1>6. \A p \in Int : OwnPage(t, p) <=> OwnPage(s, p) /\ p \notin PagesOf(w)
  BY <1>2, <1>4 DEF OwnPage
<1>7. Exact(t)
  <2>1. SUFFICES ASSUME NEW p \in 0 .. (SpaceLimit - 1)
                 PROVE  /\ t.mem[p] = "view" <=> OwnPage(t, p)
                        /\ t.mem[p] = "held" <=> ~OwnPage(t, p) /\ Reserves(t.areas, p)
    BY DEF Exact
  <2>2. p \in Int
    OBVIOUS
  <2>3. CASE p \in PagesOf(w)
    BY <2>2, <2>3, <1>4, <1>6
  <2>4. CASE p \notin PagesOf(w)
    BY <2>2, <2>4, <1>4, <1>5, <1>6, OwnPages
  <2> QED BY <2>3, <2>4
<1>8. AreasOK(t.areas, user_space_limit)
  BY <1>4, <1>5 DEF Good
<1>9. SystemOK(t)
  <2>1. SUFFICES ASSUME NEW u \in t.views, System(u), NEW p \in PagesOf(u) PROVE ~Reserves(t.areas, p)
    BY DEF SystemOK
  <2>2. u \in s.views /\ u # v /\ u \in ViewSet /\ p \in Int
    BY <1>1, <1>2, <1>4, <2>1 DEF ViewSet, PagesOf
  <2>3. p \notin PagesOf(v)
    BY <2>2, <1>1, Shared DEF Apart
  <2>4. p \notin PagesOf(w)
    BY <2>2, <2>3, <1>1 DEF PagesOf
  <2>5. ~Reserves(s.areas, p)
    BY <2>1, <2>2 DEF Good, SystemOK
  <2> QED BY <1>4, <1>5, <2>2, <2>4, <2>5
<1>10. Apart(t) /\ IsFiniteSet(t.views) /\ (t.ok => s.ok)
  BY <1>2, <1>4 DEF Apart, Follows, Typed
<1> QED BY <1>4, <1>7, <1>8, <1>9, <1>10 DEF Good, t, c

\* A view of the program is made where the host has just mapped it.
LEMMA MakesView ==
  ASSUME NEW s, NEW bound \in UserLimits, Good(s, bound), NEW w, NEW kind \in Kinds, ~System(View(w, kind)),
         w.base \in Nat, w.end \in Nat, w.base < w.end, w.end <= SpaceLimit
  PROVE  LET t == CreateView(Mapped(s, w, "view"), View(w, kind)) IN
         /\ Typed(t) /\ (t.ok => s.ok /\ Good(t, bound))
<1> DEFINE m == Mapped(s, w, "view")
           v == View(w, kind)
           t == CreateView(m, v)
<1>1. Typed(s) /\ Apart(s)
  BY DEF Good, Typed
<1>2. v \in ViewSet /\ PagesOf(v) = PagesOf(w)
  BY DEF View, ViewSet, PagesOf
<1> HIDE DEF v
<1>3. /\ Typed(m) /\ m.views = s.views /\ m.areas = s.areas /\ m.ok = s.ok
      /\ \A p \in 0 .. (SpaceLimit - 1) : m.mem[p] = IF p \in PagesOf(w) THEN "view" ELSE s.mem[p]
  BY <1>1, Maps DEF Hows
<1> HIDE DEF m
<1>4. Apart(m) /\ \A p \in Int : OwnPage(m, p) <=> OwnPage(s, p)
  BY <1>1, <1>3 DEF Apart, OwnPage
<1>5. /\ Follows(t, m)
      /\ t.ok => /\ Apart(t) /\ t.views \subseteq m.views \cup {v}
                 /\ \A p \in Int : OwnPage(t, p) <=> OwnPage(m, p) \/ (~System(v) /\ p \in PagesOf(v))
  BY <1>2, <1>3, <1>4, CreatesView
<1> HIDE DEF t
<1>6. ASSUME t.ok PROVE Good(t, bound)
  <2>1. Exact(t)
    <3>1. SUFFICES ASSUME NEW p \in 0 .. (SpaceLimit - 1)
                   PROVE  /\ t.mem[p] = "view" <=> OwnPage(t, p)
                          /\ t.mem[p] = "held" <=> ~OwnPage(t, p) /\ Reserves(t.areas, p)
      BY DEF Exact
    <3>2. p \in Int /\ t.mem = m.mem /\ t.areas = s.areas
      BY <1>3, <1>5 DEF Follows
    <3>3. OwnPage(t, p) <=> OwnPage(s, p) \/ p \in PagesOf(w)
      BY <1>2, <1>4, <1>5, <1>6, <3>2 DEF v
    <3>4. CASE p \in PagesOf(w)
      BY <3>2, <3>3, <3>4, <1>3
    <3>5. CASE p \notin PagesOf(w)
      BY <3>2, <3>3, <3>5, <1>3, OwnPages
    <3> QED BY <3>4, <3>5
  <2>2. AreasOK(t.areas, bound)
    BY <1>3, <1>5 DEF Follows, Good
  <2>3. SystemOK(t)
    BY <1>3, <1>5, <1>6 DEF Follows, Good, SystemOK, v
  <2> QED BY <1>5, <1>6, <2>1, <2>2, <2>3 DEF Good, Follows, Typed
<1> QED BY <1>3, <1>5, <1>6 DEF Follows, t, v, m

\* The pages of a view of the program become a placeholder, and are mapped anew.
LEMMA MakesHole ==
  ASSUME NEW s, NEW bound \in UserLimits, Good(s, bound), NEW v \in s.views, ~System(v),
         NEW w, w.base \in Nat, w.end \in Nat, v.base <= w.base, w.base < w.end, w.end <= v.end
  PROVE  LET t == Mapped(CreateView(RemovePages(s, v, w), View(w, "hole")), w, "view") IN
         /\ Typed(t) /\ (t.ok => s.ok /\ Good(t, bound))
<1> DEFINE c == RemovePages(s, v, w)
           h == View(w, "hole")
           d == CreateView(c, h)
           t == Mapped(d, w, "view")
<1>1. /\ Typed(s) /\ Apart(s) /\ v \in ViewSet /\ v.end <= SpaceLimit /\ v.end \in Nat /\ v.base \in Nat
  BY DEF Good, Typed, States, ViewSet
<1>2. h \in ViewSet /\ PagesOf(h) = PagesOf(w) /\ ~System(h)
  <2>1. w.end <= SpaceLimit
    BY <1>1, Numbers
  <2>2. "hole" \in Kinds
    BY DEF Kinds
  <2>3. h \in ViewSet /\ PagesOf(h) = PagesOf(w)
    BY <2>1, <2>2 DEF View, ViewSet, PagesOf
  <2> QED BY <2>3 DEF View, System
<1> HIDE DEF h
<1>3. /\ Follows(c, s) /\ Apart(c) /\ \A u \in c.views : System(u) => u \in s.views
      /\ \A p \in Int : OwnPage(c, p) <=> OwnPage(s, p) /\ p \notin PagesOf(w)
  BY <1>1, RemovesPages
<1> HIDE DEF c
<1>4. /\ Follows(d, c)
      /\ d.ok => /\ Apart(d) /\ d.views \subseteq c.views \cup {h}
                 /\ \A p \in Int : OwnPage(d, p) <=> OwnPage(c, p) \/ (~System(h) /\ p \in PagesOf(h))
  <2>1. Typed(c)
    BY <1>3 DEF Follows
  <2> QED BY <1>2, <1>3, <2>1, CreatesView
<1> HIDE DEF d
<1>5. /\ Typed(t) /\ t.views = d.views /\ t.areas = d.areas /\ t.ok = d.ok
      /\ \A p \in 0 .. (SpaceLimit - 1) : t.mem[p] = IF p \in PagesOf(w) THEN "view" ELSE d.mem[p]
  <2>1. Typed(d)
    BY <1>4 DEF Follows
  <2>2. "view" \in Hows
    BY DEF Hows
  <2> QED BY <2>1, <2>2, Maps
<1> HIDE DEF t
<1>6. d.areas = s.areas /\ d.mem = s.mem /\ (t.ok => s.ok)
  BY <1>3, <1>4, <1>5 DEF Follows
<1>7. ASSUME t.ok PROVE Good(t, bound)
  <2>1. Exact(t)
    <3>1. SUFFICES ASSUME NEW p \in 0 .. (SpaceLimit - 1)
                   PROVE  /\ t.mem[p] = "view" <=> OwnPage(t, p)
                          /\ t.mem[p] = "held" <=> ~OwnPage(t, p) /\ Reserves(t.areas, p)
      BY DEF Exact
    <3>2. p \in Int /\ t.areas = s.areas
      BY <1>5, <1>6
    <3>3. OwnPage(t, p) <=> OwnPage(d, p)
      BY <1>5 DEF OwnPage
    <3>4. OwnPage(t, p) <=> OwnPage(s, p) \/ p \in PagesOf(w)
      BY <1>2, <1>3, <1>4, <1>5, <1>7, <3>2, <3>3
    <3>5. CASE p \in PagesOf(w)
      BY <3>2, <3>4, <3>5, <1>5
    <3>6. CASE p \notin PagesOf(w)
      BY <3>2, <3>4, <3>6, <1>5, <1>6, OwnPages
    <3> QED BY <3>5, <3>6
  <2>2. AreasOK(t.areas, bound)
    BY <1>5, <1>6 DEF Good
  <2>3. SystemOK(t)
    BY <1>2, <1>3, <1>4, <1>5, <1>6, <1>7 DEF Good, SystemOK
  <2>4. Apart(t)
    BY <1>4, <1>5, <1>7 DEF Apart
  <2> QED BY <1>5, <2>1, <2>2, <2>3, <2>4 DEF Good, Typed
<1> QED BY <1>5, <1>6, <1>7 DEF t, d, c, h

\* A view of the program that becomes one of another kind has its pages still.
LEMMA ChangesKind ==
  ASSUME NEW s, NEW bound, Good(s, bound), NEW v \in s.views, ~System(v),
         NEW kind \in Kinds, ~System(View(v, kind))
  PROVE  Good([s EXCEPT !.views = (@ \ {v}) \cup {View(v, kind)}], bound)
<1> DEFINE u == View(v, kind)
           t == [s EXCEPT !.views = (@ \ {v}) \cup {u}]
<1>1. /\ s \in States /\ IsFiniteSet(s.views) /\ Apart(s) /\ v \in ViewSet /\ s.views \subseteq ViewSet
      /\ AreasOK(s.areas, bound) /\ SystemOK(s)
  BY DEF Good, States
<1>2. u \in ViewSet /\ u.base = v.base /\ u.end = v.end /\ PagesOf(u) = PagesOf(v)
  BY <1>1 DEF View, ViewSet, PagesOf
<1>3. IsFiniteSet((s.views \ {v}) \cup {u})
  BY <1>1, FS_RemoveElement, FS_AddElement
<1> HIDE DEF u
<1>4. t \in States /\ t.views = (s.views \ {v}) \cup {u} /\ t.areas = s.areas /\ t.mem = s.mem
  BY <1>1, <1>2 DEF States
<1> HIDE DEF t
<1>5. Apart(t)
  BY <1>1, <1>2, <1>4 DEF Apart, Overlap
<1>6. \A p \in Int : OwnPage(t, p) <=> OwnPage(s, p)
  <2>1. TAKE p \in Int
  <2>2. OwnPage(t, p) <=> \/ \E x \in s.views \ {v} : ~System(x) /\ p \in PagesOf(x)
                          \/ p \in PagesOf(v)
    BY <1>2, <1>4 DEF OwnPage, u
  <2> QED BY <2>2 DEF OwnPage
<1>7. Exact(t)
  BY <1>4, <1>6, OwnPages DEF Exact
<1>8. SystemOK(t)
  BY <1>1, <1>4 DEF SystemOK, u
<1>9. AreasOK(t.areas, bound)
  BY <1>1, <1>4
<1> QED BY <1>3, <1>4, <1>5, <1>7, <1>8, <1>9 DEF Good, t, u

\* Pages of a view of the program may be mapped anew.
LEMMA MapsOwn ==
  ASSUME NEW s, NEW bound, Good(s, bound), NEW v \in s.views, ~System(v), NEW w,
         \A p : p \in PagesOf(w) => p \in PagesOf(v)
  PROVE  LET t == Mapped(s, w, "view") IN Good(t, bound) /\ t.ok = s.ok
<1> DEFINE t == Mapped(s, w, "view")
<1>1. Typed(s)
  BY DEF Good, Typed
<1>2. /\ Typed(t) /\ t.views = s.views /\ t.areas = s.areas /\ t.ok = s.ok
      /\ \A p \in 0 .. (SpaceLimit - 1) : t.mem[p] = IF p \in PagesOf(w) THEN "view" ELSE s.mem[p]
  <2>1. "view" \in Hows
    BY DEF Hows
  <2> QED BY <1>1, <2>1, Maps
<1> HIDE DEF t
<1>3. ASSUME NEW p \in 0 .. (SpaceLimit - 1)
      PROVE  /\ t.mem[p] = "view" <=> OwnPage(t, p)
             /\ t.mem[p] = "held" <=> ~OwnPage(t, p) /\ Reserves(t.areas, p)
  <2>1. OwnPage(t, p) <=> OwnPage(s, p)
    BY <1>2 DEF OwnPage
  <2>2. p \in PagesOf(w) => OwnPage(s, p)
    BY DEF OwnPage
  <2> QED BY <1>2, <2>1, <2>2, OwnPages
<1>4. Exact(t)
  BY <1>3 DEF Exact
<1> QED BY <1>2, <1>4 DEF Good, Typed, Apart, SystemOK, t

\* What is not a view and not reserved is mapped by libraries as they like.
LEMMA MapsForeign ==
  ASSUME NEW s, NEW bound, Good(s, bound), NEW w, NEW how \in {"none", "native"},
         \A p \in 0 .. (SpaceLimit - 1) : p \in PagesOf(w) => s.mem[p] \notin {"view", "held"}
  PROVE  LET t == Mapped(s, w, how) IN Good(t, bound) /\ t.ok = s.ok
<1> DEFINE t == Mapped(s, w, how)
<1>1. Typed(s)
  BY DEF Good, Typed
<1>2. /\ Typed(t) /\ t.views = s.views /\ t.areas = s.areas /\ t.ok = s.ok
      /\ \A p \in 0 .. (SpaceLimit - 1) : t.mem[p] = IF p \in PagesOf(w) THEN how ELSE s.mem[p]
  <2>1. how \in Hows
    BY DEF Hows
  <2> QED BY <1>1, <2>1, Maps
<1> HIDE DEF t
<1>3. ASSUME NEW p \in 0 .. (SpaceLimit - 1)
      PROVE  /\ t.mem[p] = "view" <=> OwnPage(t, p)
             /\ t.mem[p] = "held" <=> ~OwnPage(t, p) /\ Reserves(t.areas, p)
  <2>1. OwnPage(t, p) <=> OwnPage(s, p)
    BY <1>2 DEF OwnPage
  <2>2. CASE p \in PagesOf(w)
    <3>1. ~OwnPage(s, p) /\ ~Reserves(s.areas, p)
      BY <2>2, OwnPages
    <3> QED BY <1>2, <2>1, <2>2, <3>1
  <2>3. CASE p \notin PagesOf(w)
    BY <1>2, <2>1, <2>3, OwnPages
  <2> QED BY <2>2, <2>3
<1>4. Exact(t)
  BY <1>3 DEF Exact
<1> QED BY <1>2, <1>4 DEF Good, Typed, Apart, SystemOK, t

\* A system view may be made where nothing is reserved.
LEMMA MakesSystem ==
  ASSUME NEW s, NEW bound, Good(s, bound), NEW v \in ViewSet, System(v), \A p \in PagesOf(v) : ~Reserves(s.areas, p)
  PROVE  LET t == CreateView(s, v) IN Typed(t) /\ (t.ok => s.ok /\ Good(t, bound))
<1> DEFINE t == CreateView(s, v)
<1>1. Typed(s) /\ Apart(s)
  BY DEF Good, Typed
<1>2. /\ Follows(t, s)
      /\ t.ok => /\ Apart(t) /\ t.views \subseteq s.views \cup {v}
                 /\ \A p \in Int : OwnPage(t, p) <=> OwnPage(s, p) \/ (~System(v) /\ p \in PagesOf(v))
  BY <1>1, CreatesView
<1> HIDE DEF t
<1>3. ASSUME t.ok PROVE Good(t, bound)
  <2>1. Exact(t)
    BY <1>2, <1>3, OwnPages DEF Exact, Follows
  <2>2. AreasOK(t.areas, bound)
    BY <1>2 DEF Follows, Good
  <2>3. SystemOK(t)
    BY <1>2, <1>3 DEF Follows, Good, SystemOK
  <2> QED BY <1>2, <1>3, <2>1, <2>2, <2>3 DEF Good, Follows, Typed
<1> QED BY <1>2, <1>3 DEF Follows, t

\* Forgetting system views keeps a good state good.
LEMMA ForgetsSystem ==
  ASSUME NEW s, NEW bound, Good(s, bound), NEW some \in SUBSET s.views, \A v \in some : System(v)
  PROVE  LET t == UnregisterAll(s, some) IN
         Good(t, bound) /\ (t.ok => s.ok) /\ t.areas = s.areas /\ t.mem = s.mem /\ t.views = s.views \ some
<1> DEFINE t == UnregisterAll(s, some)
<1>1. Typed(s) /\ Apart(s)
  BY DEF Good, Typed
<1>2. /\ Follows(t, s) /\ t.views = s.views \ some /\ Apart(t)
      /\ \A p \in Int : OwnPage(t, p) <=> OwnPage(s, p)
  BY <1>1, DropsSystem
<1> HIDE DEF t
<1>3. Exact(t)
  BY <1>2, OwnPages DEF Exact, Follows
<1>4. SystemOK(t) /\ AreasOK(t.areas, bound)
  BY <1>2 DEF Follows, Good, SystemOK
<1> QED BY <1>2, <1>3, <1>4 DEF Good, Follows, Typed, t

\* What is released is no longer reserved, and is unmapped where it was only held.
LEMMA Releases ==
  ASSUME NEW s, NEW bound, Good(s, bound), NEW w, w.base \in Nat, w.end \in Nat, w.base < w.end
  PROVE  LET t == Released(s, w) IN
         /\ t.ok = s.ok
         /\ Aligned(w.base) /\ Aligned(w.end) => Good(t, bound)
         /\ bound = UserLimit /\ w.base = UserLimit /\ w.end = SpaceLimit => Good(t, SpaceLimit)
<1> DEFINE freed == {p \in PagesOf(w) : Reserves(s.areas, p) /\ At(s, p) = {}}
           areas == RemoveArea(s.areas, w)
           m == [p \in DOMAIN s.mem |-> IF p \in freed THEN "none" ELSE s.mem[p]]
           t == Released(s, w)
<1>1. t = [s EXCEPT !.areas = areas, !.mem = m]
  BY DEF Released
<1>2. /\ s \in States /\ s.areas \in SUBSET Areas /\ s.views \subseteq ViewSet /\ SystemOK(s) /\ Apart(s)
      /\ s.mem \in [0 .. (SpaceLimit - 1) -> {"none", "held", "view", "native"}]
      /\ IsFiniteSet(s.views) /\ AreasOK(s.areas, bound)
  BY DEF Good, States
<1>3. /\ areas \in SUBSET Areas
      /\ \A p \in Int : Reserves(areas, p) <=> Reserves(s.areas, p) /\ p \notin PagesOf(w)
      /\ Aligned(w.base) /\ Aligned(w.end) => AreasOK(areas, bound)
      /\ bound = UserLimit /\ w.base = UserLimit /\ w.end = SpaceLimit => AreasOK(areas, SpaceLimit)
  BY <1>2, RemovesArea
<1> HIDE DEF areas
<1>4. /\ m \in [0 .. (SpaceLimit - 1) -> {"none", "held", "view", "native"}]
      /\ \A p \in 0 .. (SpaceLimit - 1) : m[p] = IF p \in freed THEN "none" ELSE s.mem[p]
  BY <1>2
<1> HIDE DEF m
<1>5. t \in States /\ t.views = s.views /\ t.ok = s.ok /\ t.areas = areas /\ t.mem = m
  BY <1>1, <1>2, <1>3, <1>4 DEF States
<1> HIDE DEF t
<1>6. Exact(t)
  <2>1. SUFFICES ASSUME NEW p \in 0 .. (SpaceLimit - 1)
                 PROVE  /\ t.mem[p] = "view" <=> OwnPage(t, p)
                        /\ t.mem[p] = "held" <=> ~OwnPage(t, p) /\ Reserves(t.areas, p)
    BY DEF Exact
  <2>2. OwnPage(t, p) <=> OwnPage(s, p)
    BY <1>5 DEF OwnPage
  <2>3. p \in freed <=> p \in PagesOf(w) /\ Reserves(s.areas, p) /\ ~OwnPage(s, p)
    BY <1>2 DEF At, OwnPage, SystemOK
  <2> HIDE DEF freed
  <2>4. CASE p \in freed
    BY <2>2, <2>3, <2>4, <1>3, <1>4, <1>5
  <2>5. CASE p \notin freed
    BY <2>2, <2>3, <2>5, <1>3, <1>4, <1>5, OwnPages
  <2> QED BY <2>4, <2>5
<1>7. SystemOK(t)
  <2>1. \A v \in s.views : \A p \in PagesOf(v) : p \in Int
    BY <1>2 DEF PagesOf, ViewSet
  <2> QED BY <2>1, <1>2, <1>3, <1>5 DEF SystemOK
<1>8. Apart(t) /\ IsFiniteSet(t.views)
  BY <1>2, <1>5 DEF Apart
<1> QED BY <1>3, <1>5, <1>6, <1>7, <1>8 DEF Good, t

----------------------------------------------------------------------------
(* The search for a place.                                                  *)

\* A part of a range is reserved as a whole or not at all.
LEMMA PartsUniform ==
  ASSUME NEW s \in States, NEW w, w.base \in Nat, w.end \in Nat, w.base < w.end, NEW x \in Parts(s, w)
  PROVE  /\ x.base \in Nat /\ x.end \in Nat /\ w.base <= x.base /\ x.base < x.end /\ x.end <= w.end
         /\ \A p \in PagesOf(x) : Reserves(s.areas, p) <=> Reserves(s.areas, x.base)
<1> DEFINE ends == UNION {{a.base, a.end} : a \in s.areas}
           cuts == {w.base, w.end} \cup {c \in ends : w.base < c /\ c < w.end}
<1>1. Parts(s, w) = {y \in {Span(b, e) : b, e \in cuts} : NotEmpty(y) /\ \A c \in cuts : c <= y.base \/ y.end <= c}
  BY DEF Parts
<1>2. s.areas \in SUBSET Areas
  BY DEF States
<1>3. \A c \in cuts : c \in Nat /\ w.base <= c /\ c <= w.end
  BY <1>2 DEF Areas
<1>4. \A a \in s.areas : /\ w.base < a.base /\ a.base < w.end => a.base \in cuts
                         /\ w.base < a.end /\ a.end < w.end => a.end \in cuts
  OBVIOUS
<1> HIDE DEF cuts
<1>5. PICK b \in cuts, e \in cuts : x = Span(b, e)
  BY <1>1
<1>6. x.base = b /\ x.end = e /\ x.base < x.end /\ \A c \in cuts : c <= x.base \/ x.end <= c
  BY <1>1, <1>5 DEF Span, NotEmpty
<1>7. x.base \in Nat /\ x.end \in Nat /\ w.base <= x.base /\ x.end <= w.end
  BY <1>3, <1>5, <1>6
<1>8. ASSUME NEW p \in PagesOf(x), NEW a \in s.areas
      PROVE  p \in PagesOf(a) <=> x.base \in PagesOf(a)
  <2>1. a.base \in Nat /\ a.end \in Nat
    BY <1>2 DEF Areas
  <2>2. (a.base <= x.base \/ x.end <= a.base) /\ (a.end <= x.base \/ x.end <= a.end)
    BY <2>1, <1>4, <1>6, <1>7
  <2> QED BY <2>1, <2>2, <1>6, <1>7 DEF PagesOf
<1> QED BY <1>6, <1>7, <1>8 DEF Reserves

\* The windows of the search are below the bound.
LEMMA WindowsTyped ==
  ASSUME NEW s \in States, NEW q \in Requests, user_space_limit \in UserLimits, NEW n \in DOMAIN Windows(s, q)
  PROVE  /\ n[1] \in Nat /\ n[2] \in Nat
         /\ Windows(s, q)[n].base \in Nat /\ Windows(s, q)[n].end \in Int
         /\ Windows(s, q)[n].end <= user_space_limit
<1> DEFINE low == Most(q.low, SpaceStart)
           high == Least(q.high, user_space_limit)
           i == IF q.top THEN Len(s.free) + 1 - n[1] ELSE n[1]
           r == Span(Most(s.free[i].base, low), Least(s.free[i].end, high))
<1>1. q.low \in Nat /\ q.high \in Nat /\ q.top \in BOOLEAN
  BY RequestsAssumption
<1>2. Preload.base \in Nat /\ Preload.end \in Nat
  BY RequestsAssumption
<1>3. user_space_limit \in Nat /\ SpaceStart \in Nat
  BY Numbers DEF UserLimits
<1>4. low \in Nat /\ high \in Nat /\ high <= user_space_limit
  BY <1>1, <1>3 DEF Most, Least
<1>5. n \in (DOMAIN s.free) \X {1, 2}
  BY DEF Windows
<1>6. s.free \in Seq(Ranges) /\ n[1] \in 1 .. Len(s.free) /\ n[2] \in {1, 2}
  BY <1>5 DEF States
<1>7. i \in 1 .. Len(s.free)
  BY <1>6
<1> HIDE DEF i
<1>8. s.free[i].base \in Int /\ s.free[i].end \in Int
  BY <1>6, <1>7 DEF Ranges
<1> HIDE DEF low, high
<1>9. r.base \in Nat /\ r.end \in Int /\ r.end <= user_space_limit
  BY <1>3, <1>4, <1>8 DEF Span, Most, Least
<1>10. Windows(s, q)[n] = IF n[2] = 1 THEN Span(r.base, Least(r.end, Preload.base))
                          ELSE Span(Most(r.base, Preload.end), r.end)
  BY <1>5 DEF Windows, low, high, i
<1> HIDE DEF r
<1> QED BY <1>2, <1>3, <1>6, <1>9, <1>10 DEF Span, Most, Least

\* What a try promises: it lies below the bound, and where it is not held, neither its place nor
\* the step that is left out after a failure is reserved.
Inside(s, q, t) ==
  /\ t.at.at \in Nat /\ t.at.nth \in Nat
  /\ t.at.at + q.size <= user_space_limit
  /\ Least(q.align, t.room) \in Nat \ {0}
  /\ t.at.at + Least(q.align, t.room) <= user_space_limit
  /\ ~t.held => \A p \in PagesOf(Span(t.at.at, t.at.at + Least(q.align, t.room))) : ~Reserves(s.areas, p)

\* Every start of a part leaves room for the request in it.
LEMMA StartsInside ==
  ASSUME NEW s \in States, NEW q \in Requests, NEW double, NEW x, x.base \in Nat, x.end \in Nat,
         x.base < x.end, NEW t \in Starts(s, x, q, double)
  PROVE  /\ t.at \in Nat /\ x.base <= t.at /\ t.at + q.size <= x.end /\ t.held = Reserves(s.areas, x.base)
         /\ t.room \in Nat \ {0} /\ t.at + Least(q.align, t.room) <= x.end
         /\ Least(q.align, t.room) \in Nat \ {0}
<1> DEFINE first == IF q.top THEN Down(x.end - q.size, q.align) ELSE Up(x.base, q.align)
           steps == IF Reserves(s.areas, x.base) THEN {0}
                    ELSE IF double THEN {0, 1, 3, 7, 15} ELSE 0 .. SpaceLimit
           start(n) == IF q.top THEN first - n * q.align ELSE first + n * q.align
<1>1. q.size \in Nat \ {0} /\ q.align \in Nat \ {0} /\ q.top \in BOOLEAN
  BY RequestsAssumption
<1>2. first \in Int
  <2>1. x.end - q.size \in Int /\ x.base \in Int
    BY <1>1
  <2>2. Down(x.end - q.size, q.align) \in Int
    BY <1>1, <2>1, Rounding
  <2>3. Up(x.base, q.align) \in Int
    BY <1>1, <2>1, RoundingUp
  <2> QED BY <2>2, <2>3
<1>3. \A n \in steps : n \in Nat
  BY Numbers
<1>4. \A n \in Nat : start(n) \in Int
  <2>1. TAKE n \in Nat
  <2>2. n * q.align \in Int
    BY <1>1
  <2> QED BY <1>2, <2>2
<1>5. PICK n \in steps : /\ x.base <= start(n) /\ start(n) + q.size <= x.end
                         /\ t = [at |-> start(n), held |-> Reserves(s.areas, x.base), first |-> n = 0,
                                 room |-> IF q.top THEN q.size ELSE x.end - start(n)]
  BY DEF Starts
<1> DEFINE at == start(n)
<1>6. at \in Int /\ x.base <= at /\ at + q.size <= x.end
  BY <1>3, <1>4, <1>5
<1>7. t.at = at /\ t.held = Reserves(s.areas, x.base) /\ t.room = IF q.top THEN q.size ELSE x.end - at
  BY <1>5
<1> HIDE DEF at
<1> QED BY <1>1, <1>6, <1>7 DEF Least

\* The order of the tries is by natural numbers.
LEMMA Products ==
  ASSUME NEW a \in Nat, NEW b \in Nat
  PROVE  a * 2 * b \in Nat
OBVIOUS

\* Every try of alloc_free_area is within the limits of the search.
LEMMA TriesInside ==
  ASSUME NEW s \in States, NEW q \in Requests, user_space_limit \in UserLimits, NEW double,
         NEW t \in Tries(s, q, double)
  PROVE  Inside(s, q, t)
<1> DEFINE ws == Windows(s, q)
           order(m, a) == (2 * m[1] + m[2]) * 2 * Top + (IF q.top THEN Top - a ELSE a)
<1>1. PICK n \in DOMAIN ws : \E x \in Parts(s, ws[n]) : \E u \in Starts(s, x, q, double) :
         NotEmpty(ws[n]) /\ t = [u EXCEPT !.at = [at |-> u.at, nth |-> order(n, u.at)]]
  BY DEF Tries
<1> DEFINE w == ws[n]
<1>11. PICK x \in Parts(s, w) : \E u \in Starts(s, x, q, double) :
         NotEmpty(w) /\ t = [u EXCEPT !.at = [at |-> u.at, nth |-> order(n, u.at)]]
  BY <1>1
<1>12. PICK u \in Starts(s, x, q, double) :
         NotEmpty(w) /\ t = [u EXCEPT !.at = [at |-> u.at, nth |-> order(n, u.at)]]
  BY <1>11
<1>2. /\ n[1] \in Nat /\ n[2] \in Nat /\ w.base \in Nat /\ w.end \in Int
      /\ w.end <= user_space_limit
  BY WindowsTyped
<1> HIDE DEF ws, w
<1>3. w.base < w.end /\ w.end \in Nat
  BY <1>12, <1>2 DEF NotEmpty
<1>4. /\ x.base \in Nat /\ x.end \in Nat /\ x.base < x.end /\ x.end <= w.end
      /\ \A p \in PagesOf(x) : Reserves(s.areas, p) <=> Reserves(s.areas, x.base)
  BY <1>2, <1>3, PartsUniform
<1>5. /\ u.at \in Nat /\ x.base <= u.at /\ u.at + q.size <= x.end /\ u.held = Reserves(s.areas, x.base)
      /\ u.room \in Nat \ {0} /\ u.at + Least(q.align, u.room) <= x.end
      /\ Least(q.align, u.room) \in Nat \ {0}
  BY <1>4, StartsInside
<1>6. /\ t.at.at = u.at /\ t.held = u.held /\ t.room = u.room /\ t.at.nth = order(n, u.at)
  BY <1>12 DEF Starts
<1>7. user_space_limit \in Nat /\ user_space_limit <= SpaceLimit /\ Top \in Nat /\ SpaceLimit <= Top
      /\ q.size \in Nat
  BY Numbers, RequestsAssumption DEF UserLimits, Top
<1>8. order(n, u.at) \in Nat
  <2>1. (2 * n[1] + n[2]) * 2 * Top \in Nat
    <3>1. 2 * n[1] + n[2] \in Nat
      BY <1>2
    <3> QED BY <3>1, <1>7, Products
  <2>2. (IF q.top THEN Top - u.at ELSE u.at) \in Nat
    <3>1. u.at <= Top
      <4>1. u.at <= x.end
        BY <1>4, <1>5, <1>7
      <4>2. x.end <= user_space_limit
        BY <1>2, <1>4, <1>7
      <4> QED BY <4>1, <4>2, <1>4, <1>5, <1>7, Numbers
    <3>2. Top - u.at \in Nat /\ u.at \in Nat
      BY <3>1, <1>5, <1>7
    <3> QED BY <3>2
  <2> QED BY <2>1, <2>2
<1> HIDE DEF order
<1>9. ASSUME ~t.held, NEW p \in PagesOf(Span(t.at.at, t.at.at + Least(q.align, t.room)))
      PROVE  ~Reserves(s.areas, p)
  <2>1. p \in PagesOf(x)
    BY <1>4, <1>5, <1>6, <1>9 DEF PagesOf, Span
  <2> QED BY <2>1, <1>4, <1>5, <1>6, <1>9
<1>10. /\ t.at.at + q.size <= user_space_limit
       /\ t.at.at + Least(q.align, t.room) <= user_space_limit
  BY <1>2, <1>4, <1>5, <1>6, <1>7
<1> QED BY <1>5, <1>6, <1>8, <1>9, <1>10 DEF Inside

\* Of the tries of some set one is the first.
LEMMA FirstExists ==
  ASSUME NEW some, some # {}, \A t \in some : t.at.nth \in Nat
  PROVE  FirstOf(some) \in some
<1> DEFINE N == {t.at.nth : t \in some}
<1>1. N \in SUBSET Nat /\ N # {}
  OBVIOUS
<1>2. PICK m \in N : \A n \in N : m <= n
  BY <1>1, LeastNatural
<1>3. PICK t \in some : t.at.nth = m
  BY <1>2
<1>4. \A u \in some : t.at.nth <= u.at.nth
  BY <1>2, <1>3
<1> QED BY <1>4 DEF FirstOf

\* The granules of a place below the bound are below it too.
LEMMA GranulesBelow ==
  ASSUME NEW bound \in UserLimits, NEW w, w.base \in Nat, w.end \in Nat, w.base < w.end, w.end <= bound
  PROVE  LET g == Granules(w) IN
         /\ g.base \in Nat /\ g.end \in Nat /\ g.base <= w.base /\ w.end <= g.end /\ g.end <= bound
<1> DEFINE g == Granules(w)
<1>1. /\ g.base \in Int /\ g.end \in Int /\ g.base <= w.base /\ w.end <= g.end
      /\ \A c \in Int : c % Granule = 0 /\ c <= w.base => c <= g.base
      /\ \A c \in Int : c % Granule = 0 /\ w.end <= c => g.end <= c
  BY GranulesTyped
<1> HIDE DEF g
<1>2. 0 % Granule = 0 /\ bound \in Int /\ bound % Granule = 0
  BY Numbers DEF UserLimits
<1>3. 0 <= g.base
  BY <1>1, <1>2
<1>4. g.end <= bound
  BY <1>1, <1>2
<1> QED BY <1>1, <1>3, <1>4 DEF g

\* Where nothing is reserved, nothing is in the rest of the granules, since areas are aligned.
LEMMA GranulesUnreserved ==
  ASSUME NEW s \in States, NEW bound \in UserLimits, AreasOK(s.areas, bound),
         NEW w, w.base \in Nat, w.end \in Nat, w.base < w.end, w.end <= bound,
         \A p \in PagesOf(w) : ~Reserves(s.areas, p)
  PROVE  \A p \in PagesOf(Granules(w)) : ~Reserves(s.areas, p)
<1> DEFINE g == Granules(w)
<1>1. /\ g.base \in Int /\ g.end \in Int
      /\ \A c \in Int : c % Granule = 0 /\ c <= w.base => c <= g.base
      /\ \A c \in Int : c % Granule = 0 /\ w.end <= c => g.end <= c
  BY GranulesTyped
<1>2. g.end <= bound
  BY GranulesBelow
<1> HIDE DEF g
<1>3. SUFFICES ASSUME NEW p \in PagesOf(g), NEW a \in s.areas, p \in PagesOf(a) PROVE FALSE
  BY DEF Reserves, g
<1>4. /\ a.base \in Nat /\ a.end \in Nat /\ p \in Int /\ g.base <= p /\ p < g.end /\ a.base <= p /\ p < a.end
  BY <1>1, <1>3 DEF States, Areas, PagesOf
<1>5. Aligned(a.base) /\ Aligned(a.end) /\ (bound # UserLimit => a.end <= UserLimit)
  BY DEF AreasOK
<1>6. a.end <= w.base \/ w.end <= a.base
  <2>1. SUFFICES ASSUME w.base < a.end, a.base < w.end PROVE FALSE
    BY <1>4
  <2> DEFINE c == IF a.base < w.base THEN w.base ELSE a.base
  <2>2. c \in PagesOf(w) /\ c \in PagesOf(a)
    BY <1>4, <2>1 DEF PagesOf
  <2> QED BY <2>2 DEF Reserves
<1>7. UserLimit \in Nat /\ UserLimit % Granule = 0 /\ bound \in Nat
  BY Numbers DEF UserLimits
<1>8. CASE a.end <= w.base
  <2>1. a.end % Granule = 0
    <3>1. CASE a.end >= UserLimit
      <4>1. a.end = UserLimit
        BY <1>4, <1>5, <1>7, <1>8, <3>1
      <4> QED BY <4>1, <1>7
    <3> QED BY <3>1, <1>5 DEF Aligned
  <2>2. a.end <= g.base
    BY <1>1, <1>4, <1>8, <2>1
  <2> QED BY <2>2, <1>1, <1>4
<1>9. CASE w.end <= a.base
  <2>1. a.base % Granule = 0
    <3>1. CASE a.base >= UserLimit
      BY <1>1, <1>2, <1>4, <1>5, <1>7, <1>9, <3>1
    <3> QED BY <3>1, <1>5 DEF Aligned
  <2>2. g.end <= a.base
    BY <1>1, <1>4, <1>9, <2>1
  <2> QED BY <2>2, <1>1, <1>4
<1> QED BY <1>6, <1>8, <1>9

\* An operation that begins in s ends in t: in a good state if no assertion failed.
Sound(t, s, bound) == Typed(t) /\ (t.ok => s.ok /\ Good(t, bound))
Begins(s, bound) == Typed(s) /\ (s.ok => Good(s, bound))

\* create_view changes no host mapping and no area, whatever it finds.
LEMMA CreateTyped ==
  ASSUME NEW s, Typed(s), NEW v \in ViewSet
  PROVE  Follows(CreateView(s, v), s)
<1> DEFINE others == {u \in s.views : Overlap(u, v)}
           d == UnregisterAll(s, others)
<1>1. s \in States /\ IsFiniteSet(others) /\ others \in SUBSET ViewSet /\ IsFiniteSet(s.views \ others)
  BY FS_Subset, FS_Difference DEF Typed, States
<1> HIDE DEF others
<1>2. Only(d, s, s.views \ others)
  BY <1>1, UnregistersAll
<1> HIDE DEF d
<1>3. Follows(d, s) /\ Typed(d) /\ d \in States
  BY <1>1, <1>2, OnlyFollows DEF Follows, Typed
<1>4. Follows(Register(d, v), s)
  <2>1. Only(Register(d, v), d, d.views \cup {v})
    BY <1>3, Registers
  <2>2. IsFiniteSet(d.views \cup {v})
    BY <1>3, FS_AddElement DEF Typed
  <2>3. Follows(Register(d, v), d)
    BY <1>3, <2>1, <2>2, OnlyFollows
  <2> QED BY <1>3, <2>3 DEF Follows
<1>5. Follows([s EXCEPT !.ok = FALSE], s)
  BY DEF Follows, Typed, States
<1> QED BY <1>4, <1>5 DEF CreateView, others, d

\* Views that are forgotten leave a state typed, whatever they are.
LEMMA ForgetTyped ==
  ASSUME NEW s, Typed(s), NEW some \in SUBSET s.views
  PROVE  Follows(UnregisterAll(s, some), s)
<1>1. s \in States /\ IsFiniteSet(some) /\ some \in SUBSET ViewSet /\ IsFiniteSet(s.views \ some)
  BY FS_Subset, FS_Difference DEF Typed, States
<1>2. Only(UnregisterAll(s, some), s, s.views \ some)
  BY <1>1, UnregistersAll
<1> QED BY <1>1, <1>2, OnlyFollows

\* A place that is left out gets a native view where nothing is reserved.
LEMMA Excludes ==
  ASSUME NEW s, NEW bound \in UserLimits, Begins(s, bound), NEW w, w.base \in Nat, w.end \in Nat, w.base < w.end,
         w.end <= SpaceLimit, s.ok => \A p \in PagesOf(w) : ~Reserves(s.areas, p),
         NEW at, NEW size
  PROVE  Sound(Exclude(s, w, at, size), s, bound)
<1> DEFINE beside == {v \in s.views : v.kind = "native" /\ (v.end = w.base \/ v.base = w.end)}
           h == Hull(w, beside)
           v == View(h, "native")
           d == UnregisterAll(s, beside)
           t == CreateView(d, v)
<1>1. s.views \subseteq ViewSet
  BY DEF Begins, Typed, States
<1>2. /\ beside \in SUBSET s.views
      /\ \A u \in beside : u \in ViewSet /\ u.kind = "native" /\ (u.end = w.base \/ u.base = w.end)
  BY <1>1
<1> HIDE DEF beside
<1>3. \A u \in beside : /\ u.base \in Nat /\ u.end \in Nat /\ u.end <= SpaceLimit
                        /\ u.base <= u.end /\ u.base <= w.end /\ w.base <= u.end
  BY <1>2 DEF ViewSet
<1>4. /\ h \in Areas /\ h.base <= w.base /\ w.end <= h.end
      /\ \A p \in Int : p \in PagesOf(h) <=> p \in PagesOf(w) \/ \E u \in beside : p \in PagesOf(u)
  BY <1>3, HullIsUnion
<1> HIDE DEF h
<1>5. v \in ViewSet /\ System(v) /\ PagesOf(v) = PagesOf(h)
  <2>1. "native" \in Kinds
    BY DEF Kinds
  <2>2. h.base \in Nat /\ h.end \in Nat /\ h.base < h.end /\ h.end <= SpaceLimit
    BY <1>4 DEF Areas
  <2> QED BY <2>1, <2>2 DEF View, ViewSet, System, PagesOf
<1> HIDE DEF v
<1>6. Follows(d, s)
  BY <1>2, ForgetTyped DEF Begins
<1>7. Follows(t, d)
  <2>1. Typed(d)
    BY <1>6 DEF Follows
  <2> HIDE DEF d
  <2> QED BY <1>5, <2>1, CreateTyped
<1>8. ASSUME t.ok PROVE s.ok /\ Good(t, bound)
  <2>1. s.ok /\ Good(s, bound)
    BY <1>6, <1>7, <1>8 DEF Follows, Begins
  <2>2. \A u \in beside : System(u)
    BY <1>2 DEF System
  <2>3. Good(d, bound) /\ d.areas = s.areas
    BY <1>2, <2>1, <2>2, ForgetsSystem
  <2>4. ASSUME NEW p \in PagesOf(v) PROVE ~Reserves(d.areas, p)
    <3>1. p \in Int /\ p \in PagesOf(h)
      <4>1. p \in PagesOf(h)
        BY <1>5
      <4> QED BY <4>1, <1>4 DEF PagesOf, Areas
    <3>2. ASSUME NEW u \in beside, p \in PagesOf(u) PROVE ~Reserves(s.areas, p)
      BY <1>2, <2>1, <2>2, <3>2 DEF Good, SystemOK
    <3> QED BY <1>4, <2>1, <2>3, <3>1, <3>2
  <2> HIDE DEF d
  <2>5. t.ok => Good(t, bound)
    BY <1>5, <2>3, <2>4, MakesSystem
  <2> QED BY <1>8, <2>1, <2>5
<1>9. Exclude(s, w, at, size) = t \/ Exclude(s, w, at, size) = s
  BY DEF Exclude, beside, h, v, d
<1> HIDE DEF t
<1> QED BY <1>6, <1>7, <1>8, <1>9 DEF Sound, Begins, Follows

\* What alloc_free_area leaves out after failed tries is free of reserved areas.
LEMMA ExcludesMissed ==
  ASSUME NEW s, user_space_limit \in UserLimits, Begins(s, user_space_limit), NEW q \in Requests, NEW missed,
         \A t \in missed : Inside(s, q, t) /\ ~t.held, NEW at
  PROVE  Sound(ExcludeMissed(s, q, missed, at), s, user_space_limit)
<1> DEFINE m == FirstOf(missed)
           x == Span(m.at.at, m.at.at + Least(q.align, m.room))
<1>1. CASE missed = {}
  BY <1>1 DEF ExcludeMissed, Sound, Begins
<1>2. CASE missed # {}
  <2>1. m \in missed
    BY <1>2, FirstExists DEF Inside
  <2>2. Inside(s, q, m) /\ ~m.held
    BY <2>1
  <2> HIDE DEF m
  <2>3. /\ x.base \in Nat /\ x.end \in Nat /\ x.base < x.end /\ x.end <= user_space_limit
        /\ \A p \in PagesOf(x) : ~Reserves(s.areas, p)
    BY <2>2 DEF Inside, Span
  <2>4. ExcludeMissed(s, q, missed, at) = Exclude(s, Granules(x), at, q.size)
    BY <1>2 DEF ExcludeMissed, m
  <2> HIDE DEF x
  <2> DEFINE g == Granules(x)
  <2>5. g.base \in Nat /\ g.end \in Nat /\ g.base <= x.base /\ x.end <= g.end /\ g.end <= user_space_limit
    BY <2>3, GranulesBelow
  <2>6. s.ok => \A p \in PagesOf(g) : ~Reserves(s.areas, p)
    BY <2>3, GranulesUnreserved DEF Begins, Good
  <2> HIDE DEF g
  <2>7. g.base < g.end /\ g.end <= SpaceLimit
    BY <2>3, <2>5, Numbers DEF UserLimits
  <2>8. Sound(Exclude(s, g, at, q.size), s, user_space_limit)
    BY <2>5, <2>6, <2>7, Excludes
  <2> QED BY <2>4, <2>8 DEF g
<1> QED BY <1>1, <1>2

\* The search ends with a place below the bound or with none.
Result(r, s, q, bound) ==
  /\ Sound(r.s, s, bound)
  /\ r.at = NoPlace \/ (r.at \in Nat /\ r.at + q.size <= bound)

\* alloc_free_area returns a place below the limit, or none.
LEMMA Searches ==
  ASSUME NEW s, user_space_limit \in UserLimits, Begins(s, user_space_limit), NEW q \in Requests, NEW double
  PROVE  Result(AllocFreeArea(s, q, double), s, q, user_space_limit)
<1> DEFINE tries == Tries(s, q, double)
           took == {t \in tries : Took(s, t, q)}
           at == IF took = {} THEN NoPlace ELSE FirstOf(took).at.at
           missed == {t \in tries \ took : t.first /\ q.align < 2 * Granule
                          /\ \A u \in took : u.at.at = at => t.at.nth < u.at.nth}
           r == AllocFreeArea(s, q, double)
<1>1. \A t \in tries : Inside(s, q, t)
  BY TriesInside DEF Begins, Typed
<1>2. r = [at |-> at, s |-> ExcludeMissed(s, q, missed, at)]
  BY DEF AllocFreeArea, Among, Placing, Placed
<1> HIDE DEF tries
<1>3. at = NoPlace \/ (at \in Nat /\ at + q.size <= user_space_limit)
  <2>1. CASE took # {}
    <3>1. FirstOf(took) \in took
      BY <1>1, <2>1, FirstExists DEF Inside
    <3>2. Inside(s, q, FirstOf(took))
      BY <1>1, <3>1
    <3> QED BY <2>1, <3>2 DEF Inside
  <2> QED BY <2>1
<1>4. \A t \in missed : Inside(s, q, t) /\ ~t.held
  BY <1>1 DEF Took
<1> HIDE DEF at, missed
<1>5. Sound(ExcludeMissed(s, q, missed, at), s, user_space_limit)
  BY <1>4, ExcludesMissed
<1> QED BY <1>2, <1>3, <1>5 DEF Result

\* So does map_view, which forgets the native views before it tries again.
LEMMA MapsFree ==
  ASSUME NEW s, user_space_limit \in UserLimits, Begins(s, user_space_limit), NEW q \in Requests
  PROVE  Result(MapFree(s, q), s, q, user_space_limit)
<1> DEFINE r == AllocFreeArea(s, q, TRUE)
           natives == {v \in r.s.views : v.kind = "native"}
           d == UnregisterAll(r.s, natives)
           u == AllocFreeArea(d, q, Win64)
<1>1. Result(r, s, q, user_space_limit)
  BY Searches
<1>2. MapFree(s, q) = IF r.at # NoPlace THEN r ELSE u
  BY DEF MapFree, Again
<1> HIDE DEF r
<1>3. Begins(r.s, user_space_limit) /\ natives \in SUBSET r.s.views /\ \A v \in natives : System(v)
  BY <1>1 DEF Result, Sound, Begins, System
<1> HIDE DEF natives
<1>4. Follows(d, r.s)
  BY <1>3, ForgetTyped DEF Begins
<1>5. d.ok => Good(d, user_space_limit)
  BY <1>3, <1>4, ForgetsSystem DEF Begins, Follows
<1> HIDE DEF d
<1>6. Begins(d, user_space_limit)
  BY <1>4, <1>5 DEF Begins, Follows
<1>7. Result(u, d, q, user_space_limit)
  BY <1>6, Searches
<1> HIDE DEF u
<1>8. Result(u, s, q, user_space_limit)
  BY <1>1, <1>4, <1>7 DEF Result, Sound, Follows
<1> QED BY <1>1, <1>2, <1>8

----------------------------------------------------------------------------
(* The actions.                                                             *)

\* While no assertion has failed the mappings are exact, no page is in two views, the areas are
\* aligned, and where a system view lies nothing is reserved.
Mapping == user_space_limit \in UserLimits /\ (asserted => Good(Now, user_space_limit))

\* An operation ends in the state its last step hands on.
LEMMA Becomes ==
  ASSUME NEW t, t \in States, Become(t)
  PROVE  Now' = t
<1>1. t = [views |-> t.views, free |-> t.free, areas |-> t.areas, mem |-> t.mem, ok |-> t.ok]
  BY DEF States
<1> QED BY <1>1 DEF Become, Now

\* An operation that leaves a good state if no assertion fails keeps the invariant.
LEMMA Does ==
  ASSUME Mapping, NEW t, Typed(t), t.ok => Good(t, user_space_limit), Do(t)
  PROVE  Mapping'
<1>1. Now' = t
  BY Becomes DEF Typed, Do
<1>2. user_space_limit' = user_space_limit /\ asserted' = t.ok
  BY DEF Do, Become
<1> QED BY <1>1, <1>2 DEF Mapping

\* What an operation may rely on when it begins.
LEMMA Begin ==
  ASSUME Mapping, asserted
  PROVE  /\ user_space_limit \in UserLimits /\ Good(Now, user_space_limit) /\ Begins(Now, user_space_limit)
         /\ Now.views = views /\ Now.mem = mem /\ Now.areas = reserved_areas
         /\ views \subseteq ViewSet /\ Typed(Now) /\ Apart(Now)
BY DEF Mapping, Now, Good, Begins, Typed, States

\* Views of the program are no system views.
LEMMA PlainKinds ==
  ASSUME NEW w, NEW kind \in {"memory", "file", "hole", "memory in hole", "file in hole"}
  PROVE  kind \in Kinds /\ ~System(View(w, kind))
BY DEF Kinds, System, View

\* MakesView, from a state in which an assertion may have failed.
LEMMA MakesSound ==
  ASSUME NEW s, NEW bound \in UserLimits, Begins(s, bound), NEW w, NEW kind \in Kinds, ~System(View(w, kind)),
         w.base \in Nat, w.end \in Nat, w.base < w.end, w.end <= SpaceLimit
  PROVE  Sound(CreateView(Mapped(s, w, "view"), View(w, kind)), s, bound)
<1> DEFINE m == Mapped(s, w, "view")
           v == View(w, kind)
           t == CreateView(m, v)
<1>1. "view" \in Hows
  BY DEF Hows
<1>2. Typed(m) /\ m.ok = s.ok
  BY <1>1, Maps DEF Begins
<1>3. v \in ViewSet
  BY DEF View, ViewSet
<1>4. Follows(t, m)
  <2> HIDE DEF m, v
  <2> QED BY <1>2, <1>3, CreateTyped
<1>5. s.ok => (t.ok => Good(t, bound))
  BY MakesView DEF Begins
<1> HIDE DEF t, m
<1> QED BY <1>2, <1>4, <1>5 DEF Sound, Follows, t, m, v

\* NtAllocateVirtualMemory and NtMapViewOfSection without an address.
LEMMA AllocateStep ==
  ASSUME Mapping, NEW q \in Requests, Allocate(q)
  PROVE  Mapping'
<1> DEFINE r == MapFree(Now, q)
           w == Span(r.at, r.at + q.size)
           t == IF r.at = NoPlace THEN r.s ELSE CreateView(Mapped(r.s, w, "view"), View(w, q.kind))
<1>1. Do(t)
  BY DEF Allocate
<1>2. asserted
  BY <1>1 DEF Do, Become
<1>3. user_space_limit \in UserLimits /\ Begins(Now, user_space_limit)
  BY <1>2, Begin
<1>4. Result(r, Now, q, user_space_limit)
  BY <1>3, MapsFree
<1> HIDE DEF r
<1>5. Typed(t) /\ (t.ok => Good(t, user_space_limit))
  <2>1. CASE r.at = NoPlace
    BY <2>1, <1>4 DEF Result, Sound
  <2>2. CASE r.at # NoPlace
    <3>1. /\ q.size \in Nat \ {0} /\ q.kind \in {"memory", "file", "hole"}
          /\ user_space_limit \in Nat /\ user_space_limit <= SpaceLimit
      BY <1>3, RequestsAssumption, Numbers DEF UserLimits
    <3>2. w.base \in Nat /\ w.end \in Nat /\ w.base < w.end /\ w.end <= SpaceLimit
      BY <1>4, <2>2, <3>1, Numbers DEF Result, Span
    <3>3. q.kind \in Kinds /\ ~System(View(w, q.kind))
      BY <3>1, PlainKinds
    <3>4. Begins(r.s, user_space_limit)
      BY <1>4 DEF Result, Sound, Begins
    <3> HIDE DEF w
    <3>5. Sound(CreateView(Mapped(r.s, w, "view"), View(w, q.kind)), r.s, user_space_limit)
      BY <1>3, <3>2, <3>3, <3>4, MakesSound
    <3> QED BY <2>2, <3>5 DEF Sound
  <2> QED BY <2>1, <2>2
<1> HIDE DEF t
<1> QED BY <1>1, <1>5, Does

\* What lies between views may be unmapped.
LEMMA UnmapsNothing ==
  ASSUME NEW s, user_space_limit \in UserLimits, Good(s, user_space_limit), NEW w, w.base \in Nat, w.end \in Nat,
         w.base <= w.end, w.end <= SpaceLimit, \A v \in s.views : ~Overlap(v, w)
  PROVE  LET t == UnmapArea(s, w) IN Good(t, user_space_limit)
<1> DEFINE t == UnmapArea(s, w)
<1>1. s \in States /\ s.views \subseteq ViewSet
  BY DEF Good, States
<1>2. /\ t \in States /\ t.views = s.views /\ t.ok = s.ok
      /\ \A p \in Int : Reserves(t.areas, p) <=>
            Reserves(s.areas, p) \/ (p \in PagesOf(w) /\ p >= user_space_limit)
      /\ \A p \in 0 .. (SpaceLimit - 1) :
           t.mem[p] = IF p \notin PagesOf(w) THEN s.mem[p]
                      ELSE IF Reserves(t.areas, p) THEN "held" ELSE "none"
      /\ AreasOK(s.areas, user_space_limit) => AreasOK(t.areas, user_space_limit)
  BY <1>1, Unmaps
<1> HIDE DEF t
<1>3. ASSUME NEW v \in s.views, NEW p \in PagesOf(v) PROVE p \notin PagesOf(w) /\ p \in Int
  BY <1>1 DEF PagesOf, ViewSet, Overlap
<1>4. Exact(t)
  <2>1. SUFFICES ASSUME NEW p \in 0 .. (SpaceLimit - 1)
                 PROVE  /\ t.mem[p] = "view" <=> OwnPage(t, p)
                        /\ t.mem[p] = "held" <=> ~OwnPage(t, p) /\ Reserves(t.areas, p)
    BY DEF Exact
  <2>2. OwnPage(t, p) <=> OwnPage(s, p)
    BY <1>2 DEF OwnPage
  <2>3. CASE p \in PagesOf(w)
    <3>1. ~OwnPage(s, p)
      BY <1>3, <2>3 DEF OwnPage
    <3> QED BY <1>2, <2>2, <2>3, <3>1
  <2>4. CASE p \notin PagesOf(w)
    BY <1>2, <2>2, <2>4, OwnPages
  <2> QED BY <2>3, <2>4
<1>5. SystemOK(t)
  BY <1>2, <1>3 DEF Good, SystemOK
<1> QED BY <1>2, <1>4, <1>5 DEF Good, Apart, t

\* The same at an address, where what was mapped before a part failed is undone.
LEMMA AllocateAtStep ==
  ASSUME Mapping, NEW w \in Places, AllocateAt(w)
  PROVE  Mapping'
<1> DEFINE taken == {x \in Parts(Now, w) : ~Reserves(Now.areas, x.base)
                                    /\ \E p \in PagesOf(x) : Now.mem[p] # "none"}
           t == IF taken = {} THEN CreateView(Mapped(Now, w, "view"), View(w, w.kind))
                ELSE UnmapArea(Now, Span(w.base, Min({x.base : x \in taken})))
<1>1. Do(t) /\ \A v \in Now.views : ~Overlap(v, w)
  BY DEF AllocateAt
<1>2. asserted
  BY <1>1 DEF Do, Become
<1>3. /\ user_space_limit \in UserLimits /\ Begins(Now, user_space_limit) /\ Good(Now, user_space_limit)
      /\ Typed(Now) /\ Now \in States
  BY <1>2, Begin DEF Typed
<1>4. /\ w.base \in Nat /\ w.end \in Nat /\ w.base < w.end /\ w.end <= SpaceLimit
      /\ w.kind \in {"memory", "file", "hole"}
  BY SpaceAssumption, RequestsAssumption
<1>5. Typed(t) /\ (t.ok => Good(t, user_space_limit))
  <2>1. CASE taken = {}
    <3>1. w.kind \in Kinds /\ ~System(View(w, w.kind))
      BY <1>4, PlainKinds
    <3>2. Sound(CreateView(Mapped(Now, w, "view"), View(w, w.kind)), Now, user_space_limit)
      BY <1>3, <1>4, <3>1, MakesSound
    <3> QED BY <2>1, <3>2 DEF Sound
  <2>2. CASE taken # {}
    <3> DEFINE B == {x.base : x \in taken}
               z == Span(w.base, Min(B))
    <3>1. \A x \in taken : x.base \in Nat /\ w.base <= x.base /\ x.base < x.end /\ x.end <= w.end /\ x.end \in Nat
      BY <1>3, <1>4, PartsUniform
    <3> HIDE DEF taken
    <3>2. B \in SUBSET (0 .. SpaceLimit) /\ B # {} /\ \A b \in B : w.base <= b /\ b < w.end
      BY <1>4, <2>2, <3>1, Numbers
    <3> HIDE DEF B
    <3>3. Min(B) \in B
      BY <3>2, Extremes, Numbers
    <3>4. z.base = w.base /\ z.end \in Nat /\ z.base <= z.end /\ z.end < w.end /\ z.end <= SpaceLimit
      <4> DEFINE b == Min(B)
      <4>1. b \in Nat /\ w.base <= b /\ b < w.end
        <5> HIDE DEF b
        <5>1. b \in B
          BY <3>3 DEF b
        <5>2. b \in 0 .. SpaceLimit
          BY <3>2, <5>1
        <5> QED BY <3>2, <5>1, <5>2, Numbers
      <4>2. z.base = w.base /\ z.end = b
        BY DEF Span
      <4> HIDE DEF b, z
      <4> QED BY <1>4, <4>1, <4>2, Numbers
    <3>5. t = UnmapArea(Now, z)
      BY <2>2 DEF B
    <3> HIDE DEF z, t
    <3>6. \A v \in Now.views : ~Overlap(v, z)
      <4>1. \A v \in Now.views : v.base \in Nat /\ v.end \in Nat
        BY <1>3 DEF States, ViewSet
      <4> QED BY <1>1, <1>4, <3>4, <4>1 DEF Overlap
    <3>7. Good(t, user_space_limit)
      BY <1>3, <1>4, <3>4, <3>5, <3>6, UnmapsNothing
    <3> QED BY <3>7 DEF Good, Typed
  <2> QED BY <2>1, <2>2
<1> HIDE DEF t
<1> QED BY <1>1, <1>5, Does

\* A placeholder that is replaced keeps its pages mapped.
LEMMA ReplaceStep ==
  ASSUME Mapping, NEW v \in views, NEW kind \in {"memory in hole", "file in hole"}, Replace(v, kind)
  PROVE  Mapping'
<1> DEFINE t == [Now EXCEPT !.views = (@ \ {v}) \cup {View(v, kind)}]
<1>1. Do(t) /\ ~System(v)
  BY DEF Replace, System
<1>2. asserted
  BY <1>1 DEF Do, Become
<1>3. Good(Now, user_space_limit) /\ v \in Now.views
  BY <1>2, Begin
<1>4. kind \in Kinds /\ ~System(View(v, kind))
  BY PlainKinds
<1>5. Good(t, user_space_limit)
  BY <1>1, <1>3, <1>4, ChangesKind
<1> HIDE DEF t
<1> QED BY <1>1, <1>5, Does DEF Good, Typed

\* free_pages, of a whole view and of a piece.
LEMMA FreeStep ==
  ASSUME Mapping, NEW v \in views, NEW w \in Pieces \cup {Span(v.base, v.end)}, FreePages(v, w)
  PROVE  Mapping'
<1> DEFINE t == IF Span(v.base, v.end) = w THEN DeleteView(Now, v)
                ELSE UnmapArea(RemovePages(Now, v, w), w)
<1>1. Do(t) /\ ~System(v) /\ w.base >= v.base /\ w.end <= v.end
  BY DEF FreePages, Own, System
<1>2. asserted
  BY <1>1 DEF Do, Become
<1>3. user_space_limit \in UserLimits /\ Good(Now, user_space_limit) /\ v \in Now.views /\ v \in ViewSet
  BY <1>2, Begin
<1>4. w.base \in Nat /\ w.end \in Nat /\ w.base < w.end /\ v.base <= w.base
  BY <1>1, <1>3, SpaceAssumption DEF Span, ViewSet
<1>5. Good(t, user_space_limit)
  <2>1. Good(DeleteView(Now, v), user_space_limit)
    BY <1>3, DeletesView
  <2>2. Good(UnmapArea(RemovePages(Now, v, w), w), user_space_limit)
    BY <1>1, <1>3, <1>4, UnmapsPiece
  <2> QED BY <2>1, <2>2
<1> HIDE DEF t
<1> QED BY <1>1, <1>5, Does DEF Good, Typed

\* free_pages_preserve_placeholder and unmapping a file to a placeholder.
LEMMA ToHoleStep ==
  ASSUME Mapping, NEW v \in views, NEW w \in Pieces \cup {Span(v.base, v.end)}, ToHole(v, w)
  PROVE  Mapping'
<1> DEFINE whole == Span(v.base, v.end) = w
           s == IF whole THEN [Now EXCEPT !.views = (@ \ {v}) \cup {View(v, "hole")}]
                ELSE CreateView(RemovePages(Now, v, w), View(w, "hole"))
           t == Mapped(s, w, "view")
<1>1. Do(t) /\ ~System(v) /\ w.base >= v.base /\ w.end <= v.end
  BY DEF ToHole, Placeholder, System
<1>2. asserted
  BY <1>1 DEF Do, Become
<1>3. user_space_limit \in UserLimits /\ Good(Now, user_space_limit) /\ v \in Now.views /\ v \in ViewSet
  BY <1>2, Begin
<1>4. w.base \in Nat /\ w.end \in Nat /\ w.base < w.end /\ v.base <= w.base
  BY <1>1, <1>3, SpaceAssumption DEF Span, ViewSet
<1>5. Typed(t) /\ (t.ok => Good(t, user_space_limit))
  <2>1. CASE whole
    <3> DEFINE u == View(v, "hole")
               c == [Now EXCEPT !.views = (@ \ {v}) \cup {u}]
    <3>1. "hole" \in Kinds /\ ~System(u)
      BY PlainKinds
    <3>2. Good(c, user_space_limit)
      BY <1>1, <1>3, <3>1, ChangesKind
    <3>3. u \in c.views
      BY DEF Now
    <3>4. \A p : p \in PagesOf(w) => p \in PagesOf(u)
      BY <2>1 DEF PagesOf, View, Span
    <3>5. t = Mapped(c, w, "view")
      BY <2>1
    <3> HIDE DEF c, u, t
    <3>6. Good(t, user_space_limit)
      BY <3>1, <3>2, <3>3, <3>4, <3>5, MapsOwn
    <3> QED BY <3>6 DEF Good, Typed
  <2>2. CASE ~whole
    BY <1>1, <1>3, <1>4, <2>2, MakesHole
  <2> QED BY <2>1, <2>2
<1> HIDE DEF t
<1> QED BY <1>1, <1>5, Does

\* unmap_view_of_section.
LEMMA UnmapFileStep ==
  ASSUME Mapping, NEW v \in views, UnmapFile(v)
  PROVE  Mapping'
<1> DEFINE t == DeleteView(Now, v)
<1>1. Do(t)
  BY DEF UnmapFile
<1>2. asserted
  BY <1>1 DEF Do, Become
<1>3. user_space_limit \in UserLimits /\ Good(Now, user_space_limit) /\ v \in Now.views
  BY <1>2, Begin
<1>4. Good(t, user_space_limit)
  BY <1>3, DeletesView
<1> HIDE DEF t
<1> QED BY <1>1, <1>4, Does DEF Good, Typed

\* release_builtin_module, whether or not other users keep the library mapped.
LEMMA UnmapBuiltinStep ==
  ASSUME Mapping, NEW v \in views, UnmapBuiltin(v)
  PROVE  Mapping'
<1> DEFINE d == DeleteView(Now, v)
<1>1. System(v)
  BY DEF UnmapBuiltin, System
<1>2. PICK how \in {"none", "native"} : Do(Mapped(d, v, how))
  BY DEF UnmapBuiltin
<1>3. asserted
  BY <1>2 DEF Do, Become
<1>4. /\ user_space_limit \in UserLimits /\ Good(Now, user_space_limit) /\ v \in Now.views /\ v \in ViewSet
      /\ Now.views \subseteq ViewSet
  BY <1>3, Begin
<1>5. Good(d, user_space_limit) /\ d.views = Now.views \ {v} /\ d.areas = Now.areas
  BY <1>1, <1>4, DeletesView
<1> HIDE DEF d
<1>6. ASSUME NEW p \in 0 .. (SpaceLimit - 1), p \in PagesOf(v)
      PROVE  d.mem[p] \notin {"view", "held"}
  <2>1. ~OwnPage(d, p)
    BY <1>4, <1>5, <1>6, Shared DEF OwnPage, Good, Apart
  <2>2. ~Reserves(d.areas, p)
    BY <1>1, <1>4, <1>5, <1>6 DEF Good, SystemOK
  <2> QED BY <1>5, <2>1, <2>2, OwnPages
<1> DEFINE t == Mapped(d, v, how)
<1>7. Good(t, user_space_limit)
  BY <1>5, <1>6, MapsForeign
<1> HIDE DEF t
<1> QED BY <1>2, <1>7, Does DEF Good, Typed, t

\* virtual_create_builtin_view.
LEMMA CreateBuiltinStep ==
  ASSUME Mapping, NEW w \in Natives, CreateBuiltin(w)
  PROVE  Mapping'
<1> DEFINE v == View(w, "builtin")
           t == CreateView(Now, v)
<1>1. Do(t) /\ \A p \in PagesOf(w) : mem[p] = "native"
  BY DEF CreateBuiltin
<1>2. asserted
  BY <1>1 DEF Do, Become
<1>3. /\ user_space_limit \in UserLimits /\ Good(Now, user_space_limit) /\ Now.mem = mem
  BY <1>2, Begin
<1>4. /\ w.base \in Nat /\ w.end \in Nat /\ w.base < w.end /\ w.end <= SpaceLimit
  BY SpaceAssumption
<1>5. v \in ViewSet /\ System(v) /\ PagesOf(v) = PagesOf(w)
  <2>1. "builtin" \in Kinds
    BY DEF Kinds
  <2> QED BY <1>4, <2>1 DEF View, ViewSet, System, PagesOf
<1> HIDE DEF v
<1>6. ASSUME NEW p \in PagesOf(v) PROVE ~Reserves(Now.areas, p)
  <2>1. p \in PagesOf(w)
    BY <1>5
  <2>2. p \in 0 .. (SpaceLimit - 1)
    BY <1>4, <2>1, Numbers DEF PagesOf
  <2>3. Now.mem[p] = "native"
    BY <1>1, <1>3, <2>1
  <2> QED BY <1>3, <2>2, <2>3, OwnPages
<1>7. Typed(t) /\ (t.ok => Good(t, user_space_limit))
  BY <1>3, <1>5, <1>6, MakesSystem
<1> HIDE DEF t
<1> QED BY <1>1, <1>7, Does

\* What a native library maps and unmaps is in no view and not reserved.
LEMMA NativeStep ==
  ASSUME Mapping, NEW w, NEW from \in {"none", "native"}, NEW to \in {"none", "native"}, Native(w, from, to)
  PROVE  Mapping'
<1> DEFINE t == Mapped(Now, w, to)
<1>1. asserted
  BY DEF Native
<1>2. /\ user_space_limit \in UserLimits /\ Good(Now, user_space_limit) /\ Now.mem = mem
  BY <1>1, Begin
<1>3. \A p \in 0 .. (SpaceLimit - 1) : p \in PagesOf(w) => Now.mem[p] \notin {"view", "held"}
  BY <1>2 DEF Native
<1>4. Good(t, user_space_limit)
  BY <1>2, <1>3, MapsForeign
<1>5. Now' = t /\ user_space_limit' = user_space_limit
  <2> DEFINE m == [p \in DOMAIN mem |-> IF p \in PagesOf(w) THEN to ELSE mem[p]]
  <2>1. /\ mem' = m /\ views' = views /\ free_ranges' = free_ranges /\ reserved_areas' = reserved_areas
        /\ user_space_limit' = user_space_limit /\ asserted' = asserted
    BY DEF Native
  <2>2. t = [Now EXCEPT !.mem = m]
    BY DEF Mapped, Now
  <2> HIDE DEF m, t
  <2> QED BY <2>1, <2>2 DEF Now
<1> HIDE DEF t
<1> QED BY <1>2, <1>4, <1>5 DEF Mapping

\* virtual_release_address_space.
LEMMA ReleaseStep ==
  ASSUME Mapping, NEW w \in LowAreas, ReleaseAddressSpace(w)
  PROVE  Mapping'
<1> DEFINE t == Released(Now, w)
<1>1. Do(t)
  BY DEF ReleaseAddressSpace
<1>2. asserted
  BY <1>1 DEF Do, Become
<1>3. user_space_limit \in UserLimits /\ Good(Now, user_space_limit)
  BY <1>2, Begin
<1>4. w.base \in Nat /\ w.end \in Nat /\ w.base < w.end /\ Aligned(w.base) /\ Aligned(w.end)
  BY SpaceAssumption DEF Aligned
<1>5. Good(t, user_space_limit)
  BY <1>3, <1>4, Releases
<1> HIDE DEF t
<1> QED BY <1>1, <1>5, Does DEF Good, Typed

\* virtual_set_large_address_space: what was kept above the limit is given back.
LEMMA SetLargeStep ==
  ASSUME Mapping, SetLargeAddressSpace
  PROVE  Mapping'
<1> DEFINE w == Span(UserLimit, SpaceLimit)
           t == Released(Now, w)
<1>1. Become(t) /\ user_space_limit < SpaceLimit /\ user_space_limit' = SpaceLimit
  BY DEF SetLargeAddressSpace
<1>2. asserted
  BY <1>1 DEF Become
<1>3. user_space_limit \in UserLimits /\ Good(Now, user_space_limit)
  BY <1>2, Begin
<1>4. user_space_limit = UserLimit /\ UserLimit \in Nat /\ SpaceLimit \in Nat /\ UserLimit < SpaceLimit
  BY <1>1, <1>3, Numbers DEF UserLimits
<1>5. w.base = UserLimit /\ w.end = SpaceLimit
  BY DEF Span
<1> HIDE DEF w
<1>6. Good(t, SpaceLimit)
  BY <1>3, <1>4, <1>5, Releases
<1>7. Now' = t
  <2> HIDE DEF t
  <2> QED BY <1>1, <1>6, Becomes DEF Good
<1> QED BY <1>1, <1>6, <1>7 DEF Mapping, UserLimits

\* Placeholders that fill an area together become one.
LEMMA CoalesceStep ==
  ASSUME Mapping, NEW v \in views, NEW u \in views, Coalesce(v, Span(v.base, u.end))
  PROVE  Mapping'
<1> DEFINE w == Span(v.base, u.end)
           run == {x \in views : x.kind = "hole" /\ Overlap(x, w)}
           d == UnregisterAll(Now, run \ {v})
           c == Unregister(d, v)
           h == View(w, "hole")
           t == Register(c, h)
<1>1. Do(t) /\ v \in run /\ UNION {PagesOf(x) : x \in run} = PagesOf(w)
  BY DEF Coalesce
<1>2. asserted
  BY <1>1 DEF Do, Become
<1>3. /\ user_space_limit \in UserLimits /\ Good(Now, user_space_limit) /\ Now.views = views /\ Typed(Now)
      /\ views \subseteq ViewSet /\ Apart(Now)
  BY <1>2, Begin
<1>4. \A x \in run : x \in views /\ x \in ViewSet /\ ~System(x)
  BY <1>3 DEF System
<1>5. \A p : p \in PagesOf(w) <=> \E x \in run : p \in PagesOf(x)
  BY <1>1
<1> HIDE DEF run
<1>6. w.base = v.base /\ w.end = u.end
  BY DEF Span
<1> HIDE DEF w
<1>7. w.base \in Nat /\ w.end \in Nat /\ w.base < w.end /\ w.end <= SpaceLimit
  <2>1. v.base \in Nat /\ v.end \in Nat /\ v.base < v.end /\ u.end \in Nat /\ u.end <= SpaceLimit
    BY <1>3 DEF ViewSet
  <2>2. v.base \in PagesOf(v)
    BY <2>1 DEF PagesOf
  <2>3. v.base \in PagesOf(w)
    BY <1>1, <1>5, <2>2
  <2> QED BY <1>6, <2>1, <2>3 DEF PagesOf
<1>8. h \in ViewSet /\ ~System(h) /\ PagesOf(h) = PagesOf(w) /\ h.base = w.base /\ h.end = w.end
  <2>1. "hole" \in Kinds
    BY DEF Kinds
  <2> QED BY <1>7, <2>1 DEF View, ViewSet, System, PagesOf
<1> HIDE DEF h
<1>9. Follows(c, Now) /\ c.views = views \ run
  <2>1. Now \in States /\ IsFiniteSet(run \ {v}) /\ run \ {v} \in SUBSET ViewSet /\ v \in ViewSet
    <3>1. run \ {v} \in SUBSET Now.views
      BY <1>3, <1>4
    <3> QED BY <1>3, <1>4, <3>1, FS_Subset DEF Typed
  <2>2. Only(d, Now, views \ (run \ {v}))
    BY <1>3, <2>1, UnregistersAll
  <2> HIDE DEF d
  <2>3. Only(c, d, d.views \ {v})
    BY <2>1, <2>2, Unregisters DEF Only
  <2> HIDE DEF c
  <2>4. (views \ (run \ {v})) \ {v} = views \ run
    BY <1>1
  <2>5. Only(c, Now, views \ run)
    BY <2>2, <2>3, <2>4 DEF Only
  <2>6. IsFiniteSet(views \ run)
    BY <1>3, FS_Difference DEF Typed
  <2> QED BY <1>3, <2>5, <2>6, OnlyFollows
<1> HIDE DEF c
<1>10. ASSUME NEW x \in views \ run, NEW p \in PagesOf(x) PROVE p \notin PagesOf(w)
  <2>1. ASSUME NEW y \in run, p \in PagesOf(y) PROVE FALSE
    BY <1>3, <1>4, <1>10, <2>1, Shared DEF Apart
  <2> QED BY <1>5, <2>1
<1>11. Apart(c)
  BY <1>3, <1>9 DEF Apart
<1>12. ASSUME NEW x \in c.views PROVE ~Overlap(x, h)
  <2>1. SUFFICES ASSUME Overlap(x, h) PROVE FALSE
    OBVIOUS
  <2>2. x \in views \ run /\ x \in ViewSet
    BY <1>3, <1>9
  <2> DEFINE p == IF x.base < w.base THEN w.base ELSE x.base
  <2>3. p \in PagesOf(x) /\ p \in PagesOf(w)
    BY <1>7, <1>8, <2>1, <2>2 DEF Overlap, PagesOf, ViewSet
  <2> QED BY <1>10, <2>2, <2>3
<1>13. /\ Follows(t, c) /\ t.views = c.views \cup {h} /\ Apart(t)
       /\ \A p \in Int : OwnPage(t, p) <=> OwnPage(c, p) \/ (~System(h) /\ p \in PagesOf(h))
  <2>1. Typed(c)
    BY <1>9 DEF Follows
  <2> QED BY <1>8, <1>11, <1>12, <2>1, Adds
<1> HIDE DEF t
<1>14. Follows(t, Now)
  BY <1>9, <1>13 DEF Follows
<1>15. ASSUME NEW p \in Int PROVE OwnPage(t, p) <=> OwnPage(Now, p)
  <2>1. OwnPage(t, p) <=> OwnPage(c, p) \/ p \in PagesOf(w)
    BY <1>8, <1>13
  <2>2. OwnPage(c, p) <=> \E x \in views \ run : ~System(x) /\ p \in PagesOf(x)
    BY <1>9 DEF OwnPage
  <2>3. p \in PagesOf(w) <=> \E x \in run : ~System(x) /\ p \in PagesOf(x)
    BY <1>4, <1>5
  <2>4. OwnPage(Now, p) <=> \E x \in views : ~System(x) /\ p \in PagesOf(x)
    BY <1>3 DEF OwnPage
  <2> QED BY <1>4, <2>1, <2>2, <2>3, <2>4
<1>16. Exact(t)
  BY <1>3, <1>14, <1>15, OwnPages DEF Exact, Follows
<1>17. SystemOK(t) /\ AreasOK(t.areas, user_space_limit)
  BY <1>3, <1>8, <1>9, <1>13, <1>14 DEF Good, SystemOK, Follows
<1>18. Good(t, user_space_limit)
  BY <1>13, <1>14, <1>16, <1>17 DEF Good, Follows, Typed
<1> QED BY <1>1, <1>14, <1>18, Does DEF Follows

----------------------------------------------------------------------------
(* The theorem.                                                             *)

\* A process begins with no views and what the preloader reserved.
LEMMA MappingInit == VInit => Mapping
<1> SUFFICES ASSUME VInit PROVE Mapping
  OBVIOUS
<1> USE DEF VInit
<1>1. user_space_limit = UserLimit /\ UserLimit \in UserLimits
  BY DEF UserLimits
<1>2. /\ Now.views = {} /\ Now.areas = Preloaded
      /\ Now.mem = [p \in 0 .. (SpaceLimit - 1) |->
              IF \E a \in Preloaded : p \in PagesOf(a) THEN "held" ELSE "none"]
  BY DEF Now
<1>3. Now \in States
  <2>1. <<Span(0, Top)>> \in Seq(Ranges)
    <3>1. Top \in Nat /\ 0 < Top
      BY Numbers DEF Top
    <3>2. Span(0, Top) \in Ranges
      BY <3>1 DEF Span, Ranges
    <3> QED BY <3>2
  <2>2. Preloaded \in SUBSET Areas
    BY SpaceAssumption, RequestsAssumption DEF Areas
  <2>3. mem \in [0 .. (SpaceLimit - 1) -> {"none", "held", "view", "native"}]
    OBVIOUS
  <2>4. {} \in SUBSET ViewSet /\ TRUE \in BOOLEAN
    OBVIOUS
  <2> QED BY <2>1, <2>2, <2>3, <2>4 DEF States, Now
<1>4. IsFiniteSet(Now.views) /\ Apart(Now) /\ SystemOK(Now)
  BY <1>2, FS_EmptySet DEF Apart, SystemOK
<1>5. AreasOK(Now.areas, UserLimit)
  BY <1>2, SpaceAssumption DEF AreasOK, Aligned
<1>6. Exact(Now)
  BY <1>2 DEF Exact, OwnPage, Reserves
<1> QED BY <1>1, <1>3, <1>4, <1>5, <1>6 DEF Mapping, Good

\* Every operation keeps the invariant.
LEMMA MappingStep == Mapping /\ [VNext]_vvars => Mapping'
<1> SUFFICES ASSUME Mapping, [VNext]_vvars PROVE Mapping'
  OBVIOUS
<1>1. ASSUME NEW q \in Requests, Allocate(q) PROVE Mapping'
  BY <1>1, AllocateStep
<1>2. ASSUME NEW w \in Places, AllocateAt(w) PROVE Mapping'
  BY <1>2, AllocateAtStep
<1>3. ASSUME NEW v \in views, NEW k \in {"memory in hole", "file in hole"}, Replace(v, k) PROVE Mapping'
  BY <1>3, ReplaceStep
<1>4. ASSUME NEW v \in views, NEW w \in Pieces \cup {Span(v.base, v.end)}, FreePages(v, w) PROVE Mapping'
  BY <1>4, FreeStep
<1>5. ASSUME NEW v \in views, NEW w \in Pieces \cup {Span(v.base, v.end)}, Preserve(v, w) PROVE Mapping'
  BY <1>5, ToHoleStep DEF Preserve
<1>6. ASSUME NEW v \in views, NEW u \in views, Coalesce(v, Span(v.base, u.end)) PROVE Mapping'
  BY <1>6, CoalesceStep
<1>7. ASSUME NEW v \in views, UnmapFile(v) PROVE Mapping'
  BY <1>7, UnmapFileStep
<1>8. ASSUME NEW v \in views, UnmapToHole(v) PROVE Mapping'
  <2> DEFINE w == Span(v.base, v.end)
  <2>1. w \in Pieces \cup {Span(v.base, v.end)} /\ ToHole(v, w)
    BY <1>8 DEF UnmapToHole
  <2> HIDE DEF w
  <2> QED BY <2>1, ToHoleStep
<1>9. ASSUME NEW v \in views, UnmapBuiltin(v) PROVE Mapping'
  BY <1>9, UnmapBuiltinStep
<1>10. ASSUME NEW w \in Natives, CreateBuiltin(w) PROVE Mapping'
  BY <1>10, CreateBuiltinStep
<1>11. CASE SetLargeAddressSpace
  BY <1>11, SetLargeStep
<1>12. ASSUME NEW w \in LowAreas, ReleaseAddressSpace(w) PROVE Mapping'
  BY <1>12, ReleaseStep
<1>13. ASSUME NEW w \in Natives, NativeMap(w) PROVE Mapping'
  BY <1>13, NativeStep DEF NativeMap
<1>14. ASSUME NEW w \in Natives, NativeUnmap(w) PROVE Mapping'
  BY <1>14, NativeStep DEF NativeUnmap
<1>15. CASE UNCHANGED vvars
  BY <1>15 DEF vvars, Mapping, Now
<1> QED BY <1>1, <1>2, <1>3, <1>4, <1>5, <1>6, <1>7, <1>8, <1>9, <1>10, <1>11, <1>12, <1>13, <1>14, <1>15
        DEF VNext

\* The invariant says that the mappings are exact.
LEMMA MappingExact == Mapping /\ asserted => MappingsExact
<1> SUFFICES ASSUME Mapping, asserted PROVE MappingsExact
  OBVIOUS
<1>1. /\ user_space_limit \in UserLimits /\ Good(Now, user_space_limit) /\ Now.views = views /\ Now.mem = mem
      /\ Now.areas = reserved_areas /\ views \subseteq ViewSet
  BY Begin
<1>2. /\ Now \in States /\ free_ranges \in Seq(Ranges) /\ reserved_areas \in SUBSET Areas
      /\ mem \in [0 .. (SpaceLimit - 1) -> {"none", "held", "view", "native"}] /\ asserted \in BOOLEAN
  BY <1>1 DEF Good, States, Now
<1>3. VTypeOK
  <2>1. \A v \in views : v.kind \in Kinds /\ NotEmpty(v) /\ v.end <= SpaceLimit
    BY <1>1 DEF ViewSet, NotEmpty
  <2>2. \A i \in DOMAIN free_ranges : NotEmpty(free_ranges[i])
    BY <1>2 DEF Ranges, NotEmpty
  <2>3. \A a \in reserved_areas : a.base <= a.end
    BY <1>2 DEF Areas
  <2> QED BY <1>1, <1>2, <2>1, <2>2, <2>3 DEF VTypeOK, UserLimits
<1>4. ViewsApart
  BY <1>1 DEF Good, Apart, ViewsApart
<1>5. DOMAIN mem = 0 .. (SpaceLimit - 1)
  BY <1>2
<1> QED BY <1>1, <1>3, <1>4, <1>5, OwnPages DEF MappingsExact, OwnPage

\* As long as no assertion has failed, the mappings are exact: the host maps the pages of the
\* views of the program, holds what else is reserved, and keeps nothing of what was freed.
THEOREM MappingsAreExact == VSpec => [](asserted => MappingsExact)
<1>1. VInit => Mapping
  BY MappingInit
<1>2. Mapping /\ [VNext]_vvars => Mapping'
  BY MappingStep
<1>3. Mapping => (asserted => MappingsExact)
  BY MappingExact
<1> QED BY <1>1, <1>2, <1>3, PTL DEF VSpec
=============================================================================
