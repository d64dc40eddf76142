------------------------------ MODULE VmPages ------------------------------
(***************************************************************************)
(* The protections of pages, virtual10.c: the byte pages_vprot keeps for   *)
(* each page, the protection the host has for it, write watches, the guard *)
(* page of a stack, and the faults the host reports.  Whatever changes     *)
(* protections holds virtual_mutex; a thread that touches a page does not, *)
(* so that its fault is handled later, when other threads may have changed *)
(* the page.  A locked call, which lets the host write to watched pages,   *)
(* holds the mutex from its first step to its last.                        *)
(*                                                                         *)
(* The views are given: a stack, pages 0 to StackEnd - 1, a view with      *)
(* write watches, one of memory and one of an image.  The views themselves *)
(* are in VmViews.  Write watches are those without the kernel's help.     *)
(***************************************************************************)
EXTENDS Integers, FiniteSets, FiniteSetsExt

CONSTANTS
  Threads, Owner,             \* Owner runs on the stack
  Allowed,                    \* the threads with allow_writes
  StackEnd, Guaranteed, Limits,   \* the stack's size, what is kept for an overflow, first limits
  Watch, Data, Image,         \* the pages of the other views
  Worlds,                     \* sets of pages: the views that a run starts with
  Protects,                   \* pages to the protections asked for, access and guard
  Word                        \* the bytes get_vprot_range_size compares at once

ASSUME PagesAssumption ==
  /\ Owner \in Threads /\ Allowed \subseteq Threads
  /\ StackEnd \in Nat /\ Guaranteed \in 2 .. (StackEnd - 2) /\ Word \in Nat \ {0}
  /\ Limits \subseteq 2 .. StackEnd
  /\ \A p \in Watch \cup Data \cup Image : p \in Nat /\ p > StackEnd
  /\ Watch \cap Data = {} /\ Watch \cap Image = {} /\ Data \cap Image = {}

Convex(v) == \A b \in v, e \in v : b .. e \subseteq v

\* A run starts with all of the stack or none of it; a view has no gaps.
ASSUME WorldsAssumption ==
  \A world \in Worlds :
    /\ world \subseteq 0 .. (StackEnd - 1) \cup Watch \cup Data \cup Image
    /\ 0 .. (StackEnd - 1) \subseteq world \/ 0 .. (StackEnd - 1) \cap world = {}
    /\ Convex(Watch \cap world) /\ Convex(Data \cap world) /\ Convex(Image \cap world)
    /\ \A v \in {Watch \cap world, Data \cap world, Image \cap world} :
         \A want \in Protects[v] :
           /\ want.guard \in BOOLEAN
           /\ want.access \in {"readonly", "readwrite", "writecopy", "execute", "execute_read",
                               "execute_readwrite", "execute_writecopy", "noaccess"}

VARIABLES
  vprot,            \* pages_vprot: a set of flags for each page
  host,             \* what the host allows: "r", "w", "x"
  limit,            \* Tib.StackLimit
  force_exec, write_exceptions,
  call,             \* the locked call that holds the mutex
  pending,          \* the fault each thread has to handle
  dirty             \* pages that were written, or let be written, since their watch was set

vars == <<vprot, host, limit, force_exec, write_exceptions, call, pending, dirty>>
NoFault == [page |-> -1, access |-> "none"]
NoCall == [by |-> Owner, pages |-> {}, opened |-> FALSE]
Pages == DOMAIN vprot
Stack == 0 .. (StackEnd - 1)
Views == {Watch \cap Pages, Data \cap Pages, Image \cap Pages}
Runs(some) == {b .. e : b \in some, e \in some} \ {{}}

\* get_unix_prot
UnixProt(v) ==
  {a \in {"r", "w", "x"} :
     /\ "commit" \in v /\ "guard" \notin v
     /\ CASE a = "r" -> v \cap {"read", "write", "copy", "exec"} # {}
          [] a = "w" -> v \cap {"write", "copy"} # {} /\ "watch" \notin v
          [] a = "x" -> "exec" \in v}
Writable(v) == "w" \in UnixProt(v \ {"watch"})
ExecWrite(v) == "exec" \in v /\ v \cap {"write", "copy"} # {}

\* mprotect_exec, on a host that lets a page be writable and executable
Forced(force, prot) == IF force /\ "r" \in prot THEN prot \cup {"x"} ELSE prot
Prot(v) == Forced(force_exec, UnixProt(v))

\* set_page_vprot and mprotect_range: v becomes the flags of all pages, the host is
\* told those of some.
Apply(v, some) ==
  /\ vprot' = v
  /\ host' = [p \in Pages |-> IF p \in some THEN Prot(v[p]) ELSE host[p]]
Bits(some, set, clear) == [p \in Pages |-> IF p \in some THEN (vprot[p] \ clear) \cup set ELSE vprot[p]]
Free == call = NoCall

\* virtual_alloc_thread_stack commits all of a stack but its first page; one that a
\* program made itself, as for a fiber, is reserved below its guard page.
InitFlags(p, l) ==
  CASE p = 0 -> {}
    [] p \in Stack /\ p >= l -> {"read", "write", "commit"}
    [] p = l - 1 -> {"read", "write", "commit", "guard"}
    [] p \in Stack /\ 0 < p /\ p < l - 1 -> {"read", "write"}
    [] p \in Watch -> {"read", "write", "commit", "watch"}
    [] p \in Data -> {"read", "write", "commit"}
    [] OTHER -> {"read", "copy", "commit"}
Init ==
  /\ limit \in Limits
  /\ \E some \in Worlds : vprot = [p \in some |-> InitFlags(p, limit)]
  /\ host = [p \in Pages |-> UnixProt(vprot[p])]
  /\ force_exec = FALSE /\ write_exceptions = FALSE
  /\ call = NoCall /\ pending = [t \in Threads |-> NoFault] /\ dirty = {}

----------------------------------------------------------------------------
\* A thread reads or writes a page.  What it writes while a locked call has opened
\* a watched page is seen by nobody, and is not counted.
Touch(t, p, access) ==
  /\ pending[t] = NoFault /\ ~(call.by = t /\ ~Free)
  /\ IF access \in host[p]
     THEN /\ dirty' = IF access = "w" /\ ~("watch" \in vprot[p] /\ p \in call.pages)
                      THEN dirty \cup {p} ELSE dirty
          /\ UNCHANGED pending
     ELSE pending' = [pending EXCEPT ![t] = [page |-> p, access |-> access]] /\ UNCHANGED dirty
  /\ UNCHANGED <<vprot, host, limit, force_exec, write_exceptions, call>>

\* grow_thread_stack: the page is used, and the one below it is the guard, or all
\* that was kept for an overflow is given away.
Overflows(p) == p < 1 + Guaranteed
Kept == 1 .. Guaranteed
Grown(p) ==
  LET used == Bits({p}, {"commit"}, {"guard"})
      changed == IF Overflows(p) THEN Kept ELSE {p - 1}
  IN <<[q \in Pages |-> IF q \notin changed THEN used[q]
                        ELSE (used[q] \ {"guard"}) \cup {"commit"}
                             \cup (IF Overflows(p) THEN {} ELSE {"guard"})],
       changed \cup {p}>>

\* A mutant: the guard page is not moved.
GrowGuardLost(p) ==
  Apply(Bits({p}, {"commit"}, {"guard"}), {p}) /\ limit' = (IF Overflows(p) THEN 1 ELSE p)
Grow(p) == Apply(Grown(p)[1], Grown(p)[2]) /\ limit' = (IF Overflows(p) THEN 1 ELSE p)

\* virtual_handle_fault
InStack(t, p) == t = Owner /\ 0 < p /\ p <= StackEnd
Guarded(p, on_signal_stack) == ~on_signal_stack /\ "guard" \in vprot[p]
Denied(t, p) == write_exceptions /\ ExecWrite(vprot[p]) /\ t \notin Allowed
Lifts(t, p) == "watch" \in vprot[p] /\ ~Denied(t, p)

\* A mutant: only the thread that lifts the watch goes on.
AnswerFirstOnly(t, f, on_signal_stack) ==
  CASE Guarded(f.page, on_signal_stack) ->
         IF ~InStack(t, f.page) THEN "guard page"
         ELSE IF Overflows(f.page) THEN "stack overflow" ELSE "success"
    [] /\ ~Guarded(f.page, on_signal_stack) /\ f.access = "w"
       /\ "watch" \in vprot[f.page] /\ Denied(t, f.page) -> "in page error"
    [] f.access = "w" /\ Lifts(t, f.page) /\ Writable(vprot[f.page]) -> "success"
    [] OTHER -> "access violation"

Answer(t, f, on_signal_stack) ==
  CASE Guarded(f.page, on_signal_stack) ->
         IF ~InStack(t, f.page) THEN "guard page"
         ELSE IF Overflows(f.page) THEN "stack overflow" ELSE "success"
    [] /\ ~Guarded(f.page, on_signal_stack) /\ f.access = "w"
       /\ "watch" \in vprot[f.page] /\ Denied(t, f.page) -> "in page error"
    [] /\ f.access = "w" /\ Writable(vprot[f.page])
       /\ \/ Lifts(t, f.page)
          \/ f.page \in Watch /\ "watch" \notin vprot[f.page] -> "success"
    [] OTHER -> "access violation"

Handle(t, p, write, on_signal_stack) ==
  IF Guarded(p, on_signal_stack)
  THEN IF InStack(t, p) THEN Grow(p)
       ELSE Apply(Bits({p}, {}, {"guard"}), {p}) /\ UNCHANGED limit
  ELSE /\ IF write /\ Lifts(t, p) THEN Apply(Bits({p}, {}, {"watch"}), {p})
          ELSE UNCHANGED <<vprot, host>>
       /\ UNCHANGED limit

HandleFault(t) ==
  /\ Free /\ pending[t] # NoFault
  /\ \E on_signal_stack \in BOOLEAN :
       Handle(t, pending[t].page, pending[t].access = "w", on_signal_stack)
  /\ pending' = [pending EXCEPT ![t] = NoFault]
  /\ dirty' = IF "watch" \in vprot[pending[t].page] /\ "watch" \notin vprot'[pending[t].page]
              THEN dirty \cup {pending[t].page} ELSE dirty
  /\ UNCHANGED <<force_exec, write_exceptions, call>>

\* virtual_setup_exception: the record goes below the stack pointer, from page sp to q.
SetupException(sp, q) ==
  /\ Free /\ pending[Owner] = NoFault /\ InStack(Owner, sp) /\ q >= 1
  /\ IF q < limit /\ "guard" \in vprot[q] THEN Grow(q) ELSE UNCHANGED <<vprot, host, limit>>
  /\ UNCHANGED <<force_exec, write_exceptions, call, pending, dirty>>

----------------------------------------------------------------------------
\* get_vprot_flags
Flags(p, access) ==
  LET w == IF p \in Image THEN "copy" ELSE "write"
  IN CASE access = "readonly"          -> {"read"}
       [] access = "readwrite"         -> {"read", w}
       [] access = "writecopy"         -> {"read", "copy"}
       [] access = "execute"           -> {"exec"}
       [] access = "execute_read"      -> {"exec", "read"}
       [] access = "execute_readwrite" -> {"exec", "read", w}
       [] access = "execute_writecopy" -> {"exec", "read", "copy"}
       [] access = "noaccess"          -> {}

\* A mutant: an executable page is not watched.
SetVprotUnwatched(some, v) ==
  IF some \subseteq Watch THEN Apply([p \in Pages |-> IF p \in some THEN v \cup (vprot[p] \cap {"watch"}) ELSE vprot[p]], some)
  ELSE Apply([p \in Pages |-> IF p \in some THEN v ELSE vprot[p]], some)

\* set_vprot: in a view with write watches each page keeps its own.
SetVprot(some, v) ==
  LET kept(p) == IF p \in Watch THEN vprot[p] \cap {"watch"}
                 ELSE IF write_exceptions /\ ExecWrite(v) THEN {"watch"} ELSE {}
  IN Apply([p \in Pages |-> IF p \in some THEN v \cup kept(p) ELSE vprot[p]], some)

\* get_vprot_range_size, for the committed flag: byte by byte up to the first aligned
\* word, then by words, which may reach past the end, then in the word that differs.
RangeSize(b, e) ==
  LET same(p) == p \in Pages => ("commit" \in vprot[p] <=> "commit" \in vprot[b])
      aligned == Min({e, b + ((Word - (b % Word)) % Word)})
      upto(from, to) == Min({to} \cup {q \in from .. (to - 1) : ~same(q)})
      words == {w \in aligned .. (e - 1) : (w - aligned) % Word = 0
                                           /\ \E q \in w .. (w + Word - 1) : ~same(q)}
  IN IF upto(b, aligned) < aligned THEN upto(b, aligned) - b
     ELSE IF words = {} THEN e - b ELSE upto(Min(words), e) - b

\* NtProtectVirtualMemory on committed pages, and NtAllocateVirtualMemory, which commits.
SetProtection(some, want, commits) ==
  LET flags == Flags(Min(some), want.access) \cup {"commit"} \cup (IF want.guard THEN {"guard"} ELSE {})
  IN /\ Free /\ (some \subseteq Image \/ "copy" \notin flags)
     /\ commits \/ ("commit" \in vprot[Min(some)]
                    /\ RangeSize(Min(some), Max(some) + 1) = Cardinality(some))
     /\ SetVprot(some, flags)
     /\ dirty' = dirty \ {p \in some \ Watch : "watch" \in vprot'[p]}
     /\ UNCHANGED <<limit, force_exec, write_exceptions, call, pending>>

\* decommit_pages
Decommit(some) ==
  /\ Free /\ some \cap Image = {}
  /\ vprot' = Bits(some, {}, {"commit"})
  /\ host' = [p \in Pages |-> IF p \in some THEN {} ELSE host[p]]
  /\ UNCHANGED <<limit, force_exec, write_exceptions, call, pending, dirty>>

----------------------------------------------------------------------------
\* NtGetWriteWatch looks no further than where the last page that there is room for is.
Scanned(some, count) ==
  {p \in some : Cardinality({q \in some : q < p /\ "watch" \notin vprot[q]}) < count}

\* A mutant: all that was asked for is reset.
ResetScannedAll(some, count) == some

ResetScanned(some, count) == Scanned(some, count)

GetWriteWatch(some, count) ==
  /\ Free
  /\ Apply(Bits(ResetScanned(some, count), {"watch"}, {}), ResetScanned(some, count))
  /\ dirty' = dirty \ Scanned(some, count)
  /\ UNCHANGED <<limit, force_exec, write_exceptions, call, pending>>

\* NtResetWriteWatch
ResetWriteWatch(some) ==
  /\ Free /\ Apply(Bits(some, {"watch"}, {}), some) /\ dirty' = dirty \ some
  /\ UNCHANGED <<limit, force_exec, write_exceptions, call, pending>>

\* A locked call: the pages are opened for the host, check_write_access.
BeginLocked(t, some) ==
  LET has_write_watch == \E p \in some : "watch" \in vprot[p]
  IN /\ Free /\ pending[t] = NoFault /\ \A p \in some : Writable(vprot[p])
     /\ call' = [by |-> t, pages |-> some, opened |-> has_write_watch]
     /\ host' = [p \in Pages |-> IF has_write_watch /\ p \in some THEN Prot(vprot[p] \ {"watch"})
                                 ELSE host[p]]
     /\ UNCHANGED <<vprot, limit, force_exec, write_exceptions, pending, dirty>>

\* update_write_watches: some of them were written, from the first; for recvmsg the
\* code says that none were, and what it wrote is not counted here either.
Accessed(n) == {p \in call.pages : p < Min(call.pages) + n}

\* A mutant: the pages are closed again only where they were written.
RestoreAccessed(n) == Apply(Bits(Accessed(n), {}, {"watch"}), Accessed(n))

Restore(n) == Apply(Bits(Accessed(n), {}, {"watch"}), call.pages)

EndLocked(n) ==
  /\ ~Free /\ n <= Cardinality(call.pages)
  /\ IF call.opened THEN Restore(n) ELSE UNCHANGED <<vprot, host>>
  /\ dirty' = dirty \cup Accessed(n)
  /\ call' = NoCall
  /\ UNCHANGED <<limit, force_exec, write_exceptions, pending>>

\* virtual_set_force_exec and virtual_enable_write_exceptions, for all views.
SetForceExec(enable) ==
  /\ Free /\ force_exec # enable /\ force_exec' = enable
  /\ host' = [p \in Pages |-> Forced(enable, UnixProt(vprot[p]))]
  /\ UNCHANGED <<vprot, limit, write_exceptions, call, pending, dirty>>

EnableWriteExceptions(enable) ==
  LET exec == {p \in Pages : ExecWrite(vprot[p])}
      changed == UNION {v \in Views : v \cap exec # {}}
  IN /\ Free /\ write_exceptions # enable /\ write_exceptions' = enable
     /\ IF enable THEN Apply(Bits(exec, {"watch"}, {}), changed) /\ dirty' = dirty \ exec
        ELSE UNCHANGED <<vprot, host, dirty>>
     /\ UNCHANGED <<limit, force_exec, call, pending>>

----------------------------------------------------------------------------
\* A program's threads do not touch each other's stacks below the limit.
Below(t) == IF t = Owner THEN {} ELSE 0 .. (limit - 1)

Watches == Runs(Watch \cap Pages)

Next ==
  \/ \E t \in Threads : \E p \in Pages \ Below(t), access \in {"r", "w"} : Touch(t, p, access)
  \/ \E t \in Threads : HandleFault(t)
  \/ \E sp \in Stack \cap Pages : \E q \in {sp, sp - 1} : SetupException(sp, q)
  \/ \E v \in Views : \E some \in Runs(v) : \E want \in Protects[v] : SetProtection(some, want, FALSE)
  \/ \E v \in Views \ {Image} : \E some \in Runs(v) : \E want \in Protects[v] : SetProtection(some, want, TRUE)
  \/ \E v \in Views : \E some \in Runs(v) : Decommit(some)
  \/ \E some \in Watches : \E count \in 1 .. Cardinality(some) : GetWriteWatch(some, count)
  \/ \E some \in Watches : ResetWriteWatch(some)
  \/ \E t \in Threads : \E v \in Views : \E some \in Runs(v) : BeginLocked(t, some)
  \/ \E n \in 0 .. Cardinality(call.pages) : EndLocked(n)
  \/ \E enable \in BOOLEAN : SetForceExec(enable)
  \/ \E enable \in BOOLEAN : EnableWriteExceptions(enable)

Spec == Init /\ [][Next]_vars

----------------------------------------------------------------------------
AllFlags == {"read", "write", "copy", "exec", "guard", "commit", "watch"}
TypeOK ==
  /\ Pages \in Worlds /\ \A p \in Pages : vprot[p] \subseteq AllFlags
  /\ DOMAIN host = Pages /\ \A p \in Pages : host[p] \subseteq {"r", "w", "x"}
  /\ limit \in 1 .. StackEnd /\ force_exec \in BOOLEAN /\ write_exceptions \in BOOLEAN
  /\ call.by \in Threads /\ call.pages \subseteq Pages /\ call.opened \in BOOLEAN
  /\ DOMAIN pending = Threads /\ dirty \subseteq Pages
  /\ \A t \in Threads : pending[t] = NoFault \/ pending[t].page \in Pages

\* The host protects each page as its flags say, but for the pages a locked call
\* has opened: whatever changed them, and wherever a call gave up.
HostExact ==
  TypeOK /\ \A p \in Pages :
    host[p] = Prot(IF call.opened /\ p \in call.pages THEN vprot[p] \ {"watch"} ELSE vprot[p])

\* No page that was written counts as unwritten: what a thread or the host wrote
\* since the last reset is reported by the next NtGetWriteWatch.
WatchExact == \A p \in dirty \cap Watch : "watch" \notin vprot[p]

\* A write to a page with write watches that may be written is never refused, also
\* when another thread lifted the watch between the fault and its handling.
WriteNotRefused ==
  \A t \in Threads :
    LET f == pending[t]
    IN f # NoFault /\ f.page \in Watch /\ f.access = "w" /\ Writable(vprot[f.page])
         => \A s \in BOOLEAN : Answer(t, f, s) # "access violation"

\* The stack is usable from its limit on, and the page below it is the guard page,
\* so that the record of an exception finds room below any stack pointer in use;
\* the guard page does not get into what is kept for an overflow.
StackGuarded ==
  Stack \subseteq Pages =>
    /\ \A p \in limit .. (StackEnd - 1) : "w" \in UnixProt(vprot[p])
    /\ limit > 1 => "guard" \in vprot[limit - 1]
    /\ limit = 1 \/ limit \in Limits \/ limit > Guaranteed

\* With write exceptions on, the first write to an executable page by a thread
\* that is not allowed to is caught.
FirstWriteCaught ==
  [][\A t \in Threads \ Allowed, p \in Data \cap Pages :
       write_exceptions /\ ExecWrite(vprot[p]) /\ p \notin dirty /\ p \notin call.pages
         => ~(Touch(t, p, "w") /\ p \in dirty')]_vars

============================================================================
