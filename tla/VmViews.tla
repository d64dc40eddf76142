------------------------------ MODULE VmViews ------------------------------
(***************************************************************************)
(* The address space of a process, virtual10.c: the views, the ranges in   *)
(* which no view lies, the areas that were reserved when the process       *)
(* started, and what the host system has mapped at each page.  Every       *)
(* operation holds virtual_mutex from its first test to its last change    *)
(* and is one action; only native libraries map memory behind its back.    *)
(*                                                                         *)
(* Addresses are page numbers; a granule, the unit of free_ranges, has     *)
(* Granule pages.  A view, a range and an area are records of a base and   *)
(* an end, the first page after.  Page protections are in VmPages.         *)
(***************************************************************************)
EXTENDS Integers, Sequences, FiniteSets, FiniteSetsExt

CONSTANTS
  Granule,          \* granularity_mask + 1, in pages
  SpaceStart,       \* address_space_start
  UserLimit,        \* user_space_limit of a process that has just started
  SpaceLimit,       \* address_space_limit
  Preloaded,        \* the areas the preloader reserved
  Preload,          \* the area it kept for the main image: base and end
  Requests,         \* allocations without an address: size, align, top, low, high
  Places,           \* allocations at an address: base, end and kind
  Pieces,           \* what NtFreeVirtualMemory is asked to free: base and end
  Natives,          \* what native libraries map: base and end
  LowAreas,         \* what free_reserved_memory gives back: base and end
  Win64             \* is_win64

\* The limits and what is reserved are aligned to granules, and so is what is given back.
ASSUME SpaceAssumption ==
  /\ Granule \in Nat \ {0} /\ {SpaceStart, UserLimit, SpaceLimit} \subseteq Nat
  /\ 0 < SpaceStart /\ SpaceStart < UserLimit /\ UserLimit <= SpaceLimit
  /\ \A p \in {SpaceStart, UserLimit, SpaceLimit} : p % Granule = 0
  /\ \A w \in Places \cup Pieces \cup Natives \cup LowAreas \cup Preloaded :
       w.base \in Nat /\ w.end \in Nat /\ w.base < w.end /\ w.end <= SpaceLimit
  /\ \A w \in LowAreas \cup Preloaded : w.base % Granule = 0 /\ w.end % Granule = 0

ASSUME RequestsAssumption ==
  /\ Requests \subseteq [size : Nat \ {0}, align : Nat \ {0}, top : BOOLEAN, low : Nat, high : Nat,
                         kind : {"memory", "file", "hole"}]
  /\ \A w \in Places : w.kind \in {"memory", "file", "hole"}
  /\ Preloaded \subseteq [base : Nat, end : Nat] /\ Preload.base \in Nat /\ Preload.end \in Nat
  /\ Win64 \in BOOLEAN

VARIABLES
  views,            \* views_tree
  free_ranges,      \* the sequence of the free ranges
  reserved_areas,   \* the reserved areas, a set since the list is sorted by address
  mem,              \* the host's mapping of each page
  user_space_limit,
  asserted          \* every assertion that was reached held

vvars == <<views, free_ranges, reserved_areas, mem, user_space_limit, asserted>>

\* A view is memory, a mapped file, a placeholder nobody uses, one that memory
\* or a file has replaced, a builtin module or an area that a library mapped.
Kinds == {"memory", "file", "hole", "memory in hole", "file in hole", "builtin", "native"}
System(v) == v.kind \in {"builtin", "native"}
Own(v) == v.kind \in {"memory", "hole", "memory in hole"}
Placeholder(v) == v.kind \in {"hole", "memory in hole", "file in hole"}

Top == SpaceLimit + Granule         \* stands for the end of the last range, ~0
Span(b, e) == [base |-> b, end |-> e]
View(w, k) == [base |-> w.base, end |-> w.end, kind |-> k]
PagesOf(w) == w.base .. (w.end - 1)
Overlap(v, w) == v.base < w.end /\ w.base < v.end
Least(a, b) == IF a < b THEN a ELSE b
Most(a, b) == IF a < b THEN b ELSE a
Down(a, unit) == a - (a % unit)
Up(a, unit) == Down(a + unit - 1, unit)
Granules(w) == Span(Down(w.base, Granule), Up(w.end, Granule))
NotEmpty(w) == w.base < w.end

\* w and what touches it as one.
Hull(w, some) == Span(Min({w.base} \cup {x.base : x \in some}), Max({w.end} \cup {x.end : x \in some}))

\* What an operation changes, as one value that its steps hand on.
Now == [views |-> views, free |-> free_ranges, areas |-> reserved_areas, mem |-> mem,
        ok |-> asserted]
\* An assertion that fails ends the process: nothing follows.
Become(s) == /\ asserted /\ asserted' = s.ok
             /\ views' = s.views /\ free_ranges' = s.free /\ reserved_areas' = s.areas /\ mem' = s.mem
Do(s) == Become(s) /\ UNCHANGED user_space_limit

VInit ==
  /\ views = {} /\ free_ranges = <<Span(0, Top)>> /\ asserted = TRUE
  /\ reserved_areas = Preloaded /\ user_space_limit = UserLimit
  /\ mem = [p \in 0 .. (SpaceLimit - 1) |->
              IF \E a \in Preloaded : p \in PagesOf(a) THEN "held" ELSE "none"]

----------------------------------------------------------------------------
\* The reserved areas.
Reserves(areas, p) == \E a \in areas : p \in PagesOf(a)

\* mmap_add_reserved_area: an area that touches others becomes one with them.
AddArea(areas, w) ==
  LET touching == {a \in areas : a.base <= w.end /\ a.end >= w.base}
  IN (areas \ touching) \cup {Hull(w, touching)}

\* mmap_remove_reserved_area: an area is cut, split or dropped.
RemoveArea(areas, w) ==
  {x \in {Span(a.base, Least(a.end, Most(w.base, a.base))) : a \in areas}
         \cup {Span(Most(a.base, Least(w.end, a.end)), a.end) : a \in areas} : NotEmpty(x)}

Mapped(s, w, how) == [s EXCEPT !.mem = [p \in DOMAIN @ |-> IF p \in PagesOf(w) THEN how ELSE @[p]]]

\* A mutant: what was reserved is unmapped like the rest.
UnmapAll(s, w) == Mapped(s, w, "none")

\* unmap_area: what is reserved stays held, and so does all above the user limit.
UnmapArea(s, w) ==
  LET above == Span(Most(w.base, user_space_limit), w.end)
      areas == IF NotEmpty(above) THEN AddArea(s.areas, above) ELSE s.areas
  IN [s EXCEPT !.areas = areas,
               !.mem = [p \in DOMAIN @ |->
                          IF p \notin PagesOf(w) THEN @[p]
                          ELSE IF Reserves(areas, p) THEN "held" ELSE "none"]]

----------------------------------------------------------------------------
\* The free ranges.

\* free_ranges_lower_bound: a binary search for the first that ends at addr or above.
LowerBound(ranges, addr) ==
  LET from[b, e \in 1 .. (Len(ranges) + 1)] ==
        IF b >= e THEN b
        ELSE LET mid == b + (e - b) \div 2
             IN IF ranges[mid].end < addr THEN from[mid + 1, e] ELSE from[b, mid]
  IN from[1, Len(ranges) + 1]

\* The assertions both functions make on the range they find.
Found(ranges, i, addr) == i \in DOMAIN ranges /\ (ranges[i].end > addr \/ i < Len(ranges))

IfAny(w) == IF NotEmpty(w) THEN <<w>> ELSE <<>>

\* What is left of range i without the part of it between base and end.
Without(s, i, base, end) ==
  IF end <= base THEN s
  ELSE [s EXCEPT !.free = SubSeq(@, 1, i - 1)
          \o IfAny(Span(@[i].base, base)) \o IfAny(Span(end, @[i].end))
          \o SubSeq(@, i + 1, Len(@))]

InsertIn(s, i, base, end) ==
  Without(s, i, base,
          IF s.free[i].end = base /\ s.free[i + 1].base >= end THEN base ELSE end)

InsertView(s, v) ==
  LET g == Granules(v)
      i == LowerBound(s.free, g.base)
  IN IF Found(s.free, i, g.base)
     THEN InsertIn(s, i, Most(g.base, s.free[i].base), Least(g.end, s.free[i].end))
     ELSE [s EXCEPT !.ok = FALSE]

\* free_ranges_remove_view: granules that a neighbour shares stay out.
Neighbour(s, v, w) == \A u \in s.views : ~(u.base > Least(v.base, w.base)
                                           /\ u.base < Most(v.base, w.base))
Prev(s, v) == {u \in s.views : u.base < v.base /\ Neighbour(s, u, v)}
Succ(s, v) == {u \in s.views : u.base > v.base /\ Neighbour(s, u, v)}

\* A mutant: the granule shared with the view before is freed.
FreedAlone(s, v) == Granules(v).base

FreedFrom(s, v) == IF \E u \in Prev(s, v) : Overlap(Granules(u), Granules(v))
                   THEN Granules(CHOOSE u \in Prev(s, v) : TRUE).end ELSE Granules(v).base
FreedTo(s, v, base) == IF \E u \in Succ(s, v) : Overlap(Granules(u), Span(base, Granules(v).end))
                       THEN Granules(CHOOSE u \in Succ(s, v) : TRUE).base ELSE Granules(v).end

\* The range w joins those it touches, or is put before range i.
JoinAt(ranges, i, w) ==
  LET below == ranges[i].end = w.base
      above == IF below THEN i < Len(ranges) /\ ranges[i + 1].base = w.end
                        ELSE ranges[i].base = w.end
      new == Span(IF below THEN ranges[i].base ELSE w.base,
                  IF above THEN ranges[IF below THEN i + 1 ELSE i].end ELSE w.end)
  IN SubSeq(ranges, 1, i - 1) \o <<new>>
       \o SubSeq(ranges, i + (IF below THEN 1 ELSE 0) + (IF above THEN 1 ELSE 0), Len(ranges))

FreeAt(s, i, w) ==
  IF w.end <= w.base \/ (Found(s.free, i, w.base) /\ s.free[i].base <= w.base /\ s.free[i].end >= w.end)
  THEN s
  ELSE IF ~Found(s.free, i, w.base) \/ Overlap(s.free[i], w) THEN [s EXCEPT !.ok = FALSE]
  ELSE [s EXCEPT !.free = JoinAt(@, i, w)]

RemoveView(s, v) ==
  FreeAt(s, LowerBound(s.free, Granules(v).base),
         Span(FreedFrom(s, v), FreedTo(s, v, FreedFrom(s, v))))

----------------------------------------------------------------------------
\* The views.
Register(s, v) == InsertView([s EXCEPT !.views = @ \cup {v}], v)
Unregister(s, v) == [RemoveView(s, v) EXCEPT !.views = @ \ {v}]

DeleteView(s, v) == Unregister(IF System(v) THEN s ELSE UnmapArea(s, v), v)
\* One after the other, in whatever order.
UnregisterAll(s, some) == FoldSet(LAMBDA v, t : Unregister(t, v), s, some)

\* create_view: a system view that lies there is dropped, and no other may lie there.
CreateView(s, v) ==
  LET others == {u \in s.views : Overlap(u, v)}
      t == UnregisterAll(s, others)
  IN IF \A u \in others : System(u) THEN Register(t, v) ELSE [s EXCEPT !.ok = FALSE]

\* find_view
At(s, p) == {v \in s.views : p \in PagesOf(v)}

----------------------------------------------------------------------------
\* The search for a place, alloc_free_area.

\* The parts of a range that lie in one reserved area, or in none.
Parts(s, w) ==
  LET ends == UNION {{a.base, a.end} : a \in s.areas}
      cuts == {w.base, w.end} \cup {c \in ends : w.base < c /\ c < w.end}
  IN {x \in {Span(b, e) : b, e \in cuts} : NotEmpty(x) /\ \A c \in cuts : c <= x.base \/ x.end <= c}

\* A mutant: the last place of a part is not tried.
StartsShort(s, x, q, double) ==
  LET first == IF q.top THEN Down(x.end - q.size, q.align) ELSE Up(x.base, q.align)
      start(n) == IF q.top THEN first - n * q.align ELSE first + n * q.align
  IN {[at |-> start(n), held |-> Reserves(s.areas, x.base), first |-> n = 0, room |-> q.size] :
        n \in {m \in 0 .. SpaceLimit : x.base <= start(m) /\ start(m) + q.size < x.end}}

\* Where a part is tried: once if it is reserved, else in steps from its end or start.
Starts(s, x, q, double) ==
  LET first == IF q.top THEN Down(x.end - q.size, q.align) ELSE Up(x.base, q.align)
      steps == IF Reserves(s.areas, x.base) THEN {0}
               ELSE IF double THEN {0, 1, 3, 7, 15} ELSE 0 .. SpaceLimit
      start(n) == IF q.top THEN first - n * q.align ELSE first + n * q.align
  IN {[at |-> start(n), held |-> Reserves(s.areas, x.base), first |-> n = 0,
       room |-> IF q.top THEN q.size ELSE x.end - start(n)] :
        n \in {m \in steps : x.base <= start(m) /\ start(m) + q.size <= x.end}}

\* The free ranges within the limits, in the order of the search, and without Preload.
Windows(s, q) ==
  LET low == Most(q.low, SpaceStart)
      high == Least(q.high, user_space_limit)
      in(r) == Span(Most(r.base, low), Least(r.end, high))
      nth(i) == in(s.free[IF q.top THEN Len(s.free) + 1 - i ELSE i])
  IN [at \in (DOMAIN s.free) \X {1, 2} |->
        LET r == nth(at[1]) IN IF at[2] = 1 THEN Span(r.base, Least(r.end, Preload.base))
                               ELSE Span(Most(r.base, Preload.end), r.end)]

Tries(s, q, double) ==
  LET ws == Windows(s, q)
      order(n, at) == (2 * n[1] + n[2]) * 2 * Top + IF q.top THEN Top - at ELSE at
  IN UNION {{[t EXCEPT !.at = [at |-> t.at, nth |-> order(n, t.at)]] :
               t \in UNION {Starts(s, x, q, double) : x \in Parts(s, ws[n])}} :
            n \in {m \in DOMAIN ws : NotEmpty(ws[m])}}

NoPlace == -1
Took(s, t, q) == t.held \/ \A p \in t.at.at .. (t.at.at + q.size - 1) : s.mem[p] = "none"
FirstOf(some) == CHOOSE t \in some : \A u \in some : t.at.nth <= u.at.nth

\* A place that turned out to be mapped gets a native view, so that it is not tried again.
Exclude(s, w, at, size) ==
  LET beside == {v \in s.views : v.kind = "native" /\ (v.end = w.base \/ v.base = w.end)}
      start == Most(at, 0)
  IN IF start >= w.end \/ start + size < w.base
     THEN CreateView(UnregisterAll(s, beside), View(Hull(w, beside), "native")) ELSE s

ExcludeMissed(s, q, missed, at) ==
  IF missed = {} THEN s
  ELSE \* the first try of a part that was mapped, and a step, or what is left of the part
    LET m == FirstOf(missed)
    IN Exclude(s, Granules(Span(m.at.at, m.at.at + Least(q.align, m.room))), at, q.size)

Placed(s, q, tries, took, at) ==
  [at |-> at,
   s |-> ExcludeMissed(s, q, {t \in tries \ took : t.first /\ q.align < 2 * Granule
                          /\ \A u \in took : u.at.at = at => t.at.nth < u.at.nth}, at)]

Placing(s, q, tries, took) ==
  Placed(s, q, tries, took, IF took = {} THEN NoPlace ELSE FirstOf(took).at.at)

Among(s, q, tries) == Placing(s, q, tries, {t \in tries : Took(s, t, q)})

AllocFreeArea(s, q, double) == Among(s, q, Tries(s, q, double))

\* map_view without an address: the native views are forgotten before it gives up.
Again(r, q) ==
  IF r.at # NoPlace THEN r
  ELSE AllocFreeArea(UnregisterAll(r.s, {v \in r.s.views : v.kind = "native"}), q, Win64)
MapFree(s, q) == Again(AllocFreeArea(s, q, TRUE), q)

\* NtAllocateVirtualMemory and NtMapViewOfSection, without an address.
Allocate(q) ==
  \E r \in {MapFree(Now, q)} : LET w == Span(r.at, r.at + q.size)
  IN Do(IF r.at = NoPlace THEN r.s
            ELSE CreateView(Mapped(r.s, w, "view"), View(w, q.kind)))

\* The same at an address, map_fixed_area: what was mapped before a part fails is undone.
AllocateAt(w) ==
  LET s == Now
      taken == {x \in Parts(s, w) : ~Reserves(s.areas, x.base)
                                    /\ \E p \in PagesOf(x) : s.mem[p] # "none"}
  IN /\ w.base % Granule = 0 /\ w.base >= SpaceStart
     /\ \A v \in s.views : ~Overlap(v, w)
     /\ Do(IF taken = {} THEN CreateView(Mapped(s, w, "view"), View(w, w.kind))
               ELSE UnmapArea(s, Span(w.base, Min({x.base : x \in taken}))))

\* MEM_REPLACE_PLACEHOLDER
Replace(v, kind) ==
  /\ v.kind = "hole"
  /\ Do([Now EXCEPT !.views = (@ \ {v}) \cup {View(v, kind)}])

----------------------------------------------------------------------------
\* NtFreeVirtualMemory and NtUnmapViewOfSection.

\* remove_pages_from_view: the rest is registered again, in one piece or two.
RemovePages(s, v, w) ==
  LET keep(t, x) == IF NotEmpty(x) THEN Register(t, View(x, v.kind)) ELSE t
  IN keep(keep(Unregister(s, v), Span(v.base, w.base)), Span(w.end, v.end))

\* free_pages
FreePages(v, w) ==
  /\ Own(v) /\ w.base >= v.base /\ w.end <= v.end
  /\ Do(IF Span(v.base, v.end) = w THEN DeleteView(Now, v)
            ELSE UnmapArea(RemovePages(Now, v, w), w))

\* A mutant: the pages stay in their view when they become a placeholder.
ToHoleTwice(v, w) ==
  /\ Placeholder(v) /\ w.base >= v.base /\ w.end <= v.end
  /\ ~(v.kind = "hole" /\ Span(v.base, v.end) = w)
  /\ Do(IF Span(v.base, v.end) = w THEN [Now EXCEPT !.views = (@ \ {v}) \cup {View(v, "hole")}]
        ELSE CreateView(Now, View(w, "hole")))

\* free_pages_preserve_placeholder
ToHole(v, w) ==
  LET whole == Span(v.base, v.end) = w
      s == IF whole THEN [Now EXCEPT !.views = (@ \ {v}) \cup {View(v, "hole")}]
           ELSE CreateView(RemovePages(Now, v, w), View(w, "hole"))
  IN /\ Placeholder(v) /\ w.base >= v.base /\ w.end <= v.end
     /\ ~(v.kind = "hole" /\ whole)
     /\ Do(Mapped(s, w, "view"))

Preserve(v, w) == Own(v) /\ ToHole(v, w)

\* coalesce_placeholders
Coalesce(v, w) ==
  LET run == {u \in views : u.kind = "hole" /\ Overlap(u, w)}
      s == Unregister(UnregisterAll(Now, run \ {v}), v)
  IN /\ v \in run /\ v.base = w.base /\ Cardinality(run) > 1
     /\ UNION {PagesOf(u) : u \in run} = PagesOf(w)
     /\ Do(Register(s, View(w, "hole")))

UnmapFile(v) == v.kind \in {"file", "file in hole"} /\ Do(DeleteView(Now, v))
UnmapToHole(v) == v.kind = "file in hole" /\ ToHole(v, Span(v.base, v.end))

\* release_builtin_module closes the library, which unmaps it unless others use it.
UnmapBuiltin(v) ==
  /\ v.kind = "builtin"
  /\ \E how \in {"none", "native"} : Do(Mapped(DeleteView(Now, v), v, how))

\* virtual_create_builtin_view, for a library that is mapped.
CreateBuiltin(w) ==
  /\ \A p \in PagesOf(w) : mem[p] = "native"
  /\ \A v \in views : v.kind = "builtin" => ~Overlap(v, w)
  /\ Do(CreateView(Now, View(w, "builtin")))

----------------------------------------------------------------------------
\* free_reserved_memory: what no view covers is unmapped.
Released(s, w) ==
  LET freed == {p \in PagesOf(w) : Reserves(s.areas, p) /\ At(s, p) = {}}
  IN [s EXCEPT !.areas = RemoveArea(@, w),
               !.mem = [p \in DOMAIN @ |-> IF p \in freed THEN "none" ELSE @[p]]]

\* virtual_release_address_space
ReleaseAddressSpace(w) == user_space_limit = UserLimit /\ Do(Released(Now, w))

\* virtual_set_large_address_space
SetLargeAddressSpace ==
  /\ user_space_limit < SpaceLimit /\ user_space_limit' = SpaceLimit
  /\ Become(Released(Now, Span(UserLimit, SpaceLimit)))

\* A native library maps and unmaps memory as it likes.
Native(w, from, to) ==
  /\ asserted /\ \A p \in PagesOf(w) : mem[p] = from
  /\ mem' = [p \in DOMAIN mem |-> IF p \in PagesOf(w) THEN to ELSE mem[p]]
  /\ UNCHANGED <<views, free_ranges, reserved_areas, user_space_limit, asserted>>
NativeMap(w) == Native(w, "none", "native")
NativeUnmap(w) == Native(w, "native", "none")

VNext ==
  \/ \E q \in Requests : Allocate(q)
  \/ \E w \in Places : AllocateAt(w)
  \/ \E v \in views, k \in {"memory in hole", "file in hole"} : Replace(v, k)
  \/ \E v \in views : \E w \in Pieces \cup {Span(v.base, v.end)} : FreePages(v, w)
  \/ \E v \in views : \E w \in Pieces \cup {Span(v.base, v.end)} : Preserve(v, w)
  \/ \E v \in views : \E u \in views : Coalesce(v, Span(v.base, u.end))
  \/ \E v \in views : UnmapFile(v)
  \/ \E v \in views : UnmapToHole(v)
  \/ \E v \in views : UnmapBuiltin(v)
  \/ \E w \in Natives : CreateBuiltin(w)
  \/ SetLargeAddressSpace
  \/ \E w \in LowAreas : ReleaseAddressSpace(w)
  \/ \E w \in Natives : NativeMap(w)
  \/ \E w \in Natives : NativeUnmap(w)

VSpec == VInit /\ [][VNext]_vvars

----------------------------------------------------------------------------
VTypeOK ==
  /\ \A v \in views : v.kind \in Kinds /\ NotEmpty(v) /\ v.end <= SpaceLimit
  /\ \A i \in DOMAIN free_ranges : NotEmpty(free_ranges[i])
  /\ \A a \in reserved_areas : a.base <= a.end
  /\ mem \in [0 .. (SpaceLimit - 1) -> {"none", "held", "view", "native"}]
  /\ user_space_limit \in {UserLimit, SpaceLimit} /\ asserted \in BOOLEAN

\* No assertion of the code fails: no view is made over another that is not a
\* system view, and the range each update of free_ranges expects is there.
NoAssertFails == asserted

\* No page belongs to two views, whatever was split, replaced and merged.
ViewsApart == \A v, w \in views : v # w => ~Overlap(v, w)

\* free_ranges holds, in order and with nothing between two ranges missing, just
\* the granules no view touches: an allocation is never tried where a view is,
\* and no freed granule is lost.
FreeRangesExact ==
  /\ \A i \in 1 .. (Len(free_ranges) - 1) : free_ranges[i].end < free_ranges[i + 1].base
  /\ \A g \in 0 .. (Top \div Granule - 1) :
       LET w == Span(g * Granule, (g + 1) * Granule)
       IN (\E i \in DOMAIN free_ranges : free_ranges[i].base <= w.base /\ w.end <= free_ranges[i].end)
            <=> \A v \in views : ~Overlap(v, w)

\* The host's mappings are those of the views and of what is reserved: freed
\* memory is unmapped, or held where it was reserved, and nothing stays behind. No page
\* is in two views.
MappingsExact ==
  /\ VTypeOK /\ ViewsApart
  /\ \A p \in DOMAIN mem :
       LET own == \E v \in views : ~System(v) /\ p \in PagesOf(v)
       IN /\ mem[p] = "view" <=> own
          /\ mem[p] = "held" <=> ~own /\ Reserves(reserved_areas, p)

\* Without doubled steps, an allocation fails only if there is no place for it: no
\* aligned run of pages outside views that is unmapped or in one reserved area.
SearchComplete ==
  \A q \in Requests :
    LET s == UnregisterAll(Now, {v \in views : v.kind = "native"})
        a == AllocFreeArea(s, q, FALSE).at
        fits(b) == LET w == Span(b, b + q.size)
                   IN /\ b % q.align = 0 /\ b >= Most(q.low, SpaceStart) /\ w.end <= Least(q.high, user_space_limit)
                      /\ ~Overlap(w, Preload)
                      /\ \A v \in s.views : ~Overlap(Granules(v), w)
                      /\ \/ \A p \in PagesOf(w) : s.mem[p] = "none"
                         \/ \E x \in s.areas : x.base <= w.base /\ w.end <= x.end
    IN (a # NoPlace => fits(a)) /\ (a = NoPlace => \A b \in DOMAIN mem : ~fits(b))
============================================================================
