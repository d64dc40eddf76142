--------------------------- MODULE FsyncShmProofs ---------------------------
(***************************************************************************)
(* The slots of FsyncShm, proved for any processes, threads, objects and   *)
(* size of the map: the counts of references are exact and no slot is free *)
(* or given to a second object while it is used, whenever other threads    *)
(* close the handle of a call, but for the one window that the code's own  *)
(* comment leaves open.                                                    *)
(***************************************************************************)
EXTENDS FsyncShm, FiniteSetTheorems, TLAPS

\* Between the load of the cached index and the increment of its count no other thread of
\* the process closes the handle.
NotInWindow == "grab" \notin ClosedDuring

\* What fsync_alloc_shm's shm_idx holds when it was never assigned makes the map grow.
GrowsWhenLost == Uninitialized \subseteq {0}

Size       == words * WordBits
Named(y)   == \E o \in Objects : index[o] = y
Holders(y) == {t \in Threads : Holds(t, y)}

\* RefsExact, with at most one object for each slot; what is not a slot has no references.
Counted(y) ==
    /\ IsFiniteSet(Holders(y))
    /\ ref[y] = (IF y # 0 /\ Named(y) THEN 1 ELSE 0) + Cardinality(Holders(y))
    /\ y \in free => ref[y] = 0
    /\ y = 0 \/ y >= Size => ref[y] = 0

OneObject == \A o, q \in Objects : o # q /\ index[o] # 0 => index[q] # index[o]

\* A handle is of an object that exists.
HandleOK == \A p \in Processes : \A o \in opened[p] : index[o] # 0

\* What is cached of a process that runs is true.
CacheOK(p) ==
    status[p] = "alive" =>
      \A o \in Objects : cache[p][o] # 0 => o \in opened[p] /\ cache[p][o] = index[o]

Closing(p, o) == \E u \in Threads : Process[u] = p /\ pc[u] = "close" /\ target[u] = o

\* One thread of a process closes a handle at a time; it is not in the cache by then.
CloseOK(t) ==
    pc[t] = "close" /\ Alive(t) =>
      /\ target[t] \in opened[Process[t]] /\ cache[Process[t]][target[t]] = 0
      /\ \A u \in Threads : Process[u] = Process[t] /\ pc[u] = "close" => u = t

\* A slot that a thread has loaded from the cache and not grabbed is its object's, and
\* stays that.
GrabOK(t) ==
    pc[t] = "grab" /\ Alive(t) =>
      /\ target[t] \in opened[Process[t]] /\ slot[t] = index[target[t]]
      /\ ~Closing(Process[t], target[t])

\* last_pid is of a process that waits.
LastpidOK(y) ==
    lastpid[y] # 0 /\ y \notin free =>
      \E t \in Threads : Process[t] = lastpid[y] /\ pc[t] = "wait" /\ slot[t] = y

TargetOK(t) == pc[t] # "idle" => target[t] \in Objects

IInv ==
    /\ TypeOK /\ HintOK /\ OneObject /\ HandleOK
    /\ \A y \in Indices : Counted(y) /\ LastpidOK(y)
    /\ \A p \in Processes : CacheOK(p)
    /\ \A t \in Threads : TargetOK(t) /\ CloseOK(t) /\ GrabOK(t)

-----------------------------------------------------------------------------
(* The words of the map and the least of a set of numbers.                 *)

\* A set of natural numbers that is not empty has a least element.
LEMMA LeastIs ==
    ASSUME NEW S, S \subseteq Nat, S # {}
    PROVE  Lowest(S) \in S /\ \A z \in S : Lowest(S) <= z
<1> DEFINE Less == {p \in Nat \X Nat : p[1] < p[2]}
<1>1. IsWellFoundedOn(Less, Nat)
  BY NatLessThanWellFounded, Zenon DEF OpToRel
<1> HIDE DEF Less
<1>2. PICK y \in S : \A z \in S : <<z, y>> \notin Less
  BY <1>1, WFMin
<1>3. ASSUME NEW z \in S PROVE y <= z
  <2>1. <<z, y>> \in Less <=> z < y
    BY DEF Less
  <2> QED BY <1>2, <2>1
<1> QED BY <1>3 DEF Lowest

\* Multiples of the size of a word keep their order.
LEMMA WordsOrdered ==
    ASSUME NEW v \in Nat, NEW w \in Nat, v < w
    PROVE  v * WordBits \in Nat /\ w * WordBits \in Nat /\ v * WordBits + WordBits <= w * WordBits
<1>1. PICK k \in Nat : w = v + 1 + k
  <2>1. w - v - 1 \in Nat /\ w = v + 1 + (w - v - 1)
    OBVIOUS
  <2> QED BY <2>1
<1>2. WordBits \in Nat
  BY MapAssumption
<1>3. k * WordBits \in Nat /\ v * WordBits \in Nat /\ w * WordBits \in Nat
  BY <1>2
<1>4. w * WordBits = v * WordBits + WordBits + k * WordBits
  BY <1>1, <1>2
<1> QED BY <1>2, <1>3, <1>4

\* An index lies in its word.
LEMMA WordIs ==
    ASSUME NEW y \in Nat
    PROVE  Word(y) \in Nat /\ y \in Bits(Word(y)) /\ Word(y) * WordBits \in Nat
<1>1. WordBits \in Nat /\ WordBits > 0
  BY MapAssumption
<1>2. y \div WordBits \in Nat /\ y % WordBits \in 0..(WordBits - 1)
  BY <1>1
<1>3. y = WordBits * (y \div WordBits) + (y % WordBits)
  BY <1>1
<1>4. WordBits * (y \div WordBits) = (y \div WordBits) * WordBits /\ (y \div WordBits) * WordBits \in Nat
  BY <1>1, <1>2
<1> QED BY <1>1, <1>2, <1>3, <1>4 DEF Word, Bits

\* The map has no more words than it may, and its indices are indices.
LEMMA SizeIs ==
    ASSUME TypeOK
    PROVE  /\ Size \in Nat /\ MaxWords * WordBits \in Nat /\ Size <= MaxWords * WordBits
           /\ words \in Nat /\ WordBits \in Nat /\ Indices \subseteq Nat /\ 0 \in Indices
           /\ free \subseteq Indices \ {0}
<1>1. words \in Nat /\ words <= MaxWords /\ MaxWords \in Nat /\ WordBits \in Nat \ {0} /\ words > 0
  BY MapAssumption DEF TypeOK
<1>2. Size \in Nat /\ MaxWords * WordBits \in Nat
  BY <1>1 DEF Size
<1>3. Size <= MaxWords * WordBits
  <2>1. CASE words = MaxWords
    BY <1>2, <2>1 DEF Size
  <2>2. CASE words < MaxWords
    BY <1>1, <1>2, <2>2, WordsOrdered DEF Size
  <2> QED BY <1>1, <2>1, <2>2
<1>4. Size > 0
  <2>1. 0 * WordBits + WordBits <= words * WordBits /\ 0 * WordBits = 0
    BY <1>1, WordsOrdered
  <2> QED BY <1>1, <2>1 DEF Size
<1>5. free \subseteq 1..(Size - 1)
  BY DEF TypeOK, Size
<1> QED BY <1>1, <1>2, <1>3, <1>4, <1>5 DEF Indices

\* A free index is of a word of the map.
LEMMA FreeWord ==
    ASSUME TypeOK, NEW y \in free
    PROVE  y \in Nat /\ Word(y) \in Nat /\ Word(y) < words /\ y \in Bits(Word(y))
<1>1. y \in Nat /\ y < words * WordBits
  BY SizeIs DEF TypeOK, Size
<1>2. Word(y) \in Nat /\ y \in Bits(Word(y)) /\ Word(y) * WordBits \in Nat /\ words \in Nat
  BY <1>1, WordIs, SizeIs
<1>3. y >= Word(y) * WordBits
  BY <1>2 DEF Bits
<1>4. ASSUME words <= Word(y) PROVE FALSE
  <2>1. CASE words = Word(y)
    <3>1. y < Word(y) * WordBits
      BY <1>1, <2>1
    <3> QED BY <1>1, <1>2, <1>3, <3>1
  <2>2. CASE words < Word(y)
    <3>1. words * WordBits + WordBits <= Word(y) * WordBits
      BY <1>2, <2>2, WordsOrdered
    <3> QED BY <1>1, <1>2, <1>3, <3>1, SizeIs DEF Size
  <2> QED BY <1>2, <1>4, <2>1, <2>2
<1> QED BY <1>1, <1>2, <1>4

-----------------------------------------------------------------------------
(* Counting.                                                               *)

\* The references of a slot, of its object and of threads.
ByObject(y) == IF y # 0 /\ Named(y) THEN 1 ELSE 0
By(t, y)    == IF Holds(t, y) THEN 1 ELSE 0

LEMMA Cards ==
    ASSUME NEW y, Counted(y)
    PROVE  /\ Cardinality(Holders(y)) \in Nat /\ IsFiniteSet(Holders(y))
           /\ ref[y] = ByObject(y) + Cardinality(Holders(y)) /\ ByObject(y) \in {0, 1}
           /\ ref[y] \in Nat
           /\ ref[y] = 0 <=> ~(y # 0 /\ Named(y)) /\ Holders(y) = {}
           /\ \A t \in Holders(y) : ref[y] = 1 => Holders(y) = {t} /\ ~(y # 0 /\ Named(y))
<1>1. Cardinality(Holders(y)) \in Nat /\ IsFiniteSet(Holders(y))
  BY FS_CardinalityType DEF Counted
<1>2. Cardinality(Holders(y)) = 0 <=> Holders(y) = {}
  BY <1>1, FS_EmptySet
<1>3. ref[y] = ByObject(y) + Cardinality(Holders(y)) /\ ByObject(y) \in {0, 1}
  BY DEF Counted, ByObject
<1>4. ASSUME NEW t \in Holders(y), ref[y] = 1 PROVE Holders(y) = {t} /\ ~(y # 0 /\ Named(y))
  <2>1. Cardinality(Holders(y)) = 1 /\ ByObject(y) = 0
    BY <1>1, <1>2, <1>3, <1>4
  <2>2. PICK x : Holders(y) = {x}
    BY <1>1, <2>1, FS_Singleton
  <2> QED BY <1>4, <2>1, <2>2 DEF ByObject
<1>5. ref[y] = 0 <=> ~(y # 0 /\ Named(y)) /\ Holders(y) = {}
  BY <1>1, <1>2, <1>3 DEF ByObject
<1> QED BY <1>1, <1>3, <1>4, <1>5

\* Who holds a slot, or owns it, finds it counted, and it is not free.
LEMMA HeldCounts ==
    ASSUME IInv, NEW t \in Threads, NEW y \in Indices, Holds(t, y)
    PROVE  ref[y] \in Nat \ {0} /\ y \notin free /\ y # 0 /\ y < Size /\ t \in Holders(y)
<1>1. t \in Holders(y) /\ Counted(y)
  BY DEF Holders, IInv
<1>2. ref[y] \in Nat \ {0}
  BY <1>1, Cards
<1> QED BY <1>1, <1>2, SizeIs DEF IInv, Counted

LEMMA NamedCounts ==
    ASSUME IInv, NEW o \in Objects, index[o] # 0
    PROVE  /\ index[o] \in Indices /\ ref[index[o]] \in Nat \ {0} /\ index[o] \notin free
           /\ index[o] < Size
<1>1. index[o] \in Indices /\ Named(index[o])
  BY DEF IInv, TypeOK, Named
<1>2. Counted(index[o])
  BY <1>1 DEF IInv
<1>3. ref[index[o]] \in Nat \ {0}
  BY <1>1, <1>2, Cards
<1> QED BY <1>1, <1>2, <1>3, SizeIs DEF IInv, Counted

\* The step of one thread, the others stay where they are.
Alone(t) == \A u \in Threads : u # t => pc'[u] = pc[u] /\ slot'[u] = slot[u] /\ target'[u] = target[u]

LEMMA HoldersOf ==
    ASSUME NEW t \in Threads, Alone(t), NEW y, IsFiniteSet(Holders(y))
    PROVE  /\ IsFiniteSet(Holders(y)') /\ Cardinality(Holders(y)') \in Nat
           /\ Cardinality(Holders(y)') = Cardinality(Holders(y)) + By(t, y)' - By(t, y)
<1>1. \A u \in Threads : u # t => (Holds(u, y)' <=> Holds(u, y))
  BY DEF Alone, Holds
<1>2. Cardinality(Holders(y)) \in Nat
  BY FS_CardinalityType
<1>3. t \in Holders(y) <=> Holds(t, y)
  BY DEF Holders
<1>4. CASE Holds(t, y)'
  <2>1. Holders(y)' = Holders(y) \union {t}
    BY <1>1, <1>4 DEF Holders
  <2> QED BY <1>2, <1>3, <1>4, <2>1, FS_AddElement DEF By
<1>5. CASE ~Holds(t, y)'
  <2>1. Holders(y)' = Holders(y) \ {t}
    BY <1>1, <1>5 DEF Holders
  <2>2. IsFiniteSet(Holders(y)')
    BY <2>1, FS_RemoveElement
  <2> QED BY <1>2, <1>3, <1>5, <2>1, <2>2, FS_RemoveElement, FS_CardinalityType DEF By
<1> QED BY <1>4, <1>5

\* A count that changes as what refers to the slot does stays exact.
LEMMA CountedStep ==
    ASSUME IInv, NEW t \in Threads, Alone(t), NEW y \in Indices,
           words' = words, free' = free, index' = index,
           ref'[y] = ref[y] + By(t, y)' - By(t, y),
           Holds(t, y)' => Holds(t, y) \/ (y \notin free /\ y # 0 /\ y < Size)
    PROVE  Counted(y)'
<1>1. Counted(y)
  BY DEF IInv
<1>2. /\ IsFiniteSet(Holders(y)') /\ Cardinality(Holders(y)') \in Nat
      /\ Cardinality(Holders(y)') = Cardinality(Holders(y)) + By(t, y)' - By(t, y)
  BY <1>1, HoldersOf DEF Counted
<1>3. Named(y)' <=> Named(y)
  BY DEF Named
<1>4. /\ By(t, y)' = IF Holds(t, y)' THEN 1 ELSE 0
      /\ By(t, y) = IF Holds(t, y) THEN 1 ELSE 0
  BY DEF By
<1>5. Holds(t, y) => ref[y] \in Nat \ {0} /\ y \notin free /\ y # 0 /\ y < Size
  BY HeldCounts
<1>6. Size' = Size /\ Size \in Nat /\ y \in Nat
  BY SizeIs DEF Size, IInv
<1>7. ref'[y] = ByObject(y) + Cardinality(Holders(y)')
  BY <1>1, <1>2, <1>4, Cards
<1>8. (y \in free \/ y = 0 \/ y >= Size) => ref'[y] = ref[y] /\ ref[y] = 0
  BY <1>1, <1>4, <1>5, <1>6 DEF Counted
<1> QED BY <1>2, <1>3, <1>6, <1>7, <1>8 DEF Counted, ByObject

-----------------------------------------------------------------------------
(* The map.                                                                *)

\* fsync_alloc_shm hands out an index that nobody refers to.
LEMMA Allocated ==
    ASSUME IInv, GrowsWhenLost, NEW y \in Indices, AllocShm(y)
    PROVE  /\ ref[y] = 0 /\ y # 0 /\ y < Size' /\ y \notin free'
           /\ Size \in Nat /\ Size' \in Nat /\ Size <= Size'
           /\ \A z \in free' : z \in free \/ (z \in Indices /\ z >= Size)
           /\ free \ {y} \subseteq free'
           /\ words' \in InitialWords..MaxWords /\ hint' \in 0..words'
           /\ free' \subseteq 1..(words' * WordBits - 1)
           /\ HintOK'
<1>1. TypeOK /\ HintOK /\ Counted(y) /\ hint \in 0..words /\ words \in Nat
  BY MapAssumption DEF IInv, TypeOK
<1>2. Size \in Nat /\ Indices \subseteq Nat /\ WordBits \in Nat \ {0, 1}
      /\ InitialWords \in Nat \ {0} /\ MaxWords \in Nat
      /\ words >= InitialWords /\ words <= MaxWords /\ free \subseteq 1..(Size - 1)
  BY <1>1, SizeIs, MapAssumption DEF TypeOK, Size
<1>3. CASE Found(y)
  <2>1. PICK w \in hint..(words - 1) :
          /\ HasFree(w) /\ \A v \in hint..(w - 1) : ~HasFree(v)
          /\ y = Lowest(Bits(w) \intersect free)
          /\ free' = free \ {y}
          /\ hint' = TakenFrom(w, Bits(w) \intersect free')
          /\ words' = words
    BY <1>3 DEF Found
  <2>2. y \in Bits(w) \intersect free
    <3>1. Bits(w) \intersect free # {} /\ Bits(w) \intersect free \subseteq Nat
      BY <1>1, <2>1, SizeIs DEF HasFree
    <3> QED BY <2>1, <3>1, LeastIs
  <2>3. Size' = Size
    BY <2>1 DEF Size
  <2>4. hint' \in 0..words' /\ hint' \in {w, w + 1} /\ (hint' = w + 1 => Bits(w) \intersect free' = {})
    BY <1>1, <2>1 DEF TakenFrom
  <2>5. ASSUME NEW z \in free' PROVE hint' <= Word(z)
    <3>1. z \in free /\ Word(z) \in Nat /\ Word(z) < words /\ z \in Bits(Word(z)) /\ hint <= Word(z)
      BY <1>1, <2>1, FreeWord DEF HintOK
    <3>2. HasFree(Word(z))
      BY <3>1 DEF HasFree
    <3>3. Word(z) >= w
      BY <1>1, <2>1, <3>1, <3>2
    <3>4. Word(z) = w => hint' = w
      BY <2>4, <3>1
    <3> QED BY <2>1, <2>4, <3>1, <3>3, <3>4
  <2>6. HintOK'
    BY <2>5 DEF HintOK, Word
  <2>7. ref[y] = 0 /\ y # 0 /\ y < Size
    BY <1>1, <1>2, <2>2 DEF Counted
  <2>8. free' \subseteq 1..(words' * WordBits - 1) /\ y \notin free'
    <3>1. 1..(words' * WordBits - 1) = 1..(Size - 1)
      BY <2>1 DEF Size
    <3>2. free' \subseteq free /\ y \notin free'
      BY <2>1
    <3>3. free \subseteq 1..(Size - 1)
      BY <1>2
    <3> QED BY <3>1, <3>2, <3>3, Zenon
  <2>9. words' \in InitialWords..MaxWords
    BY <1>1, <2>1 DEF TypeOK
  <2>10. y < Size' /\ Size' \in Nat /\ Size <= Size'
    BY <1>2, <2>3, <2>7
  <2>11. (\A z \in free' : z \in free) /\ free \ {y} \subseteq free'
    BY <2>1
  <2> QED BY <1>2, <2>4, <2>6, <2>7, <2>8, <2>9, <2>10, <2>11
<1>4. CASE Expanded(y)
  <2>1. /\ \A w \in hint..(words - 1) : ~HasFree(w)
        /\ y = Size /\ words' = words + GrowBy /\ words' <= MaxWords
        /\ free'  = (free \union (y..(words' * WordBits - 1))) \ {y}
        /\ hint'  = TakenFrom(words, Bits(words) \ {y})
        /\ GrowBy \in Nat \ {0}
    BY <1>4, MapAssumption DEF Expanded, Size
  <2>2. words' \in Nat /\ words < words'
    BY <1>1, <2>1
  <2>3. Size' \in Nat /\ Size + WordBits <= Size'
    BY <1>1, <2>2, WordsOrdered DEF Size
  <2>4. Size > 0
    <3>1. 0 * WordBits + WordBits <= words * WordBits /\ 0 * WordBits = 0
      BY <1>1, <1>2, WordsOrdered
    <3> QED BY <1>2, <3>1 DEF Size
  <2>5. ref[y] = 0
    BY <1>1, <1>2, <2>1 DEF Counted
  <2>6. free = {}
    <3>1. ASSUME NEW z \in free PROVE FALSE
      <4>1. Word(z) \in Nat /\ Word(z) < words /\ z \in Bits(Word(z)) /\ hint <= Word(z)
        BY <1>1, FreeWord DEF HintOK
      <4>2. HasFree(Word(z))
        BY <4>1 DEF HasFree
      <4> QED BY <1>1, <2>1, <4>1, <4>2
    <3> QED BY <3>1
  <2>7. hint' = words
    <3>1. Size + 1 \in Bits(words) \ {y}
      BY <1>2, <2>1 DEF Bits, Size
    <3> QED BY <2>1, <3>1 DEF TakenFrom
  <2>8. free' \subseteq 1..(words' * WordBits - 1) /\ y \notin free'
    BY <1>2, <2>1, <2>3, <2>4, <2>6 DEF Size
  <2>9. \A z \in free' : z \in Indices /\ z >= Size
    <3>1. words' * WordBits <= MaxWords * WordBits
      <4>1. CASE words' = MaxWords
        BY <1>2, <2>2, <2>3, <4>1 DEF Size
      <4>2. CASE words' < MaxWords
        <5>1. words' * WordBits + WordBits <= MaxWords * WordBits /\ words' * WordBits \in Nat
          BY <1>2, <2>2, <4>2, WordsOrdered
        <5> QED BY <1>1, <1>2, <5>1, SizeIs
      <4> QED BY <1>2, <2>1, <2>2, <4>1, <4>2
    <3> QED BY <1>1, <1>2, <2>1, <2>3, <2>6, <3>1, SizeIs DEF Indices, Size
  <2>10. ASSUME NEW z \in free' PROVE hint' <= Word(z)
    <3>1. z \in Nat /\ z >= Size
      BY <1>2, <2>9
    <3>2. Word(z) \in Nat /\ z \in Bits(Word(z)) /\ Word(z) * WordBits \in Nat
      BY <3>1, WordIs
    <3>3. ASSUME Word(z) < words PROVE FALSE
      <4>1. Word(z) * WordBits + WordBits <= Size
        BY <1>1, <3>2, <3>3, WordsOrdered DEF Size
      <4> QED BY <1>2, <3>1, <3>2, <4>1 DEF Bits
    <3> QED BY <1>1, <2>7, <3>2, <3>3
  <2>11. HintOK'
    BY <2>10 DEF HintOK, Word
  <2>12. words' \in InitialWords..MaxWords /\ hint' \in 0..words'
    BY <1>1, <1>2, <2>1, <2>2, <2>7
  <2>13. y < Size' /\ Size <= Size' /\ y # 0
    BY <1>2, <2>1, <2>3, <2>4
  <2> QED BY <1>2, <2>3, <2>5, <2>6, <2>8, <2>9, <2>11, <2>12, <2>13
<1>5. ~Garbage(y)
  BY DEF Garbage, GrowsWhenLost
<1> QED BY <1>3, <1>4, <1>5 DEF AllocShm

\* fsync_free_shm_idx drops the server's references and frees the slots that had no
\* others; the search for a free one starts no later than before.
LEMMA Freed ==
    ASSUME IInv, NEW Y, Y \subseteq Indices, FreeShm(Y)
    PROVE  /\ words' = words /\ ref' \in [Indices -> Nat]
           /\ \A y \in Indices : ref'[y] = IF y \in Y /\ ref[y] > 0 THEN ref[y] - 1 ELSE ref[y]
           /\ free' = free \union {y \in Y : ref[y] = 1}
           /\ free' \subseteq 1..(words' * WordBits - 1)
           /\ hint' \in 0..words' /\ HintOK'
<1> DEFINE last == {y \in {y \in Y : ref[y] > 0} : ref[y] = 1}
<1>1. /\ words' = words /\ free' = free \union last /\ hint' = HintAfter(last)
      /\ ref' = [y \in Indices |-> IF y \in {x \in Y : ref[x] > 0} THEN ref[y] - 1 ELSE ref[y]]
  BY DEF FreeShm
<1>2. TypeOK /\ HintOK /\ ref \in [Indices -> Nat] /\ hint \in 0..words /\ words \in Nat
      /\ free \subseteq 1..(words * WordBits - 1)
  BY SizeIs DEF IInv, TypeOK
<1>3. last = {y \in Y : ref[y] = 1}
  BY <1>2
<1>4. last \subseteq 1..(words * WordBits - 1)
  <2>1. ASSUME NEW y \in last PROVE y \in 1..(words * WordBits - 1)
    <3>1. Counted(y) /\ y \in Nat /\ Size \in Nat /\ ref[y] = 1
      BY <1>2, <1>3, SizeIs DEF IInv
    <3>2. y # 0 /\ ~(y >= Size)
      BY <3>1 DEF Counted
    <3> QED BY <3>1, <3>2 DEF Size
  <2> QED BY <2>1
<1> HIDE DEF last
<1>5. /\ HintAfter(last) \in {Word(y) : y \in last} \union {hint}
      /\ \A w \in {Word(y) : y \in last} \union {hint} : HintAfter(last) <= w
      /\ {Word(y) : y \in last} \union {hint} \subseteq Nat
  <2>1. ASSUME NEW y \in last PROVE Word(y) \in Nat
    BY <1>4, WordIs
  <2>2. {Word(y) : y \in last} \union {hint} \subseteq Nat
    BY <1>2, <2>1
  <2> QED BY <2>2, LeastIs DEF HintAfter
<1>6. hint' \in 0..words'
  <2>1. HintAfter(last) \in Nat /\ HintAfter(last) <= hint
    BY <1>5
  <2> QED BY <1>1, <1>2, <2>1
<1>7. ASSUME NEW y \in free' PROVE hint' <= Word(y)
  <2>1. CASE y \in free
    <3>1. hint <= Word(y) /\ Word(y) \in Nat
      BY <1>2, <2>1, FreeWord DEF HintOK
    <3> QED BY <1>1, <1>2, <1>5, <3>1
  <2>2. CASE y \in last
    BY <1>1, <1>5, <2>2
  <2> QED BY <1>1, <2>1, <2>2
<1>8. HintOK'
  BY <1>7 DEF HintOK, Word
<1>9. ref' \in [Indices -> Nat]
      /\ \A y \in Indices : ref'[y] = IF y \in Y /\ ref[y] > 0 THEN ref[y] - 1 ELSE ref[y]
  BY <1>1, <1>2
<1> QED BY <1>1, <1>2, <1>3, <1>4, <1>6, <1>8, <1>9

\* Slots that each lose one reference stay counted.
LEMMA CountedFreed ==
    ASSUME IInv, NEW Y, Y \subseteq Indices, FreeShm(Y), NEW y \in Indices,
           IsFiniteSet(Holders(y)'),
           ByObject(y)' + Cardinality(Holders(y)')
             = ByObject(y) + Cardinality(Holders(y)) - (IF y \in Y THEN 1 ELSE 0)
    PROVE  Counted(y)'
<1>1. Counted(y) /\ TypeOK
  BY DEF IInv
<1>2. Cardinality(Holders(y)') \in Nat /\ ByObject(y)' \in {0, 1}
  BY FS_CardinalityType DEF ByObject
<1>3. ref'[y] = ByObject(y)' + Cardinality(Holders(y)') /\ (y \in Y => ref[y] > 0)
  BY <1>1, <1>2, Cards, Freed
<1>4. Size' = Size /\ free' = free \union {z \in Y : ref[z] = 1}
      /\ ref'[y] = IF y \in Y /\ ref[y] > 0 THEN ref[y] - 1 ELSE ref[y]
  BY Freed DEF Size
<1>5. y \in free' => ref'[y] = 0
  BY <1>1, <1>3, <1>4, Cards DEF Counted
<1>6. y = 0 \/ y >= Size => ref'[y] = 0
  BY <1>1, <1>3, <1>4 DEF Counted
<1> QED BY <1>3, <1>4, <1>5, <1>6 DEF Counted, ByObject

-----------------------------------------------------------------------------
(* The parts that a step disturbs little.                                  *)

\* A thread goes on, with the same handles; it does not begin to close one.
LEMMA PlacesKept ==
    ASSUME IInv, NEW t \in Threads, Alone(t), UNCHANGED <<opened, cache, status, index>>,
           pc'[t] # "close", pc'[t] # "idle" => target'[t] \in Objects,
           pc'[t] = "grab" => GrabOK(t)'
    PROVE  (\A u \in Threads : TargetOK(u) /\ CloseOK(u) /\ GrabOK(u))'
<1>1. ASSUME NEW p, NEW o, Closing(p, o)' PROVE Closing(p, o)
  <2>1. PICK u \in Threads : Process[u] = p /\ pc'[u] = "close" /\ target'[u] = o
    BY <1>1 DEF Closing
  <2>2. u # t
    BY <2>1
  <2> QED BY <2>1, <2>2 DEF Alone, Closing
<1>2. ASSUME NEW u \in Threads PROVE TargetOK(u)' /\ CloseOK(u)' /\ GrabOK(u)'
  <2>1. TargetOK(u) /\ CloseOK(u) /\ GrabOK(u)
    BY DEF IInv
  <2>2. CASE u = t
    BY <2>2 DEF TargetOK, CloseOK, GrabOK
  <2>3. CASE u # t
    <3>1. pc'[u] = pc[u] /\ slot'[u] = slot[u] /\ target'[u] = target[u]
      BY <2>3 DEF Alone
    <3>2. TargetOK(u)'
      BY <2>1, <3>1 DEF TargetOK
    <3>3. CloseOK(u)'
      <4> SUFFICES ASSUME pc[u] = "close", Alive(u)
                   PROVE  /\ target[u] \in opened[Process[u]] /\ cache[Process[u]][target[u]] = 0
                          /\ \A x \in Threads : Process[x] = Process[u] /\ pc'[x] = "close" => x = u
        BY <3>1 DEF CloseOK, Alive
      <4>1. \A x \in Threads : pc'[x] = "close" => pc[x] = "close"
        BY DEF Alone
      <4> QED BY <2>1, <4>1 DEF CloseOK
    <3>4. GrabOK(u)'
      BY <1>1, <2>1, <3>1 DEF GrabOK, Alive
    <3> QED BY <3>2, <3>3, <3>4
  <2> QED BY <2>2, <2>3
<1> QED BY <1>2

\* Processes that wait go on waiting, and the slots they wait for stay theirs.
LEMMA LastpidKept ==
    ASSUME IInv, NEW t \in Threads, Alone(t), pc[t] # "wait",
           lastpid' = lastpid, free \subseteq free'
    PROVE  (\A y \in Indices : LastpidOK(y))'
<1>1. ASSUME NEW y \in Indices PROVE LastpidOK(y)'
  <2> SUFFICES ASSUME lastpid[y] # 0, y \notin free'
               PROVE  \E u \in Threads : Process[u] = lastpid[y] /\ pc'[u] = "wait" /\ slot'[u] = y
    BY DEF LastpidOK
  <2>1. PICK u \in Threads : Process[u] = lastpid[y] /\ pc[u] = "wait" /\ slot[u] = y
    BY DEF IInv, LastpidOK
  <2> QED BY <2>1 DEF Alone
<1>2. Indices' = Indices
  BY DEF Indices
<1> QED BY <1>1, <1>2

\* What a step of one thread within a call must show.
LEMMA InCall ==
    ASSUME IInv, NEW t \in Threads, Alone(t), UNCHANGED <<map, opened, index, status>>,
           TypeOK', (\A y \in Indices : LastpidOK(y))', (\A p \in Processes : CacheOK(p))',
           (\A u \in Threads : TargetOK(u) /\ CloseOK(u) /\ GrabOK(u))',
           \A y \in Indices :
             /\ ref'[y] = ref[y] + By(t, y)' - By(t, y)
             /\ Holds(t, y)' => Holds(t, y) \/ (y \notin free /\ y # 0 /\ y < Size)
    PROVE  IInv'
<1>1. words' = words /\ free' = free /\ hint' = hint /\ opened' = opened /\ index' = index
  BY DEF map
<1>2. HintOK' /\ OneObject' /\ HandleOK'
  BY <1>1 DEF IInv, HintOK, OneObject, HandleOK, Word
<1>3. \A y \in Indices : Counted(y)'
  BY <1>1, CountedStep
<1>4. Indices' = Indices
  BY DEF Indices
<1> QED BY <1>2, <1>3, <1>4 DEF IInv

\* What it must show when it changes neither a count nor a cache.
LEMMA InCallQuiet ==
    ASSUME IInv, NEW t \in Threads, Alone(t), UNCHANGED <<map, ref, handles>>,
           TypeOK', (\A y \in Indices : LastpidOK(y))',
           pc'[t] # "close", pc'[t] # "idle" => target'[t] \in Objects,
           pc'[t] = "grab" => GrabOK(t)',
           \A y \in Indices : Holds(t, y)' <=> Holds(t, y)
    PROVE  IInv'
<1>1. UNCHANGED <<opened, cache, status, index>>
  BY DEF handles
<1>2. (\A u \in Threads : TargetOK(u) /\ CloseOK(u) /\ GrabOK(u))'
  BY <1>1, PlacesKept
<1>3. (\A p \in Processes : CacheOK(p))'
  BY <1>1 DEF IInv, CacheOK
<1>4. ASSUME NEW y \in Indices PROVE ref'[y] = ref[y] + By(t, y)' - By(t, y)
  <2>1. By(t, y)' = By(t, y) /\ By(t, y) \in {0, 1} /\ ref[y] \in Nat
    BY DEF By, IInv, TypeOK
  <2> QED BY <2>1
<1> QED BY <1>1, <1>2, <1>3, <1>4, InCall

-----------------------------------------------------------------------------
(* One lemma for each action.                                              *)

\* The initial states: no objects, no threads in calls, every slot but 0 free.
LEMMA InitIInv == Init => IInv
<1> SUFFICES ASSUME Init PROVE IInv
  OBVIOUS
<1>1. InitialWords \in Nat \ {0} /\ MaxWords \in Nat /\ MaxWords >= InitialWords
  BY MapAssumption
<1>2. TypeOK
  <2>1. 0 \in Indices /\ WordBits \in Nat
    <3>1. 0 * WordBits + WordBits <= MaxWords * WordBits /\ 0 * WordBits = 0
          /\ MaxWords * WordBits \in Nat /\ WordBits \in Nat \ {0}
      BY <1>1, WordsOrdered, MapAssumption
    <3> QED BY <3>1 DEF Indices
  <2>2. words = InitialWords /\ free = 1..(words * WordBits - 1) /\ hint = 0
    BY DEF Init
  <2>3. words \in InitialWords..MaxWords /\ hint \in 0..words
    BY <1>1, <2>2
  <2> QED BY <2>1, <2>2, <2>3, ProcessAssumption DEF Init, TypeOK
<1>3. HintOK
  <2>1. \A y \in free : Word(y) \in Nat
    BY <1>2, FreeWord
  <2> QED BY <2>1 DEF Init, HintOK
<1>4. ASSUME NEW y \in Indices PROVE Counted(y) /\ LastpidOK(y)
  <2>1. Holders(y) = {}
    BY DEF Init, Holders, Holds
  <2>2. ~(y # 0 /\ Named(y))
    BY DEF Init, Named
  <2> QED BY <2>1, <2>2, FS_EmptySet DEF Counted, Init, LastpidOK
<1>5. OneObject /\ HandleOK /\ (\A p \in Processes : CacheOK(p))
  BY DEF Init, OneObject, HandleOK, CacheOK
<1>6. \A t \in Threads : TargetOK(t) /\ CloseOK(t) /\ GrabOK(t)
  BY DEF Init, TargetOK, CloseOK, GrabOK
<1> QED BY <1>2, <1>3, <1>4, <1>5, <1>6 DEF IInv

\* Types, one at a time.
LEMMA Typed ==
    ASSUME IInv, NEW t \in Threads
    PROVE  /\ Process[t] \in Processes /\ slot[t] \in Indices
           /\ pc \in [Threads -> Places \union {"idle", "close"}]
           /\ target \in [Threads -> Objects \union {Nothing}]
           /\ slot \in [Threads -> Indices] /\ retry \in [Threads -> BOOLEAN]
           /\ pc[t] # "idle" => target[t] \in Objects
  BY ProcessAssumption DEF IInv, TypeOK, TargetOK

\* Begin, Load, the checks, Signal, Put: nothing shared changes.
LEMMA QuietStep ==
    ASSUME IInv, NEW t \in Threads,
           \/ \E o \in Objects : Begin(t, o)
           \/ Load(t) \/ CheckRef(t) \/ CheckCache(t) \/ Signal(t) \/ Put(t)
    PROVE  IInv'
<1>1. UNCHANGED <<map, ref, lastpid, handles>>
  BY DEF Begin, Load, CheckRef, CheckCache, Signal, Put
<1>2. UNCHANGED <<words, free, hint, index, opened, cache, status>>
  BY <1>1 DEF map, handles
<1>3. /\ Alone(t) /\ pc[t] # "wait" /\ pc'[t] # "close"
      /\ pc' \in [Threads -> Places \union {"idle", "close"}]
      /\ target' \in [Threads -> Objects \union {Nothing}]
      /\ slot' \in [Threads -> Indices] /\ retry' \in [Threads -> BOOLEAN]
      /\ pc'[t] # "idle" => target'[t] \in Objects
      /\ pc'[t] = "grab" => pc[t] = "load"
      /\ \A y \in Indices : Holds(t, y)' <=> Holds(t, y)
  <2>1. CASE \E o \in Objects : Begin(t, o)
    BY <2>1, Typed DEF Begin, Goto, Alone, Holds, Places
  <2>2. CASE Load(t)
    <3>1. Cached(t) \in Indices
      BY <2>2, Typed DEF Load, Cached, IInv, TypeOK
    <3> QED BY <2>2, <3>1, Typed DEF Load, Goto, Alone, Holds, Places
  <2>3. CASE CheckRef(t)
    BY <2>3, Typed DEF CheckRef, Stale, Goto, Alone, Holds, Places
  <2>4. CASE CheckCache(t)
    BY <2>4, Typed DEF CheckCache, Stale, Goto, Alone, Holds, Places
  <2>5. CASE Signal(t)
    BY <2>5, Typed DEF Signal, Goto, Alone, Holds, Places, locals
  <2>6. CASE Put(t)
    BY <2>6, Typed DEF Put, Goto, Alone, Holds, Places, locals
  <2> QED BY <2>1, <2>2, <2>3, <2>4, <2>5, <2>6
<1>4. TypeOK'
  BY <1>1, <1>2, <1>3 DEF IInv, TypeOK, Indices
<1>5. (\A y \in Indices : LastpidOK(y))'
  BY <1>1, <1>2, <1>3, LastpidKept
<1>6. ASSUME pc'[t] = "grab" PROVE GrabOK(t)'
  <2>1. Load(t) /\ Alive(t) /\ Cached(t) # 0 /\ slot'[t] = Cached(t) /\ target'[t] = target[t]
    BY <1>3, <1>6, Typed DEF Begin, Load, CheckRef, CheckCache, Signal, Put, Goto, Stale
  <2>2. target[t] \in Objects /\ Process[t] \in Processes /\ CacheOK(Process[t])
    BY <2>1, Typed DEF Load, IInv
  <2>3. target[t] \in opened[Process[t]] /\ Cached(t) = index[target[t]]
    BY <2>1, <2>2 DEF CacheOK, Cached, Alive
  <2>4. ASSUME NEW u \in Threads, Process[u] = Process[t], pc'[u] = "close", target'[u] = target[t]
        PROVE  FALSE
    <3>1. u # t /\ pc[u] = "close" /\ target[u] = target[t] /\ CloseOK(u) /\ Alive(u)
      BY <1>3, <2>1, <2>4 DEF Alone, IInv, Alive
    <3> QED BY <2>1, <2>4, <3>1 DEF CloseOK, Cached
  <2> QED BY <1>2, <2>1, <2>3, <2>4 DEF GrabOK, Closing
<1> QED BY <1>1, <1>3, <1>4, <1>5, <1>6, InCallQuiet

\* Wait: last_pid is now this thread's process.
LEMMA WaitStep == ASSUME IInv, NEW t \in Threads, Wait(t) PROVE IInv'
<1>1. UNCHANGED <<map, ref, handles>> /\ UNCHANGED <<target, slot, retry>> /\ pc[t] = "use"
      /\ pc' = [pc EXCEPT ![t] = "wait"] /\ lastpid' = [lastpid EXCEPT ![slot[t]] = Process[t]]
  BY DEF Wait, Goto, locals
<1>2. UNCHANGED <<words, free, hint, index, opened, cache, status>>
  BY <1>1 DEF map, handles
<1>3. pc'[t] = "wait" /\ Alone(t) /\ target[t] \in Objects
      /\ \A y \in Indices : Holds(t, y)' <=> Holds(t, y)
  BY <1>1, Typed DEF Alone, Holds
<1>4. TypeOK'
  <2>1. pc' \in [Threads -> Places \union {"idle", "close"}]
        /\ lastpid' \in [Indices -> Processes \union {0}]
    BY <1>1, Typed DEF IInv, TypeOK, Places
  <2> QED BY <1>1, <1>2, <2>1 DEF IInv, TypeOK, Indices
<1>5. ASSUME NEW y \in Indices PROVE LastpidOK(y)'
  <2>1. CASE y = slot[t]
    BY <1>1, <1>3, <2>1 DEF LastpidOK, IInv, TypeOK
  <2>2. CASE y # slot[t]
    <3>1. lastpid'[y] = lastpid[y] /\ LastpidOK(y)
      BY <1>1, <2>2 DEF IInv, TypeOK
    <3> SUFFICES ASSUME lastpid[y] # 0, y \notin free
                 PROVE  \E u \in Threads : Process[u] = lastpid[y] /\ pc'[u] = "wait" /\ slot'[u] = y
      BY <1>2, <3>1 DEF LastpidOK
    <3>2. PICK u \in Threads : Process[u] = lastpid[y] /\ pc[u] = "wait" /\ slot[u] = y
      BY <3>1 DEF LastpidOK
    <3> QED BY <1>1, <1>3, <3>2 DEF Alone
  <2> QED BY <2>1, <2>2
<1>6. (\A y \in Indices : LastpidOK(y))'
  BY <1>5 DEF Indices
<1> QED BY <1>1, <1>3, <1>4, <1>6, InCallQuiet

\* EndWait: last_pid is cleared if it is still this process.
LEMMA EndWaitStep == ASSUME IInv, NEW t \in Threads, EndWait(t) PROVE IInv'
<1>1. UNCHANGED <<map, ref, handles>> /\ UNCHANGED <<target, slot, retry>> /\ pc[t] = "wait"
      /\ pc' = [pc EXCEPT ![t] = "put"]
      /\ lastpid' = [lastpid EXCEPT ![slot[t]] = IF @ = Process[t] THEN 0 ELSE @]
  BY DEF EndWait, Goto, locals
<1>2. UNCHANGED <<words, free, hint, index, opened, cache, status>>
  BY <1>1 DEF map, handles
<1>3. pc'[t] = "put" /\ Alone(t) /\ target[t] \in Objects
      /\ \A y \in Indices : Holds(t, y)' <=> Holds(t, y)
  BY <1>1, Typed DEF Alone, Holds
<1>4. TypeOK'
  <2>1. pc' \in [Threads -> Places \union {"idle", "close"}]
        /\ lastpid' \in [Indices -> Processes \union {0}]
    BY <1>1, Typed DEF IInv, TypeOK, Places
  <2> QED BY <1>1, <1>2, <2>1 DEF IInv, TypeOK, Indices
<1>5. ASSUME NEW y \in Indices PROVE LastpidOK(y)'
  <2> SUFFICES ASSUME lastpid'[y] # 0, y \notin free
               PROVE  \E u \in Threads : Process[u] = lastpid'[y] /\ pc'[u] = "wait" /\ slot'[u] = y
    BY <1>2 DEF LastpidOK
  <2>1. lastpid'[y] = lastpid[y] /\ (y = slot[t] => lastpid[y] # Process[t])
    BY <1>1, Typed DEF IInv, TypeOK
  <2>2. PICK u \in Threads : Process[u] = lastpid[y] /\ pc[u] = "wait" /\ slot[u] = y
    BY <2>1 DEF LastpidOK, IInv
  <2>3. u # t
    BY <2>1, <2>2
  <2> QED BY <1>1, <2>1, <2>2, <2>3 DEF Alone, IInv, TypeOK
<1>6. (\A y \in Indices : LastpidOK(y))'
  BY <1>5 DEF Indices
<1> QED BY <1>1, <1>3, <1>4, <1>6, InCallQuiet

\* Grab: one more reference to a slot that is its object's.
LEMMA GrabStep == ASSUME IInv, NEW t \in Threads, Grab(t) PROVE IInv'
<1>1. UNCHANGED <<map, lastpid, handles>> /\ UNCHANGED <<target, slot, retry>> /\ pc[t] = "grab"
      /\ pc' = [pc EXCEPT ![t] = "check"] /\ ref' = [ref EXCEPT ![slot[t]] = @ + 1] /\ Alive(t)
  BY DEF Grab, Goto, locals
<1>2. UNCHANGED <<words, free, hint, index, opened, cache, status>>
  BY <1>1 DEF map, handles
<1>3. pc'[t] = "check" /\ Alone(t) /\ target[t] \in Objects /\ slot[t] \in Indices
      /\ Process[t] \in Processes
  BY <1>1, Typed DEF Alone
<1>4. /\ slot[t] \notin free /\ slot[t] # 0 /\ slot[t] < Size
  <2>1. target[t] \in opened[Process[t]] /\ slot[t] = index[target[t]]
    BY <1>1 DEF IInv, GrabOK
  <2>2. index[target[t]] # 0
    BY <1>3, <2>1 DEF IInv, HandleOK
  <2> QED BY <1>3, <2>1, <2>2, NamedCounts
<1>5. TypeOK'
  <2>1. pc' \in [Threads -> Places \union {"idle", "close"}] /\ ref' \in [Indices -> Nat]
    BY <1>1, <1>3, Typed DEF IInv, TypeOK, Places
  <2> QED BY <1>1, <1>2, <2>1 DEF IInv, TypeOK, Indices
<1>6. (\A y \in Indices : LastpidOK(y))'
  BY <1>1, <1>2, <1>3, LastpidKept
<1>7. (\A u \in Threads : TargetOK(u) /\ CloseOK(u) /\ GrabOK(u))'
  BY <1>1, <1>2, <1>3, PlacesKept
<1>8. (\A p \in Processes : CacheOK(p))'
  BY <1>2 DEF IInv, CacheOK
<1>9. ASSUME NEW y \in Indices
      PROVE  /\ ref'[y] = ref[y] + By(t, y)' - By(t, y)
             /\ Holds(t, y)' => Holds(t, y) \/ (y \notin free /\ y # 0 /\ y < Size)
  <2>1. ~Holds(t, y) /\ (Holds(t, y)' <=> slot[t] = y)
    BY <1>1, <1>3 DEF Holds
  <2>2. By(t, y) = 0 /\ By(t, y)' = IF slot[t] = y THEN 1 ELSE 0
    BY <2>1 DEF By
  <2>3. ref[y] \in Nat /\ ref'[y] = IF slot[t] = y THEN ref[y] + 1 ELSE ref[y]
    BY <1>1, <1>3 DEF IInv, TypeOK
  <2> QED BY <1>4, <2>1, <2>2, <2>3
<1> QED BY <1>1, <1>2, <1>3, <1>5, <1>6, <1>7, <1>8, <1>9, InCall

\* A thread that leaves its slot, to try again or to return.
LEMMA Putting ==
    ASSUME IInv, NEW t \in Threads, pc[t] \in {"sub", "free"}, PutDone(t)
    PROVE  /\ Alone(t) /\ pc'[t] \in {"load", "idle"} /\ (pc'[t] # "idle" => target'[t] \in Objects)
           /\ pc' \in [Threads -> Places \union {"idle", "close"}]
           /\ target' \in [Threads -> Objects \union {Nothing}]
           /\ slot' \in [Threads -> Indices] /\ retry' \in [Threads -> BOOLEAN]
           /\ slot[t] \in Indices
           /\ \A y \in Indices : ~Holds(t, y)' /\ (Holds(t, y) <=> y = slot[t])
<1>1. 0 \in Indices
  BY SizeIs DEF IInv
<1>2. CASE retry[t]
  BY <1>2, Typed DEF PutDone, Goto, Alone, Holds, Places
<1>3. CASE ~retry[t]
  BY <1>1, <1>3, Typed DEF PutDone, Return, Goto, Alone, Holds, Places
<1> QED BY <1>2, <1>3

\* Sub: the reference is dropped by the thread itself.
LEMMA SubStep == ASSUME IInv, NEW t \in Threads, Sub(t) PROVE IInv'
<1>1. UNCHANGED <<map, lastpid, handles>> /\ pc[t] = "sub" /\ PutDone(t)
      /\ ref' = [ref EXCEPT ![slot[t]] = @ - 1]
  BY DEF Sub
<1>2. UNCHANGED <<words, free, hint, index, opened, cache, status>>
  BY <1>1 DEF map, handles
<1>3. Holds(t, slot[t]) /\ slot[t] \in Indices
  BY <1>1, Typed DEF Holds
<1>4. ASSUME NEW y \in Indices
      PROVE  /\ ref'[y] = ref[y] + By(t, y)' - By(t, y) /\ ref'[y] \in Nat
             /\ ~Holds(t, y)'
  <2>1. ~Holds(t, y)' /\ (Holds(t, y) <=> y = slot[t])
    BY <1>1, Putting
  <2>2. By(t, y)' = 0 /\ By(t, y) = IF slot[t] = y THEN 1 ELSE 0
    BY <2>1 DEF By
  <2>3. ref[y] \in Nat /\ ref'[y] = IF slot[t] = y THEN ref[y] - 1 ELSE ref[y]
    BY <1>1, <1>3 DEF IInv, TypeOK
  <2>4. slot[t] = y => ref[y] \in Nat \ {0}
    BY <1>3, HeldCounts
  <2> QED BY <2>1, <2>2, <2>3, <2>4
<1>5. TypeOK'
  <2>1. ref' \in [Indices -> Nat]
    <3>1. ref' = [y \in Indices |-> ref'[y]]
      BY <1>1 DEF IInv, TypeOK
    <3> QED BY <1>4, <3>1
  <2> QED BY <1>1, <1>2, <2>1, Putting DEF IInv, TypeOK, Indices
<1>6. (\A y \in Indices : LastpidOK(y))'
  BY <1>1, <1>2, Putting, LastpidKept
<1>7. (\A u \in Threads : TargetOK(u) /\ CloseOK(u) /\ GrabOK(u))'
  BY <1>1, <1>2, Putting, PlacesKept
<1>8. (\A p \in Processes : CacheOK(p))'
  BY <1>2 DEF IInv, CacheOK
<1> QED BY <1>1, <1>2, <1>4, <1>5, <1>6, <1>7, <1>8, Putting, InCall

\* FreeRequest: the server drops it, and frees the slot if it was the last.
LEMMA FreeRequestStep == ASSUME IInv, NEW t \in Threads, FreeRequest(t) PROVE IInv'
<1>1. UNCHANGED <<lastpid, handles>> /\ pc[t] = "free" /\ PutDone(t) /\ FreeShm({slot[t]})
  BY DEF FreeRequest
<1>2. UNCHANGED <<index, opened, cache, status>>
  BY <1>1 DEF handles
<1>3. Holds(t, slot[t]) /\ slot[t] \in Indices /\ {slot[t]} \subseteq Indices
  BY <1>1, Typed DEF Holds
<1>4. /\ words' = words /\ ref' \in [Indices -> Nat] /\ free \subseteq free'
      /\ free' \subseteq 1..(words' * WordBits - 1) /\ hint' \in 0..words' /\ HintOK'
  BY <1>1, <1>3, Freed
<1>5. ASSUME NEW y \in Indices PROVE Counted(y)'
  <2>1. ~Holds(t, y)' /\ (Holds(t, y) <=> y = slot[t])
    BY <1>1, Putting
  <2>2. By(t, y)' = 0 /\ By(t, y) = IF y \in {slot[t]} THEN 1 ELSE 0
    BY <2>1 DEF By
  <2>3. ByObject(y)' = ByObject(y) /\ ByObject(y) \in {0, 1}
    BY <1>2 DEF ByObject, Named
  <2>4. /\ IsFiniteSet(Holders(y)') /\ IsFiniteSet(Holders(y)) /\ Cardinality(Holders(y)) \in Nat
        /\ Cardinality(Holders(y)') = Cardinality(Holders(y)) + By(t, y)' - By(t, y)
    BY <1>1, Putting, HoldersOf, FS_CardinalityType DEF IInv, Counted
  <2>5. ByObject(y)' + Cardinality(Holders(y)')
          = ByObject(y) + Cardinality(Holders(y)) - (IF y \in {slot[t]} THEN 1 ELSE 0)
    BY <2>2, <2>3, <2>4
  <2> QED BY <1>1, <1>3, <2>4, <2>5, CountedFreed
<1>6. TypeOK'
  BY <1>1, <1>2, <1>4, Putting DEF IInv, TypeOK, Indices
<1>7. (\A y \in Indices : LastpidOK(y))'
  BY <1>1, <1>4, Putting, LastpidKept
<1>8. (\A u \in Threads : TargetOK(u) /\ CloseOK(u) /\ GrabOK(u))'
  BY <1>1, <1>2, Putting, PlacesKept
<1>9. OneObject' /\ HandleOK' /\ (\A p \in Processes : CacheOK(p))'
  BY <1>2 DEF IInv, CacheOK, OneObject, HandleOK
<1>10. Indices' = Indices
  BY DEF Indices
<1> QED BY <1>4, <1>5, <1>6, <1>7, <1>8, <1>9, <1>10 DEF IInv

\* Request: the server counts the reference, and the cache is filled.
LEMMA RequestStep == ASSUME IInv, NEW t \in Threads, Request(t) PROVE IInv'
<1> DEFINE p == Process[t]
           o == target[t]
           y == index[o]
<1>1. UNCHANGED <<map, lastpid, index, opened, status, retry>> /\ pc[t] = "request" /\ Alive(t)
      /\ ~Locked(p) /\ o \in Objects /\ p \in Processes /\ slot[t] \in Indices
  BY Typed DEF Request
<1>2. UNCHANGED <<words, free, hint>>
  BY <1>1 DEF map
<1>3. CASE Cached(t) # 0 \/ o \notin opened[p]
  <2>1. UNCHANGED <<ref, cache>>
    BY <1>3 DEF Request
  <2>2. /\ Alone(t) /\ pc'[t] \in {"load", "idle"} /\ (pc'[t] # "idle" => target'[t] \in Objects)
        /\ pc' \in [Threads -> Places \union {"idle", "close"}]
        /\ target' \in [Threads -> Objects \union {Nothing}]
        /\ slot' \in [Threads -> Indices]
    <3>1. 0 \in Indices
      BY SizeIs DEF IInv
    <3>2. CASE Cached(t) # 0
      BY <1>1, <3>2, Typed DEF Request, Goto, Alone, Places
    <3>3. CASE Cached(t) = 0
      <4>1. Return(t)
        BY <1>3, <3>3 DEF Request
      <4> QED BY <1>1, <3>1, <4>1, Typed DEF Return, Goto, Alone
    <3> QED BY <3>2, <3>3
  <2>3. \A z \in Indices : Holds(t, z)' <=> Holds(t, z)
    BY <1>1, <2>2 DEF Holds
  <2>4. TypeOK'
    BY <1>1, <1>2, <2>1, <2>2 DEF IInv, TypeOK, Indices
  <2>5. (\A z \in Indices : LastpidOK(z))'
    BY <1>1, <1>2, <2>2, LastpidKept
  <2> QED BY <1>1, <2>1, <2>2, <2>3, <2>4, <2>5, InCallQuiet DEF handles
<1>4. CASE Cached(t) = 0 /\ o \in opened[p]
  <2>1. /\ target' = target /\ ref' = [ref EXCEPT ![y] = @ + 1]
        /\ cache' = [cache EXCEPT ![p][o] = y] /\ slot' = [slot EXCEPT ![t] = y]
        /\ pc' = [pc EXCEPT ![t] = "use"]
    BY <1>4 DEF Request, Goto
  <2>2. y \in Indices /\ y \notin free /\ y # 0 /\ y < Size
    BY <1>1, <1>4, NamedCounts DEF IInv, HandleOK
  <2>3. Alone(t) /\ pc'[t] = "use" /\ slot'[t] = y /\ target'[t] = o
    BY <1>1, <2>1, Typed DEF Alone
  <2>4. TypeOK'
    <3>1. /\ pc' \in [Threads -> Places \union {"idle", "close"}] /\ ref' \in [Indices -> Nat]
          /\ cache' \in [Processes -> [Objects -> Indices]] /\ slot' \in [Threads -> Indices]
      BY <1>1, <2>1, <2>2, Typed DEF IInv, TypeOK, Places
    <3> QED BY <1>1, <1>2, <2>1, <3>1 DEF IInv, TypeOK, Indices
  <2>5. (\A z \in Indices : LastpidOK(z))'
    BY <1>1, <1>2, <2>3, LastpidKept
  <2>6. ASSUME NEW q \in Processes PROVE CacheOK(q)'
    <3>1. CacheOK(q) /\ cache \in [Processes -> [Objects -> Indices]]
      BY DEF IInv, TypeOK
    <3>2. \A x \in Objects : cache'[q][x] = cache[q][x] \/ (q = p /\ x = o /\ cache'[q][x] = y)
      BY <1>1, <2>1, <3>1
    <3> QED BY <1>1, <1>4, <3>1, <3>2 DEF CacheOK
  <2>7. ASSUME NEW u \in Threads PROVE TargetOK(u)' /\ CloseOK(u)' /\ GrabOK(u)'
    <3>1. TargetOK(u) /\ CloseOK(u) /\ GrabOK(u) /\ Process[u] \in Processes
          /\ cache \in [Processes -> [Objects -> Indices]]
      BY ProcessAssumption DEF IInv, TypeOK
    <3>2. TargetOK(u)'
      BY <1>1, <2>1, <2>3, <3>1 DEF TargetOK, Alone
    <3>3. ASSUME NEW q, NEW x, Closing(q, x)' PROVE Closing(q, x)
      BY <2>1, <2>3, <3>3 DEF Closing, Alone
    <3>4. GrabOK(u)'
      BY <1>1, <2>1, <2>3, <3>1, <3>3 DEF GrabOK, Alone, Alive
    <3>5. ASSUME pc'[u] = "close", Alive(u)'
          PROVE  /\ target[u] \in opened[Process[u]] /\ cache'[Process[u]][target[u]] = 0
                 /\ \A x \in Threads : Process[x] = Process[u] /\ pc'[x] = "close" => x = u
      <4>1. u # t /\ pc[u] = "close" /\ Alive(u) /\ \A x \in Threads : pc'[x] = "close" => pc[x] = "close"
        BY <1>1, <2>3, <3>5 DEF Alone, Alive
      <4>2. Process[u] # p
        BY <1>1, <4>1 DEF Locked
      <4>3. cache'[Process[u]] = cache[Process[u]]
        BY <2>1, <3>1, <4>2
      <4> QED BY <3>1, <4>1, <4>3 DEF CloseOK
    <3>6. CloseOK(u)'
      BY <1>1, <2>1, <3>5 DEF CloseOK
    <3> QED BY <3>2, <3>4, <3>6
  <2>8. ASSUME NEW z \in Indices
        PROVE  /\ ref'[z] = ref[z] + By(t, z)' - By(t, z)
               /\ Holds(t, z)' => Holds(t, z) \/ (z \notin free /\ z # 0 /\ z < Size)
    <3>1. ~Holds(t, z) /\ (Holds(t, z)' <=> y = z)
      BY <1>1, <2>3 DEF Holds
    <3>2. By(t, z) = 0 /\ By(t, z)' = IF y = z THEN 1 ELSE 0
      BY <3>1 DEF By
    <3>3. ref[z] \in Nat /\ ref'[z] = IF y = z THEN ref[z] + 1 ELSE ref[z]
      BY <2>1, <2>2 DEF IInv, TypeOK
    <3> QED BY <2>2, <3>1, <3>2, <3>3
  <2>9. UNCHANGED <<map, opened, index, status>>
    BY <1>1
  <2>10. /\ (\A q \in Processes : CacheOK(q))'
         /\ (\A u \in Threads : TargetOK(u) /\ CloseOK(u) /\ GrabOK(u))'
    BY <2>6, <2>7
  <2> HIDE DEF p, o, y
  <2> QED BY <2>3, <2>4, <2>5, <2>8, <2>9, <2>10, InCall
<1> QED BY <1>3, <1>4

\* Create: a slot that nobody refers to for an object that nobody has open.
LEMMA CreateStep ==
    ASSUME IInv, GrowsWhenLost, NEW t \in Threads, NEW o \in Objects, Create(t, o)
    PROVE  IInv'
<1> DEFINE p == Process[t]
<1>1. PICK y \in Indices : AllocShm(y) /\ index' = [index EXCEPT ![o] = y]
                           /\ cache' = [cache EXCEPT ![p][o] = y]
  BY DEF Create
<1>2. /\ index[o] = 0 /\ o \notin opened[p] /\ p \in Processes
      /\ opened' = [opened EXCEPT ![p] = @ \union {o}]
      /\ UNCHANGED <<status, pc, target, slot, retry>>
  BY Typed DEF Create, locals
<1>3. /\ ref[y] = 0 /\ y # 0 /\ y < Size' /\ y \notin free'
      /\ Size \in Nat /\ Size' \in Nat /\ Size <= Size'
      /\ \A z \in free' : z \in free \/ (z \in Indices /\ z >= Size)
      /\ free \ {y} \subseteq free'
      /\ words' \in InitialWords..MaxWords /\ hint' \in 0..words'
      /\ free' \subseteq 1..(words' * WordBits - 1)
      /\ HintOK'
  BY <1>1, Allocated
<1>4. ref' = [ref EXCEPT ![y] = 1] /\ lastpid' = [lastpid EXCEPT ![y] = 0]
  BY <1>1 DEF AllocShm
<1>5. /\ index \in [Objects -> Indices] /\ opened \in [Processes -> SUBSET Objects]
      /\ cache \in [Processes -> [Objects -> Indices]] /\ ref \in [Indices -> Nat]
      /\ lastpid \in [Indices -> Processes \union {0}] /\ \A z \in Indices : Counted(z)
      /\ Indices \subseteq Nat
  BY SizeIs DEF IInv, TypeOK
<1>6. TypeOK'
  <2>1. /\ index' \in [Objects -> Indices] /\ opened' \in [Processes -> SUBSET Objects]
        /\ cache' \in [Processes -> [Objects -> Indices]] /\ ref' \in [Indices -> Nat]
        /\ lastpid' \in [Indices -> Processes \union {0}]
    BY <1>1, <1>2, <1>4, <1>5
  <2> QED BY <1>2, <1>3, <2>1 DEF IInv, TypeOK, Indices
<1>7. Holders(y) = {} /\ ~Named(y)
  BY <1>3, <1>5, Cards
<1>8. /\ index'[o] = y /\ \A q \in Objects : q # o => index'[q] = index[q]
      /\ \A q \in Processes, x \in Objects : x # o \/ q # p => cache'[q][x] = cache[q][x]
      /\ cache'[p][o] = y
      /\ \A q \in Processes : q # p => opened'[q] = opened[q]
      /\ opened'[p] = opened[p] \union {o}
  BY <1>1, <1>2, <1>5
<1>9. OneObject'
  <2>1. ASSUME NEW a \in Objects, NEW b \in Objects, a # b, index'[a] # 0 PROVE index'[b] # index'[a]
    BY <1>7, <1>8, <2>1 DEF IInv, OneObject, Named
  <2> QED BY <2>1 DEF OneObject
<1>10. \A q \in Processes : o \notin opened[q]
  BY <1>2 DEF IInv, HandleOK
<1>11. HandleOK'
  <2>1. ASSUME NEW q \in Processes, NEW x \in opened'[q] PROVE index'[x] # 0
    <3>1. CASE x = o
      BY <1>3, <1>8, <3>1
    <3>2. CASE x # o
      BY <1>5, <1>8, <3>2 DEF IInv, HandleOK
    <3> QED BY <3>1, <3>2
  <2> QED BY <2>1 DEF HandleOK
<1>12. ASSUME NEW q \in Processes PROVE CacheOK(q)'
  <2>1. ASSUME status[q] = "alive", NEW x \in Objects, cache'[q][x] # 0
        PROVE  x \in opened'[q] /\ cache'[q][x] = index'[x]
    <3>1. CASE x = o /\ q = p
      BY <1>8, <3>1
    <3>2. CASE ~(x = o /\ q = p)
      <4>1. x \in opened[q] /\ cache'[q][x] = index[x]
        BY <1>8, <2>1, <3>2 DEF IInv, CacheOK
      <4> QED BY <1>8, <1>10, <4>1
    <3> QED BY <3>1, <3>2
  <2> QED BY <1>2, <2>1 DEF CacheOK
<1>13. ASSUME NEW z \in Indices PROVE Counted(z)' /\ LastpidOK(z)'
  <2>1. Holders(z)' = Holders(z)
    BY <1>2 DEF Holders, Holds
  <2>2. CASE z = y
    <3>1. Cardinality(Holders(y)) = 0 /\ IsFiniteSet(Holders(y))
      BY <1>7, FS_EmptySet
    <3>2. ref'[y] = 1 /\ lastpid'[y] = 0 /\ Named(y)'
      BY <1>4, <1>5, <1>8 DEF Named
    <3>3. ~(y >= Size')
      BY <1>3, <1>5
    <3> QED BY <1>3, <2>1, <2>2, <3>1, <3>2, <3>3 DEF Counted, LastpidOK
  <2>3. CASE z # y
    <3>1. ref'[z] = ref[z] /\ lastpid'[z] = lastpid[z]
      BY <1>4, <1>5, <2>3
    <3>2. z # 0 => (Named(z)' <=> Named(z))
      BY <1>2, <1>8, <2>3 DEF Named
    <3>3. z \in free' => z \in free \/ z >= Size
      BY <1>3
    <3>4. z >= Size' => z >= Size
      BY <1>3, <1>5
    <3>5. Counted(z)'
      BY <1>5, <2>1, <3>1, <3>2, <3>3, <3>4 DEF Counted
    <3>6. LastpidOK(z)'
      BY <1>2, <1>3, <2>3, <3>1 DEF IInv, LastpidOK
    <3> QED BY <3>5, <3>6
  <2> QED BY <2>2, <2>3
<1>14. ASSUME NEW u \in Threads PROVE TargetOK(u)' /\ CloseOK(u)' /\ GrabOK(u)'
  <2>1. TargetOK(u) /\ CloseOK(u) /\ GrabOK(u) /\ Process[u] \in Processes
    BY ProcessAssumption DEF IInv
  <2>2. TargetOK(u)'
    BY <1>2, <2>1 DEF TargetOK
  <2>3. ASSUME target[u] \in opened[Process[u]]
        PROVE  /\ target[u] \in opened'[Process[u]] /\ index'[target[u]] = index[target[u]]
               /\ cache'[Process[u]][target[u]] = cache[Process[u]][target[u]]
    BY <1>5, <1>8, <1>10, <2>1, <2>3
  <2>4. CloseOK(u)'
    BY <1>2, <2>1, <2>3 DEF CloseOK, Alive
  <2>5. GrabOK(u)'
    BY <1>2, <2>1, <2>3 DEF GrabOK, Alive, Closing
  <2> QED BY <2>2, <2>4, <2>5
<1>15. Indices' = Indices
  BY DEF Indices
<1> QED BY <1>3, <1>6, <1>9, <1>11, <1>12, <1>13, <1>14, <1>15 DEF IInv

\* Open and Duplicate: a process gets a handle of an object that exists; what it caches
\* of it is true.
LEMMA Opening ==
    ASSUME IInv, UNCHANGED <<map, ref, lastpid, index, status, pc, locals>>,
           NEW q \in Processes, NEW o \in Objects, index[o] # 0, o \notin opened[q],
           opened' = [opened EXCEPT ![q] = @ \union {o}],
           cache' = cache \/ cache' = [cache EXCEPT ![q][o] = index[o]]
    PROVE  IInv'
<1>1. UNCHANGED <<words, free, hint, ref, lastpid, index, status, pc, target, slot, retry>>
  BY DEF map, locals
<1>2. /\ index \in [Objects -> Indices] /\ opened \in [Processes -> SUBSET Objects]
      /\ cache \in [Processes -> [Objects -> Indices]]
  BY DEF IInv, TypeOK
<1>3. /\ \A p \in Processes : opened[p] \subseteq opened'[p]
      /\ \A p \in Processes : \A x \in opened'[p] : x \in opened[p] \/ (p = q /\ x = o)
      /\ o \in opened'[q]
      /\ \A p \in Processes, x \in Objects :
           cache'[p][x] = cache[p][x] \/ (p = q /\ x = o /\ cache'[p][x] = index[o])
  BY <1>2
<1>4. TypeOK'
  <2>1. opened' \in [Processes -> SUBSET Objects] /\ cache' \in [Processes -> [Objects -> Indices]]
    BY <1>2
  <2> QED BY <1>1, <2>1 DEF IInv, TypeOK, Indices
<1>5. HintOK' /\ OneObject'
  BY <1>1 DEF IInv, HintOK, OneObject, Word
<1>6. HandleOK'
  BY <1>1, <1>3 DEF IInv, HandleOK
<1>7. ASSUME NEW y \in Indices PROVE Counted(y)' /\ LastpidOK(y)'
  <2>1. Holders(y)' = Holders(y) /\ (Named(y)' <=> Named(y)) /\ Size' = Size
    BY <1>1 DEF Holders, Holds, Named, Size
  <2>2. Counted(y) /\ LastpidOK(y)
    BY DEF IInv
  <2> QED BY <1>1, <2>1, <2>2 DEF Counted, LastpidOK
<1>8. ASSUME NEW p \in Processes PROVE CacheOK(p)'
  <2>1. CacheOK(p)
    BY DEF IInv
  <2> QED BY <1>1, <1>3, <2>1 DEF CacheOK
<1>9. ASSUME NEW u \in Threads PROVE TargetOK(u)' /\ CloseOK(u)' /\ GrabOK(u)'
  <2>1. TargetOK(u) /\ CloseOK(u) /\ GrabOK(u) /\ Process[u] \in Processes
    BY ProcessAssumption DEF IInv
  <2>2. target[u] \in opened[Process[u]] =>
          /\ target[u] \in opened'[Process[u]] /\ target[u] \in Objects
          /\ cache'[Process[u]][target[u]] = cache[Process[u]][target[u]]
    BY <1>2, <1>3, <2>1
  <2> QED BY <1>1, <2>1, <2>2 DEF TargetOK, CloseOK, GrabOK, Closing, Alive
<1>10. Indices' = Indices
  BY DEF Indices
<1> QED BY <1>4, <1>5, <1>6, <1>7, <1>8, <1>9, <1>10 DEF IInv

\* Open: the new handle is cached.
LEMMA OpenStep == ASSUME IInv, NEW t \in Threads, NEW o \in Objects, Open(t, o) PROVE IInv'
<1>1. /\ UNCHANGED <<map, ref, lastpid, index, status, pc, locals>> /\ index[o] # 0
      /\ o \notin opened[Process[t]] /\ Process[t] \in Processes
      /\ opened' = [opened EXCEPT ![Process[t]] = @ \union {o}]
      /\ cache'  = [cache EXCEPT ![Process[t]][o] = index[o]]
  BY Typed DEF Open
<1> QED BY <1>1, Opening

\* Duplicate: the new handle, of any process that runs, is not cached.
LEMMA DuplicateStep ==
    ASSUME IInv, NEW t \in Threads, NEW q \in Processes, NEW o \in Objects, Duplicate(t, q, o)
    PROVE  IInv'
<1>1. /\ UNCHANGED <<map, ref, lastpid, index, status, pc, locals>> /\ cache' = cache
      /\ o \notin opened[q] /\ o \in opened[Process[t]] /\ Process[t] \in Processes
      /\ opened' = [opened EXCEPT ![q] = @ \union {o}]
  BY Typed DEF Duplicate
<1>2. index[o] # 0
  BY <1>1 DEF IInv, HandleOK
<1> QED BY <1>1, <1>2, Opening

\* FsyncClose: the cache entry is emptied, by one thread of the process at a time, and by
\* none while another is about to grab the slot.
LEMMA FsyncCloseStep ==
    ASSUME IInv, NotInWindow, NEW t \in Threads, NEW o \in Objects, FsyncClose(t, o)
    PROVE  IInv'
<1> DEFINE p == Process[t]
<1>1. /\ UNCHANGED <<map, ref, lastpid, index, opened, status, slot, retry>>
      /\ pc[t] = "idle" /\ Alive(t) /\ ~Locked(p) /\ o \in opened[p] /\ p \in Processes
      /\ \A u \in Users(p, o) : pc[u] \in ClosedDuring
      /\ cache'  = [cache EXCEPT ![p][o] = 0]
      /\ target' = [target EXCEPT ![t] = o] /\ pc' = [pc EXCEPT ![t] = "close"]
  BY Typed DEF FsyncClose, Goto
<1>2. UNCHANGED <<words, free, hint>>
  BY <1>1 DEF map
<1>3. cache \in [Processes -> [Objects -> Indices]] /\ 0 \in Indices
  BY SizeIs DEF IInv, TypeOK
<1>4. /\ pc'[t] = "close" /\ target'[t] = o
      /\ \A u \in Threads : u # t => pc'[u] = pc[u] /\ slot'[u] = slot[u] /\ target'[u] = target[u]
      /\ \A q \in Processes, x \in Objects : cache'[q][x] = IF q = p /\ x = o THEN 0 ELSE cache[q][x]
  BY <1>1, <1>3, Typed
<1>5. TypeOK'
  <2>1. /\ pc' \in [Threads -> Places \union {"idle", "close"}]
        /\ target' \in [Threads -> Objects \union {Nothing}]
        /\ cache' \in [Processes -> [Objects -> Indices]]
    BY <1>1, <1>3, Typed
  <2> QED BY <1>1, <1>2, <2>1 DEF IInv, TypeOK, Indices
<1>6. HintOK' /\ OneObject' /\ HandleOK'
  BY <1>1, <1>2 DEF IInv, HintOK, OneObject, HandleOK, Word
<1>7. ASSUME NEW y \in Indices PROVE Counted(y)' /\ LastpidOK(y)'
  <2>1. \A u \in Threads : (Holds(u, y)' <=> Holds(u, y)) /\ (pc[u] = "wait" => u # t)
    BY <1>1, <1>4 DEF Holds
  <2>2. Holders(y)' = Holders(y) /\ Counted(y) /\ LastpidOK(y)
    BY <2>1 DEF Holders, IInv
  <2> QED BY <1>1, <1>2, <1>4, <2>1, <2>2 DEF Counted, LastpidOK, Named, Size
<1>8. ASSUME NEW q \in Processes PROVE CacheOK(q)'
  <2>1. CacheOK(q)
    BY DEF IInv
  <2> QED BY <1>1, <1>4, <2>1 DEF CacheOK
<1>9. ASSUME NEW u \in Threads PROVE TargetOK(u)' /\ CloseOK(u)' /\ GrabOK(u)'
  <2>1. TargetOK(u) /\ CloseOK(u) /\ GrabOK(u) /\ Process[u] \in Processes
    BY ProcessAssumption DEF IInv
  <2>2. TargetOK(u)'
    BY <1>4, <2>1 DEF TargetOK
  <2>3. CloseOK(u)'
    <3> SUFFICES ASSUME pc'[u] = "close", Alive(u)
                 PROVE  /\ target'[u] \in opened[Process[u]] /\ cache'[Process[u]][target'[u]] = 0
                        /\ \A x \in Threads : Process[x] = Process[u] /\ pc'[x] = "close" => x = u
      BY <1>1 DEF CloseOK, Alive
    <3>1. CASE u = t
      <4>1. ASSUME NEW x \in Threads, Process[x] = p, pc'[x] = "close" PROVE x = t
        BY <1>1, <1>4, <4>1 DEF Locked
      <4> QED BY <1>1, <1>4, <3>1, <4>1
    <3>2. CASE u # t
      <4>1. pc[u] = "close" /\ target'[u] = target[u] /\ Process[u] # p /\ target[u] \in Objects
        BY <1>1, <1>4, <2>1, <3>2 DEF Locked, TargetOK
      <4>2. cache'[Process[u]][target[u]] = cache[Process[u]][target[u]]
        BY <1>4, <2>1, <4>1
      <4>3. \A x \in Threads : Process[x] = Process[u] /\ pc'[x] = "close" => pc[x] = "close"
        BY <1>4, <4>1
      <4> QED BY <2>1, <4>1, <4>2, <4>3 DEF CloseOK
    <3> QED BY <3>1, <3>2
  <2>4. GrabOK(u)'
    <3> SUFFICES ASSUME pc'[u] = "grab", Alive(u)
                 PROVE  /\ target'[u] \in opened[Process[u]] /\ slot'[u] = index[target'[u]]
                        /\ \A x \in Threads : ~(Process[x] = Process[u] /\ pc'[x] = "close"
                                                 /\ target'[x] = target'[u])
      BY <1>1 DEF GrabOK, Alive, Closing
    <3>1. u # t /\ pc[u] = "grab" /\ target'[u] = target[u] /\ slot'[u] = slot[u]
      BY <1>4
    <3>2. ASSUME NEW x \in Threads, Process[x] = Process[u], pc'[x] = "close", target'[x] = target[u]
          PROVE  FALSE
      <4>1. CASE x = t
        <5>1. u \in Users(p, o)
          BY <1>4, <3>1, <3>2, <4>1 DEF Users
        <5> QED BY <1>1, <3>1, <5>1 DEF NotInWindow
      <4>2. CASE x # t
        <5>1. pc[x] = "close" /\ target[x] = target[u] /\ Alive(u)
          BY <1>1, <1>4, <3>2, <4>2 DEF Alive
        <5>2. Closing(Process[u], target[u])
          BY <3>2, <5>1 DEF Closing
        <5> QED BY <2>1, <3>1, <5>1, <5>2 DEF GrabOK
      <4> QED BY <4>1, <4>2
    <3>3. target[u] \in opened[Process[u]] /\ slot[u] = index[target[u]]
      BY <1>1, <2>1, <3>1 DEF GrabOK, Alive
    <3> QED BY <3>1, <3>2, <3>3
  <2> QED BY <2>2, <2>3, <2>4
<1>10. Indices' = Indices
  BY DEF Indices
<1> QED BY <1>5, <1>6, <1>7, <1>8, <1>9, <1>10 DEF IInv

\* The handles of a process that are closed, and the objects that go with them.
LEMMA ClosedIs ==
    ASSUME IInv, NEW p \in Processes, NEW O, O \subseteq opened[p], Closed(p, O),
           UNCHANGED <<lastpid, cache>>,
           \A u \in Threads, y \in Indices : Holds(u, y)' <=> Holds(u, y),
           \A u \in Threads : pc[u] = "wait" => pc'[u] = "wait" /\ slot'[u] = slot[u]
    PROVE  /\ OneObject' /\ HandleOK' /\ HintOK'
           /\ \A y \in Indices : Counted(y)' /\ LastpidOK(y)'
           /\ words' = words /\ ref' \in [Indices -> Nat] /\ hint' \in 0..words'
           /\ free' \subseteq 1..(words' * WordBits - 1)
           /\ index' \in [Objects -> Indices] /\ opened' \in [Processes -> SUBSET Objects]
           /\ opened'[p] = opened[p] \ O /\ \A q \in Processes : q # p => opened'[q] = opened[q]
           /\ \A q \in Processes : \A o \in opened'[q] : index'[o] = index[o]
<1> DEFINE last == {o \in O : \A q \in Processes \ {p} : o \notin opened[q]}
           Y    == {index[o] : o \in last}
<1>1. /\ opened' = [opened EXCEPT ![p] = @ \ O]
      /\ index' = [o \in Objects |-> IF o \in last THEN 0 ELSE index[o]]
      /\ FreeShm(Y)
  BY DEF Closed
<1>2. /\ opened \in [Processes -> SUBSET Objects] /\ index \in [Objects -> Indices] /\ 0 \in Indices
      /\ OneObject /\ HandleOK
  BY SizeIs DEF IInv, TypeOK
<1>3. /\ \A o \in last : o \in Objects /\ o \in O /\ index[o] # 0 /\ index[o] \in Indices
      /\ Y \subseteq Indices
      /\ \A o \in last, q \in Processes : q # p => o \notin opened[q]
  BY <1>2 DEF HandleOK
<1>4. /\ opened'[p] = opened[p] \ O /\ \A q \in Processes : q # p => opened'[q] = opened[q]
      /\ opened' \in [Processes -> SUBSET Objects]
  BY <1>1, <1>2
<1>5. \A o \in Objects : index'[o] = IF o \in last THEN 0 ELSE index[o]
  BY <1>1
<1>6. index' \in [Objects -> Indices]
  BY <1>1, <1>2
<1>7. \A y : y \in Y <=> \E o \in last : y = index[o]
  OBVIOUS
<1>8. \A q \in Processes : \A o \in opened'[q] : o \in opened[q] /\ o \notin last
  BY <1>3, <1>4
<1> HIDE DEF last, Y
<1>9. \A q \in Processes : \A o \in opened'[q] : o \in Objects /\ index'[o] = index[o]
  BY <1>2, <1>5, <1>8
<1>10. HandleOK'
  BY <1>2, <1>8, <1>9 DEF HandleOK
<1>11. OneObject'
  BY <1>2, <1>5 DEF OneObject
<1>12. /\ words' = words /\ ref' \in [Indices -> Nat] /\ hint' \in 0..words' /\ HintOK'
       /\ free' \subseteq 1..(words' * WordBits - 1) /\ free \subseteq free'
  BY <1>1, <1>3, Freed
<1>13. ASSUME NEW y \in Indices PROVE Counted(y)'
  <2>1. Holders(y)' = Holders(y) /\ Counted(y)
    BY DEF Holders, IInv
  <2>2. IsFiniteSet(Holders(y)') /\ Cardinality(Holders(y)') \in Nat
        /\ Cardinality(Holders(y)') = Cardinality(Holders(y))
    BY <2>1, FS_CardinalityType DEF Counted
  <2>3. CASE y \in Y
    <3>1. PICK o \in last : y = index[o]
      BY <1>7, <2>3
    <3>2. y # 0 /\ Named(y)
      BY <1>3, <3>1 DEF Named
    <3>3. ~Named(y)'
      BY <1>2, <1>3, <1>5, <3>1, <3>2 DEF Named, OneObject
    <3>4. ByObject(y) = 1 /\ ByObject(y)' = 0
      BY <3>2, <3>3 DEF ByObject
    <3> QED BY <1>1, <1>3, <2>2, <2>3, <3>4, CountedFreed
  <2>4. CASE y \notin Y
    <3>1. y # 0 => (Named(y)' <=> Named(y))
      BY <1>5, <1>7, <2>4 DEF Named
    <3>2. ByObject(y)' = ByObject(y) /\ ByObject(y) \in {0, 1}
      BY <3>1 DEF ByObject
    <3> QED BY <1>1, <1>3, <2>2, <2>4, <3>2, CountedFreed
  <2> QED BY <2>3, <2>4
<1>14. ASSUME NEW y \in Indices PROVE LastpidOK(y)'
  <2>1. LastpidOK(y)
    BY DEF IInv
  <2> QED BY <1>12, <2>1 DEF LastpidOK
<1> QED BY <1>4, <1>6, <1>9, <1>10, <1>11, <1>12, <1>13, <1>14

\* CloseHandle: the server closes the handle that is no longer in the cache.
LEMMA CloseHandleStep == ASSUME IInv, NEW t \in Threads, CloseHandle(t) PROVE IInv'
<1> DEFINE p == Process[t]
           o == target[t]
<1>1. /\ pc[t] = "close" /\ Alive(t) /\ Closed(p, {o}) /\ UNCHANGED <<lastpid, cache, status, retry>>
      /\ pc' = [pc EXCEPT ![t] = "idle"] /\ target' = [target EXCEPT ![t] = Nothing]
      /\ slot' = [slot EXCEPT ![t] = 0]
  BY DEF CloseHandle, Return, Goto
<1>2. /\ o \in opened[p] /\ cache[p][o] = 0 /\ p \in Processes /\ o \in Objects
      /\ \A u \in Threads : Process[u] = p /\ pc[u] = "close" => u = t
  BY <1>1, Typed DEF IInv, CloseOK
<1>3. /\ pc'[t] = "idle" /\ 0 \in Indices
      /\ \A u \in Threads : u # t => pc'[u] = pc[u] /\ slot'[u] = slot[u] /\ target'[u] = target[u]
  BY <1>1, Typed, SizeIs DEF IInv
<1>4. /\ OneObject' /\ HandleOK' /\ HintOK'
      /\ \A y \in Indices : Counted(y)' /\ LastpidOK(y)'
      /\ words' = words /\ ref' \in [Indices -> Nat] /\ hint' \in 0..words'
      /\ free' \subseteq 1..(words' * WordBits - 1)
      /\ index' \in [Objects -> Indices] /\ opened' \in [Processes -> SUBSET Objects]
      /\ opened'[p] = opened[p] \ {o} /\ \A q \in Processes : q # p => opened'[q] = opened[q]
      /\ \A q \in Processes : \A x \in opened'[q] : index'[x] = index[x]
  <2>1. \A u \in Threads, y \in Indices : Holds(u, y)' <=> Holds(u, y)
    BY <1>1, <1>3 DEF Holds
  <2>2. \A u \in Threads : pc[u] = "wait" => pc'[u] = "wait" /\ slot'[u] = slot[u]
    BY <1>1, <1>3
  <2>3. {o} \subseteq opened[p]
    BY <1>2
  <2> HIDE DEF p, o
  <2> QED BY <1>1, <1>2, <2>1, <2>2, <2>3, ClosedIs
<1>5. TypeOK'
  <2>1. /\ pc' \in [Threads -> Places \union {"idle", "close"}]
        /\ target' \in [Threads -> Objects \union {Nothing}] /\ slot' \in [Threads -> Indices]
    BY <1>1, <1>3, Typed
  <2>2. /\ words' \in InitialWords..MaxWords /\ lastpid' \in [Indices -> Processes \union {0}]
        /\ cache' \in [Processes -> [Objects -> Indices]] /\ retry' \in [Threads -> BOOLEAN]
        /\ status' \in [Processes -> {"alive", "killed", "gone"}]
    BY <1>1, <1>4 DEF IInv, TypeOK
  <2> QED BY <1>4, <2>1, <2>2 DEF TypeOK, Indices
<1>6. ASSUME NEW q \in Processes PROVE CacheOK(q)'
  <2> SUFFICES ASSUME status[q] = "alive", NEW x \in Objects, cache[q][x] # 0
               PROVE  x \in opened'[q] /\ cache[q][x] = index'[x]
    BY <1>1 DEF CacheOK
  <2>1. x \in opened[q] /\ cache[q][x] = index[x]
    BY DEF IInv, CacheOK
  <2>2. x \in opened'[q]
    BY <1>2, <1>4, <2>1
  <2> QED BY <1>4, <2>1, <2>2
<1>7. ASSUME NEW u \in Threads PROVE TargetOK(u)' /\ CloseOK(u)' /\ GrabOK(u)'
  <2>1. TargetOK(u) /\ CloseOK(u) /\ GrabOK(u) /\ Process[u] \in Processes
    BY ProcessAssumption DEF IInv
  <2>2. CASE u = t
    BY <1>3, <2>2 DEF TargetOK, CloseOK, GrabOK
  <2>3. CASE u # t
    <3>1. pc'[u] = pc[u] /\ slot'[u] = slot[u] /\ target'[u] = target[u]
      BY <1>3, <2>3
    <3>2. TargetOK(u)'
      BY <2>1, <3>1 DEF TargetOK
    <3>3. CloseOK(u)'
      <4> SUFFICES ASSUME pc[u] = "close", Alive(u)
                   PROVE  /\ target[u] \in opened'[Process[u]] /\ cache[Process[u]][target[u]] = 0
                          /\ \A x \in Threads : Process[x] = Process[u] /\ pc'[x] = "close" => x = u
        BY <1>1, <3>1 DEF CloseOK, Alive
      <4>1. Process[u] # p /\ \A x \in Threads : pc'[x] = "close" => pc[x] = "close"
        BY <1>2, <1>3, <2>3
      <4> QED BY <1>4, <2>1, <4>1 DEF CloseOK
    <3>4. GrabOK(u)'
      <4> SUFFICES ASSUME pc[u] = "grab", Alive(u)
                   PROVE  /\ target[u] \in opened'[Process[u]] /\ slot[u] = index'[target[u]]
                          /\ \A x \in Threads : ~(Process[x] = Process[u] /\ pc'[x] = "close"
                                                   /\ target'[x] = target[u])
        BY <1>1, <3>1 DEF GrabOK, Alive, Closing
      <4>1. /\ target[u] \in opened[Process[u]] /\ slot[u] = index[target[u]]
            /\ \A x \in Threads : ~(Process[x] = Process[u] /\ pc[x] = "close" /\ target[x] = target[u])
        BY <2>1 DEF GrabOK, Closing
      <4>2. Process[u] # p \/ target[u] # o
        BY <1>1, <4>1
      <4>3. target[u] \in opened'[Process[u]]
        BY <1>4, <2>1, <4>1, <4>2
      <4>4. slot[u] = index'[target[u]]
        BY <1>4, <2>1, <4>1, <4>3
      <4>5. \A x \in Threads : pc'[x] = "close" => pc[x] = "close" /\ target'[x] = target[x]
        BY <1>3
      <4> QED BY <4>1, <4>3, <4>4, <4>5
    <3> QED BY <3>2, <3>3, <3>4
  <2> QED BY <2>2, <2>3
<1>8. Indices' = Indices
  BY DEF Indices
<1> QED BY <1>4, <1>5, <1>6, <1>7, <1>8 DEF IInv

\* Kill: the handles of the process are closed; its threads stay where they are.
LEMMA KillStep == ASSUME IInv, NEW p \in Processes, Kill(p) PROVE IInv'
<1>1. /\ status' = [status EXCEPT ![p] = "killed"] /\ Closed(p, opened[p])
      /\ UNCHANGED <<lastpid, cache, pc, target, slot, retry>>
  BY DEF Kill, locals
<1>2. /\ OneObject' /\ HandleOK' /\ HintOK'
      /\ \A y \in Indices : Counted(y)' /\ LastpidOK(y)'
      /\ words' = words /\ ref' \in [Indices -> Nat] /\ hint' \in 0..words'
      /\ free' \subseteq 1..(words' * WordBits - 1)
      /\ index' \in [Objects -> Indices] /\ opened' \in [Processes -> SUBSET Objects]
      /\ \A q \in Processes : q # p => opened'[q] = opened[q]
      /\ \A q \in Processes : \A x \in opened'[q] : index'[x] = index[x]
  <2>1. \A u \in Threads, y \in Indices : Holds(u, y)' <=> Holds(u, y)
    BY <1>1 DEF Holds
  <2>2. \A u \in Threads : pc[u] = "wait" => pc'[u] = "wait" /\ slot'[u] = slot[u]
    BY <1>1
  <2> QED BY <1>1, <2>1, <2>2, ClosedIs
<1>3. status \in [Processes -> {"alive", "killed", "gone"}]
  BY DEF IInv, TypeOK
<1>4. /\ status' \in [Processes -> {"alive", "killed", "gone"}]
      /\ \A q \in Processes : status'[q] = "alive" => status[q] = "alive" /\ q # p
  BY <1>1, <1>3
<1>5. TypeOK'
  <2>1. /\ words' \in InitialWords..MaxWords /\ lastpid' \in [Indices -> Processes \union {0}]
        /\ cache' \in [Processes -> [Objects -> Indices]] /\ retry' \in [Threads -> BOOLEAN]
        /\ pc' \in [Threads -> Places \union {"idle", "close"}]
        /\ target' \in [Threads -> Objects \union {Nothing}] /\ slot' \in [Threads -> Indices]
    BY <1>1, <1>2 DEF IInv, TypeOK
  <2> QED BY <1>2, <1>4, <2>1 DEF TypeOK, Indices
<1>6. ASSUME NEW q \in Processes PROVE CacheOK(q)'
  <2> SUFFICES ASSUME status'[q] = "alive", NEW x \in Objects, cache[q][x] # 0
               PROVE  x \in opened'[q] /\ cache[q][x] = index'[x]
    BY <1>1 DEF CacheOK
  <2>1. x \in opened[q] /\ cache[q][x] = index[x] /\ q # p
    BY <1>4 DEF IInv, CacheOK
  <2> QED BY <1>2, <2>1
<1>7. ASSUME NEW u \in Threads PROVE TargetOK(u)' /\ CloseOK(u)' /\ GrabOK(u)'
  <2>1. TargetOK(u) /\ CloseOK(u) /\ GrabOK(u) /\ Process[u] \in Processes
    BY ProcessAssumption DEF IInv
  <2>2. TargetOK(u)'
    BY <1>1, <2>1 DEF TargetOK
  <2>3. Alive(u)' => Alive(u) /\ opened'[Process[u]] = opened[Process[u]]
    BY <1>2, <1>4, <2>1 DEF Alive
  <2>4. CloseOK(u)'
    BY <1>1, <2>1, <2>3 DEF CloseOK
  <2>5. GrabOK(u)'
    <3> SUFFICES ASSUME pc[u] = "grab", Alive(u)'
                 PROVE  /\ target[u] \in opened'[Process[u]] /\ slot[u] = index'[target[u]]
                        /\ ~Closing(Process[u], target[u])
      BY <1>1 DEF GrabOK, Closing
    <3> QED BY <1>2, <2>1, <2>3 DEF GrabOK
  <2> QED BY <2>2, <2>4, <2>5
<1>8. Indices' = Indices
  BY DEF Indices
<1> QED BY <1>2, <1>5, <1>6, <1>7, <1>8 DEF IInv

\* Cleanup: a slot that has last_pid of the dead process and one reference has that
\* reference from a wait of the process, and from nobody else.
LEMMA CleanupStep == ASSUME IInv, NEW p \in Processes, Cleanup(p) PROVE IInv'
<1> DEFINE Y == Orphans(p)
           Left(u) == Process[u] = p /\ \E y \in Y : Holds(u, y)
<1>1. /\ status[p] = "killed" /\ status' = [status EXCEPT ![p] = "gone"] /\ FreeShm(Y)
      /\ pc' = [u \in Threads |-> IF Left(u) THEN "idle" ELSE pc[u]]
      /\ UNCHANGED <<lastpid, index, opened, cache, target, slot, retry>>
  BY DEF Cleanup, locals
<1>2. /\ Y \subseteq Indices
      /\ \A y \in Y : y \notin free /\ lastpid[y] = p /\ ref[y] = 1
  BY SizeIs DEF Orphans, Size, Indices, IInv
<1>3. p # 0
  BY ProcessAssumption
<1>4. ASSUME NEW y \in Y
      PROVE  /\ ~(y # 0 /\ Named(y))
             /\ \E u \in Threads : Holders(y) = {u} /\ Process[u] = p
  <2>1. y \in Indices /\ y \notin free /\ lastpid[y] = p /\ ref[y] = 1 /\ Counted(y) /\ LastpidOK(y)
    BY <1>2 DEF IInv
  <2>2. PICK u \in Threads : Process[u] = p /\ pc[u] = "wait" /\ slot[u] = y
    BY <1>3, <2>1 DEF LastpidOK
  <2>3. u \in Holders(y)
    BY <2>2 DEF Holders, Holds
  <2> QED BY <2>1, <2>2, <2>3, Cards
<1>5. /\ words' = words /\ ref' \in [Indices -> Nat] /\ free \subseteq free'
      /\ free' = free \union {y \in Y : ref[y] = 1}
      /\ free' \subseteq 1..(words' * WordBits - 1) /\ hint' \in 0..words' /\ HintOK'
  BY <1>1, <1>2, Freed
<1>6. \A u \in Threads : pc'[u] = IF Left(u) THEN "idle" ELSE pc[u]
  BY <1>1
<1>7. \A u \in Threads : \A y : Holds(u, y)' <=> Holds(u, y) /\ ~Left(u)
  BY <1>1, <1>6 DEF Holds
<1>8. ASSUME NEW y \in Indices PROVE Counted(y)'
  <2>1. ByObject(y)' = ByObject(y) /\ ByObject(y) \in {0, 1} /\ Counted(y)
    BY <1>1 DEF ByObject, Named, IInv
  <2>2. CASE y \in Y
    <3>1. PICK u \in Threads : Holders(y) = {u} /\ Process[u] = p
      BY <1>4, <2>2
    <3>2. Holders(y)' = {}
      <4>1. ASSUME NEW x \in Threads PROVE ~Holds(x, y)'
        <5>1. Holds(x, y) => x \in Holders(y)
          BY DEF Holders
        <5> QED BY <1>7, <2>2, <3>1, <5>1
      <4> QED BY <4>1 DEF Holders
    <3>3. Cardinality(Holders(y)) = 1 /\ Cardinality(Holders(y)') = 0 /\ IsFiniteSet(Holders(y)')
      BY <3>1, <3>2, FS_Singleton, FS_EmptySet
    <3> HIDE DEF Y
    <3> QED BY <1>1, <1>2, <2>1, <2>2, <3>3, CountedFreed
  <2>3. CASE y \notin Y
    <3>1. ASSUME NEW x \in Threads, Holds(x, y) PROVE ~Left(x)
      BY <2>3, <3>1 DEF Holds
    <3>2. Holders(y)' = Holders(y)
      BY <1>7, <3>1 DEF Holders
    <3>3. IsFiniteSet(Holders(y)') /\ Cardinality(Holders(y)') = Cardinality(Holders(y))
          /\ Cardinality(Holders(y)) \in Nat
      BY <2>1, <3>2, FS_CardinalityType DEF Counted
    <3> HIDE DEF Y
    <3> QED BY <1>1, <1>2, <2>1, <2>3, <3>3, CountedFreed
  <2> QED BY <2>2, <2>3
<1>9. ASSUME NEW y \in Indices PROVE LastpidOK(y)'
  <2> SUFFICES ASSUME lastpid[y] # 0, y \notin free'
               PROVE  \E u \in Threads : Process[u] = lastpid[y] /\ pc'[u] = "wait" /\ slot[u] = y
    BY <1>1 DEF LastpidOK
  <2>1. y \notin free /\ y \notin Y
    BY <1>2, <1>5
  <2>2. PICK u \in Threads : Process[u] = lastpid[y] /\ pc[u] = "wait" /\ slot[u] = y
    BY <2>1 DEF IInv, LastpidOK
  <2>3. ~Left(u)
    BY <2>1, <2>2 DEF Holds
  <2> QED BY <1>6, <2>2, <2>3
<1>10. status \in [Processes -> {"alive", "killed", "gone"}] /\ pc \in [Threads -> Places \union {"idle", "close"}]
  BY DEF IInv, TypeOK
<1>11. /\ status' \in [Processes -> {"alive", "killed", "gone"}]
       /\ pc' \in [Threads -> Places \union {"idle", "close"}]
       /\ \A q \in Processes : status'[q] = "alive" => status[q] = "alive"
  BY <1>1, <1>10
<1>12. TypeOK'
  BY <1>1, <1>5, <1>11 DEF IInv, TypeOK, Indices
<1>13. ASSUME NEW q \in Processes PROVE CacheOK(q)'
  <2>1. CacheOK(q)
    BY DEF IInv
  <2> QED BY <1>1, <1>11, <2>1 DEF CacheOK
<1> HIDE DEF Y, Left
<1>14. ASSUME NEW u \in Threads PROVE TargetOK(u)' /\ CloseOK(u)' /\ GrabOK(u)'
  <2>1. TargetOK(u) /\ CloseOK(u) /\ GrabOK(u) /\ (Alive(u)' => Alive(u))
    BY <1>11, ProcessAssumption DEF IInv, Alive
  <2>2. \A x \in Threads : pc'[x] \in {"idle", pc[x]}
    BY <1>6
  <2>3. \A q, x : Closing(q, x)' => Closing(q, x)
    BY <1>1, <2>2 DEF Closing
  <2> QED BY <1>1, <2>1, <2>2, <2>3 DEF TargetOK, CloseOK, GrabOK
<1>15. OneObject' /\ HandleOK' /\ Indices' = Indices
  BY <1>1 DEF IInv, OneObject, HandleOK, Indices
<1> QED BY <1>5, <1>8, <1>9, <1>12, <1>13, <1>14, <1>15 DEF IInv

-----------------------------------------------------------------------------
(* The theorems.                                                           *)

\* A step that changes nothing.
LEMMA StutteringStep == ASSUME IInv, UNCHANGED vars PROVE IInv'
<1>1. UNCHANGED <<words, free, hint, ref, lastpid, index, opened, cache, status, pc, target, slot, retry>>
  BY DEF vars, map, handles, locals
<1>2. ASSUME NEW y \in Indices PROVE Counted(y)' /\ LastpidOK(y)'
  <2>1. Holders(y)' = Holders(y) /\ (Named(y)' <=> Named(y)) /\ Size' = Size
    BY <1>1 DEF Holders, Holds, Named, Size
  <2>2. Counted(y) /\ LastpidOK(y)
    BY DEF IInv
  <2> QED BY <1>1, <2>1, <2>2 DEF Counted, LastpidOK
<1>3. TypeOK' /\ HintOK' /\ OneObject' /\ HandleOK' /\ Indices' = Indices
  BY <1>1 DEF IInv, TypeOK, HintOK, OneObject, HandleOK, Indices, Word
<1>4. (\A p \in Processes : CacheOK(p))'
  BY <1>1 DEF IInv, CacheOK
<1>5. (\A t \in Threads : TargetOK(t) /\ CloseOK(t) /\ GrabOK(t))'
  BY <1>1 DEF IInv, TargetOK, CloseOK, GrabOK, Closing, Alive
<1> QED BY <1>2, <1>3, <1>4, <1>5 DEF IInv

\* Every action keeps the invariant.
LEMMA StepIInv == ASSUME NotInWindow, GrowsWhenLost, IInv, [Next]_vars PROVE IInv'
<1>1. ASSUME NEW t \in Threads, NEW o \in Objects,
             Create(t, o) \/ Open(t, o) \/ FsyncClose(t, o) \/ Begin(t, o)
      PROVE  IInv'
  BY <1>1, CreateStep, OpenStep, FsyncCloseStep, QuietStep
<1>2. ASSUME NEW t \in Threads, NEW q \in Processes, NEW o \in Objects, Duplicate(t, q, o) PROVE IInv'
  BY <1>2, DuplicateStep
<1>3. ASSUME NEW t \in Threads,
             Load(t) \/ CheckRef(t) \/ CheckCache(t) \/ Signal(t) \/ Put(t)
      PROVE  IInv'
  BY <1>3, QuietStep
<1>4. ASSUME NEW t \in Threads,
             \/ CloseHandle(t) \/ Request(t) \/ Grab(t) \/ Wait(t) \/ EndWait(t)
             \/ Sub(t) \/ FreeRequest(t)
      PROVE  IInv'
  BY <1>4, CloseHandleStep, RequestStep, GrabStep, WaitStep, EndWaitStep, SubStep, FreeRequestStep
<1>5. ASSUME NEW p \in Processes, Kill(p) \/ Cleanup(p) PROVE IInv'
  BY <1>5, KillStep, CleanupStep
<1>6. CASE UNCHANGED vars
  BY <1>6, StutteringStep
<1> QED BY <1>1, <1>2, <1>3, <1>4, <1>5, <1>6 DEF Next

\* It holds from the initial states on.
THEOREM Inductive == NotInWindow /\ GrowsWhenLost => (Spec => []IInv)
<1> SUFFICES ASSUME NotInWindow, GrowsWhenLost PROVE Spec => []IInv
  OBVIOUS
<1>1. Init => IInv
  BY InitIInv
<1>2. IInv /\ [Next]_vars => IInv'
  BY StepIInv
<1> QED BY <1>1, <1>2, PTL DEF Spec

\* The references of a slot, counted as the run does.
LEMMA ExactCount == ASSUME IInv PROVE RefsExact
<1> SUFFICES ASSUME NEW y \in 1..(words * WordBits - 1)
             PROVE  /\ ref[y] = Cardinality({o \in Objects : index[o] = y})
                                  + Cardinality({t \in Threads : Holds(t, y)})
                    /\ y \in free => ref[y] = 0
  BY DEF RefsExact
<1>1. y \in Indices /\ y # 0
  BY SizeIs DEF IInv, Size, Indices
<1>2. Counted(y) /\ OneObject
  BY <1>1 DEF IInv
<1> DEFINE Objs == {o \in Objects : index[o] = y}
<1>3. Cardinality(Objs) = ByObject(y)
  <2>1. CASE Named(y)
    <3>1. PICK o \in Objects : index[o] = y
      BY <2>1 DEF Named
    <3>2. Objs = {o}
      BY <1>1, <1>2, <3>1 DEF OneObject
    <3> QED BY <1>1, <2>1, <3>2, FS_Singleton DEF ByObject
  <2>2. CASE ~Named(y)
    <3>1. Objs = {}
      BY <2>2 DEF Named
    <3> QED BY <2>2, <3>1, FS_EmptySet DEF ByObject
  <2> QED BY <2>1, <2>2
<1>4. ref[y] = ByObject(y) + Cardinality(Holders(y)) /\ (y \in free => ref[y] = 0)
  BY <1>2, Cards DEF Counted
<1> QED BY <1>3, <1>4 DEF Holders

\* The slots of objects and of threads in calls, as the run states them.
LEMMA SafeSlots == ASSUME IInv PROVE SlotsExact
<1>1. TypeOK /\ HintOK
  BY DEF IInv
<1>2. SlotExclusive
  BY NamedCounts DEF SlotExclusive, IInv, OneObject
<1>3. SlotInUse
  BY HeldCounts DEF SlotInUse
<1>4. FreedOnce
  <2>1. ASSUME NEW t \in Threads, pc[t] = "free" PROVE slot[t] \notin free
    <3>1. Holds(t, slot[t]) /\ slot[t] \in Indices
      BY <2>1, Typed DEF Holds
    <3> QED BY <3>1, HeldCounts
  <2> QED BY <2>1 DEF FreedOnce
<1> QED BY <1>1, <1>2, <1>3, <1>4 DEF SlotsExact

\* Unless another thread of the process closes the handle of a call just between the load
\* of the cached index and the increment of its count, the count of every slot is exactly
\* the number of the objects and threads that refer to it, and no slot with a reference is
\* free: through every open, duplicate, close, retry, kill and cleanup.
THEOREM ReferencesAreExact == NotInWindow /\ GrowsWhenLost => (Spec => []RefsExact)
<1> SUFFICES ASSUME NotInWindow, GrowsWhenLost PROVE Spec => []RefsExact
  OBVIOUS
<1>1. IInv => RefsExact
  BY ExactCount
<1>2. Spec => []IInv
  BY Inductive
<1> QED BY <1>1, <1>2, PTL

\* Under the same condition a slot belongs to one object for as long as anybody uses it, is
\* given back once, and the search for a free one starts at or before the first.
THEOREM SlotsAreSafe == NotInWindow /\ GrowsWhenLost => (Spec => []SlotsExact)
<1> SUFFICES ASSUME NotInWindow, GrowsWhenLost PROVE Spec => []SlotsExact
  OBVIOUS
<1>1. IInv => SlotsExact
  BY SafeSlots
<1>2. Spec => []IInv
  BY Inductive
<1> QED BY <1>1, <1>2, PTL

=============================================================================
