-------------------------- MODULE PulseStreamProofs --------------------------
(***************************************************************************)
(* RingExact and CaptureExact of PulseStream, proved for a ring of any     *)
(* size, any periods and packets, and whatever the sound server takes.     *)
(***************************************************************************)
EXTENDS PulseStream, FiniteSetTheorems, SequenceTheorems, TLAPS

\* The variables, of both kinds of streams.
RunTyped ==
  /\ flow \in Flows /\ good \in BOOLEAN /\ corked \in BOOLEAN /\ started \in BOOLEAN /\ quit \in BOOLEAN
  /\ control \in {"idle", "uncork", "thread", "cork", "flush", "rate", "rateFlush", "join", "freed"}
  /\ timer \in {"none", "check", "update", "read", "gone"}

RingTyped ==
  /\ period \in Periods /\ clock \in Nat /\ released \in 0 .. MaxFrames /\ heard \in Nat
  /\ local \in [0 .. Real - 1 -> 0 .. MaxFrames] /\ lcl \in 0 .. Real - 1 /\ pa_offs \in 0 .. Real - 1
  /\ pa_held \in 0 .. Real

PacketsTyped ==
  /\ packet \in [Packets -> [discont : BOOLEAN, data : -1 .. MaxRecorded]]
  /\ free \in Seq(Packets) /\ filled \in Seq(Packets) /\ locked_ptr \in Packets \cup {NoPacket}
  /\ recorded \in 0 .. MaxRecorded /\ ready \in Seq(0 .. MaxRecorded) /\ Len(ready) <= Backlog
  /\ left \in 0 .. Backlog

Typed == RunTyped /\ RingTyped /\ PacketsTyped

\* The ring: its two readers end at the same place, and the server has still to get the last
\* frames released.
Cells(cells, offs, n, last) ==
  \A i \in 0 .. n - 1 : cells[Pos(offs + i)] \in {Silence, last - n + i + 1}

RingOK ==
  /\ held \in 0 .. BufSize /\ Pos(lcl + held) = Pos(pa_offs + pa_held)
  /\ heard <= released - pa_held /\ Cells(local, pa_offs, pa_held, released)

\* What the program has been given to write in fits in the ring, and is silent until it is
\* released; nothing empties the ring meanwhile.
GivenOK ==
  /\ locked \in - BufSize .. BufSize /\ held + locked <= BufSize /\ held - locked <= BufSize
  /\ locked > 0 => /\ Wri + locked <= Real
                   /\ \A i \in Wri .. Wri + locked - 1 : local[i] = Silence
  /\ control \in {"flush", "rate", "rateFlush"} => locked = 0

\* The packets that are not free, the oldest first, and what is in them.
ListOf(p, s) == (IF p = NoPacket THEN <<>> ELSE <<p>>) \o s
Used == ListOf(locked_ptr, filled)
Rec == [discont : BOOLEAN, data : -1 .. MaxRecorded]
Recs == [k \in 1 .. Len(Used) |-> packet[Used[k]]]
Gap(r) == IF r.discont THEN 1 ELSE 0

\* Every packet is in one of the two lists.
Lists(fr, us) ==
  /\ \A j, k \in 1 .. Len(fr) : fr[j] = fr[k] => j = k
  /\ \A j, k \in 1 .. Len(us) : us[j] = us[k] => j = k
  /\ \A j \in 1 .. Len(fr), k \in 1 .. Len(us) : fr[j] # us[k]
  /\ \A p \in Packets : (\E j \in 1 .. Len(fr) : fr[j] = p) \/ (\E k \in 1 .. Len(us) : us[k] = p)

ListsOK ==
  /\ Lists(free, Used) /\ held = Len(Used)
  /\ locked \in {0, 1} /\ (locked = 1 => locked_ptr # NoPacket /\ packet[locked_ptr].data = given)

\* The n periods in them were recorded in order, with a period at least lost at a mark; the
\* clock is not past the first of them.
InOrder(rs, n, clk) ==
  /\ \A j, k \in 1 .. n : j < k => rs[j].data + (k - j) + Gap(rs[k]) <= rs[k].data
  /\ n # 0 => clk + Gap(rs[1]) <= rs[1].data

OrderOK == InOrder(Recs, Len(Used), clock)

\* What the server has still was recorded after that.
Behind(rs, n, clk, rd, last) ==
  /\ \A j, k \in 1 .. Len(rd) : j < k => rd[j] < rd[k]
  /\ \A k \in 1 .. Len(rd) : rd[k] < last
  /\ \A k \in 1 .. n : rs[k].data < last /\ \A j \in 1 .. Len(rd) : rs[k].data < rd[j]
  /\ n = 0 => clk <= last /\ \A j \in 1 .. Len(rd) : clk <= rd[j]

SourceOK == Behind(Recs, Len(Used), clock, ready, recorded)

\* While it reads, the timer thread has something to read.
ReadOK == timer = "read" => flow = "capture" /\ left \in 1 .. Len(ready)

PInv ==
  /\ Typed /\ ReadOK
  /\ flow = "render" => RingOK /\ GivenOK /\ locked_ptr = NoPacket
  /\ flow = "capture" => ListsOK /\ OrderOK /\ SourceOK

-----------------------------------------------------------------------------
(* Numbers.                                                                *)

\* The constants.
LEMMA Sizes ==
  /\ BufSize \in Nat /\ BufSize > 0 /\ Real \in Nat /\ Real = BufSize + BufSize
  /\ MaxFrames \in Nat /\ MaxRecorded \in Nat /\ Backlog \in Nat /\ Backlog > 0
  BY PulseAssumption DEF Real

\* A place in the ring, or up to twice around it.
LEMMA PosIs ==
  ASSUME NEW x \in Nat
  PROVE  /\ x < Real => Pos(x) = x
         /\ x >= Real /\ x < Real + Real => Pos(x) = x - Real
         /\ x >= Real + Real /\ x < Real + Real + Real => Pos(x) = x - Real - Real
         /\ Pos(x) \in 0 .. Real - 1
<1> DEFINE q == x \div Real
           r == x % Real
<1>1. Real \in Nat /\ Real > 0
  BY Sizes
<1>2. q \in Nat /\ r \in 0 .. Real - 1 /\ x = Real * q + r /\ Pos(x) = r
  BY <1>1 DEF Pos
<1> HIDE DEF q, r
<1>3. CASE q = 0
  BY <1>1, <1>2, <1>3
<1>4. CASE q = 1
  BY <1>1, <1>2, <1>4
<1>5. CASE q = 2
  BY <1>1, <1>2, <1>5
<1>6. CASE q >= 3
  <2>1. PICK k \in Nat : q = k + 3
    <3>1. q - 3 \in Nat /\ q = (q - 3) + 3
      BY <1>2, <1>6
    <3> QED BY <3>1
  <2>2. Real * q = Real * k + Real + Real + Real /\ Real * k \in Nat
    BY <1>1, <2>1
  <2> QED BY <1>1, <1>2, <2>2
<1> QED BY <1>2, <1>3, <1>4, <1>5, <1>6

\* A set of natural numbers that are not past a bound has a greatest element.
LEMMA MaxIs ==
  ASSUME NEW S, NEW n \in Nat, S \subseteq 0 .. n, S # {}
  PROVE  Max(S) \in S /\ \A z \in S : z <= Max(S)
<1> DEFINE Less == {p \in Nat \X Nat : p[1] < p[2]}
           D == {n - z : z \in S}
<1>1. IsWellFoundedOn(Less, Nat)
  BY NatLessThanWellFounded, Zenon DEF OpToRel
<1> HIDE DEF Less
<1>2. D \subseteq Nat /\ D # {}
  <2>1. ASSUME NEW z \in S PROVE n - z \in Nat
    OBVIOUS
  <2> QED BY <2>1
<1>3. PICK y \in D : \A z \in D : <<z, y>> \notin Less
  BY <1>1, <1>2, WFMin
<1>4. PICK x \in S : y = n - x
  OBVIOUS
<1>5. ASSUME NEW z \in S PROVE z <= x
  <2>1. n - z \in D /\ n - z \in Nat /\ y \in Nat
    BY <1>2
  <2>2. <<n - z, y>> \in Less <=> n - z < y
    BY <2>1 DEF Less
  <2> QED BY <1>3, <1>4, <2>1, <2>2
<1> QED BY <1>5 DEF Max

\* The smaller and the larger of two numbers.
LEMMA MinMax ==
  ASSUME NEW a \in Int, NEW b \in Int
  PROVE  Min({a, b}) = (IF a <= b THEN a ELSE b) /\ Max({a, b}) = (IF a >= b THEN a ELSE b)
<1>1. Min({a, b}) = CHOOSE x \in {a, b} : \A y \in {a, b} : x =< y
  BY DEF Min
<1>2. Max({a, b}) = CHOOSE x \in {a, b} : \A y \in {a, b} : x >= y
  BY DEF Max
<1> QED BY <1>1, <1>2

-----------------------------------------------------------------------------
(* The ring.                                                               *)

\* Going on from a place of the ring is going around it.
LEMMA PosSum ==
  ASSUME NEW a \in 0 .. Real - 1, NEW b \in 0 .. Real, NEW c \in 0 .. Real
  PROVE  Pos(Pos(a + b) + c) = Pos(a + (b + c)) /\ Pos(a + b) \in 0 .. Real - 1
<1>1. Real \in Nat /\ Real > 0
  BY Sizes
<1>2. /\ a + b \in Nat /\ a + b < Real + Real /\ a + (b + c) \in Nat /\ a + (b + c) < Real + Real + Real
      /\ a \in Nat /\ b \in Nat /\ c \in Nat
  BY <1>1
<1> DEFINE x == a + b
           y == a + (b + c)
<1>3. x \in Nat /\ y \in Nat
  BY <1>2
<1>4. /\ x < Real => Pos(x) = x
      /\ x >= Real /\ x < Real + Real => Pos(x) = x - Real
      /\ Pos(x) \in 0 .. Real - 1
      /\ y < Real => Pos(y) = y
      /\ y >= Real /\ y < Real + Real => Pos(y) = y - Real
      /\ y >= Real + Real /\ y < Real + Real + Real => Pos(y) = y - Real - Real
  <2> HIDE DEF x, y
  <2> QED BY <1>3, PosIs
<1> DEFINE d == Pos(x) + c
<1>5. d \in Nat
  BY <1>1, <1>2, <1>4
<1>6. /\ d < Real => Pos(d) = d
      /\ d >= Real /\ d < Real + Real => Pos(d) = d - Real
  <2> HIDE DEF d
  <2> QED BY <1>5, PosIs
<1> QED BY <1>1, <1>2, <1>4, <1>6

\* Two places less than once around apart are not the same.
LEMMA PosInj ==
  ASSUME NEW a \in 0 .. Real - 1, NEW b \in Nat, NEW c \in Nat, b < c, c - b < Real, c < Real + Real
  PROVE  Pos(a + b) # Pos(a + c)
<1>1. Real \in Nat /\ Real > 0
  BY Sizes
<1> DEFINE x == a + b
           y == a + c
<1>2. x \in Nat /\ y \in Nat /\ x < y /\ y - x < Real /\ y < Real + Real + Real
  BY <1>1
<1>3. x \in Nat /\ y \in Nat
  BY <1>2
<1> HIDE DEF x, y
<1>4. /\ x < Real => Pos(x) = x
      /\ x >= Real /\ x < Real + Real => Pos(x) = x - Real
      /\ x >= Real + Real /\ x < Real + Real + Real => Pos(x) = x - Real - Real
  BY <1>3, PosIs
<1>5. /\ y < Real => Pos(y) = y
      /\ y >= Real /\ y < Real + Real => Pos(y) = y - Real
      /\ y >= Real + Real /\ y < Real + Real + Real => Pos(y) = y - Real - Real
  BY <1>3, PosIs
<1>6. Pos(x) # Pos(y)
  BY <1>1, <1>2, <1>4, <1>5
<1> QED BY <1>6 DEF x, y

\* The server takes the first frames of those it has to get; the others are as they were.
LEMMA Written ==
  ASSUME NEW room \in Nat, NEW cells \in [0 .. Real - 1 -> 0 .. MaxFrames], NEW offs \in 0 .. Real - 1,
         NEW n \in 0 .. Real, NEW last \in Nat, heard \in Nat, Write(room, cells, offs, n)
  PROVE  /\ pa_offs' \in 0 .. Real - 1 /\ pa_held' \in 0 .. Real /\ heard' \in Nat
         /\ heard <= last - n /\ Cells(cells, offs, n, last) =>
              /\ heard' <= last - pa_held' /\ Cells(cells, pa_offs', pa_held', last)
              /\ Pos(pa_offs' + pa_held') = Pos(offs + n)
<1>1. Real \in Nat /\ Real > 0 /\ MaxFrames \in Nat
  BY Sizes
<1>2. PICK k \in 0 .. n :
        /\ pa_offs' = Pos(offs + k) /\ pa_held' = n - k
        /\ heard' = IF good THEN Max({heard} \cup {cells[Pos(offs + i)] : i \in 0 .. k - 1}) ELSE heard
  <2>1. Min({room, n}) \in 0 .. n
    <3>1. room \in Int /\ n \in Int /\ room >= 0 /\ n >= 0
      BY <1>1
    <3>2. (Min({room, n}) = room /\ room <= n) \/ Min({room, n}) = n
      BY ONLY <3>1, MinMax
    <3> QED BY ONLY <3>1, <3>2
  <2> QED BY <2>1 DEF Write
<1>3. pa_offs' \in 0 .. Real - 1 /\ pa_held' \in 0 .. Real
  <2>1. offs + k \in Nat
    BY <1>1
  <2> QED BY <1>1, <1>2, <2>1, PosIs
<1>4. ASSUME NEW i \in 0 .. k - 1 PROVE cells[Pos(offs + i)] \in 0 .. MaxFrames
  <2>1. offs + i \in Nat
    BY <1>1
  <2> QED BY <2>1, PosIs
<1> DEFINE S == {heard} \cup {cells[Pos(offs + i)] : i \in 0 .. k - 1}
<1>5. Max(S) \in S
  <2> DEFINE b == heard + MaxFrames
  <2>1. b \in Nat /\ heard \in 0 .. b /\ 0 .. MaxFrames \subseteq 0 .. b
    BY <1>1
  <2> HIDE DEF b
  <2>2. S \subseteq 0 .. b /\ S # {}
    BY <1>4, <2>1
  <2> HIDE DEF S
  <2> QED BY <2>1, <2>2, MaxIs
<1>6. heard' = heard \/ \E i \in 0 .. k - 1 : heard' = cells[Pos(offs + i)]
  BY <1>2, <1>5
<1>7. heard' \in Nat
  <2>1. ASSUME NEW i \in 0 .. k - 1 PROVE cells[Pos(offs + i)] \in Nat
    BY <1>1, <1>4, <2>1
  <2> QED BY <1>6, <2>1
<1>8. ASSUME heard <= last - n, Cells(cells, offs, n, last)
      PROVE  /\ heard' <= last - pa_held' /\ Cells(cells, pa_offs', pa_held', last)
             /\ Pos(pa_offs' + pa_held') = Pos(offs + n)
  <2>1. heard' <= last - pa_held'
    <3>1. CASE heard' = heard
      BY <1>1, <1>2, <1>8, <3>1
    <3>2. ASSUME NEW i \in 0 .. k - 1, heard' = cells[Pos(offs + i)] PROVE heard' <= last - pa_held'
      <4>1. i \in 0 .. n - 1
        BY <1>1
      <4>2. heard' \in {Silence, last - n + i + 1}
        BY <1>8, <3>2, <4>1 DEF Cells
      <4> QED BY <1>1, <1>2, <1>8, <4>1, <4>2 DEF Silence
    <3> QED BY <1>6, <3>1, <3>2
  <2>2. ASSUME NEW i \in 0 .. pa_held' - 1
        PROVE  cells[Pos(pa_offs' + i)] \in {Silence, last - pa_held' + i + 1}
    <3>1. i \in 0 .. Real /\ k \in 0 .. Real /\ k + i \in 0 .. n - 1
      BY <1>1, <1>2
    <3>2. Pos(pa_offs' + i) = Pos(offs + (k + i))
      BY <1>2, <3>1, PosSum
    <3>3. cells[Pos(offs + (k + i))] \in {Silence, last - n + (k + i) + 1}
      BY <1>8, <3>1 DEF Cells
    <3>4. last - n + (k + i) + 1 = last - pa_held' + i + 1
      BY <1>1, <1>2
    <3> QED BY <3>2, <3>3, <3>4
  <2>3. Pos(pa_offs' + pa_held') = Pos(offs + n)
    <3>1. k \in 0 .. Real /\ n - k \in 0 .. Real /\ k + (n - k) = n
      BY <1>1
    <3> QED BY <1>2, <3>1, PosSum
  <2> QED BY <2>1, <2>2, <2>3 DEF Cells
<1> QED BY <1>3, <1>7, <1>8

-----------------------------------------------------------------------------
(* The steps of a stream that renders.                                     *)

\* What a stream that renders does leaves what one that captures has as it was.
LEMMA RenderOnly ==
  ASSUME PInv, flow = "render", flow' = flow, UNCHANGED capture, RunTyped', RingTyped', timer' # "read",
         RingOK', GivenOK'
  PROVE  PInv'
<1>1. PacketsTyped'
  BY DEF PInv, Typed, PacketsTyped, capture, packets, source
<1> QED BY <1>1 DEF PInv, Typed, ReadOK, capture, packets

\* What a stream that captures does to the ring is nothing that matters.
LEMMA CaptureOnly ==
  ASSUME PInv, flow = "capture", UNCHANGED <<flow, locked, held, clock, local, lcl, released, period, capture>>,
         RunTyped', timer' # "read", pa_offs' \in 0 .. Real - 1, pa_held' \in 0 .. Real, heard' \in Nat
  PROVE  PInv'
<1>1. UNCHANGED <<packet, free, filled, locked_ptr, given, left, recorded, ready, locked, held, clock>>
  BY DEF capture, packets, source
<1>2. Typed' /\ ReadOK'
  <2>1. RingTyped' /\ PacketsTyped'
    BY <1>1 DEF PInv, Typed, RingTyped, PacketsTyped
  <2> QED BY <2>1 DEF Typed, ReadOK
<1>3. Used' = Used /\ Recs' = Recs
  BY <1>1 DEF Used, Recs
<1>4. ListsOK' /\ OrderOK' /\ SourceOK'
  <2>1. ListsOK'
    BY <1>1, <1>3 DEF PInv, ListsOK
  <2>2. OrderOK'
    BY <1>1, <1>3 DEF PInv, OrderOK
  <2>3. SourceOK'
    BY <1>1, <1>3 DEF PInv, SourceOK
  <2> QED BY <2>1, <2>2, <2>3
<1> QED BY <1>2, <1>4 DEF PInv

\* A step that changes only where the threads are.
LEMMA Controls ==
  ASSUME PInv, UNCHANGED <<flow, buffer, render, capture>>, RunTyped', timer' = "read" => timer = "read",
         flow = "render" /\ control' \in {"flush", "rate", "rateFlush"} => locked = 0
  PROVE  PInv'
<1>1. /\ UNCHANGED <<flow, locked, held, clock, local, lcl, pa_offs, pa_held, released, heard, period,
                     packet, free, filled, locked_ptr, given, left, recorded, ready>>
  BY DEF buffer, render, ring, capture, packets, source
<1>2. Typed' /\ ReadOK'
  BY <1>1 DEF PInv, Typed, RingTyped, PacketsTyped, ReadOK
<1>3. flow = "render" => RingOK' /\ GivenOK'
  BY <1>1 DEF PInv, RingOK, Cells, GivenOK, Wri
<1>4. flow = "capture" => ListsOK' /\ OrderOK' /\ SourceOK'
  <2>1. Used' = Used /\ Recs' = Recs
    BY <1>1 DEF Used, Recs
  <2>2. flow = "capture" => ListsOK'
    BY <1>1, <2>1 DEF PInv, ListsOK
  <2>3. flow = "capture" => OrderOK'
    BY <1>1, <2>1 DEF PInv, OrderOK
  <2>4. flow = "capture" => SourceOK'
    BY <1>1, <2>1 DEF PInv, SourceOK
  <2> QED BY <2>2, <2>3, <2>4
<1> QED BY <1>1, <1>2, <1>3, <1>4 DEF PInv

\* With nothing given to the program there is nothing to say of it.
LEMMA NoneGiven ==
  ASSUME locked' = 0, held' \in 0 .. BufSize
  PROVE  GivenOK'
<1>1. BufSize \in Nat
  BY Sizes
<1>2. \A h \in 0 .. BufSize : \A l : l = 0 => /\ l \in - BufSize .. BufSize
                                          /\ h + l <= BufSize /\ h - l <= BufSize /\ ~ (l > 0)
  BY <1>1
<1>3. locked' \in - BufSize .. BufSize /\ held' + locked' <= BufSize /\ held' - locked' <= BufSize /\ ~ (locked' > 0)
  BY <1>2, Zenon
<1> QED BY <1>3, Zenon DEF GivenOK

\* Steps of the threads, and of the stream where it does nothing yet.
LEMMA ControlSteps ==
  ASSUME PInv,
         \/ \E success \in BOOLEAN : Uncorked(success) \/ Corked(success)
         \/ CreateTimer \/ Stop \/ SetSampleRate \/ Quit \/ Release \/ TimerChecks \/ TimerIdles \/ Fail
         \/ Reset /\ held > 0
  PROVE  PInv'
<1>1. RunTyped
  BY DEF PInv, Typed
<1>2. ASSUME NEW success \in BOOLEAN, Uncorked(success) \/ Corked(success) PROVE PInv'
  <2>1. UNCHANGED <<flow, buffer, render, capture>> /\ timer' = timer /\ control' \in {"thread", "idle"} /\ RunTyped'
    BY <1>1, <1>2 DEF Uncorked, Corked, RunTyped
  <2> QED BY <2>1, Controls
<1>3. CASE CreateTimer \/ TimerChecks \/ TimerIdles
  <2>1. UNCHANGED <<flow, buffer, render, capture>> /\ timer' \in {timer, "check", "gone", "update"}
        /\ control' \in {control, "idle"} /\ RunTyped'
    BY <1>1, <1>3 DEF CreateTimer, TimerChecks, TimerIdles, RunTyped
  <2>2. flow = "render" /\ control \in {"flush", "rate", "rateFlush"} => locked = 0
    BY DEF PInv, GivenOK
  <2> QED BY <2>1, <2>2, Controls
<1>4. CASE Stop \/ SetSampleRate \/ (Reset /\ held > 0)
  <2>1. UNCHANGED <<flow, buffer, render, capture>> /\ timer' = timer /\ RunTyped'
        /\ (control' \in {"flush", "rate", "rateFlush"} => locked = 0)
    BY <1>1, <1>4 DEF Stop, SetSampleRate, Reset, Goes, RunTyped
  <2> QED BY <2>1, Controls
<1>5. CASE Quit \/ Release
  <2>1. UNCHANGED <<flow, buffer, render, capture>> /\ timer' = timer /\ RunTyped' /\ control' \in {"join", "freed"}
    BY <1>1, <1>5 DEF Quit, Release, RunTyped
  <2> QED BY <2>1, Controls
<1>6. CASE Fail
  <2>1. UNCHANGED <<flow, buffer, render, capture>> /\ timer' = timer /\ control' = control /\ RunTyped'
    BY <1>1, <1>6 DEF Fail, run, RunTyped
  <2>2. flow = "render" /\ control \in {"flush", "rate", "rateFlush"} => locked = 0
    BY DEF PInv, GivenOK
  <2> QED BY <2>1, <2>2, Controls
<1> QED BY <1>2, <1>3, <1>4, <1>5, <1>6

\* The program is given room to write in.
LEMMA GetRenderStep ==
  ASSUME PInv, NEW frames \in 1 .. BufSize, GetRenderBuffer(frames)
  PROVE  PInv'
<1>1. /\ Typed /\ RingOK /\ GivenOK /\ Real \in Nat /\ BufSize \in Nat /\ Real = BufSize + BufSize
      /\ flow = "render" /\ locked = 0 /\ held + frames <= BufSize /\ timer # "read" /\ Steady
      /\ UNCHANGED <<flow, good, run, held, clock, lcl, pa_offs, pa_held, released, heard, period, capture>>
  BY Sizes DEF PInv, GetRenderBuffer, Render, Lock
<1>2. Wri \in 0 .. Real - 1
  <2>1. lcl + held \in Nat
    BY <1>1 DEF Typed, RingTyped, RingOK
  <2> QED BY <2>1, PosIs DEF Wri
<1>3. local' \in [0 .. Real - 1 -> 0 .. MaxFrames]
      /\ \A i \in 0 .. Real - 1 : local'[i] \in {local[i], Silence}
  <2>1. local \in [0 .. Real - 1 -> 0 .. MaxFrames] /\ Silence \in 0 .. MaxFrames
    BY <1>1, Sizes DEF Typed, RingTyped, Silence
  <2>2. CASE local' = local
    BY <2>1, <2>2
  <2>3. CASE local' = [i \in DOMAIN local |-> IF i \in Wri .. Wri + frames - 1 THEN Silence ELSE local[i]]
    BY <2>1, <2>3
  <2> QED BY <2>2, <2>3 DEF GetRenderBuffer
<1>4. /\ locked' \in - BufSize .. BufSize /\ held + locked' <= BufSize /\ held - locked' <= BufSize
      /\ locked' > 0 => Wri + locked' <= Real /\ \A i \in Wri .. Wri + locked' - 1 : local'[i] = Silence
  <2>1. CASE Wri + frames > Real
    BY <1>1, <2>1 DEF GetRenderBuffer, RingOK
  <2>2. CASE Wri + frames <= Real
    <3>1. locked' = frames
          /\ local' = [i \in DOMAIN local |-> IF i \in Wri .. Wri + frames - 1 THEN Silence ELSE local[i]]
      BY <1>1, <1>2, <2>2 DEF GetRenderBuffer
    <3>2. \A i \in Wri .. Wri + frames - 1 : i \in 0 .. Real - 1
      BY <1>1, <1>2, <2>2
    <3>3. \A i \in Wri .. Wri + frames - 1 : local'[i] = Silence
      BY <1>1, <3>1, <3>2 DEF Typed, RingTyped
    <3> QED BY <1>1, <2>2, <3>1, <3>3 DEF RingOK
  <2> QED BY <1>1, <1>2, <2>1, <2>2
<1>5. GivenOK'
  <2>1. Wri' = Wri /\ control' = control
    BY <1>1 DEF Wri, run
  <2> QED BY <1>1, <1>4, <2>1 DEF GivenOK, Steady
<1>6. RingOK'
  <2>1. ASSUME NEW i \in 0 .. pa_held - 1 PROVE local'[Pos(pa_offs + i)] \in {Silence, released - pa_held + i + 1}
    <3>1. pa_offs + i \in Nat
      BY <1>1 DEF Typed, RingTyped
    <3>2. Pos(pa_offs + i) \in 0 .. Real - 1
      BY <3>1, PosIs
    <3>3. local[Pos(pa_offs + i)] \in {Silence, released - pa_held + i + 1}
      BY <1>1 DEF RingOK, Cells
    <3> QED BY <1>3, <3>2, <3>3
  <2> QED BY <1>1, <2>1 DEF RingOK, Cells
<1>7. RunTyped' /\ RingTyped' /\ timer' # "read"
  BY <1>1, <1>3 DEF Typed, RunTyped, RingTyped, run
<1> QED BY <1>1, <1>5, <1>6, <1>7, RenderOnly

\* What the program wrote is numbered from where it was put; the rest of the ring is as it was.
LEMMA FilledIs ==
  ASSUME RingTyped, Wri \in 0 .. Real - 1, NEW written \in 1 .. Real, released + written <= MaxFrames,
         NEW silent
  PROVE  /\ Filled(written, silent) \in [0 .. Real - 1 -> 0 .. MaxFrames]
         /\ \A k \in 0 .. written - 1 : Filled(written, silent)[Pos(Wri + k)] \in {Silence, released + 1 + k}
         /\ \A i \in 0 .. Real - 1 :
              (\A k \in 0 .. written - 1 : i # Pos(Wri + k)) => Filled(written, silent)[i] = local[i]
<1>1. Real \in Nat /\ MaxFrames \in Nat /\ DOMAIN local = 0 .. Real - 1 /\ released \in Nat
      /\ local \in [0 .. Real - 1 -> 0 .. MaxFrames]
  BY Sizes DEF RingTyped
<1> DEFINE At(i) == \E k \in 0 .. written - 1 : i = Pos(Wri + k)
           Of(i) == CHOOSE k \in 0 .. written - 1 : i = Pos(Wri + k)
<1>2. ASSUME NEW i \in 0 .. Real - 1, At(i) PROVE Of(i) \in 0 .. written - 1 /\ i = Pos(Wri + Of(i))
  BY <1>2
<1>3. Filled(written, silent) = [i \in 0 .. Real - 1 |->
         IF At(i) THEN IF silent THEN Silence ELSE released + 1 + Of(i) ELSE local[i]]
  BY <1>1 DEF Filled
<1>4. ASSUME NEW k \in 0 .. written - 1 PROVE Pos(Wri + k) \in 0 .. Real - 1 /\ At(Pos(Wri + k)) /\ Of(Pos(Wri + k)) = k
  <2>1. Wri + k \in Nat
    BY <1>1
  <2>2. Pos(Wri + k) \in 0 .. Real - 1 /\ At(Pos(Wri + k))
    BY <2>1, PosIs
  <2> DEFINE m == Of(Pos(Wri + k))
  <2>3. m \in 0 .. written - 1 /\ Pos(Wri + k) = Pos(Wri + m)
    BY <1>2, <2>2
  <2> HIDE DEF m
  <2>4. ~ (m < k)
    <3> SUFFICES ASSUME m < k PROVE FALSE
      OBVIOUS
    <3>1. m \in Nat /\ k \in Nat /\ k - m < Real /\ k < Real + Real
      BY <1>1, <2>3
    <3> QED BY <2>3, <3>1, PosInj
  <2>5. ~ (k < m)
    <3> SUFFICES ASSUME k < m PROVE FALSE
      OBVIOUS
    <3>1. m \in Nat /\ k \in Nat /\ m - k < Real /\ m < Real + Real
      BY <1>1, <2>3
    <3> QED BY <2>3, <3>1, PosInj
  <2>6. m = k
    BY <2>3, <2>4, <2>5
  <2> QED BY <2>2, <2>6 DEF m
<1> HIDE DEF At, Of
<1>5. ASSUME NEW i \in 0 .. Real - 1, At(i) PROVE released + 1 + Of(i) \in 0 .. MaxFrames
  BY <1>1, <1>2, <1>5
<1>6. Filled(written, silent) \in [0 .. Real - 1 -> 0 .. MaxFrames]
  BY <1>1, <1>3, <1>5 DEF Silence
<1>7. ASSUME NEW k \in 0 .. written - 1 PROVE Filled(written, silent)[Pos(Wri + k)] \in {Silence, released + 1 + k}
  BY <1>3, <1>4
<1>8. ASSUME NEW i \in 0 .. Real - 1, \A k \in 0 .. written - 1 : i # Pos(Wri + k)
      PROVE  Filled(written, silent)[i] = local[i]
  BY <1>3, <1>8 DEF At
<1> QED BY <1>6, <1>7, <1>8

\* The program releases what it wrote. If the ring is full of what the server has not taken, the
\* oldest frames are given up.
LEMMA ReleaseRenderStep ==
  ASSUME PInv, NEW written \in 1 .. BufSize, NEW silent \in BOOLEAN, NEW room \in Room,
         ReleaseRenderBuffer(written, silent, room)
  PROVE  PInv'
<1> DEFINE e == IF pa_held + written > Real THEN pa_held + written - Real ELSE 0
           n == pa_held + written - e
           o == Pos(pa_offs + e)
           last == released + written
<1>1. /\ Typed /\ RingTyped /\ RunTyped /\ RingOK /\ GivenOK /\ flow = "render" /\ locked # 0 /\ timer # "read"
      /\ written \in 1 .. Max({locked, - locked}) /\ last <= MaxFrames
      /\ local' = Filled(written, silent) /\ Write(room, local', Pos(pa_offs + Max({pa_held + written - Real, 0})),
                                                     pa_held + written - Max({pa_held + written - Real, 0}))
      /\ held' = held + written /\ clock' = clock + written /\ locked' = 0 /\ released' = last
      /\ UNCHANGED <<flow, good, run, lcl, period, capture>>
  BY DEF PInv, Typed, ReleaseRenderBuffer, Render, Lock
<1>2. /\ Real \in Nat /\ BufSize \in Nat /\ Real = BufSize + BufSize /\ MaxFrames \in Nat /\ room \in Nat
      /\ pa_offs \in 0 .. Real - 1 /\ pa_held \in 0 .. Real /\ lcl \in 0 .. Real - 1 /\ held \in 0 .. BufSize
      /\ released \in Nat /\ heard \in Nat /\ clock \in Nat /\ locked \in - BufSize .. BufSize
  <2>1. room \in Nat
    BY Sizes, PulseAssumption DEF Room
  <2>2. lcl \in 0 .. Real - 1 /\ pa_offs \in 0 .. Real - 1 /\ pa_held \in 0 .. Real /\ released \in Nat
        /\ heard \in Nat /\ clock \in Nat
    BY <1>1, Sizes DEF RingTyped
  <2>3. held \in 0 .. BufSize /\ locked \in - BufSize .. BufSize
    BY <1>1 DEF RingOK, GivenOK
  <2> QED BY <2>1, <2>2, <2>3, Sizes
<1>3. Max({pa_held + written - Real, 0}) = e
  <2> DEFINE a == pa_held + written - Real
  <2>1. a \in Int /\ 0 \in Int
    BY <1>2
  <2>2. Max({a, 0}) = IF a >= 0 THEN a ELSE 0
    <3> HIDE DEF a
    <3> QED BY <2>1, MinMax
  <2> QED BY <1>2, <2>1, <2>2
<1>4. held + written <= BufSize
  <2> DEFINE a == - locked
  <2>1. locked \in Int /\ a \in Int
    BY <1>2
  <2>2. Max({locked, a}) = IF locked >= a THEN locked ELSE a
    <3> HIDE DEF a
    <3> QED BY <2>1, MinMax
  <2>3. written <= locked \/ written <= - locked
    BY <1>1, <1>2, <2>1, <2>2
  <2>4. held + locked <= BufSize /\ held - locked <= BufSize
    BY <1>1 DEF GivenOK
  <2> QED BY <1>2, <2>3, <2>4
<1>5. e \in 0 .. BufSize /\ n \in 0 .. Real /\ e + n = pa_held + written /\ last \in Nat
  BY <1>2
<1>6. Wri \in 0 .. Real - 1 /\ Wri = Pos(pa_offs + pa_held) /\ o \in 0 .. Real - 1
  <2>1. lcl + held \in Nat /\ pa_offs + e \in Nat
    BY <1>2
  <2> QED BY <1>1, <2>1, PosIs DEF RingOK, Wri
<1>7. /\ local' \in [0 .. Real - 1 -> 0 .. MaxFrames]
      /\ \A k \in 0 .. written - 1 : local'[Pos(Wri + k)] \in {Silence, released + 1 + k}
      /\ \A i \in 0 .. Real - 1 : (\A k \in 0 .. written - 1 : i # Pos(Wri + k)) => local'[i] = local[i]
  <2>1. written \in 1 .. Real
    BY <1>2
  <2> HIDE DEF e, n, o
  <2> QED BY <1>1, <1>6, <2>1, FilledIs
<1>8. ASSUME NEW i \in 0 .. n - 1 PROVE local'[Pos(o + i)] \in {Silence, last - n + i + 1}
  <2> DEFINE j == e + i
  <2>1. Pos(o + i) = Pos(pa_offs + j) /\ j \in 0 .. pa_held + written - 1 /\ last - n + i + 1 = released - pa_held + j + 1
    <3>1. i \in 0 .. Real /\ e \in 0 .. Real /\ pa_offs \in 0 .. Real - 1
      BY <1>2, <1>5
    <3>2. Pos(o + i) = Pos(pa_offs + j)
      <4> HIDE DEF e
      <4> QED BY ONLY <3>1, PosSum
    <3> QED BY <1>2, <1>5, <3>2
  <2>2. CASE j < pa_held
    <3>1. local[Pos(pa_offs + j)] \in {Silence, released - pa_held + j + 1}
      BY <1>1, <1>2, <2>1, <2>2 DEF RingOK, Cells
    <3>2. ASSUME NEW k \in 0 .. written - 1 PROVE Pos(pa_offs + j) # Pos(Wri + k)
      <4>1. k \in 0 .. Real /\ pa_held + k \in Nat /\ j \in Nat
        BY <1>2, <2>1
      <4>2. Pos(Wri + k) = Pos(pa_offs + (pa_held + k))
        BY <1>2, <1>6, <4>1, PosSum
      <4> DEFINE c == pa_held + k
      <4>3. c \in Nat /\ j < c /\ c - j < Real /\ c < Real + Real
        BY <1>2, <1>5, <2>2, <4>1
      <4>4. Pos(pa_offs + j) # Pos(pa_offs + c)
        <5> HIDE DEF j, c
        <5> QED BY <1>2, <4>1, <4>3, PosInj
      <4> QED BY <4>2, <4>4
    <3>3. pa_offs + j \in Nat
      BY <1>2, <2>1
    <3>4. Pos(pa_offs + j) \in 0 .. Real - 1
      BY <3>3, PosIs
    <3> HIDE DEF j, o, n, last
    <3> QED BY <1>7, <2>1, <3>1, <3>2, <3>4
  <2>3. CASE j >= pa_held
    <3> DEFINE k == j - pa_held
    <3>1. k \in 0 .. written - 1 /\ k \in 0 .. Real /\ pa_held + k = j
      BY <1>2, <2>1, <2>3
    <3>2. Pos(Wri + k) = Pos(pa_offs + j)
      <4>1. Pos(Wri + k) = Pos(pa_offs + (pa_held + k))
        <5> HIDE DEF k
        <5> QED BY <1>2, <1>6, <3>1, PosSum
      <4> QED BY <3>1, <4>1
    <3>3. released + 1 + k = released - pa_held + j + 1
      BY <1>2, <2>1
    <3>4. local'[Pos(Wri + k)] \in {Silence, released + 1 + k}
      <4> HIDE DEF k
      <4> QED BY <1>7, <3>1
    <3> QED BY <2>1, <3>2, <3>3, <3>4
  <2> QED BY <1>2, <2>1, <2>2, <2>3
<1>9. Pos(lcl + held') = Pos(o + n)
  <2>1. held \in 0 .. Real /\ written \in 0 .. Real /\ e \in 0 .. Real /\ n \in 0 .. Real /\ pa_held + written = e + n
    BY <1>2, <1>5
  <2>2. Pos(lcl + (held + written)) = Pos(Wri + written)
    BY <1>2, <2>1, PosSum DEF Wri
  <2>3. Pos(Wri + written) = Pos(pa_offs + (pa_held + written))
    <3>1. Pos(Pos(pa_offs + pa_held) + written) = Pos(pa_offs + (pa_held + written))
      <4>1. pa_offs \in 0 .. Real - 1 /\ pa_held \in 0 .. Real
        BY <1>2
      <4> QED BY ONLY <2>1, <4>1, PosSum
    <3> QED BY <1>6, <3>1
  <2>4. Pos(o + n) = Pos(pa_offs + (e + n))
    <3>1. pa_offs \in 0 .. Real - 1
      BY <1>2
    <3> HIDE DEF e, n
    <3> QED BY ONLY <2>1, <3>1, PosSum
  <2> QED BY <1>1, <2>1, <2>2, <2>3, <2>4
<1>10. heard <= last - n /\ Cells(local', o, n, last)
  BY <1>1, <1>2, <1>5, <1>8 DEF RingOK, Cells
<1>11. Write(room, local', o, n)
  BY <1>1, <1>3
<1> HIDE DEF e, n, o
<1>12. /\ pa_offs' \in 0 .. Real - 1 /\ pa_held' \in 0 .. Real /\ heard' \in Nat
       /\ heard' <= last - pa_held' /\ Cells(local', pa_offs', pa_held', last)
       /\ Pos(pa_offs' + pa_held') = Pos(o + n)
  <2>1. /\ room \in Nat /\ local' \in [0 .. Real - 1 -> 0 .. MaxFrames] /\ o \in 0 .. Real - 1
        /\ n \in 0 .. Real /\ last \in Nat /\ heard \in Nat
    BY <1>2, <1>5, <1>6, <1>7
  <2> HIDE DEF last
  <2> QED BY ONLY <2>1, <1>10, <1>11, Written
<1>13. held' \in 0 .. BufSize /\ clock' \in Nat /\ released' \in 0 .. MaxFrames
  BY <1>1, <1>2, <1>4, <1>5
<1>14. RingOK'
  <2>1. Pos(lcl + held') = Pos(pa_offs' + pa_held') /\ lcl' = lcl /\ released' = last
    BY <1>1, <1>9, <1>12
  <2> HIDE DEF last
  <2> QED BY <1>12, <1>13, <2>1 DEF RingOK, Cells
<1>15. GivenOK'
  BY <1>1, <1>13, NoneGiven
<1>16. RunTyped' /\ timer' # "read"
  BY <1>1 DEF RunTyped, run
<1>17. RingTyped'
  BY <1>1, <1>2, <1>7, <1>12, <1>13 DEF RingTyped
<1> QED BY <1>1, <1>14, <1>15, <1>16, <1>17, RenderOnly

\* The program gives the room back.
LEMMA ReleaseNothingStep ==
  ASSUME PInv, ReleaseNothing
  PROVE  PInv'
<1>1. /\ Typed /\ RingOK /\ GivenOK /\ flow = "render" /\ timer # "read" /\ locked' = 0
      /\ UNCHANGED <<flow, good, run, held, clock, local, lcl, pa_offs, pa_held, released, heard, period, capture>>
  BY DEF PInv, ReleaseNothing, Render, Lock, render, ring
<1>2. RunTyped' /\ RingTyped' /\ timer' # "read"
  BY <1>1 DEF Typed, RunTyped, RingTyped, run
<1>3. RingOK'
  BY <1>1 DEF RingOK, Cells
<1>4. GivenOK'
  <2>1. held' \in 0 .. BufSize
    BY <1>3 DEF RingOK
  <2> QED BY <1>1, <2>1, NoneGiven
<1> QED BY <1>1, <1>2, <1>3, <1>4, RenderOnly

\* The stream is emptied, of what the program has in it and of what the server has still to get.
LEMMA EmptyStep ==
  ASSUME PInv, flow = "render", Empty, locked = 0, UNCHANGED <<flow, locked, capture>>, RunTyped',
         timer' # "read", period' \in Periods, local' \in [0 .. Real - 1 -> 0 .. MaxFrames]
  PROVE  PInv'
<1>1. /\ held' = 0 /\ clock' = 0 /\ lcl' = 0 /\ pa_offs' = 0 /\ pa_held' = 0 /\ released' = 0 /\ heard' = 0
      /\ locked' = 0
  BY DEF Empty
<1>2. RingTyped'
  BY <1>1, Sizes DEF RingTyped
<1>3. RingOK'
  BY <1>1, Sizes DEF RingOK, Cells
<1>4. GivenOK'
  BY <1>1, Sizes, NoneGiven
<1> QED BY <1>2, <1>3, <1>4, RenderOnly

\* The ring is emptied by a reset, a flush or a new rate, while nothing is given to the program.
LEMMA EmptySteps ==
  ASSUME PInv,
         \/ Reset /\ held = 0
         \/ \E success \in BOOLEAN : Flushed(success)
         \/ \E success \in BOOLEAN, frames \in Periods : RateSet(success, frames)
         \/ \E frames \in Periods : RateFlushed(frames)
  PROVE  PInv'
<1>1. RunTyped /\ RingTyped
  BY DEF PInv, Typed
<1>2. CASE Reset /\ held = 0
  <2>1. /\ flow = "render" /\ Empty /\ locked = 0 /\ UNCHANGED <<flow, locked, capture>> /\ RunTyped'
        /\ timer' # "read" /\ period' = period /\ local' = local
    BY <1>1, <1>2 DEF Reset, Render, Lock, RunTyped, run
  <2> QED BY <1>1, <2>1, EmptyStep DEF RingTyped
<1>3. ASSUME NEW success \in BOOLEAN, Flushed(success) PROVE PInv'
  <2>1. /\ flow = "render" /\ control = "flush" /\ control' = "idle" /\ UNCHANGED <<flow, locked, capture>> /\ RunTyped'
        /\ timer' = timer /\ timer # "read" /\ period' = period /\ local' = local
    BY <1>1, <1>3 DEF Flushed, Render, Lock, RunTyped
  <2>2. locked = 0
    BY <2>1 DEF PInv, GivenOK
  <2>3. CASE Empty
    BY <1>1, <2>1, <2>2, <2>3, EmptyStep DEF RingTyped
  <2>4. CASE UNCHANGED <<held, clock, lcl, pa_offs, pa_held, released, heard>>
    <3>1. UNCHANGED <<flow, buffer, render, capture>>
      BY <2>1, <2>4 DEF buffer, render, ring
    <3> QED BY <2>1, <3>1, Controls
  <2> QED BY <1>3, <2>3, <2>4 DEF Flushed
<1>4. ASSUME NEW frames \in Periods, Emptied(frames), flow = "render", timer # "read", locked = 0 PROVE PInv'
  <2>1. /\ Empty /\ UNCHANGED <<flow, locked, capture>> /\ RunTyped' /\ timer' = timer /\ period' = frames
        /\ local' = [i \in DOMAIN local |-> Silence]
    BY <1>1, <1>4 DEF Emptied, RunTyped
  <2>2. local' \in [0 .. Real - 1 -> 0 .. MaxFrames]
    BY <1>1, <2>1, Sizes DEF RingTyped, Silence
  <2> QED BY <1>4, <2>1, <2>2, EmptyStep
<1>5. ASSUME NEW success \in BOOLEAN, NEW frames \in Periods, RateSet(success, frames) PROVE PInv'
  <2>1. flow = "render" /\ timer # "read" /\ control = "rate" /\ locked = 0
    BY <1>5 DEF RateSet, Render, Lock, PInv, GivenOK
  <2>2. ASSUME NEW to \in {"idle", "rateFlush"}, Goes(to) PROVE PInv'
    <3>1. UNCHANGED <<flow, buffer, render, capture>> /\ timer' = timer /\ RunTyped'
      BY <1>1, <2>2 DEF Goes, RunTyped
    <3> QED BY <2>1, <3>1, Controls
  <2>3. Goes("idle") \/ Goes("rateFlush") \/ Emptied(frames)
    <3>1. held > 0 \/ held = 0
      BY <2>1 DEF PInv, RingOK
    <3> QED BY <1>5, <3>1 DEF RateSet
  <2> QED BY <1>4, <2>1, <2>2, <2>3
<1>6. ASSUME NEW frames \in Periods, RateFlushed(frames) PROVE PInv'
  <2>1. flow = "render" /\ timer # "read" /\ control = "rateFlush" /\ Emptied(frames)
    BY <1>6 DEF RateFlushed, Render, Lock
  <2>2. locked = 0
    BY <2>1 DEF PInv, GivenOK
  <2> QED BY <1>4, <2>1, <2>2
<1> QED BY <1>2, <1>3, <1>5, <1>6

\* The program's part of the ring may advance: what it writes next has the same place.
MayAdvance == lcl' \in 0 .. Real - 1 /\ held' \in 0 .. held /\ Wri' = Wri

\* The server gets what it has room for, and the program's part of the ring may advance.
LEMMA WriteStep ==
  ASSUME PInv, flow = "render", NEW room \in Room, Write(room, local, pa_offs, pa_held), MayAdvance,
         RunTyped', timer' # "read", control' \in {"flush", "rate", "rateFlush"} => control' = control,
         UNCHANGED <<flow, locked, clock, local, released, period, capture>>
  PROVE  PInv'
<1>1. Typed /\ RingTyped /\ RingOK /\ GivenOK /\ room \in Nat /\ BufSize \in Nat
  BY Sizes, PulseAssumption DEF PInv, Typed, Room
<1>2. /\ local \in [0 .. Real - 1 -> 0 .. MaxFrames] /\ pa_offs \in 0 .. Real - 1 /\ pa_held \in 0 .. Real
      /\ released \in Nat /\ heard \in Nat /\ heard <= released - pa_held
      /\ Cells(local, pa_offs, pa_held, released) /\ held \in 0 .. BufSize
  BY <1>1, Sizes DEF RingTyped, RingOK
<1>3. /\ pa_offs' \in 0 .. Real - 1 /\ pa_held' \in 0 .. Real /\ heard' \in Nat /\ heard' <= released - pa_held'
      /\ Cells(local, pa_offs', pa_held', released) /\ Pos(pa_offs' + pa_held') = Pos(pa_offs + pa_held)
  BY <1>1, <1>2, Written
<1>4. RingTyped'
  BY <1>1, <1>3, Zenon DEF RingTyped, MayAdvance
<1>5. \A h \in 0 .. held : h \in 0 .. BufSize
  BY <1>1, <1>2
<1>6. RingOK'
  <2>1. Pos(lcl' + held') = Pos(pa_offs' + pa_held') /\ held' \in 0 .. BufSize
    BY <1>1, <1>3, <1>5, Zenon DEF RingOK, Wri, MayAdvance
  <2> QED BY <1>3, <2>1, Zenon DEF RingOK, Cells
<1>7. GivenOK'
  <2>1. /\ locked \in - BufSize .. BufSize /\ held + locked <= BufSize /\ held - locked <= BufSize
        /\ locked > 0 => Wri + locked <= Real /\ \A i \in Wri .. Wri + locked - 1 : local[i] = Silence
        /\ control \in {"flush", "rate", "rateFlush"} => locked = 0
    BY <1>1, Zenon DEF GivenOK
  <2>2. \A h \in 0 .. held : h + locked <= BufSize /\ h - locked <= BufSize
    BY <1>1, <1>2, <2>1
  <2> QED BY <2>1, <2>2, Zenon DEF GivenOK, MayAdvance
<1> QED BY <1>4, <1>6, <1>7, RenderOnly

\* Starting a stream writes what it has to the server, of either flow.
LEMMA StartStep ==
  ASSUME PInv, NEW room \in Room, Start(room)
  PROVE  PInv'
<1>1. /\ timer # "read" /\ Write(room, local, pa_offs, pa_held) /\ control = "idle"
      /\ control' \in {"uncork", "thread"} /\ started' \in BOOLEAN
      /\ UNCHANGED <<flow, good, corked, quit, timer, buffer, local, lcl, released, period, capture>>
  BY DEF Start, Lock, PInv, Typed, RunTyped
<1>2. RunTyped'
  BY <1>1 DEF PInv, Typed, RunTyped
<1>3. CASE flow = "render"
  <2>1. held \in 0 .. BufSize /\ BufSize \in Nat /\ lcl \in 0 .. Real - 1
    BY <1>3, Sizes DEF PInv, RingOK, Typed, RingTyped
  <2>2. held \in 0 .. held
    BY <2>1
  <2>3. MayAdvance
    BY <1>1, <2>1, <2>2, Zenon DEF MayAdvance, Wri, buffer
  <2> QED BY <1>1, <1>2, <1>3, <2>3, WriteStep DEF buffer
<1>4. CASE flow = "capture"
  <2>1. /\ local \in [0 .. Real - 1 -> 0 .. MaxFrames] /\ pa_offs \in 0 .. Real - 1 /\ pa_held \in 0 .. Real
        /\ heard \in Nat /\ room \in Nat
    BY Sizes, PulseAssumption DEF PInv, Typed, RingTyped, Room
  <2>2. pa_offs' \in 0 .. Real - 1 /\ pa_held' \in 0 .. Real /\ heard' \in Nat
    <3>1. 0 \in Nat
      OBVIOUS
    <3> QED BY <1>1, <2>1, <3>1, Written
  <2> QED BY <1>1, <1>2, <1>4, <2>2, CaptureOnly DEF buffer
<1> QED BY <1>3, <1>4, PulseAssumption DEF PInv, Typed, RunTyped

\* The timer thread writes what the server has room for, and advances by a period.
LEMMA TimerWritesStep ==
  ASSUME PInv, NEW room \in Room, TimerWrites(room)
  PROVE  PInv'
<1>1. /\ timer' = "check" /\ flow = "render" /\ Write(room, local, pa_offs, pa_held) /\ Advances
      /\ UNCHANGED <<flow, good, corked, started, quit, control, locked, clock, local, released, period, capture>>
  BY DEF TimerWrites, Render
<1>2. RunTyped'
  BY <1>1 DEF PInv, Typed, RunTyped
<1>3. held \in 0 .. BufSize /\ BufSize \in Nat /\ lcl \in 0 .. Real - 1 /\ Real = BufSize + BufSize
  BY <1>1, Sizes DEF PInv, RingOK, Typed, RingTyped
<1>4. PICK adv \in 0 .. held : lcl' = Pos(lcl + adv) /\ held' = held - adv
  <2>1. period \in Nat
    BY <1>3, PulseAssumption DEF PInv, Typed, RingTyped
  <2>2. Min({period, held}) \in 0 .. held
    BY <1>3, <2>1, MinMax
  <2> QED BY <1>1, <2>2 DEF Advances
<1>5. /\ Pos(lcl + adv) \in 0 .. Real - 1 /\ held - adv \in 0 .. held
      /\ Pos(Pos(lcl + adv) + (held - adv)) = Pos(lcl + held)
  <2>1. adv \in 0 .. Real /\ held - adv \in 0 .. Real /\ adv + (held - adv) = held /\ held - adv \in 0 .. held
    BY <1>3
  <2>2. Pos(lcl + adv) \in 0 .. Real - 1 /\ Pos(Pos(lcl + adv) + (held - adv)) = Pos(lcl + (adv + (held - adv)))
    BY <1>3, <2>1, PosSum
  <2> QED BY <2>1, <2>2
<1>6. MayAdvance
  BY <1>4, <1>5, Zenon DEF MayAdvance, Wri
<1> QED BY <1>1, <1>2, <1>6, WriteStep

-----------------------------------------------------------------------------
(* The lists of a stream that captures.                                    *)

\* The list of the packets that are not free, one at a time.
LEMMA ListIs ==
  ASSUME NEW p \in Packets \cup {NoPacket}, NEW s \in Seq(Packets)
  PROVE  /\ ListOf(p, s) \in Seq(Packets)
         /\ p = NoPacket => ListOf(p, s) = s
         /\ p # NoPacket => /\ Len(ListOf(p, s)) = Len(s) + 1 /\ ListOf(p, s)[1] = p
                            /\ \A k \in 1 .. Len(s) : ListOf(p, s)[k + 1] = s[k]
<1>1. CASE p = NoPacket
  BY <1>1 DEF ListOf
<1>2. CASE p # NoPacket
  <2>1. p \in Packets /\ ListOf(p, s) = <<p>> \o s
    BY <1>2 DEF ListOf
  <2> QED BY <1>2, <2>1
<1> QED BY <1>1, <1>2

\* Taking the first packet out of the list of those that are filled leaves the list of all that
\* are not free as it is.
LEMMA ListOfHead ==
  ASSUME NEW s \in Seq(Packets), s # <<>>
  PROVE  /\ Head(s) \in Packets /\ Head(s) # NoPacket /\ Tail(s) \in Seq(Packets)
         /\ ListOf(Head(s), Tail(s)) = ListOf(NoPacket, s)
<1>1. Head(s) \in Packets /\ Tail(s) \in Seq(Packets) /\ Len(s) \in Nat /\ Len(s) > 0
  OBVIOUS
<1>2. Head(s) # NoPacket
  BY <1>1, PulseAssumption DEF NoPacket
<1>3. <<Head(s)>> \o Tail(s) = s
  BY <1>1
<1> QED BY <1>1, <1>2, <1>3 DEF ListOf

\* A list whose last element is put back at its end, and one whose first element is.
LEMMA Rotated ==
  ASSUME NEW s \in Seq(Packets), Len(s) >= 1
  PROVE  /\ Append(SubSeq(s, 1, Len(s) - 1), s[Len(s)]) = s
         /\ Append(Tail(s), s[1]) \in Seq(Packets) /\ Len(Append(Tail(s), s[1])) = Len(s)
         /\ Append(Tail(s), s[1])[Len(s)] = s[1]
         /\ \A k \in 1 .. Len(s) - 1 : Append(Tail(s), s[1])[k] = s[k + 1]
<1>1. Len(s) \in Nat /\ 1 \in 1 .. Len(s) /\ Len(s) \in 1 .. Len(s) /\ s # <<>>
  OBVIOUS
<1>2. Append(SubSeq(s, 1, Len(s) - 1), s[Len(s)]) = s
  <2> DEFINE f == SubSeq(s, 1, Len(s) - 1)
             t == Append(f, s[Len(s)])
  <2>1. f \in Seq(Packets) /\ Len(f) = Len(s) - 1 /\ \A k \in 1 .. Len(s) - 1 : f[k] = s[k]
    <3> DEFINE b == Len(s) - 1
    <3>1. b \in Nat /\ \A k \in 1 .. b : s[k] \in Packets
      BY <1>1
    <3> HIDE DEF b
    <3>2. /\ SubSeq(s, 1, b) \in Seq(Packets) /\ Len(SubSeq(s, 1, b)) = IF 1 <= b THEN b - 1 + 1 ELSE 0
          /\ \A k \in 1 .. b - 1 + 1 : SubSeq(s, 1, b)[k] = s[1 + k - 1]
      BY <3>1, SubSeqProperties
    <3>3. b - 1 + 1 = b /\ (~ (1 <= b) => b = 0) /\ \A k \in 1 .. b : 1 + k - 1 = k
      BY <3>1
    <3> QED BY <3>2, <3>3 DEF b
  <2>2. s[Len(s)] \in Packets
    BY <1>1, ElementOfSeq
  <2> HIDE DEF f
  <2>3. t \in Seq(Packets) /\ Len(t) = Len(s) /\ t[Len(s)] = s[Len(s)] /\ \A k \in 1 .. Len(s) - 1 : t[k] = f[k]
    BY <1>1, <2>1, <2>2
  <2> HIDE DEF t
  <2>4. \A k \in 1 .. Len(s) : k = Len(s) \/ k \in 1 .. Len(s) - 1
    BY <1>1
  <2>5. \A k \in 1 .. Len(s) : t[k] = s[k]
    BY <2>1, <2>3, <2>4
  <2>6. t = s
    BY <2>3, <2>5, SeqEqual
  <2> QED BY <2>6 DEF t, f
<1>3. Tail(s) \in Seq(Packets) /\ Len(Tail(s)) = Len(s) - 1 /\ \A k \in 1 .. Len(s) - 1 : Tail(s)[k] = s[k + 1]
  BY <1>1
<1>4. s[1] \in Packets
  BY <1>1, ElementOfSeq
<1> QED BY <1>1, <1>2, <1>3, <1>4

\* The packets that are not free, and what is in them.
LEMMA UsedTyped ==
  ASSUME PacketsTyped
  PROVE  Used \in Seq(Packets) /\ Len(Used) \in Nat /\ Recs \in [1 .. Len(Used) -> Rec]
<1>1. Used \in Seq(Packets)
  BY ListIs DEF PacketsTyped, Used
<1> QED BY <1>1 DEF PacketsTyped, Recs, Rec

\* A mark counts for one or for nothing.
LEMMA GapIs == \A r \in Rec : Gap(r) \in {0, 1} /\ r.data \in Int
  BY Sizes DEF Gap, Rec

\* The oldest packet is given back: the clock goes on to the period after it.
LEMMA OrderTail ==
  ASSUME NEW n \in Nat, n # 0, NEW rs \in [1 .. n -> Rec], NEW clk \in Nat, NEW rd \in Seq(0 .. MaxRecorded),
         NEW last \in Nat, InOrder(rs, n, clk), Behind(rs, n, clk, rd, last),
         NEW r2 \in [1 .. n - 1 -> Rec], \A k \in 1 .. n - 1 : r2[k] = rs[k + 1]
  PROVE  /\ clk + Gap(rs[1]) + 1 \in Nat
         /\ InOrder(r2, n - 1, clk + Gap(rs[1]) + 1) /\ Behind(r2, n - 1, clk + Gap(rs[1]) + 1, rd, last)
<1> DEFINE d(k) == rs[k].data
           g(k) == Gap(rs[k])
           z == clk + Gap(rs[1]) + 1
<1>1. \A k \in 1 .. n : d(k) \in Int /\ g(k) \in {0, 1}
  BY GapIs
<1>2. /\ \A j, k \in 1 .. n : j < k => d(j) + (k - j) + g(k) <= d(k)
      /\ clk + g(1) <= d(1)
  BY DEF InOrder
<1>3. /\ \A j, k \in 1 .. Len(rd) : j < k => rd[j] < rd[k]
      /\ \A k \in 1 .. Len(rd) : rd[k] < last /\ rd[k] \in Int
      /\ \A k \in 1 .. n : d(k) < last /\ \A j \in 1 .. Len(rd) : d(k) < rd[j]
  BY Sizes DEF Behind
<1>4. \A k \in 1 .. n - 1 : r2[k].data = d(k + 1) /\ Gap(r2[k]) = g(k + 1) /\ k + 1 \in 1 .. n
  OBVIOUS
<1>5. z = clk + g(1) + 1 /\ 1 \in 1 .. n
  OBVIOUS
<1> HIDE DEF d, g, z
<1>6. z \in Nat /\ z <= d(1) + 1
  <2>1. d(1) \in Int /\ g(1) \in {0, 1}
    BY <1>1, <1>5
  <2>2. clk + g(1) <= d(1) /\ z = clk + g(1) + 1
    BY <1>2, <1>5
  <2> QED BY <2>1, <2>2
<1>7. InOrder(r2, n - 1, z)
  <2>1. ASSUME NEW j \in 1 .. n - 1, NEW k \in 1 .. n - 1, j < k
        PROVE  r2[j].data + (k - j) + Gap(r2[k]) <= r2[k].data
    <3>1. d(j + 1) + (k - j) + g(k + 1) <= d(k + 1)
      <4>1. j + 1 \in 1 .. n /\ k + 1 \in 1 .. n /\ j + 1 < k + 1 /\ (k + 1) - (j + 1) = k - j
        BY <2>1
      <4> QED BY <1>2, <4>1
    <3> QED BY <1>4, <3>1
  <2>2. ASSUME n - 1 # 0 PROVE z + Gap(r2[1]) <= r2[1].data
    <3>1. 1 \in 1 .. n - 1 /\ 2 \in 1 .. n /\ 1 + 1 = 2
      BY <2>2
    <3>2. d(1) + (2 - 1) + g(2) <= d(2)
      BY <1>2, <1>5, <3>1
    <3>3. z + g(2) <= d(2)
      <4>1. d(1) \in Int /\ d(2) \in Int /\ g(2) \in {0, 1}
        BY <1>1, <1>5, <3>1
      <4> QED BY <1>6, <3>2, <4>1
    <3> QED BY <1>4, <3>1, <3>3
  <2> QED BY <2>1, <2>2 DEF InOrder
<1>8. Behind(r2, n - 1, z, rd, last)
  <2>1. ASSUME NEW k \in 1 .. n - 1
        PROVE  r2[k].data < last /\ \A j \in 1 .. Len(rd) : r2[k].data < rd[j]
    BY <1>3, <1>4
  <2>2. z <= last /\ \A j \in 1 .. Len(rd) : z <= rd[j]
    BY <1>1, <1>3, <1>5, <1>6
  <2> QED BY <1>3, <2>1, <2>2 DEF Behind
<1> QED BY <1>6, <1>7, <1>8 DEF z

\* All packets are given up: the clock goes on by as many periods.
LEMMA OrderEmpty ==
  ASSUME NEW n \in Nat, NEW rs \in [1 .. n -> Rec], NEW clk \in Nat, NEW rd \in Seq(0 .. MaxRecorded),
         NEW last \in Nat, InOrder(rs, n, clk), Behind(rs, n, clk, rd, last), NEW r2
  PROVE  InOrder(r2, 0, clk + n) /\ Behind(r2, 0, clk + n, rd, last)
<1>1. clk + n <= last /\ \A j \in 1 .. Len(rd) : clk + n <= rd[j]
  <2>1. CASE n = 0
    BY <2>1 DEF Behind
  <2>2. CASE n # 0
    <3> DEFINE d(k) == rs[k].data
               g(k) == Gap(rs[k])
    <3>1. d(1) \in Int /\ d(n) \in Int /\ g(1) \in {0, 1} /\ g(n) \in {0, 1} /\ 1 \in 1 .. n /\ n \in 1 .. n
      BY <2>2, GapIs
    <3>2. clk + g(1) <= d(1) /\ (1 < n => d(1) + (n - 1) + g(n) <= d(n))
      BY <2>2, <3>1 DEF InOrder
    <3>3. d(n) < last /\ \A j \in 1 .. Len(rd) : d(n) < rd[j] /\ rd[j] \in Int
      BY <3>1, Sizes DEF Behind
    <3> HIDE DEF d, g
    <3>4. clk + n <= d(n) + 1
      <4>1. CASE n = 1
        BY <3>1, <3>2, <4>1
      <4>2. CASE n > 1
        BY <3>1, <3>2, <4>2
      <4> QED BY <2>2, <4>1, <4>2
    <3> QED BY <3>1, <3>3, <3>4
  <2> QED BY <2>1, <2>2
<1> QED BY <1>1 DEF InOrder, Behind

\* A period is taken: the packet for it, of those that are free or the one at c, is the last now,
\* and what comes after the one at c is marked.
LEMMA OrderTaken ==
  ASSUME NEW n \in Nat, NEW rs \in [1 .. n -> Rec], NEW clk \in Nat, NEW rd \in Seq(0 .. MaxRecorded),
         rd # <<>>, NEW last \in Nat, InOrder(rs, n, clk), Behind(rs, n, clk, rd, last),
         NEW m \in 0 .. n, NEW c \in 1 .. m + 1, c <= m => m < n,
         NEW r2 \in [1 .. m + 1 -> Rec], r2[m + 1].data = rd[1], Gap(r2[m + 1]) = 0,
         \A k \in 1 .. m : k < c => r2[k].data = rs[k].data /\ Gap(r2[k]) = Gap(rs[k]),
         \A k \in 1 .. m : k >= c => r2[k].data = rs[k + 1].data,
         \A k \in 1 .. m : k > c => Gap(r2[k]) = Gap(rs[k + 1]),
         c <= m => Gap(r2[c]) = 1
  PROVE  InOrder(r2, m + 1, clk) /\ Behind(r2, m + 1, clk, Tail(rd), last)
<1> DEFINE d(k) == rs[k].data
           g(k) == Gap(rs[k])
           E(k) == IF k < c THEN k ELSE k + 1
           q == m + 1
<1>1. \A k \in 1 .. n : d(k) \in Int /\ g(k) \in {0, 1}
  BY GapIs
<1>2. /\ \A j, k \in 1 .. n : j < k => d(j) + (k - j) + g(k) <= d(k)
      /\ n # 0 => clk + g(1) <= d(1)
  BY DEF InOrder
<1>3. /\ rd[1] \in Int /\ Len(rd) \in Nat /\ 1 \in 1 .. Len(rd)
      /\ \A j, k \in 1 .. Len(rd) : j < k => rd[j] < rd[k]
      /\ \A k \in 1 .. Len(rd) : rd[k] < last /\ rd[k] \in Int
      /\ \A k \in 1 .. n : d(k) < last /\ \A j \in 1 .. Len(rd) : d(k) < rd[j]
      /\ n = 0 => clk <= rd[1]
  BY Sizes DEF Behind
<1>4. \A k \in 1 .. m : /\ E(k) \in 1 .. n /\ r2[k].data = d(E(k))
                        /\ Gap(r2[k]) = IF k = c THEN 1 ELSE g(E(k))
  OBVIOUS
<1>5. q \in Nat /\ q = m + 1 /\ r2[q].data = rd[1] /\ Gap(r2[q]) = 0
  OBVIOUS
<1> HIDE DEF d, g, q
<1>6. ASSUME NEW j \in 1 .. m, NEW k \in 1 .. m, j < k
      PROVE  d(E(j)) + (k - j) + (IF k = c THEN 1 ELSE g(E(k))) <= d(E(k))
  <2>1. E(j) \in 1 .. n /\ E(k) \in 1 .. n /\ E(j) < E(k) /\ E(k) - E(j) >= k - j
        /\ (k = c => E(k) - E(j) >= k - j + 1)
    BY <1>4, <1>6
  <2>2. d(E(j)) \in Int /\ d(E(k)) \in Int /\ g(E(k)) \in {0, 1}
        /\ d(E(j)) + (E(k) - E(j)) + g(E(k)) <= d(E(k))
    <3> HIDE DEF E
    <3> QED BY <1>1, <1>2, <2>1
  <2> HIDE DEF E
  <2> QED BY <2>1, <2>2
<1>7. ASSUME NEW j \in 1 .. m PROVE d(E(j)) + (q - j) <= rd[1]
  <2>1. E(j) \in 1 .. n /\ E(m) \in 1 .. n /\ m \in 1 .. m
    BY <1>4
  <2>2. d(E(j)) \in Int /\ d(E(m)) \in Int /\ d(E(m)) < rd[1]
    BY <1>1, <1>3, <2>1
  <2>3. d(E(j)) + (m - j) <= d(E(m))
    <3>1. CASE j = m
      BY <2>2, <3>1
    <3>2. CASE j < m
      <4>1. d(E(j)) + (m - j) + (IF m = c THEN 1 ELSE g(E(m))) <= d(E(m))
        <5> HIDE DEF E
        <5> QED BY ONLY <1>6, <2>1, <3>2, j \in 1 .. m
      <4>2. (IF m = c THEN 1 ELSE g(E(m))) \in {0, 1}
        BY <1>1, <2>1
      <4> HIDE DEF E
      <4> QED BY <2>2, <4>1, <4>2
    <3> QED BY <3>1, <3>2
  <2> HIDE DEF E
  <2> QED BY <1>3, <1>5, <2>2, <2>3
<1>8. ASSUME m # 0 PROVE clk + (IF 1 = c THEN 1 ELSE g(E(1))) <= d(E(1))
  <2>1. CASE c = 1
    <3>1. E(1) = 2 /\ 1 \in 1 .. n /\ 2 \in 1 .. n
      BY <1>8, <2>1
    <3>2. d(1) + (2 - 1) + g(2) <= d(2) /\ clk + g(1) <= d(1)
      BY <1>2, <3>1
    <3>3. d(1) \in Int /\ d(2) \in Int /\ g(1) \in {0, 1} /\ g(2) \in {0, 1}
      BY <1>1, <3>1
    <3>4. clk + 1 <= d(2)
      BY ONLY <3>2, <3>3, clk \in Nat
    <3> HIDE DEF E
    <3> QED BY <2>1, <3>1, <3>4
  <2>2. CASE c # 1
    <3>1. E(1) = 1 /\ 1 \in 1 .. n
      BY <1>8, <2>2
    <3> QED BY <1>2, <2>2, <3>1
  <2> QED BY <2>1, <2>2
<1> HIDE DEF E
<1>9. InOrder(r2, q, clk)
  <2>1. ASSUME NEW j \in 1 .. q, NEW k \in 1 .. q, j < k
        PROVE  r2[j].data + (k - j) + Gap(r2[k]) <= r2[k].data
    <3>1. CASE k \in 1 .. m
      <4>1. j \in 1 .. m
        BY <1>5, <2>1, <3>1
      <4> QED BY <1>4, <1>6, <2>1, <3>1, <4>1
    <3>2. CASE k = q
      <4>1. j \in 1 .. m
        BY <1>5, <2>1, <3>2
      <4>2. d(E(j)) + (q - j) <= rd[1] /\ d(E(j)) \in Int
        BY <1>1, <1>4, <1>7, <4>1
      <4> QED BY <1>4, <1>5, <3>2, <4>1, <4>2
    <3> QED BY <1>5, <3>1, <3>2
  <2>2. clk + Gap(r2[1]) <= r2[1].data
    <3>1. CASE m # 0
      <4>1. 1 \in 1 .. m
        BY <3>1
      <4> QED BY <1>4, <1>8, <3>1, <4>1
    <3>2. CASE m = 0
      <4>1. q = 1 /\ clk <= rd[1]
        <5>1. CASE n = 0
          BY <1>3, <1>5, <3>2, <5>1
        <5>2. CASE n # 0
          <6>1. 1 \in 1 .. n
            BY <5>2
          <6> QED BY <1>1, <1>2, <1>3, <1>5, <3>2, <5>2, <6>1
        <5> QED BY <5>1, <5>2
      <4> QED BY <1>5, <4>1
    <3> QED BY <3>1, <3>2
  <2> QED BY <2>1, <2>2 DEF InOrder
<1>10. Behind(r2, q, clk, Tail(rd), last)
  <2>1. Len(Tail(rd)) = Len(rd) - 1 /\ \A j \in 1 .. Len(Tail(rd)) : Tail(rd)[j] = rd[j + 1] /\ j + 1 \in 1 .. Len(rd)
    BY <1>3
  <2>2. ASSUME NEW j \in 1 .. Len(Tail(rd)), NEW k \in 1 .. Len(Tail(rd)), j < k PROVE Tail(rd)[j] < Tail(rd)[k]
    <3>1. j + 1 < k + 1
      BY <1>3, <2>1, <2>2
    <3> QED BY <1>3, <2>1, <3>1
  <2>3. \A k \in 1 .. Len(Tail(rd)) : Tail(rd)[k] < last
    BY <1>3, <2>1
  <2>4. ASSUME NEW k \in 1 .. q
        PROVE  r2[k].data < last /\ \A j \in 1 .. Len(Tail(rd)) : r2[k].data < Tail(rd)[j]
    <3>1. CASE k \in 1 .. m
      BY <1>3, <1>4, <2>1, <3>1
    <3>2. CASE k = q
      <4>1. \A j \in 1 .. Len(Tail(rd)) : 1 < j + 1
        OBVIOUS
      <4> QED BY <1>3, <1>5, <2>1, <3>2, <4>1
    <3> QED BY <1>5, <3>1, <3>2
  <2>5. q # 0
    BY <1>5
  <2> QED BY <2>2, <2>3, <2>4, <2>5 DEF Behind
<1> QED BY <1>9, <1>10 DEF q

-----------------------------------------------------------------------------
(* The steps of a stream that captures.                                    *)

\* What a stream that captures does leaves the ring as it was, but for the clock.
LEMMA CaptureStep ==
  ASSUME PInv, flow = "capture", flow' = flow, UNCHANGED render, clock' \in Nat, RunTyped', PacketsTyped',
         ReadOK', ListsOK', OrderOK', SourceOK'
  PROVE  PInv'
<1>1. RingTyped'
  BY DEF PInv, Typed, RingTyped, render, ring
<1> QED BY <1>1 DEF PInv, Typed

\* The oldest packet is set apart, and the program may be given it.
LEMMA PaddingStep ==
  ASSUME PInv, CapturePadding \/ GetCaptureBuffer
  PROVE  PInv'
<1>1. /\ Typed /\ RunTyped /\ PacketsTyped /\ flow = "capture" /\ timer # "read" /\ ListsOK /\ OrderOK /\ SourceOK
      /\ locked_ptr \in Packets \cup {NoPacket} /\ filled \in Seq(Packets)
      /\ UNCHANGED <<flow, good, run, held, clock, render, packet, free, left, source>>
  BY DEF PInv, Typed, CapturePadding, GetCaptureBuffer, Capture, Lock, buffer, PacketsTyped
<1>2. /\ locked_ptr' \in Packets /\ locked_ptr' # NoPacket /\ filled' \in Seq(Packets)
      /\ ListOf(locked_ptr', filled') = ListOf(locked_ptr, filled)
  <2>1. CASE locked_ptr = NoPacket
    <3>1. filled # <<>> /\ locked_ptr' = Head(filled) /\ filled' = Tail(filled)
      BY <2>1 DEF CapturePadding, GetCaptureBuffer
    <3> QED BY <1>1, <2>1, <3>1, ListOfHead
  <2>2. CASE locked_ptr # NoPacket
    BY <1>1, <2>2 DEF CapturePadding, GetCaptureBuffer
  <2> QED BY <2>1, <2>2
<1>3. locked' \in {0, 1} /\ (locked' = 1 => packet[locked_ptr'].data = given')
  <2>1. CASE CapturePadding
    <3>1. locked' = locked /\ locked_ptr = NoPacket
      BY <2>1 DEF CapturePadding, buffer
    <3> QED BY <1>1, <3>1 DEF ListsOK
  <2>2. CASE GetCaptureBuffer
    BY <2>2 DEF GetCaptureBuffer
  <2> QED BY <2>1, <2>2
<1>4. Used' = Used /\ Recs' = Recs
  BY <1>1, <1>2 DEF Used, Recs
<1>5. RunTyped' /\ ReadOK'
  BY <1>1 DEF RunTyped, run, ReadOK
<1>6. PacketsTyped'
  BY <1>1, <1>2 DEF PacketsTyped, source
<1>7. ListsOK'
  BY <1>1, <1>2, <1>3, <1>4 DEF ListsOK
<1>8. OrderOK' /\ SourceOK'
  BY <1>1, <1>4 DEF OrderOK, SourceOK, source
<1>9. clock' \in Nat
  BY <1>1 DEF Typed, RingTyped
<1> QED BY <1>1, <1>5, <1>6, <1>7, <1>8, <1>9, CaptureStep

\* The packet goes back to those that are free, if the program took it.
LEMMA ReleaseCaptureStep ==
  ASSUME PInv, NEW done \in BOOLEAN, ReleaseCaptureBuffer(done)
  PROVE  PInv'
<1> DEFINE n == Len(Used)
<1>1. /\ Typed /\ RunTyped /\ PacketsTyped /\ flow = "capture" /\ timer # "read" /\ ListsOK /\ OrderOK /\ SourceOK
      /\ locked = 1 /\ locked' = 0 /\ clock \in Nat /\ recorded \in Nat /\ ready \in Seq(0 .. MaxRecorded)
      /\ UNCHANGED <<flow, good, run, render, packet, filled, given, left, recorded, ready>>
  BY Sizes DEF PInv, Typed, ReleaseCaptureBuffer, Capture, Lock, PacketsTyped, RingTyped, source
<1>2. locked_ptr \in Packets /\ locked_ptr # NoPacket /\ filled \in Seq(Packets) /\ free \in Seq(Packets)
  BY <1>1 DEF ListsOK, PacketsTyped
<1>3. RunTyped' /\ ReadOK'
  BY <1>1 DEF RunTyped, run, ReadOK
<1>4. CASE ~ done
  <2>1. UNCHANGED <<held, clock, free, locked_ptr>>
    BY <1>4 DEF ReleaseCaptureBuffer
  <2>2. Used' = Used /\ Recs' = Recs
    BY <1>1, <2>1 DEF Used, Recs
  <2>3. PacketsTyped'
    BY <1>1, <2>1 DEF PacketsTyped
  <2>4. ListsOK' /\ OrderOK' /\ SourceOK'
    BY <1>1, <2>1, <2>2 DEF ListsOK, OrderOK, SourceOK
  <2> QED BY <1>1, <1>3, <2>1, <2>3, <2>4, CaptureStep
<1>5. CASE done
  <2>1. /\ held' = held - 1 /\ clock' = Devpos + 1 /\ free' = Append(free, locked_ptr) /\ locked_ptr' = NoPacket
    BY <1>5 DEF ReleaseCaptureBuffer
  <2>2. /\ n \in Nat /\ n # 0 /\ Len(filled) = n - 1 /\ Used \in Seq(Packets) /\ Recs \in [1 .. n -> Rec]
        /\ Used[1] = locked_ptr /\ (\A k \in 1 .. n - 1 : Used[k + 1] = filled[k]) /\ Used' = filled
    <3>1. Len(filled) \in Nat /\ Len(Used) = Len(filled) + 1 /\ Used[1] = locked_ptr
          /\ (\A k \in 1 .. Len(filled) : Used[k + 1] = filled[k])
      <4>1. Len(filled) \in Nat /\ locked_ptr \in Packets \cup {NoPacket}
        BY <1>2
      <4> QED BY <1>2, <4>1, ListIs, Zenon DEF Used
    <3>2. Used' = filled
      BY <1>1, <1>2, <2>1, ListIs DEF Used
    <3> QED BY <1>1, <3>1, <3>2, UsedTyped
  <2> HIDE DEF n
  <2>3. PacketsTyped'
    BY <1>1, <1>2, <2>1 DEF PacketsTyped
  <2>4. /\ clock' = clock + Gap(Recs[1]) + 1 /\ Recs' \in [1 .. n - 1 -> Rec]
        /\ \A k \in 1 .. n - 1 : Recs'[k] = Recs[k + 1]
    <3>1. Recs[1] = packet[locked_ptr]
      BY <2>2 DEF Recs, n
    <3>2. clock' = clock + Gap(Recs[1]) + 1
      BY <1>1, <2>1, <3>1 DEF Devpos, Gap
    <3>3. Recs' = [k \in 1 .. n - 1 |-> packet[filled[k]]]
      BY <1>1, <2>2 DEF Recs
    <3>4. \A k \in 1 .. n - 1 : k + 1 \in 1 .. n /\ Recs'[k] = Recs[k + 1]
      BY <2>2, <3>3 DEF Recs, n
    <3> QED BY <2>2, <3>2, <3>3, <3>4
  <2>5. clock' \in Nat /\ OrderOK' /\ SourceOK'
    <3>1. InOrder(Recs, n, clock) /\ Behind(Recs, n, clock, ready, recorded)
      BY <1>1 DEF OrderOK, SourceOK, n
    <3>2. clock' \in Nat /\ InOrder(Recs', n - 1, clock') /\ Behind(Recs', n - 1, clock', ready, recorded)
      BY <1>1, <2>2, <2>4, <3>1, OrderTail
    <3> QED BY <1>1, <2>2, <3>2 DEF OrderOK, SourceOK
  <2>6. Lists(free', filled)
    <3>1. Len(free) \in Nat /\ Len(free') = Len(free) + 1 /\ free'[Len(free) + 1] = locked_ptr
          /\ \A j \in 1 .. Len(free) : free'[j] = free[j]
      BY <1>2, <2>1
    <3>2. /\ \A j, k \in 1 .. Len(free) : free[j] = free[k] => j = k
          /\ \A j, k \in 1 .. n : Used[j] = Used[k] => j = k
          /\ \A j \in 1 .. Len(free), k \in 1 .. n : free[j] # Used[k]
          /\ \A p \in Packets : (\E j \in 1 .. Len(free) : free[j] = p) \/ (\E k \in 1 .. n : Used[k] = p)
      BY <1>1 DEF ListsOK, Lists, n
    <3>3. \A j \in 1 .. Len(free') : j \in 1 .. Len(free) \/ j = Len(free) + 1
      BY <3>1
    <3>4. 1 \in 1 .. n /\ \A k \in 1 .. n - 1 : k + 1 \in 1 .. n /\ k + 1 # 1 /\ k \in Nat
      BY <2>2
    <3>5. \A k \in 1 .. n : k = 1 \/ (k - 1 \in 1 .. n - 1 /\ (k - 1) + 1 = k)
      BY <2>2
    <3>6. ASSUME NEW j \in 1 .. Len(free'), NEW k \in 1 .. Len(free'), free'[j] = free'[k] PROVE j = k
      <4>1. CASE j \in 1 .. Len(free) /\ k \in 1 .. Len(free)
        BY <3>1, <3>2, <3>6, <4>1
      <4>2. CASE j \in 1 .. Len(free) /\ k = Len(free) + 1
        BY <2>2, <3>1, <3>2, <3>4, <3>6, <4>2
      <4>3. CASE j = Len(free) + 1 /\ k \in 1 .. Len(free)
        BY <2>2, <3>1, <3>2, <3>4, <3>6, <4>3
      <4> QED BY <3>3, <4>1, <4>2, <4>3
    <3>7. ASSUME NEW j \in 1 .. n - 1, NEW k \in 1 .. n - 1, filled[j] = filled[k] PROVE j = k
      <4>1. Used[j + 1] = Used[k + 1] /\ j + 1 \in 1 .. n /\ k + 1 \in 1 .. n
        BY <2>2, <3>4, <3>7
      <4>2. j + 1 = k + 1
        BY ONLY <3>2, <4>1
      <4> QED BY <3>4, <4>2
    <3>8. ASSUME NEW j \in 1 .. Len(free'), NEW k \in 1 .. n - 1 PROVE free'[j] # filled[k]
      <4>1. k + 1 \in 1 .. n /\ k + 1 # 1 /\ filled[k] = Used[k + 1]
        BY <2>2, <3>4
      <4>2. CASE j \in 1 .. Len(free)
        BY <3>1, <3>2, <4>1, <4>2
      <4>3. CASE j = Len(free) + 1
        BY <2>2, <3>1, <3>2, <3>4, <4>1, <4>3
      <4> QED BY <3>3, <4>2, <4>3
    <3>9. ASSUME NEW p \in Packets
          PROVE  (\E j \in 1 .. Len(free') : free'[j] = p) \/ (\E k \in 1 .. n - 1 : filled[k] = p)
      <4>1. CASE \E j \in 1 .. Len(free) : free[j] = p
        BY <3>1, <4>1
      <4>2. ASSUME NEW k \in 1 .. n, Used[k] = p
            PROVE  (\E j \in 1 .. Len(free') : free'[j] = p) \/ (\E i \in 1 .. n - 1 : filled[i] = p)
        <5>1. CASE k = 1
          <6>1. Len(free) + 1 \in 1 .. Len(free')
            BY <3>1
          <6> QED BY <2>2, <3>1, <4>2, <5>1, <6>1
        <5>2. CASE k # 1
          <6>1. k - 1 \in 1 .. n - 1 /\ Used[(k - 1) + 1] = filled[k - 1]
            BY <2>2, <3>5, <5>2
          <6> QED BY <3>5, <4>2, <5>2, <6>1
        <5> QED BY <5>1, <5>2
      <4> QED BY <3>2, <4>1, <4>2
    <3> QED BY <2>2, <3>6, <3>7, <3>8, <3>9 DEF Lists
  <2>7. ListsOK'
    <3>1. held' = n - 1
      BY <1>1, <2>1 DEF ListsOK, n
    <3> QED BY <1>1, <2>2, <2>6, <3>1 DEF ListsOK
  <2> QED BY <1>1, <1>3, <2>3, <2>5, <2>7, CaptureStep
<1> QED BY <1>4, <1>5

\* A reset gives all packets up.
LEMMA ResetCaptureStep ==
  ASSUME PInv, ResetCapture
  PROVE  PInv'
<1> DEFINE n == Len(Used)
<1>1. /\ Typed /\ RunTyped /\ PacketsTyped /\ flow = "capture" /\ timer # "read" /\ ListsOK /\ OrderOK /\ SourceOK
      /\ locked = 0 /\ locked' = locked /\ clock \in Nat /\ recorded \in Nat /\ ready \in Seq(0 .. MaxRecorded)
      /\ clock' = clock + held /\ held' = 0 /\ locked_ptr' = NoPacket /\ filled' = <<>>
      /\ UNCHANGED <<flow, good, run, render, packet, given, left, recorded, ready>>
  BY Sizes DEF PInv, Typed, ResetCapture, Capture, Lock, PacketsTyped, RingTyped, source
<1>2. /\ locked_ptr \in Packets \cup {NoPacket} /\ filled \in Seq(Packets) /\ free \in Seq(Packets)
      /\ Used \in Seq(Packets) /\ n \in Nat /\ Recs \in [1 .. n -> Rec] /\ held = n
  BY <1>1, UsedTyped DEF ListsOK, PacketsTyped
<1>3. free' = free \o Used
  <2> DEFINE out == IF locked_ptr = NoPacket THEN <<>> ELSE <<locked_ptr>>
  <2>1. out \in Seq(Packets) /\ Used = out \o filled /\ free' = (free \o out) \o filled
    BY <1>2 DEF ResetCapture, Used, ListOf
  <2> HIDE DEF out
  <2> QED BY <1>2, <2>1, ConcatAssociative
<1>4. Used' = <<>>
  BY <1>1 DEF Used, ListOf
<1>5. RunTyped' /\ ReadOK'
  BY <1>1 DEF RunTyped, run, ReadOK
<1>6. PacketsTyped'
  <2>1. free' \in Seq(Packets) /\ filled' \in Seq(Packets)
    BY <1>1, <1>2, <1>3
  <2> QED BY <1>1, <2>1 DEF PacketsTyped
<1>7. clock' \in Nat /\ OrderOK' /\ SourceOK'
  <2>1. InOrder(Recs, n, clock) /\ Behind(Recs, n, clock, ready, recorded)
    BY <1>1 DEF OrderOK, SourceOK
  <2> HIDE DEF n
  <2>2. InOrder(Recs', 0, clock + n) /\ Behind(Recs', 0, clock + n, ready, recorded)
    BY <1>1, <1>2, <2>1, OrderEmpty
  <2>3. Len(Used') = 0 /\ clock' = clock + n /\ clock' \in Nat
    BY <1>1, <1>2, <1>4
  <2> QED BY <1>1, <2>2, <2>3 DEF OrderOK, SourceOK
<1>8. Lists(free', <<>>)
  <2> DEFINE f == Len(free)
  <2>1. /\ f \in Nat /\ Len(free') = f + n /\ (\A j \in 1 .. f : free'[j] = free[j])
        /\ \A j \in 1 .. f + n : j \notin 1 .. f => j - f \in 1 .. n /\ free'[j] = Used[j - f]
        /\ \A k \in 1 .. n : f + k \in 1 .. f + n /\ free'[f + k] = Used[k]
        /\ \A j \in 1 .. f : j \in 1 .. f + n
    BY <1>2, <1>3
  <2>2. /\ \A j, k \in 1 .. f : free[j] = free[k] => j = k
        /\ \A j, k \in 1 .. n : Used[j] = Used[k] => j = k
        /\ \A j \in 1 .. f, k \in 1 .. n : free[j] # Used[k]
        /\ \A p \in Packets : (\E j \in 1 .. f : free[j] = p) \/ (\E k \in 1 .. n : Used[k] = p)
    BY <1>1 DEF ListsOK, Lists
  <2> HIDE DEF f, n
  <2>3. ASSUME NEW j \in 1 .. f + n, NEW k \in 1 .. f + n, free'[j] = free'[k] PROVE j = k
    <3>1. CASE j \in 1 .. f /\ k \in 1 .. f
      BY <2>1, <2>2, <2>3, <3>1
    <3>2. CASE j \notin 1 .. f /\ k \notin 1 .. f
      <4>1. j - f = k - f
        BY <2>1, <2>2, <2>3, <3>2
      <4> QED BY <1>2, <2>1, <4>1
    <3>3. CASE j \in 1 .. f /\ k \notin 1 .. f
      BY <2>1, <2>2, <2>3, <3>3
    <3>4. CASE j \notin 1 .. f /\ k \in 1 .. f
      BY <2>1, <2>2, <2>3, <3>4
    <3> QED BY <3>1, <3>2, <3>3, <3>4
  <2>4. ASSUME NEW p \in Packets PROVE \E j \in 1 .. f + n : free'[j] = p
    BY <2>1, <2>2
  <2>5. Len(<<>>) = 0 /\ 1 .. 0 = {}
    OBVIOUS
  <2> QED BY <2>1, <2>3, <2>4, <2>5 DEF Lists
<1>9. ListsOK'
  <2>1. held' = Len(Used') /\ Lists(free', Used')
    BY <1>1, <1>4, <1>8
  <2> QED BY <1>1, <2>1 DEF ListsOK
<1> QED BY <1>1, <1>5, <1>6, <1>7, <1>9, CaptureStep

\* The timer thread is to take what the server has now.
LEMMA TimerReadsStep ==
  ASSUME PInv, TimerReads
  PROVE  PInv'
<1>1. /\ Typed /\ RunTyped /\ PacketsTyped /\ flow = "capture" /\ ListsOK /\ OrderOK /\ SourceOK
      /\ left' = Len(ready) /\ timer' = (IF ready = <<>> THEN "check" ELSE "read")
      /\ UNCHANGED <<flow, good, corked, started, quit, control, locked, held, clock, render, packet, free, filled,
                     locked_ptr, given, recorded, ready>>
  BY DEF PInv, Typed, TimerReads, Capture, buffer, packets, source
<1>2. ready \in Seq(0 .. MaxRecorded) /\ Len(ready) \in Nat /\ Len(ready) <= Backlog
  BY <1>1 DEF PacketsTyped
<1>3. ready # <<>> => Len(ready) \in 1 .. Len(ready)
  BY <1>2
<1>4. RunTyped' /\ ReadOK'
  BY <1>1, <1>3 DEF RunTyped, ReadOK
<1>5. Len(ready) \in 0 .. Backlog
  BY <1>2, Sizes
<1>6. PacketsTyped'
  BY <1>1, <1>5 DEF PacketsTyped
<1>7. Used' = Used /\ Recs' = Recs
  BY <1>1 DEF Used, Recs
<1>8. ListsOK' /\ OrderOK' /\ SourceOK'
  BY <1>1, <1>7 DEF ListsOK, OrderOK, SourceOK
<1>9. clock' \in Nat
  BY <1>1 DEF Typed, RingTyped
<1> QED BY <1>1, <1>4, <1>6, <1>8, <1>9, CaptureStep

\* The server records a period.
LEMMA RecordStep ==
  ASSUME PInv, Record
  PROVE  PInv'
<1>1. /\ Typed /\ RunTyped /\ PacketsTyped /\ flow = "capture" /\ timer # "read" /\ ListsOK /\ OrderOK /\ SourceOK
      /\ recorded < MaxRecorded /\ recorded' = recorded + 1
      /\ ready' = (IF Len(ready) < Backlog THEN Append(ready, recorded) ELSE ready)
      /\ UNCHANGED <<flow, good, corked, started, quit, control, timer, locked, held, clock, render, packet, free, filled,
                     locked_ptr, given, left>>
  BY DEF PInv, Typed, Record, Capture, Lock, run, buffer, packets
<1>2. /\ ready \in Seq(0 .. MaxRecorded) /\ Len(ready) \in Nat /\ Len(ready) <= Backlog /\ clock \in Nat
      /\ recorded \in 0 .. MaxRecorded /\ MaxRecorded \in Nat /\ Backlog \in Nat /\ Len(Used) \in Nat
      /\ Recs \in [1 .. Len(Used) -> Rec]
  BY <1>1, Sizes, UsedTyped DEF PacketsTyped, Typed, RingTyped
<1>3. RunTyped' /\ ReadOK'
  BY <1>1 DEF RunTyped, ReadOK
<1>4. PacketsTyped'
  <2>1. recorded + 1 \in 0 .. MaxRecorded
    BY <1>1, <1>2
  <2>2. ready' \in Seq(0 .. MaxRecorded) /\ Len(ready') <= Backlog
    <3>1. CASE Len(ready) < Backlog
      <4>1. Append(ready, recorded) \in Seq(0 .. MaxRecorded) /\ Len(Append(ready, recorded)) = Len(ready) + 1
        BY <1>2
      <4>2. Len(ready) + 1 <= Backlog
        BY <1>2, <3>1
      <4> QED BY <1>1, <3>1, <4>1, <4>2, Zenon
    <3>2. CASE ~ (Len(ready) < Backlog)
      BY <1>1, <1>2, <3>2
    <3> QED BY <3>1, <3>2
  <2> QED BY <1>1, <2>1, <2>2 DEF PacketsTyped
<1>5. Used' = Used /\ Recs' = Recs
  BY <1>1 DEF Used, Recs
<1>6. ListsOK' /\ OrderOK'
  BY <1>1, <1>5 DEF ListsOK, OrderOK
<1>7. SourceOK'
  <2> DEFINE n == Len(Used)
             d(k) == Recs[k].data
             last == recorded + 1
  <2>1. /\ \A j, k \in 1 .. Len(ready) : j < k => ready[j] < ready[k]
        /\ \A k \in 1 .. Len(ready) : ready[k] < recorded /\ ready[k] \in Int
        /\ \A k \in 1 .. n : d(k) < recorded /\ \A j \in 1 .. Len(ready) : d(k) < ready[j]
        /\ n = 0 => clock <= recorded /\ \A j \in 1 .. Len(ready) : clock <= ready[j]
        /\ \A k \in 1 .. n : d(k) \in Int
    <3>1. Behind(Recs, n, clock, ready, recorded)
      BY <1>1 DEF SourceOK
    <3>2. /\ \A k \in 1 .. Len(ready) : ready[k] \in Int
          /\ \A k \in 1 .. n : d(k) \in Int
      BY <1>2, GapIs
    <3> HIDE DEF n
    <3> QED BY <3>1, <3>2 DEF Behind
  <2> HIDE DEF d, n
  <2>2. /\ \A k \in 1 .. Len(ready) : ready[k] < last
        /\ \A k \in 1 .. n : d(k) < last
        /\ n = 0 => clock <= last
    BY <1>2, <2>1
  <2>3. CASE ready' = ready
    <3>1. Behind(Recs, n, clock, ready, last)
      BY <2>1, <2>2 DEF Behind, d
    <3> QED BY <1>1, <1>5, <2>3, <3>1 DEF SourceOK, n
  <2>4. CASE ready' = Append(ready, recorded)
    <3> DEFINE l == Len(ready)
               rd == Append(ready, recorded)
    <3>1. /\ Len(rd) = l + 1 /\ rd[l + 1] = recorded /\ (\A k \in 1 .. l : rd[k] = ready[k])
          /\ (\A k \in 1 .. l + 1 : k \in 1 .. l \/ k = l + 1) /\ recorded < last /\ l \in Nat
      BY <1>2
    <3> HIDE DEF rd, l, last
    <3>2. ASSUME NEW j \in 1 .. l + 1, NEW k \in 1 .. l + 1, j < k PROVE rd[j] < rd[k]
      <4>1. j \in 1 .. l
        BY <3>1, <3>2
      <4> QED BY <2>1, <3>1, <3>2, <4>1 DEF l
    <3>3. \A k \in 1 .. l + 1 : rd[k] < last
      BY <2>2, <3>1 DEF l
    <3>4. \A k \in 1 .. n : d(k) < last /\ \A j \in 1 .. l + 1 : d(k) < rd[j]
      BY <2>1, <2>2, <3>1 DEF l
    <3>5. n = 0 => clock <= last /\ \A j \in 1 .. l + 1 : clock <= rd[j]
      BY <2>1, <2>2, <3>1 DEF l
    <3>6. Behind(Recs, n, clock, rd, last)
      BY <3>1, <3>2, <3>3, <3>4, <3>5 DEF Behind, d
    <3> QED BY <1>1, <1>5, <2>4, <3>6 DEF SourceOK, n, rd, last
  <2> QED BY <1>1, <2>3, <2>4
<1> QED BY <1>1, <1>2, <1>3, <1>4, <1>6, <1>7, CaptureStep

\* When no packet is free there are three at least that are not.
LEMMA ThreeAreUsed ==
  ASSUME PacketsTyped, Lists(free, Used), free = <<>>
  PROVE  Len(Used) >= 3
<1>1. Len(Used) \in Nat /\ Cardinality(Packets) >= 3
  BY UsedTyped, PulseAssumption
<1>2. \A p \in Packets : \E k \in 1 .. Len(Used) : Used[k] = p
  BY DEF Lists
<1>3. SUFFICES ASSUME Len(Used) <= 2 PROVE FALSE
  BY <1>1
<1> DEFINE S == {Used[1]} \cup {Used[2]}
<1>4. Packets \subseteq S
  <2>1. \A k \in 1 .. Len(Used) : k = 1 \/ k = 2
    BY <1>1, <1>3
  <2> QED BY <1>2, <2>1
<1>5. IsFiniteSet(S) /\ Cardinality(S) <= 2
  <2>1. IsFiniteSet({Used[1]}) /\ Cardinality({Used[1]}) = 1
    BY FS_Singleton
  <2>2. IsFiniteSet(S) /\ Cardinality(S) = IF Used[2] \in {Used[1]} THEN 1 ELSE 1 + 1
    BY <2>1, FS_AddElement
  <2> QED BY <2>2
<1> HIDE DEF S
<1>6. Cardinality(Packets) <= Cardinality(S) /\ Cardinality(S) \in Nat /\ Cardinality(Packets) \in Nat
  BY <1>4, <1>5, FS_Subset, FS_CardinalityType, PulseAssumption
<1> QED BY <1>1, <1>5, <1>6

\* The timer thread takes a period. The packets that are not free are those that were, in their
\* order, and p; or, when one is given up, those but the one at c, of which the next is marked.
LEMMA TakeKeeps ==
  ASSUME PInv, ReadPeriod, NEW m \in 0 .. Len(Used), NEW c \in 1 .. m + 1, c <= m => m < Len(Used),
         NEW p \in Packets, NEW us \in Seq(Packets), Len(us) = m + 1, us[m + 1] = p, Used' = us,
         packet'[p] = [discont |-> FALSE, data |-> Head(ready)],
         \A q \in Packets : q # p => packet'[q].data = packet[q].data /\ packet'[q].discont \in BOOLEAN,
         \A k \in 1 .. m : k < c => us[k] = Used[k] /\ us[k] # p /\ packet'[us[k]] = packet[us[k]],
         \A k \in 1 .. m : k >= c => us[k] = Used[k + 1] /\ us[k] # p,
         \A k \in 1 .. m : k > c => packet'[us[k]] = packet[us[k]],
         c <= m => Gap(packet'[us[c]]) = 1,
         free' \in Seq(Packets), filled' \in Seq(Packets), Lists(free', us), held' = Len(us),
         locked_ptr # p
  PROVE  PInv'
<1> DEFINE n == Len(Used)
           new == [discont |-> FALSE, data |-> Head(ready)]
<1>1. /\ Typed /\ RunTyped /\ PacketsTyped /\ timer = "read" /\ flow = "capture" /\ ListsOK /\ OrderOK /\ SourceOK
      /\ left \in 1 .. Len(ready) /\ Take
      /\ ready' = Tail(ready) /\ left' = left - 1 /\ timer' = (IF left = 1 THEN "check" ELSE timer)
      /\ UNCHANGED <<flow, good, corked, started, quit, control, locked, clock, render, locked_ptr, given, recorded>>
  BY DEF PInv, Typed, ReadOK, ReadPeriod
<1>2. /\ ready \in Seq(0 .. MaxRecorded) /\ Len(ready) \in Nat /\ Len(ready) <= Backlog /\ clock \in Nat
      /\ ready # <<>> /\ Head(ready) \in 0 .. MaxRecorded /\ Head(ready) = ready[1]
      /\ recorded \in Nat /\ n \in Nat /\ Recs \in [1 .. n -> Rec] /\ Backlog \in Nat
      /\ locked_ptr \in Packets \cup {NoPacket} /\ packet \in [Packets -> Rec]
  <2>1. ready \in Seq(0 .. MaxRecorded) /\ Len(ready) \in Nat /\ Len(ready) <= Backlog /\ recorded \in Nat
        /\ locked_ptr \in Packets \cup {NoPacket} /\ packet \in [Packets -> Rec]
    <3>1. recorded \in 0 .. MaxRecorded /\ MaxRecorded \in Nat
      BY <1>1, Sizes DEF PacketsTyped
    <3>2. ready \in Seq(0 .. MaxRecorded) /\ Len(ready) <= Backlog /\ locked_ptr \in Packets \cup {NoPacket}
      BY <1>1 DEF PacketsTyped
    <3>3. packet \in [Packets -> Rec]
      BY <1>1, Zenon DEF PacketsTyped, Rec
    <3> QED BY <3>1, <3>2, <3>3
  <2>2. clock \in Nat
    BY <1>1 DEF Typed, RingTyped
  <2>3. ready # <<>> /\ Head(ready) \in 0 .. MaxRecorded /\ Head(ready) = ready[1]
    <3>1. Len(ready) > 0
      BY <1>1, <2>1
    <3>2. ready # <<>> /\ ready[1] \in 0 .. MaxRecorded
      <4>1. 1 \in 1 .. Len(ready) /\ ready # <<>>
        BY <2>1, <3>1
      <4> QED BY <2>1, <4>1, ElementOfSeq
    <3> QED BY <2>1, <3>2
  <2> QED BY <1>1, <2>1, <2>2, <2>3, Sizes, UsedTyped
<1>3. packet' \in [Packets -> Rec]
  <2>1. packet' = [q \in Packets |-> packet'[q]]
    BY <1>1 DEF Take
  <2>2. ASSUME NEW q \in Packets PROVE packet'[q] \in Rec
    <3>1. CASE q = p
      <4>1. [discont |-> FALSE, data |-> Head(ready)] \in Rec
        BY <1>2 DEF Rec
      <4> QED BY <3>1, <4>1
    <3>2. CASE q # p
      <4>1. packet'[q] = packet[q] \/ packet'[q] = [packet[q] EXCEPT !.discont = TRUE]
            \/ packet'[q] = [discont |-> FALSE, data |-> Head(ready)]
        BY <1>1 DEF Take
      <4>2. packet[q] \in Rec
        BY <1>2
      <4>3. [packet[q] EXCEPT !.discont = TRUE] \in Rec
        BY <4>2 DEF Rec
      <4>4. [discont |-> FALSE, data |-> Head(ready)] \in Rec
        BY <1>2 DEF Rec
      <4> QED BY <4>1, <4>2, <4>3, <4>4
    <3> QED BY <3>1, <3>2
  <2>3. [q \in Packets |-> packet'[q]] \in [Packets -> Rec]
    BY <2>2
  <2> QED BY <2>1, <2>3, Zenon
<1>4. Tail(ready) \in Seq(0 .. MaxRecorded) /\ Len(Tail(ready)) = Len(ready) - 1
  BY <1>2
<1>5. RunTyped' /\ ReadOK'
  <2>1. RunTyped'
    BY <1>1 DEF RunTyped
  <2>2. left # 1 => left - 1 \in 1 .. Len(Tail(ready))
    BY <1>1, <1>2, <1>4
  <2> QED BY <1>1, <2>1, <2>2 DEF ReadOK
<1>6. PacketsTyped'
  <2>1. left - 1 \in 0 .. Backlog /\ Len(Tail(ready)) <= Backlog
    BY <1>1, <1>2, <1>4
  <2>2. recorded' \in 0 .. MaxRecorded
    BY <1>1 DEF PacketsTyped
  <2> QED BY <1>1, <1>2, <1>3, <1>4, <2>1, <2>2 DEF PacketsTyped, Rec
<1>7. ListsOK'
  <2>1. locked \in {0, 1} /\ (locked = 1 => locked_ptr # NoPacket /\ packet[locked_ptr].data = given)
    BY <1>1 DEF ListsOK
  <2>2. locked = 1 => packet'[locked_ptr].data = given
    BY <1>2, <2>1
  <2> QED BY <1>1, <2>1, <2>2 DEF ListsOK
<1>8. OrderOK' /\ SourceOK'
  <2> DEFINE r2 == [k \in 1 .. m + 1 |-> packet'[us[k]]]
  <2>1. m \in Nat /\ Recs' = r2 /\ r2 \in [1 .. m + 1 -> Rec]
    <3>1. \A k \in 1 .. m + 1 : us[k] \in Packets
      OBVIOUS
    <3>2. Recs' = r2
      BY DEF Recs
    <3> QED BY <1>2, <1>3, <3>1, <3>2
  <2>2. r2[m + 1].data = ready[1] /\ Gap(r2[m + 1]) = 0
    BY <1>2 DEF Gap
  <2>3. \A k \in 1 .. m : k \in 1 .. m + 1 /\ r2[k] = packet'[us[k]] /\ us[k] \in Packets
    OBVIOUS
  <2>4. \A k \in 1 .. n : Recs[k] = packet[Used[k]]
    BY DEF Recs
  <2>5. \A k \in 1 .. m : k \in 1 .. n /\ (k >= c => k + 1 \in 1 .. n)
    BY <1>2
  <2> HIDE DEF r2, n
  <2>6. \A k \in 1 .. m : k < c => r2[k].data = Recs[k].data /\ Gap(r2[k]) = Gap(Recs[k])
    <3> SUFFICES ASSUME NEW k \in 1 .. m, k < c PROVE r2[k].data = Recs[k].data /\ Gap(r2[k]) = Gap(Recs[k])
      OBVIOUS
    <3>1. us[k] = Used[k] /\ k \in 1 .. n /\ packet'[us[k]] = packet[us[k]]
      BY <2>5
    <3>2. r2[k] = packet'[us[k]] /\ Recs[k] = packet[Used[k]]
      BY <2>3, <2>4, <3>1
    <3> QED BY <3>1, <3>2
  <2>7. ASSUME NEW k \in 1 .. m, k >= c PROVE r2[k].data = Recs[k + 1].data
    <3>1. us[k] = Used[k + 1] /\ us[k] # p /\ k + 1 \in 1 .. n
      BY <2>5, <2>7
    <3>2. r2[k] = packet'[us[k]] /\ Recs[k + 1] = packet[Used[k + 1]] /\ us[k] \in Packets
      BY <2>3, <2>4, <3>1
    <3> QED BY <3>1, <3>2
  <2>8. \A k \in 1 .. m : k > c => Gap(r2[k]) = Gap(Recs[k + 1])
    <3> SUFFICES ASSUME NEW k \in 1 .. m, k > c PROVE Gap(r2[k]) = Gap(Recs[k + 1])
      OBVIOUS
    <3>1. k >= c
      BY <2>1
    <3>2. us[k] = Used[k + 1] /\ k + 1 \in 1 .. n /\ packet'[us[k]] = packet[us[k]]
      BY <2>5, <3>1
    <3>3. r2[k] = packet'[us[k]] /\ Recs[k + 1] = packet[Used[k + 1]]
      BY <2>3, <2>4, <3>2
    <3> QED BY <3>2, <3>3
  <2>9. c <= m => Gap(r2[c]) = 1
    <3>1. c <= m => c \in 1 .. m
      BY <2>1
    <3> QED BY <2>3, <3>1 DEF Gap
  <2>10. InOrder(Recs, n, clock) /\ Behind(Recs, n, clock, ready, recorded)
    BY <1>1 DEF OrderOK, SourceOK, n
  <2>11. m \in 0 .. n /\ (c <= m => m < n)
    BY DEF n
  <2>12. InOrder(r2, m + 1, clock) /\ Behind(r2, m + 1, clock, Tail(ready), recorded)
    <3>1. n \in Nat /\ Recs \in [1 .. n -> Rec] /\ clock \in Nat /\ recorded \in Nat
          /\ ready \in Seq(0 .. MaxRecorded) /\ ready # <<>>
      BY <1>2
    <3> QED BY ONLY <3>1, <2>1, <2>2, <2>6, <2>7, <2>8, <2>9, <2>10, <2>11, OrderTaken, m \in 0 .. Len(Used), c \in 1 .. m + 1,
               ZenonT(60)
  <2> QED BY <1>1, <2>1, <2>12 DEF OrderOK, SourceOK
<1>9. clock' \in Nat
  BY <1>1, <1>2
<1> QED BY <1>1, <1>5, <1>6, <1>7, <1>8, <1>9, CaptureStep

\* A period the timer thread takes from the server: into a free packet or over the oldest one.
LEMMA TakeStep ==
  ASSUME PInv, ReadPeriod
  PROVE  PInv'
<1> DEFINE n == Len(Used)
           p == IF free # <<>> THEN Head(free) ELSE Overwritten
<1>1. /\ Typed /\ PacketsTyped /\ flow = "capture" /\ ListsOK /\ Lists(free, Used) /\ Take /\ locked_ptr' = locked_ptr
  BY DEF PInv, Typed, ReadOK, ReadPeriod, ListsOK
<1>2. /\ locked_ptr \in Packets \cup {NoPacket} /\ filled \in Seq(Packets) /\ free \in Seq(Packets) /\ Len(filled) \in Nat
      /\ Used \in Seq(Packets) /\ n \in Nat /\ held = n
      /\ packet \in [Packets -> [discont : BOOLEAN, data : -1 .. MaxRecorded]]
  BY <1>1, UsedTyped DEF ListsOK, PacketsTyped
<1>3. /\ \A j, k \in 1 .. Len(free) : free[j] = free[k] => j = k
      /\ \A j, k \in 1 .. n : Used[j] = Used[k] => j = k
      /\ \A j \in 1 .. Len(free), k \in 1 .. n : free[j] # Used[k]
      /\ \A q \in Packets : (\E j \in 1 .. Len(free) : free[j] = q) \/ (\E k \in 1 .. n : Used[k] = q)
  BY <1>1 DEF Lists
<1>4. /\ locked_ptr = NoPacket => Used = filled
      /\ locked_ptr # NoPacket => /\ n = Len(filled) + 1 /\ Used[1] = locked_ptr
                                   /\ \A k \in 1 .. Len(filled) : Used[k + 1] = filled[k]
  BY <1>2, ListIs, Zenon DEF Used
<1>5. packet' = [q \in Packets |->
                   IF q = p THEN [discont |-> FALSE, data |-> Head(ready)]
                   ELSE IF free = <<>> /\ q \in Marked THEN [packet[q] EXCEPT !.discont = TRUE]
                   ELSE packet[q]]
      /\ free' = (IF free = <<>> THEN free ELSE Tail(free))
      /\ held' = (IF free = <<>> THEN held ELSE held + 1)
      /\ filled' = Append(Kept, p)
  BY <1>1 DEF Take
<1>6. Used' = ListOf(locked_ptr, filled')
  BY <1>1 DEF Used
<1> HIDE DEF p, n
<1>7. ASSUME p \in Packets
      PROVE  /\ packet'[p] = [discont |-> FALSE, data |-> Head(ready)]
             /\ \A q \in Packets : q # p => packet'[q].data = packet[q].data /\ packet'[q].discont \in BOOLEAN
             /\ \A q \in Packets : q # p /\ (free # <<>> \/ q \notin Marked) => packet'[q] = packet[q]
             /\ \A q \in Packets : q # p /\ free = <<>> /\ q \in Marked => packet'[q].discont = TRUE
  BY <1>2, <1>5, <1>7
<1>8. CASE free # <<>>
  <2>1. /\ p = free[1] /\ p \in Packets /\ Kept = filled /\ 1 \in 1 .. Len(free) /\ Len(free) \in Nat
        /\ Tail(free) \in Seq(Packets) /\ Len(Tail(free)) = Len(free) - 1
        /\ \A j \in 1 .. Len(free) - 1 : Tail(free)[j] = free[j + 1] /\ j + 1 \in 1 .. Len(free) /\ j + 1 # 1
    BY <1>2, <1>8 DEF Kept, p
  <2> DEFINE us == Append(Used, p)
  <2>2. us \in Seq(Packets) /\ Len(us) = n + 1 /\ us[n + 1] = p /\ \A k \in 1 .. n : us[k] = Used[k]
    BY <1>2, <2>1 DEF n
  <2>3. Used' = us
    <3>1. CASE locked_ptr = NoPacket
      BY <1>4, <1>5, <1>6, <2>1, <3>1 DEF ListOf
    <3>2. CASE locked_ptr # NoPacket
      <4>1. locked_ptr \in Packets /\ Used = <<locked_ptr>> \o filled /\ Used' = <<locked_ptr>> \o Append(filled, p)
        BY <1>2, <1>5, <1>6, <2>1, <3>2 DEF ListOf, Used
      <4>2. <<locked_ptr>> \o Append(filled, p) = Append(<<locked_ptr>> \o filled, p)
        <5>1. filled \in Seq(Packets) /\ p \in Packets /\ locked_ptr \in Packets
          BY <1>2, <2>1, <4>1
        <5> QED BY ONLY <5>1
      <4> QED BY <4>1, <4>2
    <3> QED BY <3>1, <3>2
  <2>4. \A k \in 1 .. n : Used[k] # p
    BY <1>3, <2>1
  <2>5. locked_ptr # p
    <3>1. CASE locked_ptr = NoPacket
      BY <2>1, <3>1, PulseAssumption DEF NoPacket
    <3>2. CASE locked_ptr # NoPacket
      <4>1. 1 \in 1 .. n /\ Used[1] = locked_ptr
        BY <1>2, <1>4, <3>2
      <4> QED BY <2>4, <4>1
    <3> QED BY <3>1, <3>2
  <2>6. Lists(free', us)
    <3> DEFINE fr == Tail(free)
    <3>1. \A j \in 1 .. Len(fr) : fr[j] = free[j + 1] /\ j + 1 \in 1 .. Len(free) /\ j + 1 # 1 /\ j \in Nat
      BY <2>1
    <3>2. \A j \in 1 .. Len(free) : j = 1 \/ (j - 1 \in 1 .. Len(fr) /\ (j - 1) + 1 = j)
      BY <2>1
    <3>3. \A k \in 1 .. n + 1 : k \in 1 .. n \/ k = n + 1
      BY <1>2
    <3> HIDE DEF fr, us
    <3>4. ASSUME NEW j \in 1 .. Len(fr), NEW k \in 1 .. Len(fr), fr[j] = fr[k] PROVE j = k
      <4>1. j + 1 = k + 1
        BY <1>3, <3>1, <3>4
      <4> QED BY <3>1, <4>1
    <3>5. ASSUME NEW j \in 1 .. n + 1, NEW k \in 1 .. n + 1, us[j] = us[k] PROVE j = k
      <4>1. CASE j \in 1 .. n /\ k \in 1 .. n
        BY <1>3, <2>2, <3>5, <4>1
      <4>2. CASE j = n + 1 \/ k = n + 1
        BY <2>2, <2>4, <3>3, <3>5, <4>2
      <4> QED BY <3>3, <4>1, <4>2
    <3>6. ASSUME NEW j \in 1 .. Len(fr), NEW k \in 1 .. n + 1 PROVE fr[j] # us[k]
      <4>1. CASE k \in 1 .. n
        BY <1>3, <2>2, <3>1, <4>1
      <4>2. CASE k = n + 1
        BY <1>3, <2>1, <2>2, <3>1, <4>2
      <4> QED BY <3>3, <4>1, <4>2
    <3>7. ASSUME NEW q \in Packets
          PROVE  (\E j \in 1 .. Len(fr) : fr[j] = q) \/ (\E k \in 1 .. n + 1 : us[k] = q)
      <4>1. ASSUME NEW j \in 1 .. Len(free), free[j] = q
            PROVE  (\E i \in 1 .. Len(fr) : fr[i] = q) \/ (\E k \in 1 .. n + 1 : us[k] = q)
        <5>1. CASE j = 1
          <6>1. n + 1 \in 1 .. n + 1
            BY <1>2
          <6> QED BY <2>1, <2>2, <4>1, <5>1, <6>1
        <5>2. CASE j # 1
          <6>1. j - 1 \in 1 .. Len(fr) /\ fr[j - 1] = free[(j - 1) + 1] /\ (j - 1) + 1 = j
            BY <3>1, <3>2, <5>2
          <6> QED BY <4>1, <6>1
        <5> QED BY <5>1, <5>2
      <4>2. ASSUME NEW k \in 1 .. n, Used[k] = q PROVE \E i \in 1 .. n + 1 : us[i] = q
        <5>1. k \in 1 .. n + 1
          BY <1>2
        <5> QED BY <2>2, <4>2, <5>1
      <4> QED BY <1>3, <4>1, <4>2
    <3>8. Lists(fr, us)
      BY <2>2, <3>4, <3>5, <3>6, <3>7 DEF Lists
    <3> QED BY <1>5, <1>8, <3>8 DEF fr
  <2>7. /\ packet'[p] = [discont |-> FALSE, data |-> Head(ready)]
        /\ \A q \in Packets : q # p => packet'[q].data = packet[q].data /\ packet'[q].discont \in BOOLEAN
        /\ \A k \in 1 .. n : us[k] = Used[k] /\ us[k] # p /\ packet'[us[k]] = packet[us[k]]
    <3>1. \A k \in 1 .. n : us[k] \in Packets
      BY <1>2, <2>2 DEF n
    <3>2. \A k \in 1 .. n : us[k] = Used[k] /\ us[k] # p
      BY <2>2, <2>4
    <3>3. \A q \in Packets : q # p => packet'[q] = packet[q]
      BY <1>7, <1>8, <2>1
    <3> HIDE DEF us
    <3> QED BY <1>7, <2>1, <3>1, <3>2, <3>3
  <2>8. free' \in Seq(Packets) /\ filled' \in Seq(Packets) /\ held' = Len(us)
    BY <1>2, <1>5, <1>8, <2>1, <2>2
  <2>9. n \in 0 .. Len(Used) /\ n + 1 \in 1 .. n + 1 /\ ~ (n + 1 <= n) /\ \A k \in 1 .. n : ~ (k >= n + 1) /\ ~ (k > n + 1)
    BY <1>2 DEF n
  <2> HIDE DEF us
  <2> QED BY <2>1, <2>2, <2>3, <2>5, <2>6, <2>7, <2>8, <2>9, TakeKeeps
<1>9. CASE free = <<>>
  <2>1. n >= 3
    BY <1>1, <1>9, ThreeAreUsed DEF n
  <2>2. /\ Len(filled) >= 2 /\ n \in 1 .. n /\ Used[n] = filled[Len(filled)]
    <3>1. CASE locked_ptr = NoPacket
      BY <1>2, <1>4, <2>1, <3>1 DEF n
    <3>2. CASE locked_ptr # NoPacket
      <4>1. n = Len(filled) + 1 /\ \A k \in 1 .. Len(filled) : Used[k + 1] = filled[k]
        BY <1>4, <3>2
      <4>2. Len(filled) >= 2 /\ Len(filled) \in 1 .. Len(filled) /\ n \in 1 .. n
        BY <1>2, <2>1, <4>1
      <4> QED BY <4>1, <4>2
    <3> QED BY <3>1, <3>2
  <2>3. free' = <<>> /\ held' = n /\ \A q \in Packets : \E k \in 1 .. n : Used[k] = q
    BY <1>2, <1>3, <1>5, <1>9
  <2> DEFINE m == n - 1
  <2>4. m \in 0 .. Len(Used) /\ m < Len(Used) /\ m + 1 = n /\ free' \in Seq(Packets) /\ m \in Nat
        /\ \A k \in 1 .. m : k \in 1 .. n /\ k + 1 \in 1 .. n /\ k # n /\ k + 1 # k /\ k \in Nat
    <3>1. n = Len(Used) /\ m \in Nat /\ m + 1 = n /\ m < n /\ m \in 0 .. n
      BY <1>2, <2>1 DEF n
    <3>2. free' \in Seq(Packets)
      BY <1>2, <1>5, <1>9
    <3> QED BY <1>2, <3>1, <3>2
  <2> HIDE DEF m
  <2>5. CASE packet[Head(filled)].discont
    <3>1. /\ p = filled[Len(filled)] /\ p = Used[n] /\ p \in Packets /\ Kept = SubSeq(filled, 1, Len(filled) - 1) /\ Marked = {}
      BY <1>2, <1>9, <2>2, <2>5 DEF p, Overwritten, Last, Front, Kept, Marked
    <3>2. filled' = filled
      <4>1. Len(filled) >= 1
        BY <1>2, <2>2
      <4> QED BY <1>2, <1>5, <3>1, <4>1, Rotated
    <3>3. Used' = Used
      BY <1>6, <3>2 DEF Used
    <3>4. \A k \in 1 .. m : Used[k] # p /\ Used[k] \in Packets
      <4> SUFFICES ASSUME NEW k \in 1 .. m PROVE Used[k] # p /\ Used[k] \in Packets
        OBVIOUS
      <4>1. k \in 1 .. n /\ n \in 1 .. n /\ k # n
        BY <2>2, <2>4
      <4>2. Used[k] # Used[n]
        BY <1>3, <4>1
      <4>3. Used[k] \in Packets
        BY <1>2, <4>1 DEF n
      <4> QED BY <3>1, <4>2, <4>3
    <3>5. locked_ptr # p
      <4>1. CASE locked_ptr = NoPacket
        BY <3>1, <4>1, PulseAssumption DEF NoPacket
      <4>2. CASE locked_ptr # NoPacket
        <5>1. 1 \in 1 .. m /\ Used[1] = locked_ptr
          BY <1>4, <2>1, <2>4, <4>2
        <5> QED BY <3>4, <5>1
      <4> QED BY <4>1, <4>2
    <3>6. /\ packet'[p] = [discont |-> FALSE, data |-> Head(ready)]
          /\ \A q \in Packets : q # p => packet'[q].data = packet[q].data /\ packet'[q].discont \in BOOLEAN
          /\ \A k \in 1 .. m : packet'[Used[k]] = packet[Used[k]]
      BY <1>7, <3>1, <3>4
    <3>7. Lists(free', Used)
      BY <1>1, <1>5, <1>9
    <3> DEFINE c == m + 1
    <3>8. c \in 1 .. m + 1 /\ ~ (c <= m) /\ \A k \in 1 .. m : ~ (k >= c) /\ ~ (k > c)
      BY <2>4
    <3>9. Used \in Seq(Packets) /\ Len(Used) = m + 1 /\ Used[m + 1] = p /\ held' = Len(Used) /\ filled' \in Seq(Packets)
      BY <1>2, <2>3, <2>4, <3>1, <3>2 DEF n
    <3>10. m \in 0 .. Len(Used) /\ free' \in Seq(Packets) /\ p \in Packets
      BY <2>4, <3>1
    <3> HIDE DEF c
    <3> QED BY ONLY PInv, ReadPeriod, <3>3, <3>4, <3>5, <3>6, <3>7, <3>8, <3>9, <3>10, TakeKeeps, ZenonT(60)
  <2>6. CASE ~ packet[Head(filled)].discont
    <3> DEFINE c == IF locked_ptr = NoPacket THEN 1 ELSE 2
               us == ListOf(locked_ptr, filled')
    <3>1. /\ p = filled[1] /\ p \in Packets /\ Kept = Tail(filled) /\ Marked = {filled[2]}
      BY <1>2, <1>9, <2>2, <2>6 DEF p, Overwritten, Kept, Marked
    <3>2. /\ filled' \in Seq(Packets) /\ Len(filled') = Len(filled) /\ filled'[Len(filled)] = p
          /\ \A k \in 1 .. Len(filled) - 1 : filled'[k] = filled[k + 1]
      <4>1. Len(filled) >= 1
        BY <1>2, <2>2
      <4>2. filled' = Append(Tail(filled), filled[1])
        BY <1>5, <3>1
      <4> QED BY <1>2, <3>1, <4>1, <4>2, Rotated
    <3>3. /\ us \in Seq(Packets) /\ Used' = us /\ Len(us) = n /\ us[n] = p /\ c \in 1 .. m /\ c + 1 \in 1 .. n
          /\ Used[c] = p /\ Used[c + 1] = filled[2] /\ c \in 1 .. n /\ c + 1 # c
          /\ \A k \in 1 .. m : (k < c => us[k] = Used[k]) /\ (k >= c => us[k] = Used[k + 1])
      <4>1. us \in Seq(Packets) /\ Used' = us
        BY <1>2, <1>6, <3>2, ListIs
      <4>2. CASE locked_ptr = NoPacket
        <5>1. c = 1 /\ us = filled' /\ Used = filled /\ n = Len(filled)
          BY <1>4, <4>2 DEF ListOf, n
        <5> HIDE DEF us, c
        <5> QED BY <1>2, <2>1, <2>2, <2>4, <3>1, <3>2, <4>1, <5>1
      <4>3. CASE locked_ptr # NoPacket
        <5>1. /\ c = 2 /\ n = Len(filled) + 1 /\ Len(us) = Len(filled') + 1 /\ us[1] = locked_ptr /\ Used[1] = locked_ptr
              /\ \A k \in 1 .. Len(filled') : us[k + 1] = filled'[k]
              /\ \A k \in 1 .. Len(filled) : Used[k + 1] = filled[k]
          BY <1>2, <1>4, <3>2, <4>3, ListIs
        <5> HIDE DEF us, c
        <5>2. us[n] = p /\ Used[c] = p /\ Used[c + 1] = filled[2]
          <6>1. Len(filled) \in 1 .. Len(filled') /\ 1 \in 1 .. Len(filled) /\ 2 \in 1 .. Len(filled) /\ 1 + 1 = 2
            BY <1>2, <2>2, <3>2
          <6>2. us[Len(filled) + 1] = filled'[Len(filled)] /\ Used[1 + 1] = filled[1] /\ Used[2 + 1] = filled[2]
            BY <5>1, <6>1
          <6> QED BY <3>1, <3>2, <5>1, <6>1, <6>2
        <5>3. ASSUME NEW k \in 1 .. m, k >= 2 PROVE us[k] = Used[k + 1]
          <6>0. m = Len(filled) /\ m \in Nat
            BY <1>2, <2>4, <5>1
          <6>1. k - 1 \in 1 .. Len(filled') /\ k - 1 \in 1 .. Len(filled) - 1 /\ (k - 1) + 1 = k /\ k \in 1 .. Len(filled)
            BY <3>2, <5>3, <6>0
          <6>2. us[(k - 1) + 1] = filled'[k - 1] /\ filled'[k - 1] = filled[(k - 1) + 1] /\ Used[k + 1] = filled[k]
            BY <3>2, <5>1, <6>1
          <6> QED BY <6>1, <6>2
        <5>4. ASSUME NEW k \in 1 .. m, k < 2 PROVE us[k] = Used[k]
          BY <5>1, <5>4
        <5>5. Len(us) = n /\ c \in 1 .. m /\ c + 1 \in 1 .. n /\ c \in 1 .. n /\ c + 1 # c
          BY <1>2, <2>1, <2>4, <3>2, <5>1
        <5> QED BY <4>1, <5>1, <5>2, <5>3, <5>4, <5>5
      <4> QED BY <4>2, <4>3
    <3> HIDE DEF us, c
    <3>4. c \in Nat /\ \A k \in 1 .. m : (k < c => k # c /\ k # c + 1) /\ (k >= c => k + 1 # c) /\ (k > c => k + 1 # c + 1)
      BY <2>4, <3>3
    <3>5. \A k \in 1 .. n : Used[k] \in Packets /\ (k # c => Used[k] # p) /\ (k # c + 1 => Used[k] # Used[c + 1])
      <4>1. \A k \in 1 .. n : Used[k] \in Packets
        BY <1>2 DEF n
      <4>2. \A k \in 1 .. n : (k # c => Used[k] # Used[c]) /\ (k # c + 1 => Used[k] # Used[c + 1])
        BY <1>3, <3>3
      <4> QED BY <3>3, <4>1, <4>2
    <3>6. locked_ptr # p
      <4>1. CASE locked_ptr = NoPacket
        BY <3>1, <4>1, PulseAssumption DEF NoPacket
      <4>2. CASE locked_ptr # NoPacket
        <5>1. 1 \in 1 .. n /\ Used[1] = locked_ptr /\ c = 2
          BY <1>4, <2>1, <2>2, <4>2 DEF c
        <5> QED BY <3>5, <5>1
      <4> QED BY <4>1, <4>2
    <3>7. /\ packet'[p] = [discont |-> FALSE, data |-> Head(ready)]
          /\ \A q \in Packets : q # p => packet'[q].data = packet[q].data /\ packet'[q].discont \in BOOLEAN
          /\ \A q \in Packets : q # p /\ q # Used[c + 1] => packet'[q] = packet[q]
          /\ packet'[Used[c + 1]].discont = TRUE
      <4>1. Used[c + 1] \in Packets /\ Used[c + 1] # p /\ Used[c + 1] \in Marked /\ \A q : q # Used[c + 1] => q \notin Marked
        BY <3>1, <3>3, <3>5
      <4> QED BY <1>7, <1>9, <3>1, <4>1
    <3>8. \A k \in 1 .. m : k < c => us[k] = Used[k] /\ us[k] # p /\ packet'[us[k]] = packet[us[k]]
      BY <2>4, <3>3, <3>4, <3>5, <3>7
    <3>9. \A k \in 1 .. m : k >= c => us[k] = Used[k + 1] /\ us[k] # p
      BY <2>4, <3>3, <3>4, <3>5
    <3>10. ASSUME NEW k \in 1 .. m, k > c PROVE packet'[us[k]] = packet[us[k]]
      <4>1. k >= c /\ k + 1 # c + 1 /\ k + 1 # c
        BY <2>4, <3>3, <3>4, <3>10
      <4>2. us[k] = Used[k + 1] /\ k + 1 \in 1 .. n
        BY <2>4, <3>3, <4>1
      <4> QED BY <3>5, <3>7, <4>1, <4>2
    <3>11. Gap(packet'[us[c]]) = 1
      <4>1. us[c] = Used[c + 1]
        BY <3>3, <3>4
      <4> QED BY <3>7, <4>1 DEF Gap
    <3>12. Lists(free', us)
      <4>1. \A k \in 1 .. n : k \in 1 .. m \/ k = n
        BY <1>2, <2>4
      <4>2. \A k \in 1 .. m : us[k] # p
        BY <3>3, <3>4, <3>8, <3>9
      <4>3. ASSUME NEW j \in 1 .. n, NEW k \in 1 .. n, us[j] = us[k] PROVE j = k
        <5>1. CASE j = n \/ k = n
          BY <3>3, <4>1, <4>2, <4>3, <5>1
        <5>2. CASE j \in 1 .. m /\ k \in 1 .. m
          <6>1. CASE j < c /\ k < c
            BY <1>3, <2>4, <3>3, <4>3, <5>2, <6>1
          <6>2. CASE j >= c /\ k >= c
            <7>1. j + 1 = k + 1
              BY <1>3, <2>4, <3>3, <4>3, <5>2, <6>2
            <7> QED BY <7>1
          <6>3. CASE (j < c /\ k >= c) \/ (j >= c /\ k < c)
            <7>1. j = k + 1 \/ j + 1 = k
              BY <1>3, <2>4, <3>3, <4>3, <5>2, <6>3
            <7> QED BY <1>3, <2>4, <3>3, <4>3, <5>2, <6>3, <7>1
          <6> QED BY <3>4, <6>1, <6>2, <6>3
        <5> QED BY <4>1, <5>1, <5>2
      <4>4. ASSUME NEW q \in Packets PROVE \E k \in 1 .. n : us[k] = q
        <5>1. PICK k \in 1 .. n : Used[k] = q
          BY <2>3
        <5>2. CASE k = c
          BY <2>2, <3>3, <5>1, <5>2
        <5>3. CASE k < c
          <6>1. k \in 1 .. m
            BY <2>4, <3>3, <5>3
          <6> QED BY <2>4, <3>3, <5>1, <5>3, <6>1
        <5>4. CASE k > c
          <6>1. k - 1 \in 1 .. m /\ k - 1 >= c /\ (k - 1) + 1 = k
            BY <2>4, <3>3, <3>4, <5>4
          <6>2. us[k - 1] = Used[(k - 1) + 1] /\ k - 1 \in 1 .. n
            BY <2>4, <3>3, <6>1
          <6> QED BY <5>1, <6>1, <6>2
        <5> QED BY <3>4, <5>2, <5>3, <5>4
      <4>5. free' = <<>> /\ Len(<<>>) = 0 /\ 1 .. 0 = {}
        BY <2>3
      <4> QED BY <3>3, <4>3, <4>4, <4>5 DEF Lists
    <3>13. c \in 1 .. m + 1 /\ Len(us) = m + 1 /\ us[m + 1] = p /\ held' = Len(us)
      BY <2>3, <2>4, <3>3, <3>4
    <3>14. m \in 0 .. Len(Used) /\ m < Len(Used) /\ free' \in Seq(Packets) /\ filled' \in Seq(Packets) /\ p \in Packets
           /\ us \in Seq(Packets) /\ Used' = us
      BY <2>4, <3>1, <3>2, <3>3
    <3>15. /\ packet'[p] = [discont |-> FALSE, data |-> Head(ready)]
           /\ \A q \in Packets : q # p => packet'[q].data = packet[q].data /\ packet'[q].discont \in BOOLEAN
      BY <3>7
    <3>16. \A k \in 1 .. m : k > c => packet'[us[k]] = packet[us[k]]
      BY <3>10
    <3> QED BY ONLY PInv, ReadPeriod, <3>6, <3>8, <3>9, <3>11, <3>12, <3>13, <3>14, <3>15, <3>16, TakeKeeps
  <2> QED BY <2>5, <2>6
<1> QED BY <1>8, <1>9

-----------------------------------------------------------------------------
(* The invariant.                                                          *)

\* The least of the periods is one of them.
LEMMA MinIs == Min(Periods) \in Periods
<1> DEFINE Less == {p \in Nat \X Nat : p[1] < p[2]}
<1>1. IsWellFoundedOn(Less, Nat)
  BY NatLessThanWellFounded, Zenon DEF OpToRel
<1> HIDE DEF Less
<1>2. Periods \subseteq Nat /\ Periods # {}
  BY PulseAssumption
<1>3. PICK y \in Periods : \A z \in Periods : <<z, y>> \notin Less
  BY <1>1, <1>2, WFMin
<1>4. ASSUME NEW z \in Periods PROVE y <= z
  <2>1. <<z, y>> \in Less <=> z < y
    BY <1>2 DEF Less
  <2> QED BY <1>2, <1>3, <2>1
<1> QED BY <1>4 DEF Min

\* The list of all packets has each of them once.
LEMMA AllPackets ==
  /\ SetToSeq(Packets) \in Seq(Packets)
  /\ Lists(SetToSeq(Packets), <<>>)
<1> DEFINE n == Cardinality(Packets)
           f == SetToSeq(Packets)
<1>1. IsFiniteSet(Packets) /\ n \in Nat /\ ExistsBijection(1 .. n, Packets)
  BY PulseAssumption, FS_CardinalityType
<1>2. f \in [1 .. n -> Packets] /\ IsInjective(f)
  <2>1. \E g \in [1 .. n -> Packets] : IsInjective(g)
    BY <1>1 DEF ExistsBijection, Bijection, Injection
  <2> QED BY <2>1 DEF SetToSeq
<1> HIDE DEF f
<1>3. \A q \in Packets : \E k \in 1 .. n : f[k] = q
  <2>1. IsFiniteSet(1 .. n) /\ Cardinality(1 .. n) = n
    BY <1>1, FS_Interval
  <2>2. f \in Injection(1 .. n, Packets)
    BY <1>2 DEF Injection
  <2>3. f \in Surjection(1 .. n, Packets)
    BY <1>1, <2>1, <2>2, FS_Injection
  <2> QED BY <2>3 DEF Surjection
<1>4. f \in Seq(Packets) /\ Len(f) = n
  BY <1>1, <1>2
<1>5. Lists(f, <<>>)
  <2>1. Len(<<>>) = 0 /\ 1 .. 0 = {}
    OBVIOUS
  <2>2. \A j, k \in 1 .. n : f[j] = f[k] => j = k
    BY <1>2 DEF IsInjective
  <2> QED BY <1>3, <1>4, <2>1, <2>2 DEF Lists
<1> QED BY <1>4, <1>5 DEF f

\* A stream that was made has nothing in its ring, and all its packets are free.
LEMMA InitPInv ==
  ASSUME Init
  PROVE  PInv
<1>1. RunTyped
  BY DEF Init, RunTyped
<1>2. RingTyped
  <2>1. local \in [0 .. Real - 1 -> 0 .. MaxFrames]
    BY Sizes DEF Init, Silence
  <2> QED BY <2>1, MinIs, Sizes DEF Init, RingTyped
<1>3. PacketsTyped
  <2>1. packet \in [Packets -> [discont : BOOLEAN, data : -1 .. MaxRecorded]]
    BY Sizes DEF Init
  <2>2. free \in Seq(Packets) /\ filled \in Seq(Packets) /\ ready \in Seq(0 .. MaxRecorded) /\ Len(ready) <= Backlog
    BY AllPackets, Sizes DEF Init
  <2> QED BY <2>1, <2>2, Sizes DEF Init, PacketsTyped
<1>4. RingOK /\ GivenOK
  BY Sizes DEF Init, RingOK, GivenOK, Cells
<1>5. Used = <<>> /\ Len(Used) = 0
  BY DEF Init, Used, ListOf
<1>6. ListsOK
  BY <1>5, AllPackets DEF Init, ListsOK
<1>7. OrderOK /\ SourceOK
  <2>1. Len(ready) = 0 /\ clock = 0 /\ recorded = 0 /\ 1 .. 0 = {}
    BY DEF Init
  <2> QED BY <1>5, <2>1 DEF OrderOK, SourceOK, InOrder, Behind
<1> QED BY <1>1, <1>2, <1>3, <1>4, <1>6, <1>7 DEF Init, PInv, Typed, ReadOK

\* Every step keeps the invariant.
LEMMA NextPInv ==
  ASSUME PInv, [Next]_vars
  PROVE  PInv'
<1>1. ASSUME NEW frames \in 1 .. BufSize, GetRenderBuffer(frames) PROVE PInv'
  BY <1>1, GetRenderStep
<1>2. ASSUME NEW written \in 1 .. BufSize, NEW silent \in BOOLEAN, NEW room \in Room,
             ReleaseRenderBuffer(written, silent, room)
      PROVE  PInv'
  BY <1>2, ReleaseRenderStep
<1>3. CASE ReleaseNothing
  BY <1>3, ReleaseNothingStep
<1>4. CASE CapturePadding \/ GetCaptureBuffer
  BY <1>4, PaddingStep
<1>5. ASSUME NEW done \in BOOLEAN, ReleaseCaptureBuffer(done) PROVE PInv'
  BY <1>5, ReleaseCaptureStep
<1>6. ASSUME NEW room \in Room, Start(room) PROVE PInv'
  BY <1>6, StartStep
<1>7. CASE Stop \/ SetSampleRate \/ Quit \/ Release \/ Fail \/ CreateTimer \/ TimerChecks \/ TimerIdles
  BY <1>7, ControlSteps
<1>8. CASE Reset
  <2>1. held > 0 \/ held = 0
    BY <1>8 DEF Reset, Render, PInv, RingOK
  <2> QED BY <1>8, <2>1, ControlSteps, EmptySteps
<1>9. CASE ResetCapture
  BY <1>9, ResetCaptureStep
<1>10. ASSUME NEW success \in BOOLEAN, Uncorked(success) \/ Corked(success) PROVE PInv'
  BY <1>10, ControlSteps
<1>11. ASSUME NEW success \in BOOLEAN, Flushed(success) PROVE PInv'
  BY <1>11, EmptySteps
<1>12. ASSUME NEW success \in BOOLEAN, NEW frames \in Periods, RateSet(success, frames) PROVE PInv'
  BY <1>12, EmptySteps
<1>13. ASSUME NEW frames \in Periods, RateFlushed(frames) PROVE PInv'
  BY <1>13, EmptySteps
<1>14. ASSUME NEW room \in Room, TimerWrites(room) PROVE PInv'
  BY <1>14, TimerWritesStep
<1>15. CASE TimerReads
  BY <1>15, TimerReadsStep
<1>16. CASE ReadPeriod
  BY <1>16, TakeStep
<1>17. CASE Record
  BY <1>17, RecordStep
<1>18. CASE UNCHANGED vars
  <2>1. UNCHANGED <<flow, buffer, render, capture>> /\ UNCHANGED <<good, corked, started, quit, control, timer>>
    BY <1>18 DEF vars, run
  <2>2. RunTyped'
    BY <2>1 DEF PInv, Typed, RunTyped
  <2>3. flow = "render" /\ control' \in {"flush", "rate", "rateFlush"} => locked = 0
    BY <2>1 DEF PInv, GivenOK
  <2> QED BY <2>1, <2>2, <2>3, Controls
<1> QED
  BY <1>1, <1>2, <1>3, <1>4, <1>5, <1>6, <1>7, <1>8, <1>9, <1>10, <1>11, <1>12, <1>13, <1>14, <1>15, <1>16, <1>17, <1>18
  DEF Next, Complete, Timer

\* The invariant gives what the program and the sound server are promised of the ring.
LEMMA PInvRing == PInv => RingExact
<1> SUFFICES ASSUME PInv PROVE RingExact
  OBVIOUS
<1>1. flow \in {"render", "capture"} /\ RunTyped /\ RingTyped /\ PacketsTyped
  BY PulseAssumption DEF PInv, Typed, RunTyped
<1>2. locked \in - BufSize .. BufSize /\ held \in Nat
  <2>1. CASE flow = "render"
    <3>1. held \in 0 .. BufSize /\ BufSize \in Nat
      BY <2>1, Sizes DEF PInv, RingOK
    <3> QED BY <2>1, <3>1 DEF PInv, GivenOK
  <2>2. CASE flow = "capture"
    <3>1. 0 \in - BufSize .. BufSize /\ 1 \in - BufSize .. BufSize
      BY Sizes
    <3>2. held \in Nat
      BY <1>1, <2>2, UsedTyped DEF PInv, ListsOK
    <3> QED BY <2>2, <3>1, <3>2 DEF PInv, ListsOK
  <2> QED BY <1>1, <2>1, <2>2
<1>3. TypeOK
  BY <1>1, <1>2 DEF TypeOK, RunTyped, RingTyped, PacketsTyped
<1>4. CASE flow = "render"
  <2>1. held <= BufSize /\ Pos(lcl + held) = Pos(pa_offs + pa_held) /\ heard <= released - pa_held
        /\ Cells(local, pa_offs, pa_held, released)
    BY <1>4, Sizes DEF PInv, RingOK
  <2> QED BY <1>3, <2>1 DEF RingExact, Cells
<1> QED BY <1>1, <1>3, <1>4 DEF RingExact

\* And of the packets.
LEMMA PInvCapture == PInv => CaptureExact
<1> SUFFICES ASSUME PInv PROVE CaptureExact
  OBVIOUS
<1>1. CASE flow = "render"
  BY <1>1 DEF PInv, CaptureExact, PacketsExact, ClockNeverAhead
<1>2. CASE flow = "capture"
  <2> DEFINE n == Len(Used)
             d(k) == Recs[k].data
             all == free \o Used
  <2>1. /\ PacketsTyped /\ ListsOK /\ OrderOK /\ Used \in Seq(Packets) /\ n \in Nat /\ Recs \in [1 .. n -> Rec]
        /\ free \in Seq(Packets) /\ locked_ptr \in Packets \cup {NoPacket} /\ filled \in Seq(Packets) /\ clock \in Nat
    BY <1>2, UsedTyped DEF PInv, Typed, RingTyped, PacketsTyped
  <2>2. /\ \A k \in 1 .. n : d(k) \in Int /\ Gap(Recs[k]) \in {0, 1}
        /\ \A j, k \in 1 .. n : j < k => d(j) + (k - j) + Gap(Recs[k]) <= d(k)
        /\ n # 0 => clock + Gap(Recs[1]) <= d(1)
    BY <2>1, GapIs DEF OrderOK, InOrder
  <2>3. \A k \in 1 .. n : d(k) = packet[Used[k]].data
    BY DEF Recs
  <2>4. Lists(free, Used) /\ held = n /\ (locked = 1 => packet[locked_ptr].data = given)
    BY <2>1 DEF ListsOK
  <2> HIDE DEF d
  <2>5. \A j, k \in 1 .. n : j < k => d(j) < d(k)
    <3> SUFFICES ASSUME NEW j \in 1 .. n, NEW k \in 1 .. n, j < k PROVE d(j) < d(k)
      OBVIOUS
    <3>1. d(j) + (k - j) + Gap(Recs[k]) <= d(k) /\ d(j) \in Int /\ d(k) \in Int /\ Gap(Recs[k]) \in {0, 1}
          /\ k - j \in Nat /\ k - j >= 1
      BY <2>1, <2>2
    <3> QED BY <3>1
  <2>6. IsInjective(all) /\ ToSet(all) = Packets
    <3> DEFINE f == Len(free)
    <3>1. /\ f \in Nat /\ Len(all) = f + n /\ DOMAIN all = 1 .. f + n /\ (\A j \in 1 .. f : all[j] = free[j])
          /\ \A j \in 1 .. f + n : j \notin 1 .. f => j - f \in 1 .. n /\ all[j] = Used[j - f]
          /\ \A k \in 1 .. n : f + k \in 1 .. f + n /\ all[f + k] = Used[k]
          /\ \A j \in 1 .. f : j \in 1 .. f + n
          /\ \A j \in 1 .. f + n : all[j] \in Packets
      BY <2>1
    <3>2. /\ \A j, k \in 1 .. f : free[j] = free[k] => j = k
          /\ \A j, k \in 1 .. n : Used[j] = Used[k] => j = k
          /\ \A j \in 1 .. f, k \in 1 .. n : free[j] # Used[k]
          /\ \A p \in Packets : (\E j \in 1 .. f : free[j] = p) \/ (\E k \in 1 .. n : Used[k] = p)
      BY <2>4 DEF Lists
    <3> HIDE DEF f, n, all
    <3>3. ASSUME NEW j \in 1 .. f + n, NEW k \in 1 .. f + n, all[j] = all[k] PROVE j = k
      <4>1. CASE j \in 1 .. f /\ k \in 1 .. f
        BY <3>1, <3>2, <3>3, <4>1
      <4>2. CASE j \notin 1 .. f /\ k \notin 1 .. f
        <5>1. j - f = k - f
          BY <3>1, <3>2, <3>3, <4>2
        <5> QED BY <2>1, <3>1, <5>1
      <4>3. CASE j \in 1 .. f /\ k \notin 1 .. f
        BY <3>1, <3>2, <3>3, <4>3
      <4>4. CASE j \notin 1 .. f /\ k \in 1 .. f
        BY <3>1, <3>2, <3>3, <4>4
      <4> QED BY <4>1, <4>2, <4>3, <4>4
    <3>4. ASSUME NEW p \in Packets PROVE \E j \in 1 .. f + n : all[j] = p
      BY <3>1, <3>2
    <3>5. IsInjective(all)
      BY <3>1, <3>3 DEF IsInjective
    <3>6. ToSet(all) = Packets
      BY <3>1, <3>4 DEF ToSet
    <3> QED BY <3>5, <3>6
  <2>7. PacketsExact
    <3>1. Used = (IF locked_ptr = NoPacket THEN <<>> ELSE <<locked_ptr>>) \o filled
      BY DEF Used, ListOf
    <3>2. \A i, j \in DOMAIN Used : i < j => packet[Used[i]].data < packet[Used[j]].data
      BY <2>1, <2>3, <2>5
    <3> QED BY <2>4, <2>6, <3>1, <3>2 DEF PacketsExact
  <2>8. ClockNeverAhead
    <3> SUFFICES ASSUME locked_ptr # NoPacket PROVE Devpos <= packet[locked_ptr].data
      BY DEF ClockNeverAhead
    <3>1. n # 0 /\ 1 \in 1 .. n /\ Used[1] = locked_ptr
      <4>1. Len(filled) \in Nat
        BY <2>1
      <4>2. Len(Used) = Len(filled) + 1 /\ Used[1] = locked_ptr
        BY <2>1, ListIs, Zenon DEF Used
      <4>3. n = Len(filled) + 1
        BY <4>2
      <4> QED BY <4>1, <4>2, <4>3
    <3>2. Recs[1] = packet[locked_ptr]
      BY <3>1 DEF Recs
    <3>3. clock + Gap(Recs[1]) <= d(1) /\ d(1) = packet[locked_ptr].data
      BY <2>2, <2>3, <3>1
    <3> QED BY <2>1, <3>2, <3>3 DEF Devpos, Gap
  <2> QED BY <2>7, <2>8 DEF CaptureExact
<1> QED BY <1>1, <1>2, PulseAssumption DEF PInv, Typed, RunTyped

\* The invariant holds in every reachable state.
LEMMA PInvAlways == Spec => []PInv
  BY InitPInv, NextPInv, PTL DEF Spec

\* The two readers of the ring end at the same place, and the sound server gets what the program
\* released, in order and once, or silence: whatever the server takes and whenever the stream is
\* started, stopped, reset or given another rate (11_17pulse.c).
THEOREM RingIsExact == Spec => []RingExact
  BY PInvAlways, PInvRing, PTL

\* No packet is lost or in two lists, the program gets the periods in the order they were
\* recorded and keeps the packet it was given, and the position it is told is never past it,
\* also when the oldest packets are overwritten (11_17pulse.c).
THEOREM CaptureIsExact == Spec => []CaptureExact
  BY PInvAlways, PInvCapture, PTL
=============================================================================
