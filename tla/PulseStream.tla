---------------------------- MODULE PulseStream -----------------------------
(***************************************************************************)
(* One stream of the PulseAudio driver (dlls/winepulse.drv/11_17pulse.c):  *)
(* the program's calls on it, its timer thread and the sound server. Every *)
(* call runs under one lock, which it gives up where it waits for an       *)
(* operation of the sound server to complete: what the code does between   *)
(* two such waits is one action.                                           *)
(*                                                                         *)
(* A frame is one unit. A frame that is played is the number it had among  *)
(* those the program has released, a period that is captured the number it *)
(* had among those that were recorded.                                     *)
(***************************************************************************)
EXTENDS Integers, Sequences, FiniteSets, SequencesExt, FiniteSetsExt

CONSTANTS
  Flows,        \* a subset of {"render", "capture"}
  BufSize,      \* stream->bufsize_frames of a stream that renders
  Periods,      \* the periods the sample rates of such a stream give, in frames
  Packets,      \* the packets of a stream that captures
  MaxFrames,    \* bound: frames released since the last reset
  MaxRecorded,  \* bound: periods recorded
  Rooms,        \* what pa_stream_writable_size may say, in frames
  Backlog       \* what the sound server keeps of a recording, in periods

Real == 2 * BufSize   \* real_bufsize_bytes
Silence == 0
NoPacket == 0

\* The ring takes twice what the program may have in it; of the packets at least three are
\* made, as the caller asks for a duration of three periods or more.
ASSUME PulseAssumption ==
  /\ Flows \subseteq {"render", "capture"} /\ BufSize \in Nat \ {0} /\ Periods \subseteq 1 .. BufSize /\ Periods # {}
  /\ Packets \subseteq Nat \ {0} /\ IsFiniteSet(Packets) /\ Cardinality(Packets) >= 3
  /\ MaxFrames \in Nat /\ MaxRecorded \in Nat /\ Backlog \in Nat \ {0}
  /\ Rooms \subseteq Nat

VARIABLES
  flow,                     \* stream->dataflow
  good,                     \* the stream is PA_STREAM_READY
  corked, started, quit,    \* please_quit
  control,                  \* where the thread that starts and stops the stream is
  timer,                    \* where the timer thread is
  locked, held, clock,      \* clock_written
  local, lcl, pa_offs, pa_held, period,  \* of a stream that renders
  released, heard,          \* ghosts: the last frame released, the last one the server was given
  packet, free, filled, locked_ptr,                 \* of a stream that captures
  left,                     \* how many periods pulse_read has still to take
  recorded, ready,          \* the sound server: the periods recorded, those it has still
  given                     \* ghost: what the packet held that the program has got

ring == <<local, lcl, pa_offs, pa_held, released, heard>>
render == <<ring, period>>
packets == <<packet, free, filled, locked_ptr, given>>
source == <<recorded, ready>>
capture == <<packets, left, source>>
buffer == <<locked, held, clock>>
run == <<corked, started, quit, control, timer>>
vars == <<flow, good, run, buffer, render, capture>>

\* pulse_create_stream
Init ==
  /\ flow \in Flows /\ good = TRUE
  /\ corked = TRUE /\ started = FALSE /\ quit = FALSE /\ control = "idle" /\ timer = "none"
  /\ locked = 0 /\ held = 0 /\ clock = 0
  /\ local = [i \in 0 .. Real - 1 |-> Silence] /\ lcl = 0 /\ pa_offs = 0 /\ pa_held = 0
  /\ period = Min(Periods) /\ released = 0 /\ heard = 0
  /\ packet = [p \in Packets |-> [discont |-> FALSE, data |-> -1]]
  /\ free = SetToSeq(Packets) /\ filled = <<>> /\ locked_ptr = NoPacket /\ given = -1
  /\ left = 0 /\ recorded = 0 /\ ready = <<>>

\* pulse_lock: nobody is between two steps of pulse_read. A stream that was released is
\* used no more.
Lock == timer # "read" /\ control # "freed"
Render == Lock /\ flow = "render"
Capture == Lock /\ flow = "capture"

----------------------------------------------------------------------------
\* pulse_write: what the server has room for goes to it. Of a stream that is gone it is lost.
\* The silence that goes first after an underrun leaves all of this as it is.
Pos(i) == i % Real
Room == IF good THEN Rooms ELSE {Real}
Write(room, cells, offs, n_held) ==
  LET n == Min({room, n_held})
  IN /\ pa_offs' = Pos(offs + n) /\ pa_held' = n_held - n
     /\ heard' = IF good THEN Max({heard} \cup {cells[Pos(offs + i)] : i \in 0 .. n - 1}) ELSE heard

\* The place of what the program writes next.
Wri == Pos(lcl + held)
\* What of the ring the program has been given to write in.
HandedOut == {Pos(Wri + i) : i \in 0 .. locked - 1}

\* Nothing in the driver keeps a program from resetting a stream, or changing its rate,
\* while it has the buffer of it: one thread asks for the buffer while the other waits in
\* such a call, or the rate is changed after it was given. Programs do not.
Steady == control \notin {"flush", "rate", "rateFlush"}

\* pulse_get_render_buffer: the frames are silent, in the ring or, when they would go past
\* its end, in a buffer of their own (locked < 0).
GetRenderBuffer(frames) ==
  /\ Render /\ good /\ locked = 0 /\ Steady
  /\ held + frames <= BufSize
  /\ IF Wri + frames > Real
     THEN locked' = - frames /\ UNCHANGED local
     ELSE /\ locked' = frames
          /\ local' = [i \in DOMAIN local |-> IF i \in Wri .. Wri + frames - 1 THEN Silence ELSE local[i]]
  /\ UNCHANGED <<flow, good, run, held, clock, lcl, pa_offs, pa_held, released, heard, period, capture>>

\* What the program wrote, in the ring.
Filled(written, silent) ==
  [i \in DOMAIN local |->
     IF \E k \in 0 .. written - 1 : i = Pos(Wri + k)
     THEN IF silent THEN Silence
          ELSE released + 1 + CHOOSE k \in 0 .. written - 1 : i = Pos(Wri + k)
     ELSE local[i]]

\* A mutant: what the server has not taken is written over, and it goes on from there.
ReleaseOverrun(written, silent, room) ==
  /\ Render /\ locked # 0 /\ written \in 1 .. Max({locked, - locked})
  /\ released + written <= MaxFrames
  /\ local' = Filled(written, silent)
  /\ Write(room, local', pa_offs, Min({pa_held + written, Real}))
  /\ held' = held + written /\ clock' = clock + written /\ locked' = 0 /\ released' = released + written
  /\ UNCHANGED <<flow, good, run, lcl, period, capture>>

\* pulse_release_render_buffer. When the ring is full of what the server has not taken, the
\* oldest frames are given up.
ReleaseRenderBuffer(written, silent, room) ==
  /\ Render /\ locked # 0 /\ written \in 1 .. Max({locked, - locked})
  /\ released + written <= MaxFrames
  /\ local' = Filled(written, silent)
  /\ LET excess == Max({pa_held + written - Real, 0})
     IN Write(room, local', Pos(pa_offs + excess), pa_held + written - excess)
  /\ held' = held + written /\ clock' = clock + written /\ locked' = 0 /\ released' = released + written
  /\ UNCHANGED <<flow, good, run, lcl, period, capture>>

\* The same with no frames written.
ReleaseNothing ==
  /\ Render /\ locked # 0 /\ locked' = 0
  /\ UNCHANGED <<flow, good, run, held, clock, render, capture>>

----------------------------------------------------------------------------
\* pulse_capture_padding: the oldest packet is taken out of the list.
\* It runs in pulse_get_current_padding and pulse_get_next_packet_size.
CapturePadding ==
  /\ Capture /\ locked_ptr = NoPacket /\ filled # <<>>
  /\ locked_ptr' = Head(filled) /\ filled' = Tail(filled)
  /\ UNCHANGED <<flow, good, run, buffer, render, packet, free, given, left, source>>

\* pulse_get_capture_buffer
GetCaptureBuffer ==
  /\ Capture /\ good /\ locked = 0 /\ (locked_ptr # NoPacket \/ filled # <<>>)
  /\ IF locked_ptr = NoPacket
     THEN locked_ptr' = Head(filled) /\ filled' = Tail(filled)
     ELSE UNCHANGED <<locked_ptr, filled>>
  /\ locked' = 1 /\ given' = packet[locked_ptr'].data
  /\ UNCHANGED <<flow, good, run, held, clock, render, packet, free, left, source>>

\* Where the packet the program gets is, in all that was recorded (devpos).
Devpos == IF packet[locked_ptr].discont THEN clock + 1 ELSE clock

\* pulse_release_capture_buffer, of the packet or of nothing.
ReleaseCaptureBuffer(done) ==
  /\ Capture /\ locked = 1 /\ locked' = 0
  /\ IF done
     THEN /\ held' = held - 1 /\ clock' = Devpos + 1
          /\ free' = Append(free, locked_ptr) /\ locked_ptr' = NoPacket
     ELSE UNCHANGED <<held, clock, free, locked_ptr>>
  /\ UNCHANGED <<flow, good, run, render, packet, filled, given, left, source>>

\* The packet pulse_read takes for a period, when no packet is free: the oldest one, and the
\* next is marked; or, when it is marked itself, the newest one.
Overwritten == IF packet[Head(filled)].discont THEN Last(filled) ELSE Head(filled)
Marked == IF packet[Head(filled)].discont THEN {} ELSE {filled[2]}

\* The list without that packet, which is its head or its tail.
Kept == IF free # <<>> THEN filled ELSE IF packet[Head(filled)].discont THEN Front(filled) ELSE Tail(filled)

\* A mutant: the packet keeps the mark it had.
TakeMarked ==
  LET p == IF free # <<>> THEN Head(free) ELSE Overwritten
  IN /\ packet' = [q \in Packets |->
                     IF q = p THEN [packet[q] EXCEPT !.data = Head(ready)]
                     ELSE IF free = <<>> /\ q \in Marked THEN [packet[q] EXCEPT !.discont = TRUE]
                     ELSE packet[q]]
     /\ free' = IF free = <<>> THEN free ELSE Tail(free)
     /\ held' = IF free = <<>> THEN held ELSE held + 1
     /\ filled' = Append(Kept, p)

\* One period of pulse_read's loop, of a stream that is started.
Take ==
  LET p == IF free # <<>> THEN Head(free) ELSE Overwritten
  IN /\ packet' = [q \in Packets |->
                     IF q = p THEN [discont |-> FALSE, data |-> Head(ready)]
                     ELSE IF free = <<>> /\ q \in Marked THEN [packet[q] EXCEPT !.discont = TRUE]
                     ELSE packet[q]]
     /\ free' = IF free = <<>> THEN free ELSE Tail(free)
     /\ held' = IF free = <<>> THEN held ELSE held + 1
     /\ filled' = Append(Kept, p)

----------------------------------------------------------------------------
Goes(to) == control' = to /\ UNCHANGED <<flow, good, corked, started, quit, timer, buffer, render, capture>>

\* pulse_start, up to where it waits for the stream to be uncorked. What it writes for a
\* stream that captures is nothing.
Start(room) ==
  /\ Lock /\ control = "idle" /\ good /\ ~started
  /\ Write(room, local, pa_offs, pa_held)
  /\ IF corked THEN control' = "uncork" /\ UNCHANGED started ELSE control' = "thread" /\ started' = TRUE
  /\ UNCHANGED <<flow, good, corked, quit, timer, buffer, local, lcl, released, period, capture>>

\* The operation was carried out or not, as far as the code can tell: where it was given up,
\* success was never set.
Uncorked(success) ==
  /\ Lock /\ control = "uncork" /\ control' = "thread"
  /\ corked' = (corked /\ ~success) /\ started' = success
  /\ UNCHANGED <<flow, good, quit, timer, buffer, render, capture>>

\* The lock has been given up, and the timer thread is made, also where the start failed.
CreateTimer ==
  /\ control = "thread" /\ control' = "idle" /\ timer' = IF timer = "none" THEN "check" ELSE timer
  /\ UNCHANGED <<flow, good, corked, started, quit, buffer, render, capture>>

\* pulse_stop: a stream that captures goes on recording.
Stop ==
  /\ Lock /\ control = "idle" /\ good /\ started
  /\ IF flow = "render" THEN control' = "cork" /\ UNCHANGED started ELSE started' = FALSE /\ UNCHANGED control
  /\ UNCHANGED <<flow, good, corked, quit, timer, buffer, render, capture>>

Corked(success) ==
  /\ Lock /\ control = "cork" /\ control' = "idle"
  /\ corked' = (corked \/ success) /\ started' = (started /\ ~success)
  /\ UNCHANGED <<flow, good, quit, timer, buffer, render, capture>>

Empty ==
  /\ held' = 0 /\ clock' = 0 /\ lcl' = 0 /\ pa_offs' = 0 /\ pa_held' = 0
  /\ released' = 0 /\ heard' = 0

\* pulse_reset of a stream that renders: what the server has of it is flushed.
Reset ==
  /\ Render /\ control = "idle" /\ good /\ ~started /\ locked = 0
  /\ IF held > 0 THEN Goes("flush")
     ELSE /\ Empty
          /\ UNCHANGED <<flow, good, run, locked, local, period, capture>>

Flushed(success) ==
  /\ Render /\ control = "flush" /\ control' = "idle"
  /\ IF success \/ held = 0 THEN Empty ELSE UNCHANGED <<held, clock, lcl, pa_offs, pa_held, released, heard>>
  /\ UNCHANGED <<flow, good, corked, started, quit, timer, locked, local, period, capture>>

\* pulse_reset of a stream that captures.
ResetCapture ==
  /\ Capture /\ control = "idle" /\ good /\ ~started /\ locked = 0
  /\ clock' = clock + held /\ held' = 0
  /\ free' = free \o (IF locked_ptr = NoPacket THEN <<>> ELSE <<locked_ptr>>) \o filled
  /\ locked_ptr' = NoPacket /\ filled' = <<>>
  /\ UNCHANGED <<flow, good, run, locked, render, packet, given, left, source>>

\* pulse_set_sample_rate: the server takes the rate, what it has is flushed, whether that
\* succeeds or not, and all the ring is silent.
SetSampleRate == Render /\ control = "idle" /\ good /\ locked = 0 /\ Goes("rate")

Emptied(frames) ==
  /\ Empty /\ period' = frames /\ local' = [i \in DOMAIN local |-> Silence] /\ control' = "idle"
  /\ UNCHANGED <<flow, good, corked, started, quit, timer, locked, capture>>

RateSet(success, frames) ==
  /\ Render /\ control = "rate"
  /\ CASE ~success -> Goes("idle")
       [] success /\ held > 0 -> Goes("rateFlush")
       [] success /\ held = 0 -> Emptied(frames)

RateFlushed(frames) == Render /\ control = "rateFlush" /\ Emptied(frames)

\* pulse_release_stream: without the lock it asks the timer thread to end and waits for it.
Quit ==
  /\ control = "idle" /\ locked = 0 /\ timer # "none" /\ quit' = TRUE /\ control' = "join"
  /\ UNCHANGED <<flow, good, corked, started, timer, buffer, render, capture>>

Release ==
  /\ \/ control = "idle" /\ locked = 0 /\ timer = "none"
     \/ control = "join" /\ timer = "gone"
  /\ good' = FALSE /\ control' = "freed"
  /\ UNCHANGED <<flow, corked, started, quit, timer, buffer, render, capture>>

----------------------------------------------------------------------------
\* pulse_timer_loop: the thread looks whether it is to end, sleeps, and waits for the server
\* to say how far it is.
TimerChecks ==
  /\ timer = "check" /\ timer' = IF quit THEN "gone" ELSE "update"
  /\ UNCHANGED <<flow, good, corked, started, quit, control, buffer, render, capture>>

\* A mutant: the program's part of the ring advances with the server.
AdvancesWithServer == held' = Min({held, pa_held'}) /\ lcl' = Pos(lcl + held - Min({held, pa_held'}))

\* Whatever the server does, the program's part advances by a period.
Advances ==
  LET adv == Min({period, held})
  IN lcl' = Pos(lcl + adv) /\ held' = held - adv

TimerWrites(room) ==
  /\ timer = "update" /\ Render /\ good /\ started /\ held > 0
  /\ Write(room, local, pa_offs, pa_held)
  /\ Advances /\ timer' = "check"
  /\ UNCHANGED <<flow, good, corked, started, quit, control, locked, clock, local, released, period, capture>>

\* pulse_read takes what the server has now.
TimerReads ==
  /\ timer = "update" /\ Capture /\ good /\ started
  /\ left' = Len(ready) /\ timer' = IF ready = <<>> THEN "check" ELSE "read"
  /\ UNCHANGED <<flow, good, corked, started, quit, control, buffer, render, packets, source>>

TimerIdles ==
  /\ timer = "update" /\ Lock
  /\ ~good \/ ~started \/ (flow = "render" /\ held = 0)
  /\ timer' = "check"
  /\ UNCHANGED <<flow, good, corked, started, quit, control, buffer, render, capture>>

ReadPeriod ==
  /\ timer = "read" /\ Take
  /\ ready' = Tail(ready) /\ left' = left - 1 /\ timer' = IF left = 1 THEN "check" ELSE timer
  /\ UNCHANGED <<flow, good, corked, started, quit, control, locked, clock, render, locked_ptr, given, recorded>>

Timer == TimerChecks \/ (\E room \in Room : TimerWrites(room)) \/ TimerReads \/ TimerIdles \/ ReadPeriod

----------------------------------------------------------------------------
\* The sound server records a period, and keeps it if there is room.
Record ==
  /\ Capture /\ good /\ ~corked /\ recorded < MaxRecorded
  /\ recorded' = recorded + 1
  /\ ready' = IF Len(ready) < Backlog THEN Append(ready, recorded) ELSE ready
  /\ UNCHANGED <<flow, good, run, buffer, render, packets, left>>

\* The connection to the sound server fails.
Fail ==
  /\ Lock /\ good /\ good' = FALSE
  /\ UNCHANGED <<flow, run, buffer, render, capture>>

Complete ==
  \/ \E success \in BOOLEAN : Uncorked(success) \/ Corked(success) \/ Flushed(success)
  \/ \E success \in BOOLEAN, frames \in Periods : RateSet(success, frames)
  \/ \E frames \in Periods : RateFlushed(frames)
  \/ CreateTimer

Next ==
  \/ \E frames \in 1 .. BufSize : GetRenderBuffer(frames)
  \/ \E written \in 1 .. BufSize, silent \in BOOLEAN, room \in Room : ReleaseRenderBuffer(written, silent, room)
  \/ ReleaseNothing
  \/ CapturePadding
  \/ GetCaptureBuffer
  \/ \E done \in BOOLEAN : ReleaseCaptureBuffer(done)
  \/ \E room \in Room : Start(room)
  \/ Stop
  \/ Reset
  \/ ResetCapture
  \/ SetSampleRate
  \/ Complete
  \/ Quit
  \/ Release
  \/ Timer
  \/ Record
  \/ Fail

Spec == Init /\ [][Next]_vars

\* The threads run, and the sound server completes or gives up what it is asked for.
FairSpec == Spec /\ WF_vars(Timer) /\ WF_vars(Complete)

----------------------------------------------------------------------------
TypeOK ==
  /\ flow \in Flows /\ good \in BOOLEAN /\ corked \in BOOLEAN /\ started \in BOOLEAN /\ quit \in BOOLEAN
  /\ control \in {"idle", "uncork", "thread", "cork", "flush", "rate", "rateFlush", "join", "freed"}
  /\ timer \in {"none", "check", "update", "read", "gone"}
  /\ locked \in - BufSize .. BufSize /\ held \in Nat /\ clock \in Nat
  /\ local \in [0 .. Real - 1 -> 0 .. MaxFrames] /\ lcl \in 0 .. Real - 1 /\ pa_offs \in 0 .. Real - 1
  /\ pa_held \in 0 .. Real /\ period \in Periods
  /\ packet \in [Packets -> [discont : BOOLEAN, data : -1 .. MaxRecorded]]
  /\ left \in 0 .. Backlog

\* The ring has two readers, the clock the program is told of and the sound server, which may
\* be ahead of it or behind. They end at the same place; what the server has still to get is
\* the last frames the program has released, in order, none of which it had; silence where
\* they were released as silence or where the program has been given their place since.
RingExact ==
  /\ TypeOK
  /\ flow = "render" =>
       /\ held <= BufSize /\ Pos(lcl + held) = Pos(pa_offs + pa_held)
       /\ heard <= released - pa_held
       /\ \A i \in 0 .. pa_held - 1 :
            Pos(pa_offs + i) \notin HandedOut => local[Pos(pa_offs + i)] \in {Silence, released - pa_held + i + 1}

\* Every packet is in one list or with the program, which is told of all that are not free,
\* and has in its packet what it was given. The lists keep what was recorded in order.
PacketsExact ==
  flow = "capture" =>
    LET out == IF locked_ptr = NoPacket THEN <<>> ELSE <<locked_ptr>>
        used == out \o filled
    IN /\ IsInjective(free \o used) /\ ToSet(free \o used) = Packets
       /\ held = Len(used)
       /\ \A i, j \in DOMAIN used : i < j => packet[used[i]].data < packet[used[j]].data
       /\ locked = 1 => packet[locked_ptr].data = given

\* The position that goes with a packet is never past where the packet was recorded, though
\* a discontinuity counts as one period however long it was.
ClockNeverAhead == locked_ptr # NoPacket => Devpos <= packet[locked_ptr].data

\* What the program gets of a recording is exact: the two parts above.
CaptureExact == PacketsExact /\ ClockNeverAhead

Runs == good /\ started /\ ~quit

\* While a stream runs, its program gets room for more or what was recorded, also when the
\* sound server takes nothing.
Served ==
  /\ Runs /\ flow = "render" /\ held = BufSize ~> ~Runs \/ held < BufSize
  /\ Runs /\ ready # <<>> ~> ~Runs \/ held > 0
=============================================================================
