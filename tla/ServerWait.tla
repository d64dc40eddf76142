----------------------------- MODULE ServerWait -----------------------------
(***************************************************************************)
(* Waits in the wineserver (server/thread_pro11.c) and in the client       *)
(* (server_select of dlls/ntdll/unix/server_pro11.c): the stack of waits   *)
(* of a thread, suspension and contexts, user and system APCs, timers, and *)
(* the replies on the wait pipe.                                           *)
(*                                                                         *)
(* The server is one thread and handles one request at a time.  What a     *)
(* request does to other threads, the loops of wake_up and wake_thread, is *)
(* the agenda: the server takes no request before it is done with it.      *)
(***************************************************************************)
EXTENDS Integers, Sequences, FiniteSets, SequencesExt

CONSTANTS
    Threads,     \* the threads of the process
    Callers,     \* threads of other processes that queue system APCs to it
    Objects,     \* objects with a server-side sync
    AutoReset,   \* those a satisfied wait resets
    Calls,       \* what each thread may call: the arguments of server_wait
    MaxSuspend,  \* MAXIMUM_SUSPEND_COUNT
    MaxUserApcs, \* bound on the user APCs of a thread
    Done,        \* what others may do to each thread: suspend, set registers, ...
    Nothing      \* no object, no caller

\* The deadline of a wait: it has none, it is to come, it is over.
DeadlineStates == {"never", "ahead", "passed"}

Args == [objs : Seq(Objects), all : BOOLEAN, signal : Objects \union {Nothing},
         alertable : BOOLEAN, deadline : DeadlineStates]

ASSUME ConstantsAssumption ==
    /\ AutoReset \subseteq Objects
    /\ Nothing \notin Objects \union Callers
    /\ \A t \in Threads : Calls[t] \subseteq Args /\ Done[t] \subseteq {"suspend", "set", "apc", "kill"}
    /\ MaxSuspend \in Nat \ {0} /\ MaxUserApcs \in Nat

VARIABLES
    \* the server
    signaled,  \* the objects that are signaled
    alive,     \* the threads that are not TERMINATED
    waits,     \* thread->wait, the innermost wait first
    timer,     \* wait->user: the timer of the thread's wait is armed
    suspend,   \* thread->suspend
    context,   \* the status of thread->context: "none", "pending" or "ready"
    edited,    \* its regs flags: another thread has set registers
    userApcs,  \* length of thread->user_apc
    systemApcs,\* thread->system_apc: the callers, in order
    apc,       \* where a caller's APC is
    agenda,    \* the threads the server has still to wake if their waits are satisfied
    \* between them
    pipe,      \* the replies in the thread's wait_fd
    signal,    \* SIGUSR1 is pending
    \* the client
    call,      \* the arguments of the thread's wait
    at,        \* where its two possible frames of server_select are
    held,      \* wait_select_reply's replies for another frame
    running    \* the APC the thread runs, apc_handle

objects == <<signaled, userApcs>>
thread  == <<alive, suspend, edited, context>>
apcs    == <<systemApcs, apc, running>>
client  == <<call, at, held>>
vars    == <<objects, thread, apcs, client, waits, timer, agenda, pipe, signal>>

\* The frames of server_select a thread can be in: the wait it has called, and
\* wait_suspend in the handler of SIGUSR1, which may interrupt the first.  The
\* name of the frame is its cookie, as the address of a local variable.
Frames == {"wait", "suspend"}

NoCall == [objs |-> <<>>, all |-> FALSE, signal |-> Nothing, alertable |-> FALSE, deadline |-> "never"]

Init ==
    /\ signaled = {} /\ alive = Threads /\ agenda = {}
    /\ waits = [t \in Threads |-> <<>>]     /\ timer = [t \in Threads |-> FALSE]
    /\ suspend = [t \in Threads |-> 0]      /\ context = [t \in Threads |-> "none"]
    /\ edited = [t \in Threads |-> FALSE]   /\ signal = [t \in Threads |-> FALSE]
    /\ userApcs = [t \in Threads |-> 0]     /\ systemApcs = [t \in Threads |-> <<>>]
    /\ apc = [c \in Callers |-> "none"]     /\ running = [t \in Threads |-> Nothing]
    /\ pipe = [t \in Threads |-> <<>>]      /\ held = [t \in Threads |-> <<>>]
    /\ call = [t \in Threads |-> NoCall]
    /\ at = [t \in Threads |-> [f \in Frames |-> "none"]]

-----------------------------------------------------------------------------
(* check_wait and end_wait.                                                *)

Suspended(t) == suspend[t] > 0

Ready(w) ==
    /\ w.objs # <<>>
    /\ IF w.all THEN \A k \in DOMAIN w.objs : w.objs[k] \in signaled
       ELSE \E k \in DOMAIN w.objs : w.objs[k] \in signaled

\* wait_suspend waits for no object, is not alertable and its time is always over.
Status(t, f) ==
    IF systemApcs[t] # <<>> THEN "kernel_apc"
    ELSE IF Suspended(t) THEN "pending"
    ELSE IF f = "suspend" THEN "timeout"
    ELSE IF Ready(call[t]) THEN "object"
    ELSE IF call[t].alertable /\ userApcs[t] > 0 THEN "user_apc"
    ELSE IF call[t].deadline = "passed" THEN "timeout"
    ELSE "pending"

\* The objects a wait is satisfied by: all, or the first that is signaled.
Satisfying(w) ==
    {w.objs[k] : k \in {k \in DOMAIN w.objs :
        w.all \/ (w.objs[k] \in signaled /\ \A l \in 1..k-1 : w.objs[l] \notin signaled)}}

\* end_wait of the frame's wait: the objects are told, the timer is removed.
EndWait(t, f, status) ==
    /\ signaled' = IF status = "object" THEN signaled \ (AutoReset \intersect Satisfying(call[t])) ELSE signaled
    /\ timer' = IF f = "wait" THEN [timer EXCEPT ![t] = FALSE] ELSE timer

\* The server is not in the middle of a request.
Free == agenda = {} /\ \A t \in Threads : at[t]["wait"] # "check"

-----------------------------------------------------------------------------
(* wake_thread and send_thread_wakeup.                                     *)

\* Mutant: a changed context is dropped like one that was not.
ReplyAlways(t, f, status) == status

\* Waking the wait of wait_suspend gives the thread its context back; if that
\* was changed the thread has to fetch it by a select, so it is told of an APC.
Reply(t, f, status) ==
    IF f = "suspend" /\ status # "kernel_apc" /\ edited[t] THEN "kernel_apc" ELSE status

Send(t, f, status) ==
    LET r == Reply(t, f, status) IN
    /\ context' = IF f = "suspend" /\ r # "kernel_apc" THEN [context EXCEPT ![t] = "none"] ELSE context
    /\ pipe' = [pipe EXCEPT ![t] = Append(@, [cookie |-> f, status |-> r])]

CanEnd(t) == waits[t] # <<>> /\ Status(t, Head(waits[t])) # "pending"

Wake(t) ==
    LET f == Head(waits[t])
        status == Status(t, f)
    IN
    /\ t \in agenda /\ CanEnd(t)
    /\ EndWait(t, f, status)
    /\ waits' = [waits EXCEPT ![t] = Tail(@)]
    /\ IF at[t][f] = "check" THEN UNCHANGED <<context, pipe>> ELSE Send(t, f, status)
    /\ UNCHANGED <<userApcs, alive, suspend, edited, apcs, client, agenda, signal>>

WakeDone(t) ==
    /\ t \in agenda /\ ~CanEnd(t)
    /\ agenda' = agenda \ {t}
    /\ UNCHANGED <<objects, thread, apcs, client, waits, timer, pipe, signal>>

\* wake_up: all who have the object in a wait, be it their innermost or not.
Waiters(o) ==
    {t \in alive : Contains(waits[t], "wait") /\ \E k \in DOMAIN call[t].objs : call[t].objs[k] = o}

\* thread_timeout; a timer that fires for a thread that is suspended or in a wait
\* within this one has no effect, and does not fire again.
Timeout(t) ==
    /\ Free /\ timer[t] /\ call[t].deadline = "passed"
    /\ timer' = [timer EXCEPT ![t] = FALSE]
    /\ IF Head(waits[t]) = "wait" /\ ~Suspended(t)
       THEN /\ waits' = [waits EXCEPT ![t] = Tail(@)]
            /\ Send(t, "wait", "timeout")
            /\ agenda' = {t}
       ELSE UNCHANGED <<waits, context, pipe, agenda>>
    /\ UNCHANGED <<objects, alive, suspend, edited, apcs, client, signal>>

Clock(t) ==
    /\ call[t].deadline = "ahead"
    /\ call' = [call EXCEPT ![t].deadline = "passed"]
    /\ UNCHANGED <<objects, thread, apcs, at, held, waits, timer, agenda, pipe, signal>>

-----------------------------------------------------------------------------
(* The select request.                                                     *)

\* The innermost frame of server_select; it goes on when what wait_select_reply
\* has stolen is back in the pipe.
Active(t, f) ==
    /\ t \in alive /\ held[t] = <<>>
    /\ f = IF at[t]["suspend"] # "none" THEN "suspend" ELSE "wait"

Goto(t, f, l) == at' = [at EXCEPT ![t][f] = l]

\* server_select returns.
Return(t, f) ==
    /\ Goto(t, f, "none")
    /\ call'    = IF f = "wait" THEN [call EXCEPT ![t] = NoCall] ELSE call

\* The first request of wait_suspend brings the context.
Context(t, f) == IF at[t][f] = "enter" THEN "ready" ELSE context[t]

\* Each request brings the result of the APC the frame has run.
Reported(t) == [c \in Callers |-> IF c = running[t] THEN "executed" ELSE apc[c]]

\* The request is at check_wait: at once, or after signal_object.
Selecting(t, f) ==
    \/ Free /\ Active(t, f) /\ at[t][f] \in {"enter", "select"} /\ (f = "wait" => call[t].signal = Nothing)
    \/ agenda = {} /\ at[t][f] = "check" /\ waits[t] # <<>>

\* thread->wait without the wait of the request.
Outer(t, f) == IF at[t][f] = "check" THEN Tail(waits[t]) ELSE waits[t]

\* SELECT_SIGNAL_AND_WAIT up to signal_object; the wait has no cookie yet.
SelectSignal(t) ==
    LET o == call[t].signal IN
    /\ Free /\ Active(t, "wait") /\ at[t]["wait"] = "select" /\ o # Nothing
    /\ waits'    = [waits EXCEPT ![t] = <<"wait">> \o @]
    /\ signaled' = signaled \union {o}
    /\ agenda'   = Waiters(o) \union {u \in {t} : Contains(call[t].objs, o)}
    /\ apc'      = Reported(t)
    /\ running'  = [running EXCEPT ![t] = Nothing]
    /\ Goto(t, "wait", "check")
    /\ UNCHANGED <<userApcs, thread, systemApcs, call, held, timer, pipe, signal>>

\* "check if we woke ourselves up"
SelfWoken(t) ==
    /\ agenda = {} /\ at[t]["wait"] = "check" /\ waits[t] = <<>>
    /\ Return(t, "wait")
    /\ UNCHANGED <<objects, thread, apcs, held, waits, timer, agenda, pipe, signal>>

\* The request ends the call; wait_suspend gets its context back.
SelectEnds(t, f) ==
    LET status == Status(t, f) IN
    /\ Selecting(t, f) /\ status \in {"object", "user_apc", "timeout"}
    /\ EndWait(t, f, status)
    /\ waits'    = [waits EXCEPT ![t] = Outer(t, f)]
    /\ userApcs' = IF status = "user_apc" THEN [userApcs EXCEPT ![t] = @ - 1] ELSE userApcs
    /\ IF f = "suspend"
       THEN context' = [context EXCEPT ![t] = "none"] /\ edited' = [edited EXCEPT ![t] = FALSE]
       ELSE UNCHANGED <<context, edited>>
    /\ apc'      = Reported(t)
    /\ running'  = [running EXCEPT ![t] = Nothing]
    /\ Return(t, f)
    /\ UNCHANGED <<alive, suspend, systemApcs, held, agenda, pipe, signal>>

\* The request brings the next system APC.
SelectApc(t, f) ==
    /\ Selecting(t, f) /\ systemApcs[t] # <<>>
    /\ waits'      = [waits EXCEPT ![t] = Outer(t, f)]
    /\ context'    = [context EXCEPT ![t] = Context(t, f)]
    /\ systemApcs' = [systemApcs EXCEPT ![t] = Tail(@)]
    /\ running'    = [running EXCEPT ![t] = Head(systemApcs[t])]
    /\ apc'        = [Reported(t) EXCEPT ![Head(systemApcs[t])] = "taken"]
    /\ Goto(t, f, "apc")
    /\ UNCHANGED <<objects, alive, suspend, edited, call, held, timer, agenda, pipe, signal>>

SelectWaits(t, f) ==
    /\ Selecting(t, f) /\ Status(t, f) = "pending"
    /\ waits'   = [waits EXCEPT ![t] = <<f>> \o Outer(t, f)]
    /\ timer'   = IF f = "wait" THEN [timer EXCEPT ![t] = call[t].deadline # "never"] ELSE timer
    /\ context' = [context EXCEPT ![t] = Context(t, f)]
    /\ apc'     = Reported(t)
    /\ running' = [running EXCEPT ![t] = Nothing]
    /\ Goto(t, f, "read")
    /\ UNCHANGED <<objects, alive, suspend, edited, systemApcs, call, held, agenda, pipe, signal>>

-----------------------------------------------------------------------------
(* The client: server_select, wait_select_reply, SIGUSR1.                  *)

CallWait(t) ==
    /\ Active(t, "wait") /\ at[t]["wait"] = "none"
    /\ \E c \in Calls[t] : call' = [call EXCEPT ![t] = c]
    /\ Goto(t, "wait", "select")
    /\ UNCHANGED <<objects, thread, apcs, held, waits, timer, agenda, pipe, signal>>

\* invoke_system_apc; "don't signal multiple times"
RunApc(t, f) ==
    /\ Active(t, f) /\ at[t][f] = "apc"
    /\ call' = IF f = "wait" THEN [call EXCEPT ![t].signal = Nothing] ELSE call
    /\ Goto(t, f, "select")
    /\ UNCHANGED <<objects, thread, apcs, held, waits, timer, agenda, pipe, signal>>

\* A reply that tells of an APC makes the frame select again.
Read(t, f) ==
    /\ t \in alive /\ at[t][f] = "read" /\ (f = "wait" => at[t]["suspend"] = "none")
    /\ pipe[t] # <<>> /\ Head(pipe[t]).cookie = f
    /\ pipe' = [pipe EXCEPT ![t] = Tail(@)]
    /\ IF Head(pipe[t]).status \in {"kernel_apc", "user_apc"}
       THEN Goto(t, f, "select") /\ UNCHANGED call
       ELSE Return(t, f)
    /\ UNCHANGED <<objects, thread, apcs, held, waits, timer, agenda, signal>>

\* "we stole another reply, wait for the real one"
Steal(t, f) ==
    /\ t \in alive /\ at[t][f] = "read" /\ (f = "wait" => at[t]["suspend"] = "none")
    /\ pipe[t] # <<>> /\ Head(pipe[t]).cookie # f
    /\ held' = [held EXCEPT ![t] = Append(@, Head(pipe[t]))]
    /\ pipe' = [pipe EXCEPT ![t] = Tail(@)]
    /\ UNCHANGED <<objects, thread, apcs, call, at, waits, timer, agenda, signal>>

\* Mutant: what was stolen is dropped.
DropStolen(t) ==
    /\ t \in alive /\ held[t] # <<>> /\ at[t]["suspend"] # "read"
    /\ held' = [held EXCEPT ![t] = Front(@)]
    /\ UNCHANGED <<objects, thread, apcs, call, at, waits, timer, agenda, pipe, signal>>

\* "and now put the wrong one back in the pipe", the last that was stolen first.
PutBack(t) ==
    /\ t \in alive /\ held[t] # <<>> /\ at[t]["suspend"] # "read"
    /\ pipe' = [pipe EXCEPT ![t] = Append(@, Last(held[t]))]
    /\ held' = [held EXCEPT ![t] = Front(@)]
    /\ UNCHANGED <<objects, thread, apcs, call, at, waits, timer, agenda, signal>>

\* SIGUSR1 is blocked from before a select request until server_select waits for
\* the reply, and in its handler, which calls wait_suspend.
HandleSignal(t) ==
    /\ t \in alive /\ signal[t] /\ at[t]["suspend"] = "none" /\ held[t] = <<>>
    /\ at[t]["wait"] \in {"none", "read"}
    /\ signal' = [signal EXCEPT ![t] = FALSE]
    /\ Goto(t, "suspend", "enter")
    /\ UNCHANGED <<objects, thread, apcs, call, held, waits, timer, agenda, pipe>>

-----------------------------------------------------------------------------
(* What other threads, of this process and of others, ask of the server.   *)

SetEvent(o) ==
    /\ Free /\ o \notin signaled
    /\ signaled' = signaled \union {o}
    /\ agenda' = Waiters(o)
    /\ UNCHANGED <<userApcs, thread, apcs, client, waits, timer, pipe, signal>>

ResetEvent(o) ==
    /\ Free /\ o \in signaled
    /\ signaled' = signaled \ {o}
    /\ UNCHANGED <<userApcs, thread, apcs, client, waits, timer, agenda, pipe, signal>>

\* Mutant: the signal is left to whoever needs the context.
StopLater(t) ==
    IF context[t] = "none"
    THEN context' = [context EXCEPT ![t] = "pending"] /\ UNCHANGED signal
    ELSE UNCHANGED <<context, signal>>

\* stop_thread.
Stop(t) ==
    IF context[t] = "none"
    THEN context' = [context EXCEPT ![t] = "pending"] /\ signal' = [signal EXCEPT ![t] = TRUE]
    ELSE UNCHANGED <<context, signal>>

SuspendThread(t) ==
    /\ Free /\ t \in alive /\ "suspend" \in Done[t] /\ suspend[t] < MaxSuspend
    /\ IF Suspended(t) THEN UNCHANGED <<context, signal>> ELSE Stop(t)
    /\ suspend' = [suspend EXCEPT ![t] = @ + 1]
    /\ UNCHANGED <<objects, alive, edited, apcs, client, waits, timer, agenda, pipe>>

\* Mutant: the thread is not woken.
ResumeQuietly(t) ==
    /\ Free /\ t \in alive /\ Suspended(t)
    /\ suspend' = [suspend EXCEPT ![t] = @ - 1]
    /\ agenda' = {}
    /\ UNCHANGED <<objects, alive, edited, context, apcs, client, waits, timer, pipe, signal>>

ResumeThread(t) ==
    /\ Free /\ t \in alive /\ Suspended(t)
    /\ suspend' = [suspend EXCEPT ![t] = @ - 1]
    /\ agenda' = IF suspend[t] = 1 THEN {t} ELSE {}
    /\ UNCHANGED <<objects, alive, edited, context, apcs, client, waits, timer, pipe, signal>>

\* set_thread_context, of registers the server does not set by itself.
SetThreadContext(t) ==
    /\ Free /\ t \in alive /\ "set" \in Done[t]
    /\ Stop(t)
    /\ edited' = [edited EXCEPT ![t] = TRUE]
    /\ UNCHANGED <<objects, alive, suspend, apcs, client, waits, timer, agenda, pipe>>

QueueUserApc(t) ==
    /\ Free /\ t \in alive /\ "apc" \in Done[t] /\ userApcs[t] < MaxUserApcs
    /\ userApcs' = [userApcs EXCEPT ![t] = @ + 1]
    /\ agenda' = IF userApcs[t] = 0 THEN {t} ELSE {}
    /\ UNCHANGED <<signaled, thread, apcs, client, waits, timer, pipe, signal>>

InApcWait(t) == Suspended(t) \/ waits[t] # <<>>

\* queue_apc for the process: a thread that can run it now, or else one that can
\* be sent a signal.
QueueSystemApc(c) ==
    LET now == {t \in alive : InApcWait(t)} IN
    /\ Free /\ apc[c] \in {"none", "again"}
    /\ \E t \in IF now # {} THEN now ELSE alive :
         /\ signal' = IF now # {} THEN signal ELSE [signal EXCEPT ![t] = TRUE]
         /\ systemApcs' = [systemApcs EXCEPT ![t] = Append(@, c)]
         /\ agenda' = IF systemApcs[t] = <<>> THEN {t} ELSE {}
    /\ apc' = [apc EXCEPT ![c] = "queued"]
    /\ UNCHANGED <<objects, thread, running, client, waits, timer, pipe>>

ProcessIsTerminating(c) ==
    /\ Free /\ apc[c] = "again" /\ alive = {}
    /\ apc' = [apc EXCEPT ![c] = "none"]
    /\ UNCHANGED <<objects, thread, systemApcs, running, client, waits, timer, agenda, pipe, signal>>

\* get_apc_result; "APC didn't run, try again"
GetApcResult(c) ==
    /\ Free /\ apc[c] \in {"executed", "cancelled"}
    /\ apc' = [apc EXCEPT ![c] = IF @ = "executed" THEN "none" ELSE "again"]
    /\ UNCHANGED <<objects, thread, systemApcs, running, client, waits, timer, agenda, pipe, signal>>

\* Mutant: the callers are not told.
ClearOnly(t) == apc

\* clear_apc_queue.
Cleared(t) == [c \in Callers |-> IF Contains(systemApcs[t], c) THEN "cancelled" ELSE apc[c]]

\* kill_thread; the client's part of the thread does nothing any more.
KillThread(t) ==
    /\ Free /\ t \in alive /\ "kill" \in Done[t]
    /\ alive'      = alive \ {t}
    /\ waits'      = [waits EXCEPT ![t] = <<>>]
    /\ timer'      = [timer EXCEPT ![t] = FALSE]
    /\ pipe'       = [pipe EXCEPT ![t] = <<>>]
    /\ context'    = [context EXCEPT ![t] = "none"]
    /\ edited'     = [edited EXCEPT ![t] = FALSE]
    /\ signal'     = [signal EXCEPT ![t] = FALSE]
    /\ userApcs'   = [userApcs EXCEPT ![t] = 0]
    /\ systemApcs' = [systemApcs EXCEPT ![t] = <<>>]
    /\ apc'        = Cleared(t)
    /\ UNCHANGED <<signaled, suspend, running, client, agenda>>

-----------------------------------------------------------------------------
Server(t) == Wake(t) \/ WakeDone(t) \/ Timeout(t)

Frame(t, f) ==
    \/ SelectEnds(t, f) \/ SelectApc(t, f) \/ SelectWaits(t, f)
    \/ RunApc(t, f) \/ Read(t, f) \/ Steal(t, f)

Client(t) ==
    \/ SelectSignal(t) \/ SelfWoken(t) \/ PutBack(t)
    \/ \E f \in Frames : Frame(t, f)

Caller(c) == QueueSystemApc(c) \/ ProcessIsTerminating(c) \/ GetApcResult(c)

Others(t) ==
    \/ SuspendThread(t) \/ ResumeThread(t) \/ SetThreadContext(t)
    \/ QueueUserApc(t) \/ KillThread(t) \/ Clock(t)

Next ==
    \/ \E t \in Threads : Server(t) \/ Client(t) \/ CallWait(t) \/ HandleSignal(t) \/ Others(t)
    \/ \E c \in Callers : Caller(c)
    \/ \E o \in Objects : SetEvent(o) \/ ResetEvent(o)

Spec == Init /\ [][Next]_vars

\* The main loop of the server serves every request and timer that is due in its
\* turn, also if others come all the time; threads run; a signal that arrives
\* while it is blocked is delivered when it is not.
FairSpec ==
    /\ Spec
    /\ \A t \in Threads : SF_vars(Server(t)) /\ SF_vars(Client(t)) /\ SF_vars(HandleSignal(t))

-----------------------------------------------------------------------------
(* Properties.                                                             *)

Statuses == {"object", "user_apc", "kernel_apc", "timeout"}
Replies  == [cookie : Frames, status : Statuses]

\* Type correctness; in particular a wait is never resumed that is not there, and
\* a thread has at most one wait in each of its two frames.
TypeOK ==
    /\ signaled \subseteq Objects /\ alive \subseteq Threads /\ agenda \subseteq alive
    /\ apc \in [Callers -> {"none", "queued", "taken", "executed", "cancelled", "again"}]
    /\ \A t \in Threads :
         /\ waits[t] \in {<<>>, <<"wait">>, <<"suspend">>, <<"suspend", "wait">>}
         /\ timer[t] => Contains(waits[t], "wait")
         /\ suspend[t] \in 0..MaxSuspend /\ userApcs[t] \in 0..MaxUserApcs
         /\ context[t] \in {"none", "pending", "ready"}
         /\ edited[t] \in BOOLEAN /\ signal[t] \in BOOLEAN
         /\ systemApcs[t] \in Seq(Callers) /\ running[t] \in Callers \union {Nothing}
         /\ pipe[t] \in Seq(Replies) /\ held[t] \in Seq(Replies)
         /\ call[t] \in Args
         /\ at[t] \in [Frames -> {"none", "enter", "select", "check", "apc", "read"}]

\* Where the answers to a frame's select are: with the server as a wait, in the
\* pipe, or read by another frame.
Answers(t, f) ==
    {<<"server", k>> : k \in {l \in DOMAIN waits[t] : waits[t][l] = f}}
      \union {<<"pipe", k>> : k \in {l \in DOMAIN pipe[t] : pipe[t][l].cookie = f}}
      \union {<<"held", k>> : k \in {l \in DOMAIN held[t] : held[t][l].cookie = f}}

\* A select that was left pending is answered once, whatever ends its wait and
\* whichever frame reads the reply; no other frame is ever answered.
ReplyExact ==
    TypeOK /\ \A t \in alive, f \in Frames :
      at[t][f] # "check" => Cardinality(Answers(t, f)) = IF at[t][f] = "read" THEN 1 ELSE 0

\* Between two requests no thread is in a wait that could end: what makes it end
\* wakes it, also if its thread was suspended or in another wait at the time.  A
\* wait that the thread has called and whose time is over still has its timer.
NoMissedWake ==
    Free => \A t \in alive : CanEnd(t) =>
              Head(waits[t]) = "wait" /\ Status(t, "wait") = "timeout" /\ timer[t]

\* A suspended thread has a context; its context is ready while it is in
\* wait_suspend, and only then; until it is, the thread is on its way there.
\* select gets no context while it has one that is ready, and registers that
\* others have set are not lost.
ContextExact ==
    \A t \in alive :
      /\ Suspended(t) \/ edited[t] => context[t] # "none"
      /\ context[t] = "ready" => at[t]["suspend"] \in {"select", "apc", "read"}
      /\ context[t] = "pending" => signal[t] \/ at[t]["suspend"] = "enter"

\* A thread that is suspended comes to a stop, unless it is resumed or killed.
SuspendedStops ==
    \A t \in Threads :
      (t \in alive /\ Suspended(t)) ~> (context[t] = "ready" \/ ~Suspended(t) \/ t \notin alive)

\* The thread is in no call and no signal is on its way to it.
Away(t) == ~signal[t] /\ \A f \in Frames : at[t][f] = "none"

\* A system APC is run, or its caller is told that it was not, unless the thread
\* that runs it is killed, or a wait that its thread's own signal ended leaves it
\* in the queue until that thread's next wait.
ApcAnswered ==
    \A c \in Callers :
      apc[c] \in {"queued", "taken"} ~>
        (\/ apc[c] \notin {"queued", "taken"}
         \/ \E t \in Threads : running[t] = c /\ t \notin alive
         \/ \E t \in Threads : Contains(systemApcs[t], c) /\ Away(t))
=============================================================================
