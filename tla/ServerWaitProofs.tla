-------------------------- MODULE ServerWaitProofs ---------------------------
(***************************************************************************)
(* The safety properties of ServerWait, proved for any number of threads,  *)
(* callers and objects and any waits: each select is answered once, no     *)
(* wake-up is missed, and a suspended thread keeps its context.            *)
(***************************************************************************)
EXTENDS ServerWait, FiniteSetTheorems, SequenceTheorems, TLAPS

\* The waits of a thread, the innermost first, and where a frame can be.
Stacks == {<<>>, <<"wait">>, <<"suspend">>, <<"suspend", "wait">>}
Places == {"none", "enter", "select", "check", "apc", "read"}
ApcStates == {"none", "queued", "taken", "executed", "cancelled", "again"}

Typed ==
    /\ signaled \in SUBSET Objects /\ alive \in SUBSET Threads /\ agenda \in SUBSET alive
    /\ waits \in [Threads -> Stacks]        /\ timer \in [Threads -> BOOLEAN]
    /\ suspend \in [Threads -> 0..MaxSuspend]
    /\ context \in [Threads -> {"none", "pending", "ready"}]
    /\ edited \in [Threads -> BOOLEAN]      /\ signal \in [Threads -> BOOLEAN]
    /\ userApcs \in [Threads -> 0..MaxUserApcs]
    /\ systemApcs \in [Threads -> Seq(Callers)]
    /\ apc \in [Callers -> ApcStates]
    /\ running \in [Threads -> Callers \union {Nothing}]
    /\ pipe \in [Threads -> Seq(Replies)]   /\ held \in [Threads -> Seq(Replies)]
    /\ call \in [Threads -> Args]
    /\ at \in [Threads -> [Frames -> Places]]

\* A reply of the sequence is for the frame; no two are for the same one.
Told(s, f) == \E r \in Range(s) : r.cookie = f
Once(s)    == \A i, j \in DOMAIN s : s[i].cookie = s[j].cookie => i = j

\* What the server keeps of a thread, alive or not.
Kept(t) ==
    /\ waits[t] # <<>> => t \in alive
    /\ at[t]["wait"] = "check" => t \in alive
    /\ timer[t] => Contains(waits[t], "wait")
    /\ at[t]["suspend"] # "check" /\ at[t]["wait"] # "enter"
    /\ at[t]["wait"] = "check" => at[t]["suspend"] = "none" /\ ~timer[t]

\* A frame that reads has its answer in one place, a frame that does not has none.
Answered(t, f) ==
    /\ Told(pipe[t], f) => ~Told(held[t], f)
    /\ Contains(waits[t], f) => ~Told(pipe[t], f) /\ ~Told(held[t], f)
    /\ at[t][f] = "read" => Contains(waits[t], f) \/ Told(pipe[t], f) \/ Told(held[t], f)
    /\ at[t][f] # "read" => ~Told(pipe[t], f) /\ ~Told(held[t], f)
    /\ at[t][f] \notin {"read", "check"} => ~Contains(waits[t], f)

\* Only the frame of wait_suspend steals a reply, one.
Replied(t) ==
    /\ Once(pipe[t]) /\ Len(held[t]) <= 1 /\ ~Told(held[t], "suspend")
    /\ \A f \in Frames : Answered(t, f)

\* The replies of a living thread.
Sound(t) == Kept(t) /\ (t \in alive => Replied(t))

\* ContextExact, and: a reply that gives wait_suspend its context back has taken
\* it from the server.
Placed(t) ==
    /\ Suspended(t) \/ edited[t] => context[t] # "none"
    /\ context[t] = "ready" => at[t]["suspend"] \in {"select", "apc", "read"}
    /\ context[t] = "pending" => signal[t] \/ at[t]["suspend"] = "enter"
    /\ \A r \in Range(pipe[t]) :
         r.cookie = "suspend" /\ r.status \notin {"kernel_apc", "user_apc"} => context[t] # "ready"

\* A wait that could end is on the agenda, is being made, or has its timer; a wait
\* whose time is to come has it too.
Watched(t) ==
    at[t]["wait"] # "check" =>
      /\ CanEnd(t) /\ t \notin agenda =>
           Head(waits[t]) = "wait" /\ Status(t, "wait") = "timeout" /\ timer[t]
      /\ Contains(waits[t], "wait") /\ call[t].deadline = "ahead" => timer[t]

SInv ==
    /\ Typed
    /\ \A t \in Threads : Kept(t)
    /\ \A t \in alive : Replied(t) /\ Placed(t) /\ Watched(t)

-----------------------------------------------------------------------------
(* Replies and stacks of waits.                                            *)

\* A reply that is appended is there, and nothing else is new.
LEMMA Appending ==
    ASSUME NEW s \in Seq(Replies), NEW r \in Replies
    PROVE  /\ Append(s, r) \in Seq(Replies)
           /\ Range(Append(s, r)) = Range(s) \union {r}
           /\ Len(Append(s, r)) = Len(s) + 1
           /\ \A f : Told(Append(s, r), f) <=> Told(s, f) \/ r.cookie = f
           /\ Once(s) /\ ~Told(s, r.cookie) => Once(Append(s, r))
<1>1. /\ Append(s, r) \in Seq(Replies) /\ Len(Append(s, r)) = Len(s) + 1
      /\ DOMAIN Append(s, r) = 1..Len(s) + 1 /\ DOMAIN s = 1..Len(s) /\ Len(s) \in Nat
      /\ \A k \in 1..Len(s) : Append(s, r)[k] = s[k]
      /\ Append(s, r)[Len(s) + 1] = r
  OBVIOUS
<1>2. Range(Append(s, r)) = Range(s) \union {r}
  BY <1>1 DEF Range
<1>3. ASSUME Once(s), ~Told(s, r.cookie) PROVE Once(Append(s, r))
  BY <1>1, <1>3 DEF Once, Told, Range
<1> QED BY <1>1, <1>2, <1>3 DEF Told

\* A reply that is read is gone, and only it.
LEMMA Reading ==
    ASSUME NEW s \in Seq(Replies), s # <<>>
    PROVE  /\ Head(s) \in Replies /\ Tail(s) \in Seq(Replies)
           /\ Head(s) \in Range(s) /\ Range(Tail(s)) \subseteq Range(s)
           /\ Range(s) = Range(Tail(s)) \union {Head(s)}
           /\ \A f : Told(s, f) <=> Told(Tail(s), f) \/ Head(s).cookie = f
           /\ Once(s) => Once(Tail(s)) /\ ~Told(Tail(s), Head(s).cookie)
<1>1. /\ Len(s) \in Nat \ {0} /\ DOMAIN s = 1..Len(s) /\ Head(s) = s[1] /\ s[1] \in Replies
      /\ Tail(s) \in Seq(Replies) /\ DOMAIN Tail(s) = 1..Len(s) - 1
      /\ \A k \in 1..Len(s) - 1 : Tail(s)[k] = s[k + 1]
  OBVIOUS
<1>2. Range(s) = Range(Tail(s)) \union {Head(s)}
  <2>1. \A k \in 1..Len(s) : k = 1 \/ (k - 1 \in 1..Len(s) - 1 /\ s[k] = Tail(s)[k - 1])
    BY <1>1
  <2>2. \A k \in 1..Len(s) - 1 : k + 1 \in 1..Len(s)
    BY <1>1
  <2>3. ASSUME NEW k \in 1..Len(s) PROVE s[k] \in Range(Tail(s)) \union {Head(s)}
    BY <1>1, <2>1 DEF Range
  <2>4. ASSUME NEW k \in 1..Len(s) - 1 PROVE Tail(s)[k] \in Range(s)
    BY <1>1, <2>2 DEF Range
  <2>5. Range(s) \subseteq Range(Tail(s)) \union {Head(s)}
    BY <1>1, <2>3 DEF Range
  <2>6. Range(Tail(s)) \subseteq Range(s)
    BY <1>1, <2>4 DEF Range
  <2>7. Head(s) \in Range(s)
    BY <1>1 DEF Range
  <2> QED BY <2>5, <2>6, <2>7
<1>3. ASSUME Once(s) PROVE Once(Tail(s)) /\ ~Told(Tail(s), Head(s).cookie)
  <2>1. \A k \in 1..Len(s) - 1 : k + 1 \in DOMAIN s /\ k + 1 # 1 /\ Tail(s)[k] = s[k + 1]
    BY <1>1
  <2>2. Once(Tail(s))
    BY <1>1, <1>3, <2>1 DEF Once
  <2>3. \A k \in DOMAIN Tail(s) : Tail(s)[k].cookie # s[1].cookie
    BY <1>1, <1>3, <2>1 DEF Once
  <2> QED BY <1>1, <2>2, <2>3 DEF Told, Range
<1>4. \A f : Told(s, f) <=> Told(Tail(s), f) \/ Head(s).cookie = f
  BY <1>2 DEF Told
<1> QED BY <1>1, <1>2, <1>3, <1>4

\* Of at most one reply that was stolen, the last is all there is.
LEMMA Returning ==
    ASSUME NEW s \in Seq(Replies), s # <<>>, Len(s) <= 1
    PROVE  /\ Last(s) \in Replies /\ Front(s) \in Seq(Replies) /\ Len(Front(s)) <= 1
           /\ Range(s) = {Last(s)} /\ Range(Front(s)) = {}
           /\ \A f : ~Told(Front(s), f) /\ (Told(s, f) <=> Last(s).cookie = f)
<1>1. Len(s) = 1 /\ DOMAIN s = 1..1 /\ s[1] \in Replies
  <2>1. Len(s) \in Nat /\ Len(s) # 0 /\ DOMAIN s = 1..Len(s) /\ \A k \in 1..Len(s) : s[k] \in Replies
    OBVIOUS
  <2> QED BY <2>1
<1>2. Last(s) = s[1] /\ Front(s) = <<>>
  BY <1>1 DEF Last, Front
<1>3. Range(s) = {Last(s)} /\ Range(Front(s)) = {}
  BY <1>1, <1>2 DEF Range
<1> QED BY <1>1, <1>2, <1>3 DEF Told

\* No reply.
LEMMA NoReply == Once(<<>>) /\ Range(<<>>) = {} /\ <<>> \in Seq(Replies) /\ Len(<<>>) = 0
BY DEF Once, Range

\* The innermost wait, the one around it, and one that is put on top.
LEMMA Stacking ==
    /\ \A s \in Stacks : s # <<>> =>
         /\ Head(s) \in Frames /\ Tail(s) \in Stacks
         /\ \A f \in Frames : Contains(Tail(s), f) <=> Contains(s, f) /\ f # Head(s)
         /\ Contains(s, Head(s))
    /\ \A s \in Stacks : ~Contains(s, "wait") /\ ~Contains(s, "suspend") <=> s = <<>>
    /\ \A s \in Stacks : ~Contains(s, "suspend") <=> s \in {<<>>, <<"wait">>}
    /\ <<"wait">> \o <<>> = <<"wait">>
    /\ \A s \in {<<>>, <<"wait">>} :
         /\ <<"suspend">> \o s \in Stacks
         /\ Head(<<"suspend">> \o s) = "suspend"
         /\ \A f \in Frames : Contains(<<"suspend">> \o s, f) <=> Contains(s, f) \/ f = "suspend"
    /\ Head(<<"wait">>) = "wait" /\ Tail(<<"wait">>) = <<>>
    /\ \A f \in Frames : Contains(<<"wait">>, f) <=> f = "wait"
    /\ \A f \in Frames : ~Contains(<<>>, f)
<1>1. /\ \A f : ~Contains(<<>>, f)
      /\ \A f : Contains(<<"wait">>, f) <=> f = "wait"
      /\ \A f : Contains(<<"suspend">>, f) <=> f = "suspend"
      /\ \A f : Contains(<<"suspend", "wait">>, f) <=> f \in {"wait", "suspend"}
  BY DEF Contains
<1>2. <<"wait">> \o <<>> = <<"wait">> /\ <<"suspend">> \o <<>> = <<"suspend">>
  OBVIOUS
<1>3. <<"suspend">> \o <<"wait">> = <<"suspend", "wait">>
  <2>1. /\ <<"suspend">> \o <<"wait">> \in Seq({"suspend", "wait"})
        /\ <<"suspend", "wait">> \in Seq({"suspend", "wait"})
        /\ Len(<<"suspend">> \o <<"wait">>) = 2 /\ Len(<<"suspend", "wait">>) = 2
    OBVIOUS
  <2>2. /\ (<<"suspend">> \o <<"wait">>)[1] = "suspend" /\ (<<"suspend">> \o <<"wait">>)[2] = "wait"
        /\ <<"suspend", "wait">>[1] = "suspend" /\ <<"suspend", "wait">>[2] = "wait"
    OBVIOUS
  <2>3. \A k \in 1..2 : (<<"suspend">> \o <<"wait">>)[k] = <<"suspend", "wait">>[k]
    BY <2>2
  <2> QED BY <2>1, <2>3, SeqEqual
<1>4. Head(<<"wait">>) = "wait" /\ Head(<<"suspend">>) = "suspend" /\ Head(<<"suspend", "wait">>) = "suspend"
  OBVIOUS
<1>5. Tail(<<"wait">>) = <<>> /\ Tail(<<"suspend">>) = <<>>
  OBVIOUS
<1>6. Tail(<<"suspend", "wait">>) = <<"wait">>
  OBVIOUS
<1>7. <<"wait">> # <<>> /\ <<"suspend">> # <<>> /\ <<"suspend", "wait">> # <<>>
  OBVIOUS
<1> QED BY <1>1, <1>2, <1>3, <1>4, <1>5, <1>6, <1>7 DEF Stacks, Frames

\* What a wait is called with, when its deadline passes or its signal is given.
LEMMA Calling ==
    /\ NoCall \in Args
    /\ \A c \in Args : /\ [c EXCEPT !.deadline = "passed"] \in Args
                       /\ [c EXCEPT !.signal = Nothing] \in Args
BY DEF NoCall, Args, DeadlineStates

-----------------------------------------------------------------------------
(* Whether a wait ends, and the reply.                                     *)

\* What ends a wait, and when nothing does.
LEMMA Ending ==
    ASSUME NEW t, NEW f
    PROVE  /\ Status(t, f) \in Statuses \union {"pending"}
           /\ Status(t, f) = "kernel_apc" <=> systemApcs[t] # <<>>
           /\ Status(t, f) \in {"object", "user_apc", "timeout"} => ~Suspended(t)
           /\ Status(t, f) \in {"object", "user_apc"} => f # "suspend"
           /\ Status(t, f) = "user_apc" => userApcs[t] > 0
BY DEF Status, Statuses

\* The reply is for the frame; with it wait_suspend gets its context, unless that
\* has been changed.
LEMMA Sending ==
    ASSUME NEW t \in Threads, NEW f \in Frames, NEW status \in Statuses, Send(t, f, status),
           f = "suspend" /\ status # "kernel_apc" => ~Suspended(t)
    PROVE  \E r \in Replies :
             /\ r.cookie = f /\ pipe' = [pipe EXCEPT ![t] = Append(@, r)]
             /\ \/ context' = context /\ (f = "suspend" => r.status = "kernel_apc")
                \/ /\ f = "suspend" /\ context' = [context EXCEPT ![t] = "none"]
                   /\ ~Suspended(t) /\ ~edited[t]
<1> DEFINE r == [cookie |-> f, status |-> Reply(t, f, status)]
<1>1. r \in Replies /\ r.cookie = f /\ r.status = Reply(t, f, status)
  BY DEF Reply, Statuses, Replies
<1>2. pipe' = [pipe EXCEPT ![t] = Append(@, r)]
  BY DEF Send
<1>3. CASE f = "suspend" /\ r.status # "kernel_apc"
  <2>1. ~edited[t] /\ status # "kernel_apc"
    BY <1>1, <1>3 DEF Reply
  <2>2. context' = [context EXCEPT ![t] = "none"]
    BY <1>1, <1>3 DEF Send
  <2> QED BY <1>1, <1>2, <1>3, <2>1, <2>2
<1>4. CASE f # "suspend" \/ r.status = "kernel_apc"
  <2>1. context' = context
    BY <1>1, <1>4 DEF Send
  <2> QED BY <1>1, <1>2, <1>4, <2>1
<1> QED BY <1>3, <1>4

\* The server tells at least as many threads as are alive and wait for the object.
LEMMA WaitersLive == \A o : Waiters(o) \subseteq alive
BY DEF Waiters
-----------------------------------------------------------------------------
(* Types.                                                                  *)

\* Initially nobody is in a wait.
LEMMA Starting == Init => SInv
<1> SUFFICES ASSUME Init PROVE SInv
  OBVIOUS
<1>1. Typed
  BY ConstantsAssumption, Calling, NoReply DEF Init, Typed, Stacks, Places, ApcStates, Frames
<1>2. ASSUME NEW t \in Threads PROVE Kept(t) /\ Replied(t) /\ Placed(t) /\ Watched(t)
  <2>1. /\ waits[t] = <<>> /\ timer[t] = FALSE /\ pipe[t] = <<>> /\ held[t] = <<>>
        /\ at[t] = [f \in Frames |-> "none"] /\ context[t] = "none" /\ edited[t] = FALSE
        /\ suspend[t] = 0 /\ "wait" \in Frames /\ "suspend" \in Frames
    BY DEF Init, Frames
  <2>2. Kept(t)
    BY <2>1 DEF Kept
  <2>3. \A f \in Frames : ~Contains(waits[t], f)
    BY <2>1, Stacking
  <2>4. Replied(t)
    BY <2>1, <2>3, NoReply DEF Replied, Answered, Told
  <2>5. Placed(t)
    BY <2>1, NoReply DEF Placed, Suspended
  <2>6. Watched(t)
    BY <2>1, <2>3 DEF Watched, CanEnd
  <2> QED BY <2>2, <2>4, <2>5, <2>6
<1> QED BY <1>1, <1>2 DEF SInv, Typed

\* A frame that is about to select is not in a wait; the wait that a thread has
\* called cannot be about to select while wait_suspend runs.
LEMMA Selects ==
    ASSUME SInv, NEW t \in Threads, NEW f \in Frames, Selecting(t, f)
    PROVE  /\ t \in alive /\ agenda = {}
           /\ Outer(t, f) \in {<<>>, <<"wait">>} /\ <<f>> \o Outer(t, f) \in Stacks
           /\ f = "wait" => /\ Outer(t, f) = <<>> /\ <<f>> \o Outer(t, f) = <<"wait">>
                            /\ at[t]["suspend"] = "none"
           /\ f = "suspend" => Outer(t, f) = waits[t] /\ Free
           /\ ~Told(pipe[t], f) /\ ~Told(held[t], f) /\ at[t][f] \in {"enter", "select", "check"}
           /\ ~Contains(Outer(t, f), f) /\ (f = "wait" => ~timer[t])
           /\ \A g \in Frames : g # f => (Contains(Outer(t, f), g) <=> Contains(waits[t], g))
<1>1. waits[t] \in Stacks /\ Kept(t) /\ "wait" \in Frames /\ "suspend" \in Frames /\ f \in {"wait", "suspend"}
  BY DEF SInv, Typed, Frames
<1>2. agenda = {}
  BY DEF Selecting, Free
<1>3. CASE at[t][f] = "check"
  <2>1. f = "wait" /\ waits[t] # <<>> /\ t \in alive /\ at[t]["suspend"] = "none"
    BY <1>1, <1>3 DEF Selecting, Kept
  <2>2. Answered(t, "wait") /\ Answered(t, "suspend")
    BY <1>1, <2>1 DEF SInv, Replied
  <2>3. waits[t] = <<"wait">>
    BY <1>1, <2>1, <2>2, Stacking DEF Answered
  <2>4. Outer(t, f) = <<>>
    BY <1>3, <2>3, Stacking DEF Outer
  <2>5. ~Told(pipe[t], f) /\ ~Told(held[t], f)
    BY <1>3, <2>1, <2>2 DEF Answered
  <2>6. ~timer[t]
    BY <1>1, <1>3, <2>1 DEF Kept
  <2>7. /\ ~Contains(Outer(t, f), f)
        /\ \A g \in Frames : g # f => (Contains(Outer(t, f), g) <=> Contains(waits[t], g))
    BY <2>1, <2>3, <2>4, Stacking
  <2> QED BY <1>2, <1>3, <2>1, <2>4, <2>5, <2>6, <2>7, Stacking DEF Stacks
<1>4. CASE at[t][f] # "check"
  <2>1. Free /\ Active(t, f) /\ at[t][f] \in {"enter", "select"}
    BY <1>4 DEF Selecting
  <2>2. t \in alive /\ Outer(t, f) = waits[t]
    BY <1>4, <2>1 DEF Active, Outer
  <2>3. Answered(t, "wait") /\ Answered(t, "suspend")
    BY <1>1, <2>2 DEF SInv, Replied
  <2>4. ~Contains(waits[t], f) /\ ~Told(pipe[t], f) /\ ~Told(held[t], f)
    BY <1>1, <2>1, <2>3 DEF Answered
  <2>7. /\ ~Contains(Outer(t, f), f)
        /\ \A g \in Frames : g # f => (Contains(Outer(t, f), g) <=> Contains(waits[t], g))
    BY <2>2, <2>4
  <2>5. CASE f = "suspend"
    BY <1>1, <1>2, <2>1, <2>2, <2>4, <2>5, <2>7, Stacking
  <2>6. CASE f = "wait"
    <3>1. at[t]["suspend"] = "none"
      BY <2>1, <2>6 DEF Active
    <3>2. waits[t] = <<>>
      BY <1>1, <2>3, <2>4, <2>6, <3>1, Stacking DEF Answered
    <3>3. ~timer[t]
      BY <1>1, <2>4, <2>6 DEF Kept
    <3> QED BY <1>2, <2>1, <2>2, <2>4, <2>6, <2>7, <3>1, <3>2, <3>3, Stacking DEF Stacks
  <2> QED BY <1>1, <2>5, <2>6
<1> QED BY <1>3, <1>4

\* A frame that returns leaves no call.
LEMMA ReturnTyped ==
    ASSUME Typed, NEW t \in Threads, NEW f \in Frames, Return(t, f)
    PROVE  call' \in [Threads -> Args] /\ at' \in [Threads -> [Frames -> Places]]
BY Calling DEF Typed, Return, Goto, Places

\* Each step keeps the types.
LEMMA TypedKept == SInv /\ [Next]_vars => Typed'
<1> SUFFICES ASSUME SInv, [Next]_vars PROVE Typed'
  OBVIOUS
<1> USE DEF Typed
<1>1. Typed /\ agenda \subseteq alive /\ "wait" \in Frames /\ "suspend" \in Frames
  BY DEF SInv, Frames
<1>2. ASSUME NEW t \in Threads, Wake(t) PROVE Typed'
  <2> DEFINE f == Head(waits[t])
  <2>1. f \in Frames /\ Tail(waits[t]) \in Stacks /\ Status(t, f) \in Statuses
    BY <1>1, <1>2, Stacking, Ending DEF Wake, CanEnd
  <2>2. f = "suspend" /\ Status(t, f) # "kernel_apc" => ~Suspended(t)
    BY <2>1, Ending DEF Statuses
  <2> HIDE DEF f
  <2>3. /\ pipe' \in [Threads -> Seq(Replies)] /\ context' \in [Threads -> {"none", "pending", "ready"}]
    <3>1. CASE at[t][f] = "check"
      BY <1>1, <1>2, <3>1 DEF Wake, f
    <3>2. CASE at[t][f] # "check"
      <4>1. Send(t, f, Status(t, f))
        BY <1>2, <3>2 DEF Wake, f
      <4>2. PICK r \in Replies :
               /\ pipe' = [pipe EXCEPT ![t] = Append(@, r)]
               /\ context' = context \/ context' = [context EXCEPT ![t] = "none"]
        BY <2>1, <2>2, <4>1, Sending
      <4>3. Append(pipe[t], r) \in Seq(Replies)
        BY <1>1, Appending
      <4> QED BY <1>1, <4>2, <4>3
    <3> QED BY <3>1, <3>2
  <2>4. waits' \in [Threads -> Stacks]
    BY <1>1, <1>2, <2>1 DEF Wake
  <2>5. signaled' \in SUBSET Objects /\ timer' \in [Threads -> BOOLEAN]
    BY <1>1, <1>2 DEF Wake, EndWait
  <2> QED BY <1>1, <1>2, <2>3, <2>4, <2>5 DEF Wake, apcs, client
<1>3. ASSUME NEW t \in Threads, WakeDone(t) PROVE Typed'
  BY <1>1, <1>3 DEF WakeDone, objects, thread, apcs, client
<1>4. ASSUME NEW t \in Threads, Timeout(t) PROVE Typed'
  <2>1. waits[t] # <<>> /\ t \in alive
    BY <1>1, <1>4, Stacking DEF Timeout, SInv, Kept
  <2>2. Tail(waits[t]) \in Stacks
    BY <1>1, <2>1, Stacking
  <2>3. CASE Head(waits[t]) = "wait" /\ ~Suspended(t)
    <3>1. Send(t, "wait", "timeout") /\ "timeout" \in Statuses
      BY <1>4, <2>3 DEF Timeout, Statuses
    <3>2. PICK r \in Replies : pipe' = [pipe EXCEPT ![t] = Append(@, r)] /\ context' = context
      BY <1>1, <3>1, Sending
    <3>3. Append(pipe[t], r) \in Seq(Replies)
      BY <1>1, Appending
    <3>4. pipe' \in [Threads -> Seq(Replies)]
      BY <1>1, <3>2, <3>3
    <3>5. waits' \in [Threads -> Stacks] /\ agenda' \in SUBSET alive
      BY <1>1, <1>4, <2>1, <2>2, <2>3 DEF Timeout
    <3> QED BY <1>1, <1>4, <3>2, <3>4, <3>5 DEF Timeout, objects, apcs, client
  <2>4. CASE ~(Head(waits[t]) = "wait" /\ ~Suspended(t))
    BY <1>1, <1>4, <2>4 DEF Timeout, objects, apcs, client
  <2> QED BY <2>3, <2>4
<1>5. ASSUME NEW t \in Threads, Clock(t) PROVE Typed'
  BY <1>1, <1>5, Calling DEF Clock, objects, thread, apcs
<1>6. ASSUME NEW t \in Threads, SelectSignal(t) PROVE Typed'
  <2>1. t \in alive /\ at[t]["wait"] = "select" /\ at[t]["suspend"] = "none"
    BY <1>6 DEF SelectSignal, Active
  <2>2. waits[t] = <<>>
    BY <1>1, <2>1, Stacking DEF SInv, Replied, Answered
  <2>3. waits' \in [Threads -> Stacks]
    BY <1>1, <1>6, <2>2, Stacking DEF SelectSignal, Stacks
  <2>4. agenda' \in SUBSET alive
    BY <1>6, <2>1, WaitersLive DEF SelectSignal
  <2>5. call[t].signal \in Objects /\ signaled' \in SUBSET Objects
    BY <1>1, <1>6 DEF SelectSignal, Args
  <2>6. apc' \in [Callers -> ApcStates]
    BY <1>1, <1>6 DEF SelectSignal, Reported, ApcStates
  <2>7. /\ running' \in [Threads -> Callers \union {Nothing}]
        /\ at' \in [Threads -> [Frames -> Places]]
    BY <1>1, <1>6 DEF SelectSignal, Goto, Places
  <2> QED BY <1>1, <1>6, <2>3, <2>4, <2>5, <2>6, <2>7 DEF SelectSignal, thread
<1>7. ASSUME NEW t \in Threads, SelfWoken(t) PROVE Typed'
  BY <1>1, <1>7, Calling DEF SelfWoken, Return, Goto, Places, objects, thread, apcs
<1>8. ASSUME NEW t \in Threads, PutBack(t) PROVE Typed'
  <2>1. Last(held[t]) \in Replies /\ Front(held[t]) \in Seq(Replies)
    BY <1>1, <1>8, Returning DEF PutBack, SInv, Replied
  <2>2. Append(pipe[t], Last(held[t])) \in Seq(Replies)
    BY <1>1, <2>1, Appending
  <2> QED BY <1>1, <1>8, <2>1, <2>2 DEF PutBack, objects, thread, apcs
<1>9. ASSUME NEW t \in Threads, NEW f \in Frames, SelectEnds(t, f) PROVE Typed'
  <2>1. Outer(t, f) \in Stacks
    BY <1>9, Selects DEF SelectEnds, SInv, Stacks
  <2>2. signaled' \in SUBSET Objects /\ timer' \in [Threads -> BOOLEAN]
    BY <1>1, <1>9 DEF SelectEnds, EndWait
  <2>3. userApcs' \in [Threads -> 0..MaxUserApcs]
    BY <1>1, <1>9, Ending, ConstantsAssumption DEF SelectEnds
  <2>4. /\ context' \in [Threads -> {"none", "pending", "ready"}]
        /\ edited' \in [Threads -> BOOLEAN]
    BY <1>1, <1>9 DEF SelectEnds
  <2>5. apc' \in [Callers -> ApcStates] /\ running' \in [Threads -> Callers \union {Nothing}]
    BY <1>1, <1>9 DEF SelectEnds, Reported, ApcStates
  <2>6. call' \in [Threads -> Args] /\ at' \in [Threads -> [Frames -> Places]]
    BY <1>1, <1>9, ReturnTyped DEF SelectEnds
  <2>7. waits' \in [Threads -> Stacks]
    BY <1>1, <1>9, <2>1 DEF SelectEnds
  <2> QED BY <1>1, <1>9, <2>2, <2>3, <2>4, <2>5, <2>6, <2>7 DEF SelectEnds
<1>10. ASSUME NEW t \in Threads, NEW f \in Frames, SelectApc(t, f) PROVE Typed'
  <2>1. Outer(t, f) \in Stacks
    BY <1>10, Selects DEF SelectApc, SInv, Stacks
  <2>2. Head(systemApcs[t]) \in Callers /\ Tail(systemApcs[t]) \in Seq(Callers)
    BY <1>1, <1>10 DEF SelectApc
  <2>3. context' \in [Threads -> {"none", "pending", "ready"}]
    BY <1>1, <1>10 DEF SelectApc, Context
  <2>4. Reported(t) \in [Callers -> ApcStates]
    BY <1>1 DEF Reported, ApcStates
  <2>5. apc' \in [Callers -> ApcStates] /\ running' \in [Threads -> Callers \union {Nothing}]
    BY <1>1, <1>10, <2>2, <2>4 DEF SelectApc, ApcStates
  <2>6. at' \in [Threads -> [Frames -> Places]]
    BY <1>1, <1>10 DEF SelectApc, Goto, Places
  <2>7. waits' \in [Threads -> Stacks] /\ systemApcs' \in [Threads -> Seq(Callers)]
    BY <1>1, <1>10, <2>1, <2>2 DEF SelectApc
  <2> QED BY <1>1, <1>10, <2>3, <2>5, <2>6, <2>7 DEF SelectApc, objects
<1>11. ASSUME NEW t \in Threads, NEW f \in Frames, SelectWaits(t, f) PROVE Typed'
  <2>1. <<f>> \o Outer(t, f) \in Stacks
    BY <1>11, Selects DEF SelectWaits, SInv
  <2>2. timer' \in [Threads -> BOOLEAN]
    BY <1>1, <1>11 DEF SelectWaits
  <2>3. context' \in [Threads -> {"none", "pending", "ready"}]
    BY <1>1, <1>11 DEF SelectWaits, Context
  <2>4. apc' \in [Callers -> ApcStates] /\ running' \in [Threads -> Callers \union {Nothing}]
    BY <1>1, <1>11 DEF SelectWaits, Reported, ApcStates
  <2>5. at' \in [Threads -> [Frames -> Places]]
    BY <1>1, <1>11 DEF SelectWaits, Goto, Places
  <2>6. waits' \in [Threads -> Stacks]
    BY <1>1, <1>11, <2>1 DEF SelectWaits
  <2> QED BY <1>1, <1>11, <2>2, <2>3, <2>4, <2>5, <2>6 DEF SelectWaits, objects
<1>12. ASSUME NEW t \in Threads, NEW f \in Frames, RunApc(t, f) PROVE Typed'
  BY <1>1, <1>12, Calling DEF RunApc, Goto, Places, objects, thread, apcs
<1>13. ASSUME NEW t \in Threads, NEW f \in Frames, Read(t, f) PROVE Typed'
  <2>1. Tail(pipe[t]) \in Seq(Replies)
    BY <1>1, <1>13, Reading DEF Read
  <2>2. call' \in [Threads -> Args] /\ at' \in [Threads -> [Frames -> Places]]
    <3>1. CASE Head(pipe[t]).status \in {"kernel_apc", "user_apc"}
      <4>1. call' = call /\ Goto(t, f, "select")
        BY <1>13, <3>1 DEF Read
      <4> QED BY <1>1, <4>1 DEF Goto, Places
    <3>2. CASE Head(pipe[t]).status \notin {"kernel_apc", "user_apc"}
      BY <1>1, <1>13, <3>2, ReturnTyped DEF Read
    <3> QED BY <3>1, <3>2
  <2>3. pipe' \in [Threads -> Seq(Replies)]
    BY <1>1, <1>13, <2>1 DEF Read
  <2> QED BY <1>1, <1>13, <2>2, <2>3 DEF Read, objects, thread, apcs
<1>14. ASSUME NEW t \in Threads, NEW f \in Frames, Steal(t, f) PROVE Typed'
  <2>1. Tail(pipe[t]) \in Seq(Replies) /\ Append(held[t], Head(pipe[t])) \in Seq(Replies)
    BY <1>1, <1>14, Reading, Appending DEF Steal
  <2> QED BY <1>1, <1>14, <2>1 DEF Steal, objects, thread, apcs
<1>15. ASSUME NEW t \in Threads, CallWait(t) PROVE Typed'
  <2>1. Calls[t] \subseteq Args
    BY ConstantsAssumption
  <2> QED BY <1>1, <1>15, <2>1 DEF CallWait, Goto, Places, objects, thread, apcs
<1>16. ASSUME NEW t \in Threads, HandleSignal(t) PROVE Typed'
  BY <1>1, <1>16 DEF HandleSignal, Goto, Places, objects, thread, apcs
<1>17. ASSUME NEW t \in Threads, SuspendThread(t) PROVE Typed'
  <2>1. suspend' \in [Threads -> 0..MaxSuspend]
    BY <1>1, <1>17, ConstantsAssumption DEF SuspendThread
  <2>2. /\ context' \in [Threads -> {"none", "pending", "ready"}]
        /\ signal' \in [Threads -> BOOLEAN]
    BY <1>1, <1>17 DEF SuspendThread, Stop
  <2> QED BY <1>1, <1>17, <2>1, <2>2 DEF SuspendThread, objects, apcs, client
<1>18. ASSUME NEW t \in Threads, ResumeThread(t) PROVE Typed'
  BY <1>1, <1>18, ConstantsAssumption DEF ResumeThread, Suspended, objects, apcs, client
<1>19. ASSUME NEW t \in Threads, SetThreadContext(t) PROVE Typed'
  BY <1>1, <1>19 DEF SetThreadContext, Stop, objects, apcs, client
<1>20. ASSUME NEW t \in Threads, QueueUserApc(t) PROVE Typed'
  BY <1>1, <1>20, ConstantsAssumption DEF QueueUserApc, thread, apcs, client
<1>21. ASSUME NEW t \in Threads, KillThread(t) PROVE Typed'
  <2>1. <<>> \in Stacks /\ <<>> \in Seq(Replies) /\ <<>> \in Seq(Callers) /\ 0 \in 0..MaxUserApcs
    BY ConstantsAssumption DEF Stacks
  <2>2. apc' \in [Callers -> ApcStates]
    BY <1>1, <1>21 DEF KillThread, Cleared, ApcStates
  <2>3. /\ waits' \in [Threads -> Stacks] /\ pipe' \in [Threads -> Seq(Replies)]
        /\ systemApcs' \in [Threads -> Seq(Callers)] /\ userApcs' \in [Threads -> 0..MaxUserApcs]
    BY <1>1, <1>21, <2>1 DEF KillThread
  <2>4. agenda' = {} /\ alive' \in SUBSET Threads /\ signaled' = signaled
    BY <1>1, <1>21 DEF KillThread, Free
  <2> QED BY <1>1, <1>21, <2>2, <2>3, <2>4 DEF KillThread, client
<1>22. ASSUME NEW c \in Callers, QueueSystemApc(c) PROVE Typed'
  <2>1. PICK t \in alive :
          /\ signal' = signal \/ signal' = [signal EXCEPT ![t] = TRUE]
          /\ systemApcs' = [systemApcs EXCEPT ![t] = Append(@, c)]
          /\ agenda' = IF systemApcs[t] = <<>> THEN {t} ELSE {}
    BY <1>22 DEF QueueSystemApc
  <2>2. t \in Threads /\ Append(systemApcs[t], c) \in Seq(Callers)
    BY <1>1
  <2>3. systemApcs' \in [Threads -> Seq(Callers)] /\ signal' \in [Threads -> BOOLEAN]
    BY <1>1, <2>1, <2>2
  <2>4. apc' \in [Callers -> ApcStates] /\ agenda' \in SUBSET alive
    BY <1>1, <1>22, <2>1 DEF QueueSystemApc, ApcStates
  <2> QED BY <1>1, <1>22, <2>3, <2>4 DEF QueueSystemApc, objects, thread, client
<1>23. ASSUME NEW c \in Callers, ProcessIsTerminating(c) PROVE Typed'
  BY <1>1, <1>23 DEF ProcessIsTerminating, ApcStates, objects, thread, client
<1>24. ASSUME NEW c \in Callers, GetApcResult(c) PROVE Typed'
  BY <1>1, <1>24 DEF GetApcResult, ApcStates, objects, thread, client
<1>25. ASSUME NEW o \in Objects, SetEvent(o) PROVE Typed'
  BY <1>1, <1>25, WaitersLive DEF SetEvent, thread, apcs, client
<1>26. ASSUME NEW o \in Objects, ResetEvent(o) PROVE Typed'
  BY <1>1, <1>26 DEF ResetEvent, thread, apcs, client
<1>27. CASE UNCHANGED vars
  BY <1>1, <1>27 DEF vars, objects, thread, apcs, client
<1> QED
  BY <1>2, <1>3, <1>4, <1>5, <1>6, <1>7, <1>8, <1>9, <1>10, <1>11, <1>12, <1>13, <1>14, <1>15,
     <1>16, <1>17, <1>18, <1>19, <1>20, <1>21, <1>22, <1>23, <1>24, <1>25, <1>26, <1>27
  DEF Next, Server, Client, Frame, Others, Caller

-----------------------------------------------------------------------------
(* Waits and replies.                                                      *)

\* A thread that a step leaves alone stays sound.
LEMMA SoundSame ==
    ASSUME NEW u \in Threads, Sound(u), u \in alive' <=> u \in alive,
           waits'[u] = waits[u], timer'[u] = timer[u], at'[u] = at[u],
           pipe'[u] = pipe[u], held'[u] = held[u]
    PROVE  Sound(u)'
BY DEF Sound, Kept, Replied, Answered

\* A frame that a step leaves alone stays answered.
LEMMA AnsweredSame ==
    ASSUME NEW t \in Threads, NEW g \in Frames, Answered(t, g), at'[t][g] = at[t][g],
           Contains(waits'[t], g) <=> Contains(waits[t], g),
           Told(pipe'[t], g) <=> Told(pipe[t], g), Told(held'[t], g) <=> Told(held[t], g)
    PROVE  Answered(t, g)'
BY DEF Answered

\* The wait that is ended is answered.
LEMMA SoundSent ==
    ASSUME SInv, NEW t \in alive, waits[t] # <<>>, NEW f, f = Head(waits[t]), at[t][f] # "check",
           NEW r \in Replies, r.cookie = f, pipe' = [pipe EXCEPT ![t] = Append(@, r)],
           waits' = [waits EXCEPT ![t] = Tail(@)], UNCHANGED <<alive, at, held>>,
           timer'[t] => timer[t] /\ f = "suspend"
    PROVE  Sound(t)'
<1>1. /\ t \in Threads /\ Kept(t) /\ Replied(t) /\ waits[t] \in Stacks /\ pipe[t] \in Seq(Replies)
      /\ "wait" \in Frames
  BY DEF SInv, Typed, Frames
<1>2. /\ f \in Frames /\ Contains(waits[t], f)
      /\ \A g \in Frames : Contains(Tail(waits[t]), g) <=> Contains(waits[t], g) /\ g # f
  BY <1>1, Stacking
<1>3. waits'[t] = Tail(waits[t]) /\ pipe'[t] = Append(pipe[t], r)
  BY <1>1 DEF SInv, Typed
<1>4. Answered(t, f)
  BY <1>1, <1>2 DEF Replied
<1>5. at[t][f] = "read" /\ ~Told(pipe[t], f) /\ ~Told(held[t], f)
  BY <1>2, <1>4 DEF Answered
<1>6. /\ \A g : Told(pipe'[t], g) <=> Told(pipe[t], g) \/ g = f
      /\ Once(pipe'[t])
  BY <1>1, <1>3, <1>5, Appending DEF Replied
<1>7. ASSUME NEW g \in Frames PROVE Answered(t, g)'
  <2>1. CASE g = f
    <3>1. ~Contains(waits'[t], g) /\ Told(pipe'[t], g) /\ ~Told(held'[t], g) /\ at'[t][g] = "read"
      BY <1>2, <1>3, <1>5, <1>6, <2>1
    <3> QED BY <3>1 DEF Answered
  <2>2. CASE g # f
    <3>1. Answered(t, g) /\ (Contains(waits'[t], g) <=> Contains(waits[t], g))
      BY <1>1, <1>2, <1>3, <2>2 DEF Replied
    <3>2. Told(pipe'[t], g) <=> Told(pipe[t], g)
      BY <1>6, <2>2
    <3> QED BY <1>1, <3>1, <3>2, AnsweredSame
  <2> QED BY <2>1, <2>2
<1>8. Replied(t)'
  BY <1>1, <1>6, <1>7 DEF Replied
<1>9. timer'[t] => Contains(waits'[t], "wait")
  BY <1>1, <1>2, <1>3 DEF Kept
<1>10. Kept(t)'
  BY <1>1, <1>9 DEF Kept
<1> QED BY <1>8, <1>10 DEF Sound

\* A request leaves its frame with no wait, or reads and in its wait.
LEMMA SoundSelected ==
    ASSUME SInv, NEW t \in Threads, NEW f \in Frames, Selecting(t, f), NEW l, NEW w,
           \/ l \in {"none", "apc"} /\ w = Outer(t, f) /\ (timer'[t] => timer[t])
           \/ l = "read" /\ w = <<f>> \o Outer(t, f) /\ (f # "wait" => timer'[t] = timer[t]),
           waits' = [waits EXCEPT ![t] = w], at' = [at EXCEPT ![t][f] = l],
           UNCHANGED <<alive, pipe, held>>
    PROVE  Sound(t)'
<1>1. /\ Typed /\ Kept(t) /\ "wait" \in Frames /\ "suspend" \in Frames /\ f \in {"wait", "suspend"}
  BY DEF SInv, Frames
<1>2. /\ t \in alive /\ ~Told(pipe[t], f) /\ ~Told(held[t], f)
      /\ ~Contains(Outer(t, f), f) /\ (f = "wait" => ~timer[t])
      /\ \A g \in Frames : g # f => (Contains(Outer(t, f), g) <=> Contains(waits[t], g))
      /\ Outer(t, f) \in {<<>>, <<"wait">>}
      /\ f = "wait" => /\ Outer(t, f) = <<>> /\ <<f>> \o Outer(t, f) = <<"wait">>
                       /\ at[t]["suspend"] = "none"
  BY Selects
<1>3. /\ waits'[t] = w /\ at'[t][f] = l /\ \A g \in Frames : g # f => at'[t][g] = at[t][g]
  BY <1>1 DEF Typed
<1>4. \A g \in Frames : Contains(<<f>> \o Outer(t, f), g) <=> Contains(Outer(t, f), g) \/ g = f
  <2>1. CASE f = "wait"
    <3>1. /\ \A g \in Frames : Contains(<<"wait">>, g) <=> g = "wait"
          /\ \A g \in Frames : ~Contains(<<>>, g)
      BY Stacking
    <3>2. Outer(t, f) = <<>> /\ <<f>> \o Outer(t, f) = <<"wait">>
      BY <1>2, <2>1
    <3> QED BY <2>1, <3>1, <3>2
  <2>2. CASE f = "suspend"
    BY <1>2, <2>2, Stacking
  <2> QED BY <1>1, <2>1, <2>2
<1>5. \A g \in Frames : g # f => (Contains(waits'[t], g) <=> Contains(waits[t], g))
  BY <1>2, <1>3, <1>4
<1>6. Contains(waits'[t], f) <=> l = "read"
  BY <1>2, <1>3, <1>4
<1>7. ASSUME NEW g \in Frames PROVE Answered(t, g)'
  <2>1. Answered(t, g)
    BY <1>2 DEF SInv, Replied
  <2>2. CASE g = f
    BY <1>2, <1>3, <1>6, <2>1, <2>2 DEF Answered
  <2>3. CASE g # f
    BY <1>3, <1>5, <2>1, <2>3, AnsweredSame
  <2> QED BY <2>2, <2>3
<1>8. Replied(t)'
  BY <1>2, <1>7 DEF SInv, Replied
<1>9. timer'[t] => Contains(waits'[t], "wait")
  <2>1. CASE f = "wait"
    BY <1>2, <1>6, <2>1
  <2>2. CASE f = "suspend"
    <3>1. timer'[t] => timer[t]
      BY <2>2
    <3> QED BY <1>1, <1>5, <2>2, <3>1 DEF Kept
  <2> QED BY <1>1, <2>1, <2>2
<1>10. at'[t]["suspend"] # "check" /\ at'[t]["wait"] # "enter"
  BY <1>1, <1>3 DEF Kept
<1>11. at'[t]["wait"] = "check" => at'[t]["suspend"] = "none" /\ ~timer'[t]
  <2>1. CASE f = "wait"
    BY <1>3, <2>1
  <2>2. CASE f = "suspend"
    <3>1. Active(t, f) \/ at[t]["suspend"] = "check"
      BY <2>2 DEF Selecting
    <3>2. at[t]["suspend"] # "none"
      BY <1>1, <2>2, <3>1 DEF Active, Kept
    <3>3. at[t]["wait"] # "check"
      BY <1>1, <3>2 DEF Kept
    <3> QED BY <1>1, <1>3, <2>2, <3>3
  <2> QED BY <1>1, <2>1, <2>2
<1>12. Kept(t)'
  BY <1>2, <1>9, <1>10, <1>11 DEF Kept
<1> QED BY <1>8, <1>12 DEF Sound

\* A frame that starts or goes on has no answer yet.
LEMMA SoundMoved ==
    ASSUME SInv, NEW t \in alive, NEW f \in Frames, at[t][f] \in {"none", "apc"},
           NEW l \in {"enter", "select"}, f = "wait" => l = "select",
           f = "suspend" => at[t]["wait"] # "check", at' = [at EXCEPT ![t][f] = l],
           UNCHANGED <<alive, waits, timer, pipe, held>>
    PROVE  Sound(t)'
<1>1. /\ Typed /\ t \in Threads /\ Kept(t) /\ Replied(t)
      /\ "wait" \in Frames /\ "suspend" \in Frames /\ f \in {"wait", "suspend"}
  BY DEF SInv, Typed, Frames
<1>2. /\ at'[t][f] = l /\ \A g \in Frames : g # f => at'[t][g] = at[t][g]
  BY <1>1 DEF Typed
<1>3. ASSUME NEW g \in Frames PROVE Answered(t, g)'
  <2>1. Answered(t, g)
    BY <1>1 DEF Replied
  <2>2. CASE g = f
    BY <1>2, <2>1, <2>2 DEF Answered
  <2>3. CASE g # f
    BY <1>1, <1>2, <2>1, <2>3, AnsweredSame
  <2> QED BY <2>2, <2>3
<1>4. Replied(t)'
  BY <1>1, <1>3 DEF Replied
<1>5. Kept(t)'
  <2>1. at'[t]["suspend"] # "check" /\ at'[t]["wait"] # "enter"
    BY <1>1, <1>2 DEF Kept
  <2>2. at'[t]["wait"] = "check" => at'[t]["suspend"] = "none" /\ ~timer'[t]
    BY <1>1, <1>2 DEF Kept
  <2> QED BY <1>1, <2>1, <2>2 DEF Kept
<1> QED BY <1>4, <1>5 DEF Sound

\* Each step answers the selects it ends and no other.
LEMMA SoundKept == SInv /\ [Next]_vars => \A u \in Threads : Sound(u)'
<1> SUFFICES ASSUME SInv, [Next]_vars, NEW u \in Threads PROVE Sound(u)'
  OBVIOUS
<1>1. /\ Typed /\ Sound(u) /\ "wait" \in Frames /\ "suspend" \in Frames
      /\ \A f \in Frames : f \in {"wait", "suspend"}
  BY DEF SInv, Sound, Frames
<1>2. ASSUME NEW t \in Threads, Wake(t) PROVE Sound(u)'
  <2> DEFINE f == Head(waits[t])
  <2>1. /\ t \in alive /\ waits[t] # <<>> /\ f \in Frames /\ Contains(waits[t], f)
        /\ \A g \in Frames : Contains(Tail(waits[t]), g) <=> Contains(waits[t], g) /\ g # f
    BY <1>1, <1>2, Stacking DEF Wake, CanEnd, Typed
  <2>2. /\ waits' = [waits EXCEPT ![t] = Tail(@)] /\ UNCHANGED <<alive, at, held>>
        /\ timer' = IF f = "wait" THEN [timer EXCEPT ![t] = FALSE] ELSE timer
        /\ IF at[t][f] = "check" THEN pipe' = pipe ELSE Send(t, f, Status(t, f))
    BY <1>2 DEF Wake, EndWait, client
  <2>3. f = "suspend" /\ Status(t, f) # "kernel_apc" => ~Suspended(t)
    BY <1>2, Ending DEF Wake, CanEnd, Statuses
  <2>4. Status(t, f) \in Statuses
    BY <1>2, Ending DEF Wake, CanEnd
  <2>5. timer'[t] => timer[t] /\ f = "suspend"
    BY <1>1, <2>1, <2>2 DEF Typed
  <2> HIDE DEF f
  <2>6. CASE u # t
    <3>1. pipe'[u] = pipe[u]
      <4>1. CASE at[t][f] = "check"
        BY <2>2, <4>1
      <4>2. CASE at[t][f] # "check"
        <5>1. PICK r \in Replies : pipe' = [pipe EXCEPT ![t] = Append(@, r)]
          BY <2>1, <2>2, <2>3, <2>4, <4>2, Sending
        <5> QED BY <1>1, <2>6, <5>1 DEF Typed
      <4> QED BY <4>1, <4>2
    <3> QED BY <1>1, <2>2, <2>6, <3>1, SoundSame DEF Typed
  <2>7. CASE u = t /\ at[t][f] # "check"
    <3>1. PICK r \in Replies : r.cookie = f /\ pipe' = [pipe EXCEPT ![t] = Append(@, r)]
      BY <2>1, <2>2, <2>3, <2>4, <2>7, Sending
    <3>2. f = Head(waits[t])
      BY DEF f
    <3>3. Sound(t)'
      BY <2>1, <2>2, <2>5, <2>7, <3>1, <3>2, SoundSent
    <3> QED BY <2>7, <3>3
  <2>8. CASE u = t /\ at[t][f] = "check"
    <3>1. Kept(t) /\ Replied(t) /\ waits'[t] = Tail(waits[t]) /\ pipe' = pipe
      BY <1>1, <2>1, <2>2, <2>8 DEF Sound, Typed
    <3>2. ASSUME NEW g \in Frames PROVE Answered(t, g)'
      <4>1. Answered(t, g)
        BY <3>1 DEF Replied
      <4>2. CASE g = f
        <5>1. ~Contains(waits'[t], g)
          BY <2>1, <3>1, <4>2
        <5> QED BY <2>2, <2>8, <3>1, <4>1, <4>2, <5>1 DEF Answered
      <4>3. CASE g # f
        <5>1. Contains(waits'[t], g) <=> Contains(waits[t], g)
          BY <2>1, <3>1, <4>3
        <5> QED BY <2>2, <3>1, <4>1, <5>1, AnsweredSame
      <4> QED BY <4>2, <4>3
    <3>3. Replied(t)'
      BY <2>2, <3>1, <3>2 DEF Replied
    <3>4. timer'[t] => Contains(waits'[t], "wait")
      BY <1>1, <2>1, <2>5, <3>1 DEF Kept
    <3>5. Kept(t)'
      BY <2>1, <2>2, <2>5, <3>1, <3>4 DEF Kept
    <3> QED BY <2>8, <3>3, <3>5 DEF Sound
  <2> QED BY <2>6, <2>7, <2>8
<1>4. ASSUME NEW t \in Threads, Timeout(t) PROVE Sound(u)'
  <2>1. /\ timer[t] /\ timer' = [timer EXCEPT ![t] = FALSE] /\ UNCHANGED <<alive, at, held>>
        /\ \A v \in Threads : at[v]["wait"] # "check"
    BY <1>4 DEF Timeout, client, Free
  <2>2. waits[t] # <<>> /\ t \in alive
    BY <1>1, <1>4, <2>1, Stacking DEF SInv, Kept, Typed
  <2>3. CASE Head(waits[t]) = "wait" /\ ~Suspended(t)
    <3>1. waits' = [waits EXCEPT ![t] = Tail(@)] /\ Send(t, "wait", "timeout") /\ "timeout" \in Statuses
      BY <1>4, <2>3 DEF Timeout, Statuses
    <3>2. PICK r \in Replies : r.cookie = "wait" /\ pipe' = [pipe EXCEPT ![t] = Append(@, r)]
      BY <1>1, <3>1, Sending
    <3>3. CASE u # t
      BY <1>1, <2>1, <3>1, <3>2, <3>3, SoundSame DEF Typed
    <3>4. CASE u = t
      <4>1. timer'[t] = FALSE
        BY <1>1, <2>1 DEF Typed
      <4>2. Sound(t)'
        BY <2>1, <2>2, <2>3, <3>1, <3>2, <4>1, SoundSent
      <4> QED BY <3>4, <4>2
    <3> QED BY <3>3, <3>4
  <2>4. CASE ~(Head(waits[t]) = "wait" /\ ~Suspended(t))
    <3>1. waits' = waits /\ pipe' = pipe
      BY <1>4, <2>4 DEF Timeout
    <3>2. CASE u # t
      BY <1>1, <2>1, <3>1, <3>2, SoundSame DEF Typed
    <3>3. CASE u = t
      <4>1. timer'[t] = FALSE
        BY <1>1, <2>1 DEF Typed
      <4> QED BY <1>1, <2>1, <3>1, <3>3, <4>1 DEF Sound, Kept, Replied, Answered
    <3> QED BY <3>2, <3>3
  <2> QED BY <2>3, <2>4
<1>6. ASSUME NEW t \in Threads, SelectSignal(t) PROVE Sound(u)'
  <2>1. /\ t \in alive /\ at[t]["wait"] = "select" /\ at[t]["suspend"] = "none"
        /\ waits' = [waits EXCEPT ![t] = <<"wait">> \o @] /\ at' = [at EXCEPT ![t]["wait"] = "check"]
        /\ UNCHANGED <<alive, timer, pipe, held>>
    BY <1>6 DEF SelectSignal, Active, Goto, thread
  <2>2. CASE u # t
    BY <1>1, <2>1, <2>2, SoundSame
  <2>3. CASE u = t
    <3>1. Replied(t) /\ Kept(t)
      BY <1>1, <2>1, <2>3 DEF Sound
    <3>2. waits[t] = <<>>
      <4>1. Answered(t, "wait") /\ Answered(t, "suspend")
        BY <1>1, <3>1 DEF Replied
      <4>2. ~Contains(waits[t], "wait") /\ ~Contains(waits[t], "suspend")
        BY <2>1, <4>1 DEF Answered
      <4> QED BY <1>1, <4>2, Stacking DEF Typed
    <3>3. waits'[t] = <<"wait">> /\ at'[t]["wait"] = "check" /\ at'[t]["suspend"] = "none"
      BY <1>1, <2>1, <3>2, Stacking DEF Typed
    <3>4. timer'[t] = FALSE
      BY <1>1, <2>1, <3>1, <3>2, Stacking DEF Kept, Typed
    <3>5. Kept(t)'
      BY <2>1, <3>3, <3>4 DEF Kept
    <3>6. ASSUME NEW f \in Frames PROVE Answered(t, f)'
      <4>1. Answered(t, f)
        BY <3>1 DEF Replied
      <4>2. CASE f = "wait"
        BY <2>1, <3>3, <4>1, <4>2 DEF Answered
      <4>3. CASE f = "suspend"
        <5>1. ~Contains(waits'[t], f)
          BY <3>3, <4>3, Stacking
        <5> QED BY <2>1, <3>3, <4>1, <4>3, <5>1 DEF Answered
      <4> QED BY <1>1, <4>2, <4>3
    <3>7. Replied(t)'
      BY <2>1, <3>1, <3>6 DEF Replied
    <3> QED BY <2>3, <3>5, <3>7 DEF Sound
  <2> QED BY <2>2, <2>3
<1>7. ASSUME NEW t \in Threads, SelfWoken(t) PROVE Sound(u)'
  <2>1. /\ at[t]["wait"] = "check" /\ waits[t] = <<>> /\ at' = [at EXCEPT ![t]["wait"] = "none"]
        /\ UNCHANGED <<alive, waits, timer, pipe, held>>
    BY <1>7 DEF SelfWoken, Return, Goto, thread
  <2>2. CASE u # t
    BY <1>1, <2>1, <2>2, SoundSame DEF Typed
  <2>3. CASE u = t
    <3>1. Kept(t) /\ t \in alive /\ Replied(t)
      BY <1>1, <2>1, <2>3 DEF Sound, Kept
    <3>2. /\ at'[t]["wait"] = "none" /\ at'[t]["suspend"] = at[t]["suspend"]
          /\ \A f \in Frames : ~Contains(waits'[t], f)
      BY <1>1, <2>1, Stacking DEF Typed
    <3>3. ASSUME NEW f \in Frames PROVE Answered(t, f)'
      <4>1. Answered(t, f) /\ ~Contains(waits'[t], f)
        BY <3>1, <3>2 DEF Replied
      <4>2. CASE f = "wait"
        BY <2>1, <3>2, <4>1, <4>2 DEF Answered
      <4>3. CASE f = "suspend"
        BY <2>1, <3>2, <4>1, <4>3 DEF Answered
      <4> QED BY <1>1, <4>2, <4>3
    <3>4. Replied(t)'
      BY <2>1, <3>1, <3>3 DEF Replied
    <3>5. Kept(t)'
      BY <2>1, <3>1, <3>2 DEF Kept
    <3> QED BY <2>3, <3>4, <3>5 DEF Sound
  <2> QED BY <2>2, <2>3
<1>8. ASSUME NEW t \in Threads, PutBack(t) PROVE Sound(u)'
  <2>1. /\ t \in alive /\ held[t] # <<>> /\ UNCHANGED <<alive, waits, timer, at>>
        /\ pipe' = [pipe EXCEPT ![t] = Append(@, Last(held[t]))]
        /\ held' = [held EXCEPT ![t] = Front(@)]
    BY <1>8 DEF PutBack, thread
  <2>2. CASE u # t
    BY <1>1, <2>1, <2>2, SoundSame DEF Typed
  <2>3. CASE u = t
    <3> DEFINE r == Last(held[t])
    <3>1. Kept(t) /\ Replied(t) /\ held[t] \in Seq(Replies) /\ pipe[t] \in Seq(Replies)
      BY <1>1, <2>1, <2>3 DEF Sound, Typed
    <3>2. /\ r \in Replies /\ Len(Front(held[t])) <= 1
          /\ \A f : ~Told(Front(held[t]), f) /\ (Told(held[t], f) <=> r.cookie = f)
      BY <2>1, <3>1, Returning DEF Replied
    <3>3. r.cookie \in Frames /\ Answered(t, r.cookie) /\ Told(held[t], r.cookie)
      BY <3>1, <3>2 DEF Replied, Replies
    <3>4. ~Told(pipe[t], r.cookie) /\ ~Contains(waits[t], r.cookie) /\ at[t][r.cookie] = "read"
      BY <3>3 DEF Answered
    <3>5. pipe'[t] = Append(pipe[t], r) /\ held'[t] = Front(held[t])
      BY <2>1, <3>1, <1>1 DEF Typed
    <3>6. /\ \A f : Told(Append(pipe[t], r), f) <=> Told(pipe[t], f) \/ r.cookie = f
          /\ Once(Append(pipe[t], r))
      BY <3>1, <3>2, <3>4, Appending DEF Replied
    <3> HIDE DEF r
    <3>7. ASSUME NEW f \in Frames PROVE Answered(t, f)'
      <4>1. Answered(t, f)
        BY <3>1 DEF Replied
      <4>2. (Told(pipe'[t], f) <=> Told(pipe[t], f) \/ r.cookie = f) /\ ~Told(held'[t], f)
        BY <3>2, <3>5, <3>6
      <4>3. CASE f = r.cookie
        BY <2>1, <3>4, <4>2, <4>3 DEF Answered
      <4>4. CASE f # r.cookie
        BY <2>1, <3>2, <4>1, <4>2, <4>4, AnsweredSame
      <4> QED BY <4>3, <4>4
    <3>8. Replied(t)'
      BY <3>2, <3>5, <3>6, <3>7 DEF Replied
    <3>9. Kept(t)'
      BY <2>1, <3>1 DEF Kept
    <3> QED BY <2>3, <3>8, <3>9 DEF Sound
  <2> QED BY <2>2, <2>3
<1>9. ASSUME NEW t \in Threads, NEW f \in Frames, SelectEnds(t, f) PROVE Sound(u)'
  <2>1. /\ Selecting(t, f) /\ waits' = [waits EXCEPT ![t] = Outer(t, f)]
        /\ at' = [at EXCEPT ![t][f] = "none"] /\ UNCHANGED <<alive, pipe, held>>
        /\ timer' = IF f = "wait" THEN [timer EXCEPT ![t] = FALSE] ELSE timer
    BY <1>9 DEF SelectEnds, EndWait, Return, Goto
  <2>2. timer'[t] => timer[t]
    BY <1>1, <2>1 DEF Typed
  <2>3. CASE u # t
    BY <1>1, <2>1, <2>3, SoundSame DEF Typed
  <2>4. Sound(t)'
    BY <2>1, <2>2, SoundSelected
  <2> QED BY <2>3, <2>4
<1>10. ASSUME NEW t \in Threads, NEW f \in Frames, SelectApc(t, f) PROVE Sound(u)'
  <2>1. /\ Selecting(t, f) /\ waits' = [waits EXCEPT ![t] = Outer(t, f)]
        /\ at' = [at EXCEPT ![t][f] = "apc"] /\ UNCHANGED <<alive, pipe, held, timer>>
    BY <1>10 DEF SelectApc, Goto
  <2>2. CASE u # t
    BY <1>1, <2>1, <2>2, SoundSame DEF Typed
  <2>3. Sound(t)'
    BY <2>1, SoundSelected
  <2> QED BY <2>2, <2>3
<1>11. ASSUME NEW t \in Threads, NEW f \in Frames, SelectWaits(t, f) PROVE Sound(u)'
  <2>1. /\ Selecting(t, f) /\ waits' = [waits EXCEPT ![t] = <<f>> \o Outer(t, f)]
        /\ at' = [at EXCEPT ![t][f] = "read"] /\ UNCHANGED <<alive, pipe, held>>
        /\ timer' = IF f = "wait" THEN [timer EXCEPT ![t] = call[t].deadline # "never"] ELSE timer
    BY <1>11 DEF SelectWaits, Goto
  <2>2. CASE u # t
    BY <1>1, <2>1, <2>2, SoundSame DEF Typed
  <2>3. Sound(t)'
    BY <2>1, SoundSelected
  <2> QED BY <2>2, <2>3
<1>12. ASSUME NEW t \in Threads, NEW f \in Frames, RunApc(t, f) PROVE Sound(u)'
  <2>1. /\ t \in alive /\ at[t][f] = "apc" /\ at' = [at EXCEPT ![t][f] = "select"]
        /\ f = "suspend" => at[t]["suspend"] # "none"
        /\ UNCHANGED <<alive, waits, timer, pipe, held>>
    BY <1>12 DEF RunApc, Active, Goto, thread
  <2>2. f = "suspend" => at[t]["wait"] # "check"
    BY <2>1 DEF SInv, Kept
  <2>3. CASE u # t
    BY <1>1, <2>1, <2>3, SoundSame DEF Typed
  <2>4. Sound(t)'
    BY <2>1, <2>2, SoundMoved
  <2> QED BY <2>3, <2>4
<1>13. ASSUME NEW t \in Threads, NEW f \in Frames, Read(t, f) PROVE Sound(u)'
  <2>1. /\ t \in alive /\ at[t][f] = "read" /\ UNCHANGED <<alive, waits, timer, held>>
        /\ pipe[t] # <<>> /\ Head(pipe[t]).cookie = f /\ pipe' = [pipe EXCEPT ![t] = Tail(@)]
    BY <1>13 DEF Read, thread
  <2>2. PICK l \in {"none", "select"} : at' = [at EXCEPT ![t][f] = l]
    BY <1>13 DEF Read, Return, Goto
  <2>3. CASE u # t
    BY <1>1, <2>1, <2>2, <2>3, SoundSame DEF Typed
  <2>4. CASE u = t
    <3>1. Kept(t) /\ Replied(t) /\ pipe[t] \in Seq(Replies)
      BY <1>1, <2>1, <2>4 DEF Sound, Typed
    <3>2. /\ at'[t][f] = l /\ (\A g \in Frames : g # f => at'[t][g] = at[t][g])
          /\ pipe'[t] = Tail(pipe[t])
      BY <1>1, <2>1, <2>2 DEF Typed
    <3>3. /\ Once(Tail(pipe[t])) /\ ~Told(Tail(pipe[t]), f)
          /\ \A g : Told(pipe[t], g) <=> Told(Tail(pipe[t]), g) \/ f = g
      BY <2>1, <3>1, Reading DEF Replied
    <3>4. ASSUME NEW g \in Frames PROVE Answered(t, g)'
      <4>1. Answered(t, g)
        BY <3>1 DEF Replied
      <4>2. CASE g = f
        <5>1. Told(pipe[t], g) /\ ~Told(pipe'[t], g)
          BY <3>2, <3>3, <4>2
        <5> QED BY <2>1, <3>2, <4>1, <4>2, <5>1 DEF Answered
      <4>3. CASE g # f
        BY <2>1, <3>2, <3>3, <4>1, <4>3, AnsweredSame
      <4> QED BY <4>2, <4>3
    <3>5. Replied(t)'
      BY <2>1, <3>1, <3>2, <3>3, <3>4 DEF Replied
    <3>6. at'[t]["suspend"] # "check" /\ at'[t]["wait"] # "enter"
      BY <1>1, <3>1, <3>2 DEF Kept
    <3>7. at'[t]["wait"] = "check" => at'[t]["suspend"] = "none" /\ ~timer'[t]
      <4>1. CASE f = "wait"
        BY <3>2, <4>1
      <4>2. CASE f = "suspend"
        BY <1>1, <2>1, <3>1, <3>2, <4>2 DEF Kept
      <4> QED BY <1>1, <4>1, <4>2
    <3>8. Kept(t)'
      BY <2>1, <3>1, <3>6, <3>7 DEF Kept
    <3> QED BY <2>4, <3>5, <3>8 DEF Sound
  <2> QED BY <2>3, <2>4
<1>14. ASSUME NEW t \in Threads, NEW f \in Frames, Steal(t, f) PROVE Sound(u)'
  <2>1. /\ t \in alive /\ at[t][f] = "read" /\ UNCHANGED <<alive, waits, timer, at>>
        /\ f = "wait" => at[t]["suspend"] = "none"
        /\ pipe[t] # <<>> /\ Head(pipe[t]).cookie # f /\ pipe' = [pipe EXCEPT ![t] = Tail(@)]
        /\ held' = [held EXCEPT ![t] = Append(@, Head(pipe[t]))]
    BY <1>14 DEF Steal, thread
  <2>2. CASE u # t
    BY <1>1, <2>1, <2>2, SoundSame DEF Typed
  <2>3. CASE u = t
    <3> DEFINE r == Head(pipe[t])
    <3>1. Kept(t) /\ Replied(t) /\ pipe[t] \in Seq(Replies) /\ held[t] \in Seq(Replies)
      BY <1>1, <2>1, <2>3 DEF Sound, Typed
    <3>2. /\ r \in Replies /\ Once(Tail(pipe[t])) /\ ~Told(Tail(pipe[t]), r.cookie)
          /\ \A g : Told(pipe[t], g) <=> Told(Tail(pipe[t]), g) \/ r.cookie = g
      BY <2>1, <3>1, Reading DEF Replied
    <3>3. r.cookie \in Frames /\ Told(pipe[t], r.cookie) /\ Answered(t, r.cookie)
      BY <3>1, <3>2 DEF Replied, Replies
    <3>4. /\ at[t][r.cookie] = "read" /\ ~Told(held[t], r.cookie) /\ ~Contains(waits[t], r.cookie)
      BY <3>3 DEF Answered
    <3>5. r.cookie = "wait"
      <4>1. CASE r.cookie = "suspend"
        BY <1>1, <2>1, <3>4, <4>1
      <4> QED BY <1>1, <3>3, <4>1
    <3>6. held[t] = <<>>
      <4>1. SUFFICES ASSUME held[t] # <<>> PROVE FALSE
        OBVIOUS
      <4>2. Last(held[t]) \in Replies /\ \A g : Told(held[t], g) <=> Last(held[t]).cookie = g
        BY <3>1, <4>1, Returning DEF Replied
      <4>3. Last(held[t]).cookie \in {"wait", "suspend"}
        BY <1>1, <4>2 DEF Replies
      <4> QED BY <3>1, <3>4, <3>5, <4>2, <4>3 DEF Replied
    <3>7. /\ pipe'[t] = Tail(pipe[t]) /\ held'[t] = Append(<<>>, r)
      BY <1>1, <2>1, <3>6 DEF Typed
    <3>8. /\ Len(Append(<<>>, r)) = 1
          /\ \A g : Told(Append(<<>>, r), g) <=> r.cookie = g
      <4>1. <<>> \in Seq(Replies) /\ Len(<<>>) = 0 /\ \A g : ~Told(<<>>, g)
        BY NoReply DEF Told
      <4>2. /\ Len(Append(<<>>, r)) = Len(<<>>) + 1
            /\ \A g : Told(Append(<<>>, r), g) <=> Told(<<>>, g) \/ r.cookie = g
        BY <3>2, <4>1, Appending
      <4> QED BY <4>1, <4>2
    <3> HIDE DEF r
    <3>9. ASSUME NEW g \in Frames PROVE Answered(t, g)'
      <4>1. Answered(t, g)
        BY <3>1 DEF Replied
      <4>2. CASE g = r.cookie
        <5>1. Told(held'[t], g) /\ ~Told(pipe'[t], g)
          BY <3>2, <3>7, <3>8, <4>2
        <5> QED BY <2>1, <3>4, <4>2, <5>1 DEF Answered
      <4>3. CASE g # r.cookie
        <5>1. (Told(pipe'[t], g) <=> Told(pipe[t], g)) /\ ~Told(held'[t], g)
          BY <3>2, <3>7, <3>8, <4>3
        <5>2. ~Told(held[t], g)
          <6>1. g = "suspend"
            BY <1>1, <3>5, <4>3
          <6> QED BY <3>1, <6>1 DEF Replied
        <5> QED BY <2>1, <4>1, <5>1, <5>2, AnsweredSame
      <4> QED BY <4>2, <4>3
    <3>10. Replied(t)'
      <4>1. Once(pipe'[t]) /\ Len(held'[t]) <= 1 /\ ~Told(held'[t], "suspend")
        BY <3>2, <3>5, <3>7, <3>8
      <4> QED BY <3>9, <4>1 DEF Replied
    <3>11. Kept(t)'
      BY <2>1, <3>1 DEF Kept
    <3> QED BY <2>3, <3>10, <3>11 DEF Sound
  <2> QED BY <2>2, <2>3
<1>15. ASSUME NEW t \in Threads, CallWait(t) PROVE Sound(u)'
  <2>1. /\ t \in alive /\ at[t]["wait"] = "none" /\ at' = [at EXCEPT ![t]["wait"] = "select"]
        /\ UNCHANGED <<alive, waits, timer, pipe, held>>
    BY <1>15 DEF CallWait, Active, Goto, thread
  <2>2. CASE u # t
    BY <1>1, <2>1, <2>2, SoundSame DEF Typed
  <2>3. Sound(t)'
    BY <1>1, <2>1, SoundMoved
  <2> QED BY <2>2, <2>3
<1>16. ASSUME NEW t \in Threads, HandleSignal(t) PROVE Sound(u)'
  <2>1. /\ t \in alive /\ at[t]["suspend"] = "none" /\ at[t]["wait"] \in {"none", "read"}
        /\ at' = [at EXCEPT ![t]["suspend"] = "enter"]
        /\ UNCHANGED <<alive, waits, timer, pipe, held>>
    BY <1>16 DEF HandleSignal, Goto, thread
  <2>2. CASE u # t
    BY <1>1, <2>1, <2>2, SoundSame DEF Typed
  <2>3. Sound(t)'
    BY <1>1, <2>1, SoundMoved
  <2> QED BY <2>2, <2>3
<1>21. ASSUME NEW t \in Threads, KillThread(t) PROVE Sound(u)'
  <2>1. /\ alive' = alive \ {t} /\ waits' = [waits EXCEPT ![t] = <<>>]
        /\ timer' = [timer EXCEPT ![t] = FALSE] /\ pipe' = [pipe EXCEPT ![t] = <<>>]
        /\ UNCHANGED <<at, held>> /\ at[t]["wait"] # "check"
    BY <1>21 DEF KillThread, client, Free
  <2>2. CASE u # t
    BY <1>1, <2>1, <2>2, SoundSame DEF Typed
  <2>3. CASE u = t
    <3>1. waits'[t] = <<>> /\ timer'[t] = FALSE /\ t \notin alive'
      BY <1>1, <2>1 DEF Typed
    <3> QED BY <1>1, <2>1, <2>3, <3>1 DEF Sound, Kept
  <2> QED BY <2>2, <2>3
<1>28. CASE UNCHANGED <<alive, waits, timer, at, pipe, held>>
  BY <1>1, <1>28, SoundSame
<1>3. ASSUME NEW t \in Threads, WakeDone(t) \/ Others(t) PROVE Sound(u)'
  BY <1>3, <1>21, <1>28
  DEF WakeDone, Others, Clock, SuspendThread, ResumeThread, SetThreadContext, QueueUserApc, thread, client
<1>22. ASSUME NEW c \in Callers, Caller(c) PROVE Sound(u)'
  BY <1>22, <1>28 DEF Caller, QueueSystemApc, ProcessIsTerminating, GetApcResult, thread, client
<1>25. ASSUME NEW o \in Objects, SetEvent(o) \/ ResetEvent(o) PROVE Sound(u)'
  BY <1>25, <1>28 DEF SetEvent, ResetEvent, thread, client
<1>27. CASE UNCHANGED vars
  BY <1>27, <1>28 DEF vars, thread, client
<1> QED
  BY <1>2, <1>3, <1>4, <1>6, <1>7, <1>8, <1>9, <1>10, <1>11, <1>12, <1>13, <1>14, <1>15, <1>16,
     <1>22, <1>25, <1>27
  DEF Next, Server, Client, Frame

-----------------------------------------------------------------------------
(* Contexts.                                                               *)

\* Threads only die.
LEMMA OnlyDie == [Next]_vars => alive' \subseteq alive
<1> SUFFICES ASSUME [Next]_vars PROVE alive' \subseteq alive
  OBVIOUS
<1>1. ASSUME NEW t \in Threads, Server(t) PROVE alive' \subseteq alive
  BY <1>1 DEF Server, Wake, WakeDone, Timeout, thread
<1>2. ASSUME NEW t \in Threads, NEW f \in Frames, Frame(t, f) PROVE alive' \subseteq alive
  BY <1>2 DEF Frame, SelectEnds, SelectApc, SelectWaits, RunApc, Read, Steal, thread
<1>3. ASSUME NEW t \in Threads, SelectSignal(t) \/ SelfWoken(t) \/ PutBack(t) PROVE alive' \subseteq alive
  BY <1>3 DEF SelectSignal, SelfWoken, PutBack, thread
<1>4. ASSUME NEW t \in Threads, CallWait(t) \/ HandleSignal(t) PROVE alive' \subseteq alive
  BY <1>4 DEF CallWait, HandleSignal, thread
<1>5. ASSUME NEW t \in Threads, Others(t) PROVE alive' \subseteq alive
  BY <1>5 DEF Others, SuspendThread, ResumeThread, SetThreadContext, QueueUserApc, KillThread, Clock, thread
<1>6. ASSUME NEW c \in Callers, Caller(c) PROVE alive' \subseteq alive
  BY <1>6 DEF Caller, QueueSystemApc, ProcessIsTerminating, GetApcResult, thread
<1>7. ASSUME NEW o \in Objects, SetEvent(o) \/ ResetEvent(o) PROVE alive' \subseteq alive
  BY <1>7 DEF SetEvent, ResetEvent, thread
<1>8. CASE UNCHANGED vars
  BY <1>8 DEF vars, thread
<1> QED BY <1>1, <1>2, <1>3, <1>4, <1>5, <1>6, <1>7, <1>8 DEF Next, Client

\* A thread that a step leaves alone keeps its context.
LEMMA PlacedSame ==
    ASSUME NEW u \in Threads, Placed(u), suspend'[u] = suspend[u], edited'[u] = edited[u],
           context'[u] = context[u], signal[u] => signal'[u], at'[u]["suspend"] = at[u]["suspend"],
           \A r \in Range(pipe'[u]) : r \in Range(pipe[u]) \/ r.cookie = "wait"
    PROVE  Placed(u)'
BY DEF Placed, Suspended

\* The reply to the wait of wait_suspend takes its context or leaves it.
LEMMA PlacedSent ==
    ASSUME SInv, NEW t \in alive, NEW f \in Frames, NEW status \in Statuses, Send(t, f, status),
           f = "suspend" /\ status # "kernel_apc" => ~Suspended(t),
           UNCHANGED <<suspend, edited, signal, at>>
    PROVE  Placed(t)'
<1>1. /\ t \in Threads /\ Placed(t) /\ pipe[t] \in Seq(Replies)
  BY DEF SInv, Typed
<1>2. PICK r \in Replies :
             /\ r.cookie = f /\ pipe' = [pipe EXCEPT ![t] = Append(@, r)]
             /\ \/ context' = context /\ (f = "suspend" => r.status = "kernel_apc")
                \/ /\ f = "suspend" /\ context' = [context EXCEPT ![t] = "none"]
                   /\ ~Suspended(t) /\ ~edited[t]
  BY <1>1, Sending
<1>3. Range(pipe'[t]) = Range(pipe[t]) \union {r}
  BY <1>1, <1>2, Appending DEF SInv, Typed
<1>4. CASE context' = context /\ (f = "suspend" => r.status = "kernel_apc")
  BY <1>1, <1>2, <1>3, <1>4 DEF Placed, Suspended
<1>5. CASE /\ f = "suspend" /\ context' = [context EXCEPT ![t] = "none"]
           /\ ~Suspended(t) /\ ~edited[t]
  <2>1. context'[t] = "none"
    BY <1>1, <1>5 DEF SInv, Typed
  <2> QED BY <1>5, <2>1 DEF Placed, Suspended
<1> QED BY <1>2, <1>4, <1>5

\* Each step leaves a living thread's context where it belongs.
LEMMA PlacedKept == SInv /\ [Next]_vars => \A u \in alive' : Placed(u)'
<1> SUFFICES ASSUME SInv, [Next]_vars, NEW u \in alive' PROVE Placed(u)'
  OBVIOUS
<1>1. /\ Typed /\ "wait" \in Frames /\ "suspend" \in Frames
      /\ \A f \in Frames : f \in {"wait", "suspend"}
  BY DEF SInv, Frames
<1>0. u \in alive /\ u \in Threads /\ Placed(u) /\ Kept(u) /\ pipe[u] \in Seq(Replies)
  BY <1>1, OnlyDie DEF SInv, Typed
<1>2. ASSUME NEW t \in Threads, Wake(t) PROVE Placed(u)'
  <2> DEFINE f == Head(waits[t])
  <2>1. /\ UNCHANGED <<suspend, edited, signal, at>> /\ t \in alive
        /\ IF at[t][f] = "check" THEN UNCHANGED <<context, pipe>> ELSE Send(t, f, Status(t, f))
    BY <1>1, <1>2 DEF Wake, client, Typed
  <2>2. CASE at[t][f] = "check"
    BY <1>0, <2>1, <2>2, PlacedSame
  <2>3. CASE at[t][f] # "check"
    <3>1. f \in Frames /\ Status(t, f) \in Statuses
      BY <1>1, <1>2, Stacking, Ending DEF Wake, CanEnd, Typed
    <3>2. f = "suspend" /\ Status(t, f) # "kernel_apc" => ~Suspended(t)
      BY <1>2, Ending DEF Wake, CanEnd, Statuses
    <3> HIDE DEF f
    <3>3. Placed(t)'
      BY <2>1, <2>3, <3>1, <3>2, PlacedSent
    <3>4. CASE u # t
      <4>1. PICK r \in Replies :
              /\ pipe' = [pipe EXCEPT ![t] = Append(@, r)]
              /\ context' = context \/ context' = [context EXCEPT ![t] = "none"]
        BY <2>1, <2>3, <3>1, <3>2, Sending
      <4> QED BY <1>0, <1>1, <2>1, <3>4, <4>1, PlacedSame DEF Typed
    <3> QED BY <3>3, <3>4
  <2> QED BY <2>2, <2>3
<1>4. ASSUME NEW t \in Threads, Timeout(t) PROVE Placed(u)'
  <2>1. UNCHANGED <<suspend, edited, signal, at>>
    BY <1>4 DEF Timeout, client
  <2>2. CASE UNCHANGED <<context, pipe>>
    BY <1>0, <2>1, <2>2, PlacedSame
  <2>3. CASE Send(t, "wait", "timeout")
    <3>1. "timeout" \in Statuses
      BY DEF Statuses
    <3>2. PICK r \in Replies : pipe' = [pipe EXCEPT ![t] = Append(@, r)] /\ r.cookie = "wait" /\ context' = context
      BY <1>1, <2>3, <3>1, Sending
    <3>3. \A s \in Range(pipe'[u]) : s \in Range(pipe[u]) \/ s.cookie = "wait"
      BY <1>0, <1>1, <3>2, Appending DEF Typed
    <3> QED BY <1>0, <2>1, <3>2, <3>3, PlacedSame
  <2> QED BY <1>4, <2>2, <2>3 DEF Timeout
<1>8. ASSUME NEW t \in Threads, PutBack(t) PROVE Placed(u)'
  <2>1. /\ t \in alive /\ held[t] # <<>> /\ UNCHANGED <<suspend, edited, context, signal, at>>
        /\ pipe' = [pipe EXCEPT ![t] = Append(@, Last(held[t]))]
    BY <1>8 DEF PutBack, thread
  <2>2. Last(held[t]) \in Replies /\ Last(held[t]).cookie = "wait"
    <3>1. Replied(t) /\ held[t] \in Seq(Replies)
      BY <1>1, <2>1 DEF SInv, Typed
    <3>2. Last(held[t]) \in Replies /\ \A f : Told(held[t], f) <=> Last(held[t]).cookie = f
      BY <2>1, <3>1, Returning DEF Replied
    <3>3. Last(held[t]).cookie \in {"wait", "suspend"}
      BY <1>1, <3>2 DEF Replies
    <3> QED BY <3>1, <3>2, <3>3 DEF Replied
  <2>3. \A s \in Range(pipe'[u]) : s \in Range(pipe[u]) \/ s.cookie = "wait"
    BY <1>0, <1>1, <2>1, <2>2, Appending DEF Typed
  <2> QED BY <1>0, <2>1, <2>3, PlacedSame
<1>9. ASSUME NEW t \in Threads, NEW f \in Frames, SelectEnds(t, f) PROVE Placed(u)'
  <2>1. /\ UNCHANGED <<suspend, signal, pipe>> /\ at' = [at EXCEPT ![t][f] = "none"]
        /\ Status(t, f) \in {"object", "user_apc", "timeout"}
        /\ IF f = "suspend"
           THEN context' = [context EXCEPT ![t] = "none"] /\ edited' = [edited EXCEPT ![t] = FALSE]
           ELSE UNCHANGED <<context, edited>>
    BY <1>9 DEF SelectEnds, Return, Goto
  <2>2. CASE u # t \/ f = "wait"
    BY <1>0, <1>1, <2>1, <2>2, PlacedSame DEF Typed
  <2>3. CASE u = t /\ f = "suspend"
    <3>1. context'[u] = "none" /\ edited'[u] = FALSE /\ ~Suspended(u)
      BY <1>1, <2>1, <2>3, Ending DEF Typed
    <3> QED BY <2>1, <3>1 DEF Placed, Suspended
  <2> QED BY <1>1, <2>2, <2>3
<1>10. ASSUME NEW t \in Threads, NEW f \in Frames, SelectApc(t, f) \/ SelectWaits(t, f) PROVE Placed(u)'
  <2>1. /\ UNCHANGED <<suspend, edited, signal, pipe>>
        /\ context' = [context EXCEPT ![t] = Context(t, f)] /\ Selecting(t, f)
    BY <1>10 DEF SelectApc, SelectWaits
  <2>2. PICK l \in {"apc", "read"} : at' = [at EXCEPT ![t][f] = l]
    BY <1>10 DEF SelectApc, SelectWaits, Goto
  <2>3. CASE u # t
    BY <1>0, <1>1, <2>1, <2>2, <2>3, PlacedSame DEF Typed
  <2>4. CASE u = t /\ f = "wait"
    <3>1. context' = context
      BY <1>0, <1>1, <2>1, <2>4 DEF Context, Kept, Typed
    <3> QED BY <1>0, <1>1, <2>1, <2>2, <2>4, <3>1, PlacedSame DEF Typed
  <2>5. CASE u = t /\ f = "suspend"
    <3>1. ~Told(pipe[u], "suspend") /\ at[u]["suspend"] \in {"enter", "select"}
      BY <1>0, <2>1, <2>5, Selects DEF Kept
    <3>2. /\ at'[u]["suspend"] \in {"apc", "read"}
          /\ context'[u] = IF at[u]["suspend"] = "enter" THEN "ready" ELSE context[u]
      BY <1>1, <2>1, <2>2, <2>5 DEF Typed, Context
    <3>3. \A r \in Range(pipe'[u]) : r.cookie # "suspend"
      BY <2>1, <3>1 DEF Told
    <3> QED BY <1>0, <2>1, <3>1, <3>2, <3>3 DEF Placed, Suspended
  <2> QED BY <1>1, <2>3, <2>4, <2>5
<1>12. ASSUME NEW t \in Threads, NEW f \in Frames, RunApc(t, f) PROVE Placed(u)'
  <2>1. /\ UNCHANGED <<suspend, edited, context, signal, pipe>>
        /\ at[t][f] = "apc" /\ at' = [at EXCEPT ![t][f] = "select"]
    BY <1>12 DEF RunApc, Goto, thread
  <2>2. CASE u # t \/ f = "wait"
    BY <1>0, <1>1, <2>1, <2>2, PlacedSame DEF Typed
  <2>3. CASE u = t /\ f = "suspend"
    <3>1. at[u]["suspend"] = "apc" /\ at'[u]["suspend"] = "select"
      BY <1>1, <2>1, <2>3 DEF Typed
    <3> QED BY <1>0, <2>1, <3>1 DEF Placed, Suspended
  <2> QED BY <1>1, <2>2, <2>3
<1>13. ASSUME NEW t \in Threads, NEW f \in Frames, Read(t, f) PROVE Placed(u)'
  <2>1. /\ UNCHANGED <<suspend, edited, context, signal>> /\ at[t][f] = "read"
        /\ pipe[t] # <<>> /\ Head(pipe[t]).cookie = f /\ pipe' = [pipe EXCEPT ![t] = Tail(@)]
        /\ \/ at' = [at EXCEPT ![t][f] = "select"]
           \/ /\ at' = [at EXCEPT ![t][f] = "none"]
              /\ Head(pipe[t]).status \notin {"kernel_apc", "user_apc"}
    BY <1>13 DEF Read, Return, Goto, thread
  <2>2. CASE u # t
    BY <1>0, <1>1, <2>1, <2>2, PlacedSame DEF Typed
  <2>3. CASE u = t
    <3>1. /\ pipe'[u] = Tail(pipe[u]) /\ Head(pipe[u]) \in Range(pipe[u])
          /\ Range(Tail(pipe[u])) \subseteq Range(pipe[u])
      BY <1>0, <1>1, <2>1, <2>3, Reading DEF Typed
    <3>2. CASE f = "wait"
      <4>1. at'[u]["suspend"] = at[u]["suspend"]
        <5>1. PICK l : at' = [at EXCEPT ![t]["wait"] = l]
          BY <2>1, <3>2
        <5> QED BY <1>1, <5>1 DEF Typed
      <4>2. \A r \in Range(pipe'[u]) : r \in Range(pipe[u])
        BY <3>1
      <4> QED BY <1>0, <2>1, <4>1, <4>2, PlacedSame
    <3>3. CASE f = "suspend"
      <4>1. at[u]["suspend"] = "read" /\ at'[u]["suspend"] \in {"select", "none"}
        BY <1>1, <2>1, <2>3, <3>3 DEF Typed
      <4>2. at'[u]["suspend"] = "none" => Head(pipe[u]).status \notin {"kernel_apc", "user_apc"}
        BY <1>1, <2>1, <2>3, <3>3 DEF Typed
      <4>3. at'[u]["suspend"] = "none" => context[u] # "ready"
        BY <1>0, <2>1, <2>3, <3>1, <3>3, <4>2 DEF Placed
      <4> QED BY <1>0, <2>1, <3>1, <4>1, <4>3 DEF Placed, Suspended
    <3> QED BY <1>1, <3>2, <3>3
  <2> QED BY <2>2, <2>3
<1>14. ASSUME NEW t \in Threads, NEW f \in Frames, Steal(t, f) PROVE Placed(u)'
  <2>1. /\ UNCHANGED <<suspend, edited, context, signal, at>>
        /\ pipe[t] # <<>> /\ pipe' = [pipe EXCEPT ![t] = Tail(@)]
    BY <1>14 DEF Steal, thread
  <2>2. \A r \in Range(pipe'[u]) : r \in Range(pipe[u])
    <3>1. CASE u = t
      BY <1>0, <1>1, <2>1, <3>1, Reading DEF Typed
    <3>2. CASE u # t
      BY <1>1, <2>1, <3>2 DEF Typed
    <3> QED BY <3>1, <3>2
  <2> QED BY <1>0, <2>1, <2>2, PlacedSame
<1>16. ASSUME NEW t \in Threads, HandleSignal(t) PROVE Placed(u)'
  <2>1. /\ UNCHANGED <<suspend, edited, context, pipe>> /\ at[t]["suspend"] = "none"
        /\ at' = [at EXCEPT ![t]["suspend"] = "enter"] /\ signal' = [signal EXCEPT ![t] = FALSE]
    BY <1>16 DEF HandleSignal, Goto, thread
  <2>2. CASE u # t
    BY <1>0, <1>1, <2>1, <2>2, PlacedSame DEF Typed
  <2>3. CASE u = t
    <3>1. at'[u]["suspend"] = "enter" /\ context[u] # "ready"
      BY <1>0, <1>1, <2>1, <2>3 DEF Typed, Placed
    <3> QED BY <1>0, <2>1, <3>1 DEF Placed, Suspended
  <2> QED BY <2>2, <2>3
<1>17. ASSUME NEW t \in Threads, SuspendThread(t) PROVE Placed(u)'
  <2>1. /\ UNCHANGED <<edited, at, pipe>> /\ suspend' = [suspend EXCEPT ![t] = @ + 1]
        /\ \/ Suspended(t) /\ UNCHANGED <<context, signal>>
           \/ context[t] # "none" /\ UNCHANGED <<context, signal>>
           \/ /\ context' = [context EXCEPT ![t] = "pending"]
              /\ signal' = [signal EXCEPT ![t] = TRUE]
    BY <1>17 DEF SuspendThread, Stop, client
  <2>2. CASE u # t
    BY <1>0, <1>1, <2>1, <2>2, PlacedSame DEF Typed
  <2>3. CASE u = t
    <3>1. CASE context[u] # "none" /\ UNCHANGED <<context, signal>>
      BY <1>0, <2>1, <3>1 DEF Placed
    <3>2. CASE context'[u] = "pending" /\ signal'[u] = TRUE
      BY <3>2 DEF Placed
    <3> QED BY <1>0, <1>1, <2>1, <2>3, <3>1, <3>2 DEF Placed, Typed
  <2> QED BY <2>2, <2>3
<1>18. ASSUME NEW t \in Threads, ResumeThread(t) PROVE Placed(u)'
  <2>1. /\ UNCHANGED <<edited, at, pipe, context, signal>> /\ suspend' = [suspend EXCEPT ![t] = @ - 1]
    BY <1>18 DEF ResumeThread, client
  <2>2. Suspended(u)' => Suspended(u)
    BY <1>0, <1>1, <2>1, ConstantsAssumption DEF Typed, Suspended
  <2> QED BY <1>0, <2>1, <2>2 DEF Placed
<1>19. ASSUME NEW t \in Threads, SetThreadContext(t) PROVE Placed(u)'
  <2>1. /\ UNCHANGED <<suspend, at, pipe>> /\ edited' = [edited EXCEPT ![t] = TRUE]
        /\ \/ context[t] # "none" /\ UNCHANGED <<context, signal>>
           \/ /\ context' = [context EXCEPT ![t] = "pending"]
              /\ signal' = [signal EXCEPT ![t] = TRUE]
    BY <1>19 DEF SetThreadContext, Stop, client
  <2>2. CASE u # t
    BY <1>0, <1>1, <2>1, <2>2, PlacedSame DEF Typed
  <2>3. CASE u = t
    <3>1. CASE context[u] # "none" /\ UNCHANGED <<context, signal>>
      BY <1>0, <2>1, <3>1 DEF Placed
    <3>2. CASE context'[u] = "pending" /\ signal'[u] = TRUE
      BY <3>2 DEF Placed
    <3> QED BY <1>0, <1>1, <2>1, <2>3, <3>1, <3>2 DEF Typed
  <2> QED BY <2>2, <2>3
<1>21. ASSUME NEW t \in Threads, KillThread(t) PROVE Placed(u)'
  <2>1. u # t
    BY <1>21 DEF KillThread
  <2> QED BY <1>0, <1>1, <1>21, <2>1, PlacedSame DEF KillThread, Typed, client
<1>22. ASSUME NEW c \in Callers, Caller(c) PROVE Placed(u)'
  <2>1. /\ UNCHANGED <<suspend, edited, context, pipe, at>>
        /\ \/ UNCHANGED signal
           \/ \E t \in Threads : signal' = [signal EXCEPT ![t] = TRUE]
    BY <1>1, <1>22 DEF Caller, QueueSystemApc, ProcessIsTerminating, GetApcResult, thread, client, Typed
  <2> QED BY <1>0, <1>1, <2>1, PlacedSame DEF Typed
<1>28. CASE /\ UNCHANGED <<suspend, edited, context, signal, pipe>>
            /\ at'[u]["suspend"] = at[u]["suspend"]
  BY <1>0, <1>28, PlacedSame
<1>6. ASSUME NEW t \in Threads, SelectSignal(t) \/ SelfWoken(t) \/ CallWait(t) PROVE Placed(u)'
  <2>1. /\ UNCHANGED <<suspend, edited, context, signal, pipe>>
        /\ \E l : at' = [at EXCEPT ![t]["wait"] = l]
    BY <1>6 DEF SelectSignal, SelfWoken, CallWait, Return, Goto, thread
  <2> QED BY <1>0, <1>1, <1>28, <2>1 DEF Typed
<1>3. ASSUME NEW t \in Threads, WakeDone(t) \/ QueueUserApc(t) \/ Clock(t) PROVE Placed(u)'
  BY <1>3, <1>28 DEF WakeDone, QueueUserApc, Clock, thread, client
<1>25. ASSUME NEW o \in Objects, SetEvent(o) \/ ResetEvent(o) PROVE Placed(u)'
  BY <1>25, <1>28 DEF SetEvent, ResetEvent, thread, client
<1>27. CASE UNCHANGED vars
  BY <1>27, <1>28 DEF vars, thread, client
<1> QED
  BY <1>2, <1>3, <1>4, <1>6, <1>8, <1>9, <1>10, <1>12, <1>13, <1>14, <1>16, <1>17, <1>18, <1>19,
     <1>21, <1>22, <1>25, <1>27
  DEF Next, Server, Client, Frame, Others

-----------------------------------------------------------------------------
(* Wake-ups.                                                               *)

\* A thread that is in no wait is not to be woken.
LEMMA WatchedOut == ASSUME NEW u \in Threads, waits'[u] = <<>> PROVE Watched(u)'
BY Stacking DEF Watched, CanEnd, Frames

\* Whether a thread's wait ends depends on its APCs, its suspension and its call, and
\* a wait ends no earlier when there are fewer signaled objects.
LEMMA WatchedSame ==
    ASSUME NEW u \in Threads, Watched(u), waits[u] \in Stacks, waits'[u] = waits[u],
           timer'[u] = timer[u], call'[u] = call[u], Suspended(u)' <=> Suspended(u),
           systemApcs'[u] = systemApcs[u], userApcs'[u] > 0 <=> userApcs[u] > 0,
           at'[u]["wait"] # "check" => at[u]["wait"] # "check",
           u \in agenda => u \in agenda' \/ ~CanEnd(u),
           Contains(waits[u], "wait") /\ Ready(call[u])' => Ready(call[u])
    PROVE  Watched(u)'
<1> SUFFICES ASSUME at'[u]["wait"] # "check"
             PROVE  /\ CanEnd(u)' /\ u \notin agenda' =>
                         Head(waits[u]) = "wait" /\ Status(u, "wait")' = "timeout" /\ timer[u]
                    /\ Contains(waits[u], "wait") /\ call[u].deadline = "ahead" => timer[u]
  BY DEF Watched
<1>1. /\ CanEnd(u) /\ u \notin agenda =>
           Head(waits[u]) = "wait" /\ Status(u, "wait") = "timeout" /\ timer[u]
      /\ Contains(waits[u], "wait") /\ call[u].deadline = "ahead" => timer[u]
  BY DEF Watched
<1>2. ASSUME CanEnd(u)', u \notin agenda'
      PROVE  Head(waits[u]) = "wait" /\ Status(u, "wait")' = "timeout" /\ timer[u]
  <2>0. PICK f : f = Head(waits[u])
    OBVIOUS
  <2>1. waits[u] # <<>> /\ Status(u, f)' # "pending"
    BY <1>2, <2>0 DEF CanEnd
  <2>2. f \in {"wait", "suspend"} /\ Contains(waits[u], f)
    BY <2>0, <2>1, Stacking DEF Frames
  <2>3. f # "suspend" /\ Ready(call[u])' => Ready(call[u])
    BY <2>2
  <2>4. Status(u, f) # "pending"
    <3>1. CASE systemApcs[u] # <<>>
      BY <3>1, Ending
    <3>2. CASE systemApcs[u] = <<>> /\ Suspended(u)
      BY <2>1, <3>2 DEF Status
    <3>3. CASE systemApcs[u] = <<>> /\ ~Suspended(u) /\ f = "suspend"
      BY <3>3 DEF Status
    <3>4. CASE systemApcs[u] = <<>> /\ ~Suspended(u) /\ f # "suspend" /\ Ready(call[u])
      BY <3>4 DEF Status
    <3>5. CASE systemApcs[u] = <<>> /\ ~Suspended(u) /\ f # "suspend" /\ ~Ready(call[u])
      <4>1. ~Ready(call[u])'
        BY <2>2, <2>3, <3>5
      <4>2. Status(u, f)' = IF call[u].alertable /\ userApcs'[u] > 0 THEN "user_apc"
                            ELSE IF call[u].deadline = "passed" THEN "timeout" ELSE "pending"
        BY <3>5, <4>1 DEF Status
      <4>3. Status(u, f) = IF call[u].alertable /\ userApcs[u] > 0 THEN "user_apc"
                           ELSE IF call[u].deadline = "passed" THEN "timeout" ELSE "pending"
        BY <3>5 DEF Status
      <4> QED BY <2>1, <4>2, <4>3
    <3> QED BY <3>1, <3>2, <3>3, <3>4, <3>5
  <2>5. CanEnd(u)
    BY <2>0, <2>1, <2>4 DEF CanEnd
  <2>6. Head(waits[u]) = "wait" /\ Status(u, "wait") = "timeout" /\ timer[u]
    BY <1>1, <1>2, <2>5
  <2>7. f = "wait"
    BY <2>0, <2>6
  <2>8. Status(u, "wait")' = "timeout"
    BY <2>3, <2>6, <2>7 DEF Status
  <2> QED BY <2>6, <2>8
<1> QED BY <1>1, <1>2

\* Between two requests a thread in a wait has no system APC left to run.
LEMMA NoApcWaits ==
    ASSUME SInv, Free, NEW t \in alive, systemApcs[t] # <<>>
    PROVE  waits[t] = <<>>
<1> SUFFICES ASSUME waits[t] # <<>> PROVE FALSE
  OBVIOUS
<1>1. t \in Threads /\ Watched(t) /\ at[t]["wait"] # "check" /\ t \notin agenda
  BY DEF SInv, Typed, Free
<1>2. \A f : Status(t, f) = "kernel_apc"
  BY Ending
<1>3. CanEnd(t)
  BY <1>2 DEF CanEnd
<1> QED BY <1>1, <1>2, <1>3 DEF Watched

\* A thread whose own frame has not selected, or has its answer, is in no wait.
LEMMA NotWaiting ==
    ASSUME SInv, NEW t \in alive, at[t]["suspend"] = "none",
           \/ at[t]["wait"] \in {"none", "select", "apc"}
           \/ Told(pipe[t], "wait")
    PROVE  waits[t] = <<>>
<1>1. /\ t \in Threads /\ waits[t] \in Stacks /\ Answered(t, "wait") /\ Answered(t, "suspend")
  BY DEF SInv, Typed, Replied, Frames
<1>2. ~Contains(waits[t], "wait") /\ ~Contains(waits[t], "suspend")
  BY <1>1 DEF Answered
<1> QED BY <1>1, <1>2, Stacking

\* A signaled object makes no wait end but those of its waiters.
LEMMA Signaling ==
    ASSUME NEW u \in alive, NEW o, u \notin Waiters(o), signaled' = signaled \union {o},
           call'[u] = call[u], Contains(waits[u], "wait"), Ready(call[u])'
    PROVE  Ready(call[u])
<1>1. \A k \in DOMAIN call[u].objs : call[u].objs[k] # o
  BY DEF Waiters
<1> QED BY <1>1 DEF Ready

\* Each step puts on the agenda the waits it makes end.
LEMMA WatchedKept == SInv /\ [Next]_vars => \A u \in alive' : Watched(u)'
<1> SUFFICES ASSUME SInv, [Next]_vars, NEW u \in alive' PROVE Watched(u)'
  OBVIOUS
<1>1. /\ Typed /\ "wait" \in Frames /\ "suspend" \in Frames
      /\ \A f \in Frames : f \in {"wait", "suspend"}
  BY DEF SInv, Frames
<1>0. u \in alive /\ u \in Threads /\ Watched(u) /\ Kept(u) /\ waits[u] \in Stacks
  BY <1>1, OnlyDie DEF SInv, Typed
<1>2. ASSUME NEW t \in Threads, Wake(t) PROVE Watched(u)'
  <2>1. /\ UNCHANGED <<userApcs, suspend, systemApcs, call, at, agenda>> /\ t \in agenda
        /\ waits' = [waits EXCEPT ![t] = Tail(@)] /\ signaled' \subseteq signaled
        /\ timer' = IF Head(waits[t]) = "wait" THEN [timer EXCEPT ![t] = FALSE] ELSE timer
    BY <1>2 DEF Wake, EndWait, apcs, client
  <2>2. CASE u # t
    <3>1. Ready(call[u])' => Ready(call[u])
      BY <2>1 DEF Ready
    <3> QED BY <1>0, <1>1, <2>1, <2>2, <3>1, WatchedSame DEF Typed, Suspended
  <2>3. CASE u = t
    <3>1. /\ waits'[u] = Tail(waits[u]) /\ waits[u] # <<>>
          /\ Contains(Tail(waits[u]), "wait") <=> Contains(waits[u], "wait") /\ "wait" # Head(waits[u])
      BY <1>0, <1>1, <1>2, <2>1, <2>3, Stacking DEF Wake, CanEnd, Typed
    <3>2. Contains(waits'[u], "wait") => Contains(waits[u], "wait") /\ timer'[u] = timer[u]
      BY <2>1, <2>3, <3>1
    <3> QED BY <1>0, <2>1, <2>3, <3>2 DEF Watched
  <2> QED BY <2>2, <2>3
<1>3. ASSUME NEW t \in Threads, WakeDone(t) PROVE Watched(u)'
  <2>1. /\ UNCHANGED <<signaled, userApcs, suspend, systemApcs, call, at, waits, timer>>
        /\ agenda' = agenda \ {t} /\ ~CanEnd(t)
    BY <1>3 DEF WakeDone, objects, thread, apcs, client
  <2> QED BY <1>0, <2>1, WatchedSame DEF Suspended, Ready
<1>4. ASSUME NEW t \in Threads, Timeout(t) PROVE Watched(u)'
  <2>1. /\ UNCHANGED <<signaled, userApcs, suspend, systemApcs, call, at>>
        /\ timer' = [timer EXCEPT ![t] = FALSE] /\ call[t].deadline = "passed" /\ agenda = {}
    BY <1>4 DEF Timeout, Free, objects, apcs, client
  <2>2. waits' = waits \/ waits' = [waits EXCEPT ![t] = Tail(@)]
    BY <1>4 DEF Timeout
  <2>3. CASE u # t
    BY <1>0, <1>1, <2>1, <2>2, <2>3, WatchedSame DEF Typed, Suspended, Ready
  <2>4. CASE u = t /\ Head(waits[t]) = "wait" /\ ~Suspended(t)
    <3>1. agenda' = {t}
      BY <1>4, <2>4 DEF Timeout
    <3> QED BY <2>1, <2>4, <3>1 DEF Watched
  <2>5. CASE u = t /\ ~(Head(waits[t]) = "wait" /\ ~Suspended(t))
    <3>1. waits' = waits
      BY <1>4, <2>5 DEF Timeout
    <3>2. ASSUME CanEnd(u)', at[u]["wait"] # "check" PROVE FALSE
      <4>1. CanEnd(u)
        BY <2>1, <3>1, <3>2 DEF CanEnd, Status, Suspended, Ready
      <4>2. Head(waits[u]) = "wait" /\ Status(u, "wait") = "timeout"
        BY <1>0, <2>1, <3>2, <4>1 DEF Watched
      <4>3. ~Suspended(u)
        BY <4>2, Ending
      <4> QED BY <2>5, <4>2, <4>3
    <3> QED BY <2>1, <2>5, <3>2 DEF Watched
  <2> QED BY <2>3, <2>4, <2>5
<1>5. ASSUME NEW t \in Threads, Clock(t) PROVE Watched(u)'
  <2>1. /\ UNCHANGED <<signaled, userApcs, suspend, systemApcs, at, waits, timer, agenda>>
        /\ call[t].deadline = "ahead" /\ call' = [call EXCEPT ![t].deadline = "passed"]
    BY <1>5 DEF Clock, objects, thread, apcs
  <2>2. CASE u # t
    BY <1>0, <1>1, <2>1, <2>2, WatchedSame DEF Typed, Suspended, Ready
  <2>3. CASE u = t
    <3>1. call'[u] = [call[u] EXCEPT !.deadline = "passed"] /\ call[u] \in Args
      BY <1>0, <1>1, <2>1, <2>3 DEF Typed
    <3>2. /\ call'[u].deadline = "passed" /\ call'[u].alertable = call[u].alertable
          /\ call'[u].objs = call[u].objs /\ call'[u].all = call[u].all
      BY <3>1 DEF Args
    <3>3. ASSUME CanEnd(u)', at[u]["wait"] # "check", u \notin agenda
          PROVE  Head(waits[u]) = "wait" /\ Status(u, "wait")' = "timeout" /\ timer[u]
      <4>0. PICK f : f = Head(waits[u])
        OBVIOUS
      <4>1. waits[u] # <<>> /\ Status(u, f)' # "pending" /\ f \in Frames /\ Contains(waits[u], f)
        BY <1>0, <2>1, <3>3, <4>0, Stacking DEF CanEnd
      <4>2. Ready(call[u])' <=> Ready(call[u])
        BY <2>1, <3>2 DEF Ready
      <4>3. CASE f = "suspend"
        <5>1. Status(u, f) = Status(u, f)'
          BY <2>1, <4>3 DEF Status, Suspended
        <5>2. CanEnd(u)
          BY <4>0, <4>1, <5>1 DEF CanEnd
        <5> QED BY <1>0, <3>3, <4>0, <4>3, <5>2 DEF Watched
      <4>4. CASE f = "wait"
        <5>1. timer[u]
          BY <1>0, <2>1, <2>3, <3>3, <4>1, <4>4 DEF Watched
        <5>2. Status(u, f) \in {"pending", "timeout"}
          <6>1. SUFFICES ASSUME Status(u, f) # "pending" PROVE Status(u, f) = "timeout"
            OBVIOUS
          <6>2. CanEnd(u)
            BY <4>0, <4>1, <6>1 DEF CanEnd
          <6> QED BY <1>0, <3>3, <4>4, <6>2 DEF Watched
        <5>3. systemApcs[u] = <<>>
          BY <5>2, Ending
        <5>4. ~Suspended(u)'
          BY <2>1, <4>1, <5>3 DEF Status
        <5>5. ~Ready(call[u]) /\ ~(call[u].alertable /\ userApcs[u] > 0)
          BY <2>1, <4>4, <5>2, <5>3, <5>4 DEF Status, Suspended
        <5>6. Status(u, f)' = "timeout"
          BY <2>1, <3>2, <4>2, <4>4, <5>3, <5>4, <5>5 DEF Status
        <5> QED BY <4>0, <4>4, <5>1, <5>6
      <4> QED BY <1>1, <4>1, <4>3, <4>4
    <3> QED BY <2>1, <3>2, <3>3 DEF Watched
  <2> QED BY <2>2, <2>3
<1>6. ASSUME NEW t \in Threads, SelectSignal(t) PROVE Watched(u)'
  <2> DEFINE o == call[t].signal
  <2>1. /\ UNCHANGED <<userApcs, suspend, systemApcs, call, timer>> /\ agenda = {}
        /\ waits' = [waits EXCEPT ![t] = <<"wait">> \o @] /\ at' = [at EXCEPT ![t]["wait"] = "check"]
        /\ signaled' = signaled \union {o} /\ Waiters(o) \subseteq agenda'
    BY <1>6 DEF SelectSignal, Free, Goto, thread
  <2>2. CASE u = t
    <3>1. at'[u]["wait"] = "check"
      BY <1>0, <1>1, <2>1, <2>2 DEF Typed
    <3> QED BY <3>1 DEF Watched
  <2>3. CASE u # t
    <3>1. waits'[u] = waits[u] /\ at'[u] = at[u]
      BY <1>0, <1>1, <2>1, <2>3 DEF Typed
    <3>2. CASE u \in Waiters(o)
      BY <1>0, <2>1, <3>1, <3>2 DEF Watched
    <3>3. CASE u \notin Waiters(o)
      <4>1. Contains(waits[u], "wait") /\ Ready(call[u])' => Ready(call[u])
        BY <1>0, <2>1, <3>3, Signaling
      <4> QED BY <1>0, <2>1, <3>1, <4>1, WatchedSame DEF Suspended
    <3> QED BY <3>2, <3>3
  <2> QED BY <2>2, <2>3
<1>7. ASSUME NEW t \in Threads, SelfWoken(t) PROVE Watched(u)'
  <2>1. /\ UNCHANGED <<signaled, userApcs, suspend, systemApcs, timer, waits, agenda>> /\ waits[t] = <<>>
        /\ at' = [at EXCEPT ![t]["wait"] = "none"] /\ call' = [call EXCEPT ![t] = NoCall]
    BY <1>7 DEF SelfWoken, Return, Goto, objects, thread, apcs
  <2>2. CASE u = t
    BY <1>0, <2>1, <2>2, WatchedOut
  <2>3. CASE u # t
    BY <1>0, <1>1, <2>1, <2>3, WatchedSame DEF Typed, Suspended, Ready
  <2> QED BY <2>2, <2>3
<1>9. ASSUME NEW t \in Threads, NEW f \in Frames, SelectEnds(t, f) PROVE Watched(u)'
  <2>1. /\ UNCHANGED <<suspend, systemApcs, agenda>> /\ Selecting(t, f)
        /\ waits' = [waits EXCEPT ![t] = Outer(t, f)] /\ at' = [at EXCEPT ![t][f] = "none"]
        /\ timer' = IF f = "wait" THEN [timer EXCEPT ![t] = FALSE] ELSE timer
        /\ signaled' \subseteq signaled
        /\ call' = IF f = "wait" THEN [call EXCEPT ![t] = NoCall] ELSE call
        /\ userApcs' = IF Status(t, f) = "user_apc" THEN [userApcs EXCEPT ![t] = @ - 1] ELSE userApcs
    BY <1>9 DEF SelectEnds, EndWait, Return, Goto
  <2>2. CASE u # t
    <3>1. /\ waits'[u] = waits[u] /\ at'[u] = at[u] /\ timer'[u] = timer[u] /\ call'[u] = call[u]
          /\ userApcs'[u] = userApcs[u]
      BY <1>0, <1>1, <2>1, <2>2 DEF Typed
    <3>2. Ready(call[u])' => Ready(call[u])
      BY <2>1, <3>1 DEF Ready
    <3> QED BY <1>0, <2>1, <3>1, <3>2, WatchedSame DEF Suspended
  <2>3. CASE u = t /\ f = "wait"
    <3>0. Outer(t, f) = <<>>
      BY <2>1, <2>3, Selects
    <3>1. waits'[u] = <<>>
      BY <1>0, <1>1, <2>1, <2>3, <3>0 DEF Typed
    <3> QED BY <1>0, <3>1, WatchedOut
  <2>4. CASE u = t /\ f = "suspend"
    <3>1. /\ waits'[u] = waits[u] /\ at'[u]["wait"] = at[u]["wait"] /\ timer' = timer /\ call' = call
          /\ userApcs' = userApcs
      <4>1. Outer(t, f) = waits[t]
        BY <2>1, <2>4, Selects
      <4>2. Status(t, f) # "user_apc"
        BY <2>4, Ending
      <4> QED BY <1>0, <1>1, <2>1, <2>4, <4>1, <4>2 DEF Typed
    <3>2. Ready(call[u])' => Ready(call[u])
      BY <2>1, <3>1 DEF Ready
    <3> QED BY <1>0, <2>1, <3>1, <3>2, WatchedSame DEF Suspended
  <2> QED BY <1>1, <2>2, <2>3, <2>4
<1>10. ASSUME NEW t \in Threads, NEW f \in Frames, SelectApc(t, f) PROVE Watched(u)'
  <2>1. /\ UNCHANGED <<signaled, userApcs, suspend, call, timer, agenda>> /\ Selecting(t, f)
        /\ waits' = [waits EXCEPT ![t] = Outer(t, f)] /\ at' = [at EXCEPT ![t][f] = "apc"]
        /\ systemApcs' = [systemApcs EXCEPT ![t] = Tail(@)] /\ systemApcs[t] # <<>>
    BY <1>10 DEF SelectApc, Goto, objects
  <2>2. CASE u # t
    BY <1>0, <1>1, <2>1, <2>2, WatchedSame DEF Typed, Suspended, Ready
  <2>3. CASE u = t
    <3>1. Outer(t, f) = <<>>
      <4>1. CASE f = "wait"
        BY <2>1, <4>1, Selects
      <4>2. CASE f = "suspend"
        BY <2>1, <4>2, Selects, NoApcWaits
      <4> QED BY <1>1, <4>1, <4>2
    <3>2. waits'[u] = <<>>
      BY <1>0, <1>1, <2>1, <2>3, <3>1 DEF Typed
    <3> QED BY <1>0, <3>2, WatchedOut
  <2> QED BY <2>2, <2>3
<1>11. ASSUME NEW t \in Threads, NEW f \in Frames, SelectWaits(t, f) PROVE Watched(u)'
  <2>1. /\ UNCHANGED <<signaled, userApcs, suspend, systemApcs, call, agenda>> /\ Selecting(t, f)
        /\ waits' = [waits EXCEPT ![t] = <<f>> \o Outer(t, f)] /\ at' = [at EXCEPT ![t][f] = "read"]
        /\ timer' = IF f = "wait" THEN [timer EXCEPT ![t] = call[t].deadline # "never"] ELSE timer
        /\ Status(t, f) = "pending"
    BY <1>11 DEF SelectWaits, Goto, objects
  <2>2. CASE u # t
    BY <1>0, <1>1, <2>1, <2>2, WatchedSame DEF Typed, Suspended, Ready
  <2>3. CASE u = t
    <3>1. waits'[u] = <<f>> \o Outer(t, f)
      BY <1>0, <1>1, <2>1, <2>3 DEF Typed
    <3>2. Status(u, f)' = "pending"
      BY <2>1, <2>3 DEF Status, Suspended, Ready
    <3>3. CASE f = "wait"
      <4>1. Head(waits'[u]) = "wait"
        BY <2>1, <3>1, <3>3, Selects, Stacking
      <4>2. ~CanEnd(u)'
        BY <3>2, <3>3, <4>1 DEF CanEnd
      <4>3. timer'[u] <=> call[u].deadline # "never"
        BY <1>0, <1>1, <2>1, <2>3, <3>3 DEF Typed
      <4> QED BY <2>1, <4>2, <4>3 DEF Watched
    <3>4. CASE f = "suspend"
      <4>1. Outer(t, f) = waits[t] /\ Outer(t, f) \in {<<>>, <<"wait">>} /\ Free
        BY <2>1, <3>4, Selects
      <4>2. /\ Head(waits'[u]) = "suspend"
            /\ Contains(waits'[u], "wait") <=> Contains(waits[u], "wait")
        <5>1. /\ Head(<<"suspend">> \o Outer(t, f)) = "suspend"
              /\ \A g \in Frames : Contains(<<"suspend">> \o Outer(t, f), g)
                                  <=> Contains(Outer(t, f), g) \/ g = "suspend"
          BY <4>1, Stacking
        <5>2. /\ Contains(<<"suspend">> \o Outer(t, f), "wait") <=> Contains(Outer(t, f), "wait")
              /\ waits'[u] = <<"suspend">> \o Outer(t, f)
          BY <1>1, <3>1, <3>4, <5>1
        <5> QED BY <2>3, <4>1, <5>1, <5>2
      <4>3. ~CanEnd(u)'
        BY <3>2, <3>4, <4>2 DEF CanEnd
      <4>4. timer' = timer /\ at[u]["wait"] # "check"
        BY <1>0, <2>1, <3>4, <4>1 DEF Free
      <4> QED BY <1>0, <2>1, <4>2, <4>3, <4>4 DEF Watched
    <3> QED BY <1>1, <3>3, <3>4
  <2> QED BY <2>2, <2>3
<1>12. ASSUME NEW t \in Threads, NEW f \in Frames, RunApc(t, f) PROVE Watched(u)'
  <2>1. /\ UNCHANGED <<signaled, userApcs, suspend, systemApcs, waits, timer, agenda>>
        /\ Active(t, f) /\ at[t][f] = "apc" /\ at' = [at EXCEPT ![t][f] = "select"]
        /\ call' = IF f = "wait" THEN [call EXCEPT ![t].signal = Nothing] ELSE call
    BY <1>12 DEF RunApc, Goto, objects, thread, apcs
  <2>2. CASE u # t \/ f = "suspend"
    <3>1. call'[u] = call[u] /\ at'[u]["wait"] = at[u]["wait"]
      BY <1>0, <1>1, <2>1, <2>2 DEF Typed
    <3> QED BY <1>0, <2>1, <3>1, WatchedSame DEF Suspended, Ready
  <2>3. CASE u = t /\ f = "wait"
    <3>1. at[t]["suspend"] = "none" /\ t \in alive
      BY <2>1, <2>3 DEF Active
    <3>2. waits'[u] = <<>>
      BY <2>1, <2>3, <3>1, NotWaiting
    <3> QED BY <1>0, <3>2, WatchedOut
  <2> QED BY <1>1, <2>2, <2>3
<1>13. ASSUME NEW t \in Threads, NEW f \in Frames, Read(t, f) PROVE Watched(u)'
  <2>1. /\ UNCHANGED <<signaled, userApcs, suspend, systemApcs, waits, timer, agenda>>
        /\ t \in alive /\ at[t][f] = "read" /\ pipe[t] # <<>> /\ Head(pipe[t]).cookie = f
        /\ f = "wait" => at[t]["suspend"] = "none"
        /\ call' = IF f = "wait" /\ Head(pipe[t]).status \notin {"kernel_apc", "user_apc"}
                   THEN [call EXCEPT ![t] = NoCall] ELSE call
    BY <1>13 DEF Read, Return, objects, thread, apcs
  <2>2. PICK l : at' = [at EXCEPT ![t][f] = l]
    BY <1>13 DEF Read, Return, Goto
  <2>3. CASE u # t \/ f = "suspend"
    <3>1. call'[u] = call[u] /\ at'[u]["wait"] = at[u]["wait"]
      BY <1>0, <1>1, <2>1, <2>2, <2>3 DEF Typed
    <3> QED BY <1>0, <2>1, <3>1, WatchedSame DEF Suspended, Ready
  <2>4. CASE u = t /\ f = "wait"
    <3>1. Told(pipe[t], "wait")
      BY <1>1, <2>1, <2>4, Reading DEF Typed, Told
    <3>2. waits'[u] = <<>>
      BY <2>1, <2>4, <3>1, NotWaiting
    <3> QED BY <1>0, <3>2, WatchedOut
  <2> QED BY <1>1, <2>3, <2>4
<1>15. ASSUME NEW t \in Threads, CallWait(t) PROVE Watched(u)'
  <2>1. /\ UNCHANGED <<signaled, userApcs, suspend, systemApcs, waits, timer, agenda>>
        /\ t \in alive /\ at[t]["suspend"] = "none" /\ at[t]["wait"] = "none"
        /\ at' = [at EXCEPT ![t]["wait"] = "select"] /\ \E c \in Calls[t] : call' = [call EXCEPT ![t] = c]
    BY <1>15 DEF CallWait, Active, Goto, objects, thread, apcs
  <2>2. CASE u # t
    BY <1>0, <1>1, <2>1, <2>2, WatchedSame DEF Typed, Suspended, Ready
  <2>3. CASE u = t
    <3>1. waits'[u] = <<>>
      BY <2>1, <2>3, NotWaiting
    <3> QED BY <1>0, <3>1, WatchedOut
  <2> QED BY <2>2, <2>3
<1>17. ASSUME NEW t \in Threads, SuspendThread(t) PROVE Watched(u)'
  <2>1. /\ UNCHANGED <<signaled, userApcs, systemApcs, call, at, waits, timer, agenda>> /\ Free
        /\ suspend' = [suspend EXCEPT ![t] = @ + 1]
    BY <1>17 DEF SuspendThread, objects, apcs, client
  <2>2. CASE u # t
    BY <1>0, <1>1, <2>1, <2>2, WatchedSame DEF Typed, Suspended, Ready
  <2>3. CASE u = t
    <3>1. suspend'[u] > 0
      BY <1>0, <1>1, <2>1, <2>3, ConstantsAssumption DEF Typed
    <3>2. ASSUME CanEnd(u)' PROVE FALSE
      <4>1. waits[u] # <<>> /\ systemApcs[u] # <<>>
        BY <2>1, <3>1, <3>2 DEF CanEnd, Status, Suspended
      <4> QED BY <1>0, <2>1, <4>1, NoApcWaits
    <3> QED BY <1>0, <2>1, <3>2 DEF Watched
  <2> QED BY <2>2, <2>3
<1>18. ASSUME NEW t \in Threads, ResumeThread(t) PROVE Watched(u)'
  <2>1. /\ UNCHANGED <<signaled, userApcs, systemApcs, call, at, waits, timer>> /\ agenda = {}
        /\ suspend' = [suspend EXCEPT ![t] = @ - 1] /\ Suspended(t)
        /\ agenda' = IF suspend[t] = 1 THEN {t} ELSE {}
    BY <1>18 DEF ResumeThread, Free, objects, apcs, client
  <2>2. CASE u = t /\ suspend[t] = 1
    <3>1. u \in agenda'
      BY <2>1, <2>2
    <3> QED BY <1>0, <2>1, <3>1 DEF Watched
  <2>3. CASE u # t \/ suspend[t] # 1
    <3>1. Suspended(u)' <=> Suspended(u)
      BY <1>0, <1>1, <2>1, <2>3, ConstantsAssumption DEF Typed, Suspended
    <3> QED BY <1>0, <2>1, <3>1, WatchedSame DEF Ready
  <2> QED BY <2>2, <2>3
<1>20. ASSUME NEW t \in Threads, QueueUserApc(t) PROVE Watched(u)'
  <2>1. /\ UNCHANGED <<signaled, suspend, systemApcs, call, at, waits, timer>> /\ agenda = {}
        /\ userApcs' = [userApcs EXCEPT ![t] = @ + 1]
        /\ agenda' = IF userApcs[t] = 0 THEN {t} ELSE {}
    BY <1>20 DEF QueueUserApc, Free, thread, apcs, client
  <2>2. CASE u = t /\ userApcs[t] = 0
    <3>1. u \in agenda'
      BY <2>1, <2>2
    <3> QED BY <1>0, <2>1, <3>1 DEF Watched
  <2>3. CASE u # t \/ userApcs[t] # 0
    <3>1. userApcs'[u] > 0 <=> userApcs[u] > 0
      BY <1>0, <1>1, <2>1, <2>3, ConstantsAssumption DEF Typed
    <3> QED BY <1>0, <2>1, <3>1, WatchedSame DEF Suspended, Ready
  <2> QED BY <2>2, <2>3
<1>21. ASSUME NEW t \in Threads, KillThread(t) PROVE Watched(u)'
  <2>1. /\ u # t /\ UNCHANGED <<signaled, suspend, call, at, agenda>>
        /\ waits' = [waits EXCEPT ![t] = <<>>] /\ timer' = [timer EXCEPT ![t] = FALSE]
        /\ systemApcs' = [systemApcs EXCEPT ![t] = <<>>] /\ userApcs' = [userApcs EXCEPT ![t] = 0]
    BY <1>21 DEF KillThread, client
  <2>2. /\ waits'[u] = waits[u] /\ timer'[u] = timer[u] /\ systemApcs'[u] = systemApcs[u]
        /\ userApcs'[u] = userApcs[u]
    BY <1>0, <1>1, <2>1 DEF Typed
  <2> QED BY <1>0, <2>1, <2>2, WatchedSame DEF Suspended, Ready
<1>22. ASSUME NEW c \in Callers, QueueSystemApc(c) PROVE Watched(u)'
  <2>1. PICK t \in alive : /\ systemApcs' = [systemApcs EXCEPT ![t] = Append(@, c)]
                           /\ agenda' = IF systemApcs[t] = <<>> THEN {t} ELSE {}
    BY <1>22 DEF QueueSystemApc
  <2>2. UNCHANGED <<signaled, userApcs, suspend, call, at, waits, timer>> /\ agenda = {} /\ Free
    BY <1>22 DEF QueueSystemApc, Free, objects, thread, client
  <2>3. CASE u # t
    BY <1>0, <1>1, <2>1, <2>2, <2>3, WatchedSame DEF Typed, Suspended, Ready
  <2>4. CASE u = t /\ systemApcs[t] = <<>>
    <3>1. u \in agenda'
      BY <2>1, <2>4
    <3> QED BY <1>0, <2>2, <3>1 DEF Watched
  <2>5. CASE u = t /\ systemApcs[t] # <<>>
    <3>1. waits'[u] = <<>>
      BY <2>1, <2>2, <2>5, NoApcWaits
    <3> QED BY <1>0, <3>1, WatchedOut
  <2> QED BY <2>3, <2>4, <2>5
<1>25. ASSUME NEW o \in Objects, SetEvent(o) PROVE Watched(u)'
  <2>1. /\ UNCHANGED <<userApcs, suspend, systemApcs, call, at, waits, timer>> /\ agenda = {}
        /\ signaled' = signaled \union {o} /\ agenda' = Waiters(o)
    BY <1>25 DEF SetEvent, Free, thread, apcs, client
  <2>2. CASE u \in Waiters(o)
    BY <1>0, <2>1, <2>2 DEF Watched
  <2>3. CASE u \notin Waiters(o)
    <3>1. Contains(waits[u], "wait") /\ Ready(call[u])' => Ready(call[u])
      BY <1>0, <2>1, <2>3, Signaling
    <3> QED BY <1>0, <2>1, <3>1, WatchedSame DEF Suspended
  <2> QED BY <2>2, <2>3
<1>26. ASSUME NEW o \in Objects, ResetEvent(o) PROVE Watched(u)'
  <2>1. /\ UNCHANGED <<userApcs, suspend, systemApcs, call, at, waits, timer, agenda>>
        /\ signaled' \subseteq signaled
    BY <1>26 DEF ResetEvent, thread, apcs, client
  <2>2. Ready(call[u])' => Ready(call[u])
    BY <2>1 DEF Ready
  <2> QED BY <1>0, <2>1, <2>2, WatchedSame DEF Suspended
<1>28. CASE /\ UNCHANGED <<objects, suspend, systemApcs, call, waits, timer, agenda>>
            /\ at'[u]["wait"] = at[u]["wait"]
  BY <1>0, <1>28, WatchedSame DEF objects, Suspended, Ready
<1>14. ASSUME NEW t \in Threads, NEW f \in Frames, PutBack(t) \/ Steal(t, f) \/ SetThreadContext(t)
       PROVE Watched(u)'
  BY <1>14, <1>28 DEF PutBack, Steal, SetThreadContext, thread, apcs, client
<1>16. ASSUME NEW t \in Threads, HandleSignal(t) PROVE Watched(u)'
  <2>1. at'[u]["wait"] = at[u]["wait"]
    BY <1>0, <1>1, <1>16 DEF HandleSignal, Goto, Typed
  <2> QED BY <1>16, <1>28, <2>1 DEF HandleSignal, thread, apcs
<1>23. ASSUME NEW c \in Callers, ProcessIsTerminating(c) \/ GetApcResult(c) PROVE Watched(u)'
  BY <1>23, <1>28 DEF ProcessIsTerminating, GetApcResult, thread, client
<1>27. CASE UNCHANGED vars
  BY <1>27, <1>28 DEF vars, thread, apcs, client
<1> QED
  BY <1>1, <1>2, <1>3, <1>4, <1>5, <1>6, <1>7, <1>9, <1>10, <1>11, <1>12, <1>13, <1>14, <1>15, <1>16,
     <1>17, <1>18, <1>20, <1>21, <1>22, <1>23, <1>25, <1>26, <1>27
  DEF Next, Server, Client, Frame, Others, Caller

-----------------------------------------------------------------------------
(* The invariant and what it says.                                         *)

\* Types, waits, replies, contexts and wake-ups: the strengthening of the properties
\* below that every step keeps.
THEOREM Inductive == Spec => []SInv
<1>1. Init => SInv
  BY Starting
<1>2. SInv /\ [Next]_vars => SInv'
  <2> SUFFICES ASSUME SInv, [Next]_vars PROVE SInv'
    OBVIOUS
  <2>1. Typed'
    BY TypedKept
  <2>2. \A t \in Threads : Sound(t)'
    BY SoundKept
  <2>3. \A t \in alive' : Placed(t)' /\ Watched(t)'
    BY PlacedKept, WatchedKept
  <2>4. alive' \subseteq Threads
    BY <2>1 DEF Typed
  <2> QED BY <2>1, <2>2, <2>3, <2>4 DEF SInv, Sound
<1> QED BY <1>1, <1>2, PTL DEF Spec

\* The types of the invariant are those of the specification.
LEMMA Types == SInv => TypeOK
<1> SUFFICES ASSUME SInv PROVE TypeOK
  OBVIOUS
<1>1. ASSUME NEW t \in Threads
      PROVE  waits[t] \in Stacks /\ (timer[t] => Contains(waits[t], "wait"))
  BY DEF SInv, Typed, Kept
<1> QED BY <1>1 DEF SInv, Typed, TypeOK, Stacks, Places, ApcStates

\* Where a frame's answers are, from what its thread's replies say.
LEMMA AnswerPlaces ==
    ASSUME SInv, NEW t \in alive, NEW f \in Frames, at[t][f] # "check"
    PROVE  IF at[t][f] = "read" THEN \E a : Answers(t, f) = {a} ELSE Answers(t, f) = {}
<1>1. /\ t \in Threads /\ waits[t] \in Stacks /\ Answered(t, f) /\ Replied(t)
      /\ pipe[t] \in Seq(Replies) /\ held[t] \in Seq(Replies) /\ f \in {"wait", "suspend"}
  BY DEF SInv, Typed, Replied, Frames
<1> DEFINE W == {k \in DOMAIN waits[t] : waits[t][k] = f}
           P == {k \in DOMAIN pipe[t] : pipe[t][k].cookie = f}
           H == {k \in DOMAIN held[t] : held[t][k].cookie = f}
<1>2. Answers(t, f) = {<<"server", k>> : k \in W} \union {<<"pipe", k>> : k \in P}
                        \union {<<"held", k>> : k \in H}
  BY DEF Answers
<1>3. W = {} \/ \E k : W = {k}
  <2>1. \A i, j \in DOMAIN waits[t] : waits[t][i] = waits[t][j] => i = j
    <3>1. CASE waits[t] = <<>> \/ waits[t] = <<"wait">> \/ waits[t] = <<"suspend">>
      BY <3>1
    <3>2. CASE waits[t] = <<"suspend", "wait">>
      BY <3>2
    <3> QED BY <1>1, <3>1, <3>2 DEF Stacks
  <2> QED BY <2>1
<1>4. W # {} <=> Contains(waits[t], f)
  BY <1>1 DEF Contains, Stacks
<1>5. P = {} \/ \E k : P = {k}
  BY <1>1 DEF Replied, Once
<1>6. P # {} <=> Told(pipe[t], f)
  BY DEF Told, Range
<1>7. H = {} \/ \E k : H = {k}
  <2>1. DOMAIN held[t] \subseteq {1}
    <3>1. DOMAIN held[t] = 1..Len(held[t]) /\ Len(held[t]) \in Nat /\ Len(held[t]) <= 1
      BY <1>1 DEF Replied
    <3> QED BY <3>1
  <2> QED BY <2>1
<1>8. H # {} <=> Told(held[t], f)
  BY DEF Told, Range
<1> HIDE DEF W, P, H
<1>9. CASE at[t][f] # "read"
  <2>1. ~Contains(waits[t], f) /\ ~Told(pipe[t], f) /\ ~Told(held[t], f)
    BY <1>1, <1>9 DEF Answered
  <2> QED BY <1>2, <1>4, <1>6, <1>8, <1>9, <2>1
<1>10. CASE at[t][f] = "read"
  <2>1. \/ Contains(waits[t], f) /\ ~Told(pipe[t], f) /\ ~Told(held[t], f)
        \/ ~Contains(waits[t], f) /\ Told(pipe[t], f) /\ ~Told(held[t], f)
        \/ ~Contains(waits[t], f) /\ ~Told(pipe[t], f) /\ Told(held[t], f)
    BY <1>1, <1>10 DEF Answered
  <2>2. CASE W # {} /\ P = {} /\ H = {}
    <3>1. PICK k : W = {k}
      BY <1>3, <2>2
    <3>2. Answers(t, f) = {<<"server", k>>}
      BY <1>2, <2>2, <3>1
    <3> QED BY <1>10, <3>2
  <2>3. CASE W = {} /\ P # {} /\ H = {}
    <3>1. PICK k : P = {k}
      BY <1>5, <2>3
    <3>2. Answers(t, f) = {<<"pipe", k>>}
      BY <1>2, <2>3, <3>1
    <3> QED BY <1>10, <3>2
  <2>4. CASE W = {} /\ P = {} /\ H # {}
    <3>1. PICK k : H = {k}
      BY <1>7, <2>4
    <3>2. Answers(t, f) = {<<"held", k>>}
      BY <1>2, <2>4, <3>1
    <3> QED BY <1>10, <3>2
  <2> QED BY <1>4, <1>6, <1>8, <2>1, <2>2, <2>3, <2>4
<1> QED BY <1>9, <1>10

\* Each select that was left pending has exactly one answer, in one place, and a frame
\* that does not wait for one has none (send_thread_wakeup, wait_select_reply).
THEOREM EachSelectIsAnsweredOnce == Spec => []ReplyExact
<1>1. SInv => ReplyExact
  <2> SUFFICES ASSUME SInv PROVE ReplyExact
    OBVIOUS
  <2>1. ASSUME NEW t \in alive, NEW f \in Frames, at[t][f] # "check"
        PROVE  Cardinality(Answers(t, f)) = IF at[t][f] = "read" THEN 1 ELSE 0
    <3>1. CASE at[t][f] = "read"
      <4>1. PICK a : Answers(t, f) = {a}
        BY <2>1, <3>1, AnswerPlaces
      <4>2. Cardinality({a}) = 1
        BY FS_Singleton
      <4> QED BY <3>1, <4>1, <4>2
    <3>2. CASE at[t][f] # "read"
      <4>1. Answers(t, f) = {}
        BY <2>1, <3>2, AnswerPlaces
      <4> QED BY <3>2, <4>1, FS_EmptySet
    <3> QED BY <3>1, <3>2
  <2> QED BY <2>1, Types DEF ReplyExact
<1> QED BY <1>1, Inductive, PTL

\* Between two requests of the server nobody is left in a wait that could end, whatever
\* made it end and whatever the thread was doing then (wake_thread and its callers).
THEOREM NoWakeIsMissed == Spec => []NoMissedWake
<1>1. SInv => NoMissedWake
  <2> SUFFICES ASSUME SInv, Free, NEW t \in alive, CanEnd(t)
               PROVE  Head(waits[t]) = "wait" /\ Status(t, "wait") = "timeout" /\ timer[t]
    BY DEF NoMissedWake
  <2>1. Watched(t) /\ at[t]["wait"] # "check" /\ t \notin agenda
    BY DEF SInv, Typed, Free
  <2> QED BY <2>1 DEF Watched
<1> QED BY <1>1, Inductive, PTL

\* A thread that is suspended, or whose registers others have set, has a context, which
\* is ready just while its thread is in wait_suspend (stop_thread, select).
THEOREM ContextsArePlaced == Spec => []ContextExact
<1>1. SInv => ContextExact
  <2> SUFFICES ASSUME SInv PROVE ContextExact
    OBVIOUS
  <2>1. \A t \in alive : Placed(t)
    BY DEF SInv
  <2> QED BY <2>1 DEF ContextExact, Placed
<1> QED BY <1>1, Inductive, PTL
=============================================================================
