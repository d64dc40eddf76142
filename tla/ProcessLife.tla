---------------------------- MODULE ProcessLife ----------------------------
(***************************************************************************)
(* The life of the processes and jobs of the server, process_pro11.c and   *)
(* thread_pro11.c.  The server has one thread, but what it does while it   *)
(* kills a process calls itself: the last thread's death closes the        *)
(* process's handles, the last handle of a job may kill its processes, and *)
(* an object that loses its last reference is destroyed on the spot.  work *)
(* is the stack of such calls; requests of clients and events of the host  *)
(* are served only when it is empty.                                       *)
(*                                                                         *)
(* An object exists while something refers to it; the counts of references *)
(* are not kept but computed.  The threads of a process are counted.       *)
(***************************************************************************)
EXTENDS Integers, Sequences, FiniteSets, SequencesExt

CONSTANTS
  Procs, First,       \* the processes there may be, the one the server starts with
  Jobs,
  MaxThreads,
  Attempts,           \* how often process_sigkill looks before it kills
  Programs,           \* what may be asked and happen: sets of <<process, request or event>>
  Limits,             \* the limit flags a job may be given, also the requests that give them
  LateThreads         \* whether a thread is ever made in a process that has ended

NoJob == "noJob"
Process(p) == <<"process", p>>
Job(j) == <<"job", j>>
Nothing == <<"nothing">>

ASSUME LifeAssumption ==
  /\ First \in Procs /\ IsFiniteSet(Procs) /\ MaxThreads \in Nat \ {0} /\ Attempts \in Nat \ {0}
  /\ NoJob \notin Jobs /\ Nothing \notin Procs \cup Jobs /\ LateThreads \in BOOLEAN

VARIABLES
  proc,               \* struct process
  job,                \* struct job; list and children in the order of the lists
  handles,            \* the handle table of each process: what it has handles to
  work,               \* the calls in progress, the innermost last
  running_processes, user_processes, shutdown_stage, shutdown_timeout,
  program,            \* one of Programs, for good
  stale,              \* a loop over a job went on to an object that is gone
  asserted            \* every assertion that was reached held

counters == <<running_processes, user_processes, shutdown_stage, shutdown_timeout>>
vars == <<proc, job, handles, work, counters, program, stale, asserted>>

NoProcess ==
  [made |-> FALSE, threads |-> 0, ended |-> FALSE, is_terminating |-> FALSE,
   info |-> FALSE, timer |-> 0, pid |-> FALSE, alive |-> FALSE, is_system |-> FALSE, job |-> NoJob]
Fresh == [NoProcess EXCEPT !.made = TRUE, !.alive = TRUE]
UnusedJob ==
  [made |-> FALSE, parent |-> NoJob, list |-> <<>>, children |-> <<>>, num |-> 0, used |-> FALSE,
   limits |-> {}, signaled |-> FALSE]

Init ==
  /\ proc = [p \in Procs |-> IF p = First THEN [Fresh EXCEPT !.threads = 1] ELSE NoProcess]
  /\ job = [j \in Jobs |-> UnusedJob] /\ handles = [p \in Procs |-> {}] /\ work = <<>>
  /\ running_processes = 1 /\ user_processes = 1
  /\ shutdown_stage = 0 /\ shutdown_timeout = FALSE
  /\ stale = FALSE /\ asserted = TRUE /\ program \in Programs

----------------------------------------------------------------------------
\* The stack of calls.
Frame(op, what) == [op |-> op, what |-> what, skip |-> FALSE, at |-> Nothing]
Top == Last(work)
Return == Front(work)
Call(frames) == work \o frames
Idle == work = <<>> /\ ~stale

Holders(t) == {p \in Procs : t \in handles[p]}
Held(t) == \E i \in DOMAIN work : work[i].what = t
Used(t) ==
  \/ Holders(t) # {} \/ Held(t)
  \/ t[1] = "process" /\ (proc[t[2]].threads > 0 \/ proc[t[2]].timer > 0 \/ proc[t[2]].info)
  \/ t[1] = "job" /\ ((\E p \in Procs : proc[p].made /\ proc[p].job = t[2])
                       \/ \E k \in Jobs : job[k].made /\ job[k].parent = t[2])
Unused == {t \in {Process(p) : p \in {q \in Procs : proc[q].made}}
                 \cup {Job(j) : j \in {k \in Jobs : job[k].made}} : ~Used(t)}

\* The job and those above it: the smallest set with it and the parent of each of them.
Above(jobs, j) ==
  LET upward == {S \in SUBSET Jobs : {j} \cup {jobs[k].parent : k \in S} \subseteq S \cup {NoJob}}
  IN {k \in Jobs : \A S \in upward : k \in S}

\* list_remove
Without(list, x) ==
  LET at == {i \in DOMAIN list : list[i] = x}
  IN IF at = {} THEN list ELSE RemoveAt(list, CHOOSE i \in at : TRUE)

----------------------------------------------------------------------------
\* The jobs.  s is the processes and the jobs as they are in the middle of a step.

\* add_job_process refuses: the job is elsewhere in the tree, or was used before.
Denied(s, j, p) ==
  LET common == s.proc[p].job
  IN /\ common \notin {NoJob, j}
     /\ IF s.job[j].parent # NoJob THEN common \notin Above(s.job, s.job[j].parent)
        ELSE s.job[j].used

\* A mutant: every job of the chain counts the process anew.
CountedAll(jobs, j, common) == Above(jobs, j)

Counted(jobs, j, common) == Above(jobs, j) \ Above(jobs, common)

AddJobProcess(s, j, p) ==
  IF Denied(s, j, p) \/ s.proc[p].job = j THEN s
  ELSE LET common == s.proc[p].job
           nest == common # NoJob /\ s.job[j].parent = NoJob
           linked == [k \in Jobs |->
             CASE k = j -> [s.job[j] EXCEPT !.parent = IF nest THEN common ELSE @,
                                            !.list = Append(@, p)]
               [] k = common -> [s.job[k] EXCEPT !.list = Without(@, p),
                                                 !.children = IF nest THEN Append(@, j) ELSE @]
               [] OTHER -> s.job[k]]
       IN [proc |-> [s.proc EXCEPT ![p].job = j],
           job |-> [k \in Jobs |-> IF k \in Counted(linked, j, common)
                                   THEN [linked[k] EXCEPT !.num = @ + 1, !.used = TRUE]
                                   ELSE linked[k]]]

\* release_job_process
ReleaseJob(jobs, p) ==
  [k \in Jobs |-> IF k \in Above(jobs, proc[p].job) THEN [jobs[k] EXCEPT !.num = @ - 1] ELSE jobs[k]]

\* The loops of terminate_job take the next entry before they use this one.
NextIn(list, x) ==
  LET after == {i \in 1 .. (Len(list) - 1) : list[i] = x}
  IN IF after = {} THEN Nothing ELSE list[(CHOOSE i \in after : TRUE) + 1]
Begin(list) == IF list = <<>> THEN Nothing ELSE Head(list)

\* A mutant: only the processes of the job itself.
TerminateFlat(j) == [Frame("terminateMembers", Job(j)) EXCEPT !.at = Begin(job[j].list)]

\* terminate_job, first the jobs below, then the processes.
TerminateJob(j) == [Frame("terminateChildren", Job(j)) EXCEPT !.at = Begin(job[j].children)]

\* Whether the entry a loop is at is still in a list: if not, what it does is undefined.
Gone(some, x) == x # Nothing /\ ~some[x].made

TerminateChildren(f) ==
  /\ f.op = "terminateChildren"
  /\ LET j == f.what[2]
         step == [f EXCEPT !.at = NextIn(job[j].children, f.at)]
     IN IF Gone(job, f.at) THEN stale' = TRUE /\ UNCHANGED work
        ELSE /\ work' = IF f.at = Nothing
                        THEN Append(Return, [Frame("terminateMembers", f.what) EXCEPT !.at = Begin(job[j].list)])
                        ELSE Return \o <<step, TerminateJob(f.at)>>
             /\ UNCHANGED stale
  /\ UNCHANGED <<proc, job, handles, counters, program, asserted>>

TerminateMembers(f) ==
  /\ f.op = "terminateMembers"
  /\ LET j == f.what[2]
         step == [f EXCEPT !.at = NextIn(job[j].list, f.at)]
     IN CASE Gone(proc, f.at) -> stale' = TRUE /\ UNCHANGED <<job, work>>
          [] f.at = Nothing -> /\ job' = [job EXCEPT ![j].signaled = TRUE]
                              /\ work' = Return /\ UNCHANGED stale
          [] OTHER -> /\ work' = Return \o (IF proc[f.at].threads > 0
                                           THEN <<step, Frame("terminate", Process(f.at))>>
                                           ELSE <<step>>)
                      /\ UNCHANGED <<job, program, stale>>
  /\ UNCHANGED <<proc, handles, counters, program, asserted>>

----------------------------------------------------------------------------
\* The death of a process.

\* terminate_process
Terminate(f) ==
  /\ f.op = "terminate"
  /\ LET p == f.what[2]
     IN /\ proc' = [proc EXCEPT ![p].is_terminating = TRUE]
        /\ work' = IF proc[p].threads > IF f.skip THEN 1 ELSE 0
                   THEN Call(<<Frame("killThread", f.what)>>) ELSE Return
  /\ UNCHANGED <<job, handles, counters, stale, program, asserted>>

\* kill_thread: the last thread takes the process with it, process_killed.
KillThread(f) ==
  /\ f.op = "killThread"
  /\ LET p == f.what[2]
         last == proc[p].threads = 1
     IN /\ proc' = [proc EXCEPT ![p].threads = @ - 1, ![p].ended = @ \/ last]
        /\ work' = IF last THEN Return \o <<Frame("killed", f.what), Frame("close", f.what)>>
                   ELSE Return
  /\ UNCHANGED <<job, handles, counters, stale, program, asserted>>

\* close_process_handles: the last handle of a job may be what keeps its processes.
KillsOnClose(t) ==
  t[1] = "job" /\ Cardinality(Holders(t)) = 1 /\ "kill" \in job[t[2]].limits

CloseHandles(f) ==
  /\ f.op = "close"
  /\ LET p == f.what[2]
         killers == {t \in handles[p] : KillsOnClose(t)} \ {f.at}
     IN IF killers = {} THEN handles' = [handles EXCEPT ![p] = {}] /\ work' = Return
        ELSE \E t \in killers, others \in {{}, handles[p] \ killers} :
               /\ handles' = [handles EXCEPT ![p] = @ \ (others \cup {f.at})]
               /\ work' = Return \o <<[f EXCEPT !.at = t], TerminateJob(t[2])>>
  /\ UNCHANGED <<proc, job, counters, stale, program, asserted>>

\* process_died, with the processes as they are then.
Died(p) ==
  LET users == user_processes - IF proc[p].is_system THEN 0 ELSE 1
  IN /\ user_processes' = users
     /\ shutdown_timeout' = (shutdown_timeout \/ (~proc[p].is_system /\ users = 0 /\ shutdown_stage = 0))
     /\ running_processes' = running_processes - 1
     /\ UNCHANGED shutdown_stage

\* A mutant: a process that never told its pid is never counted out.
KilledForgets(f) ==
  /\ f.op = "killed"
  /\ LET p == f.what[2]
     IN /\ proc' = [proc EXCEPT ![p].info = FALSE, ![p].timer = IF proc[p].pid THEN 1 ELSE 0]
        /\ asserted' = (asserted /\ \A j \in Above(job, proc[p].job) : job[j].num > 0)
        /\ job' = ReleaseJob(job, p) /\ UNCHANGED counters
  /\ work' = Return /\ UNCHANGED <<handles, program, stale>>

\* The rest of process_killed, once the handles are closed.
Killed(f) ==
  /\ f.op = "killed"
  /\ LET p == f.what[2]
     IN /\ proc' = [proc EXCEPT ![p].info = FALSE, ![p].timer = IF proc[p].pid THEN 1 ELSE 0]
        /\ asserted' = (asserted /\ \A j \in Above(job, proc[p].job) : job[j].num > 0)
        /\ job' = ReleaseJob(job, p)
        /\ IF proc[p].pid THEN UNCHANGED counters ELSE Died(p)
  /\ work' = Return /\ UNCHANGED <<handles, program, stale>>

\* kill_all_processes; a forced shutdown is then in its last stage.
KillAll(f) ==
  /\ f.op = "killAll"
  /\ \/ \E p \in Procs : /\ proc[p].threads > 0
                         /\ work' = Call(<<Frame("terminate", Process(p))>>) /\ UNCHANGED counters
     \/ /\ \A p \in Procs : proc[p].threads = 0
        /\ work' = Return /\ shutdown_stage' = 2 /\ shutdown_timeout' = FALSE
        /\ UNCHANGED <<running_processes, user_processes>>
  /\ UNCHANGED <<proc, job, handles, stale, program, asserted>>

\* An object nobody refers to is destroyed: process_destroy, job_destroy.
DestroyProcess(p) ==
  /\ asserted' = (asserted /\ proc[p].threads = 0 /\ proc[p].timer = 0)
  /\ IF handles[p] # {} THEN work' = Call(<<Frame("close", Process(p))>>) /\ UNCHANGED <<proc, job>>
     ELSE /\ proc' = [proc EXCEPT ![p] = NoProcess]
          /\ job' = IF proc[p].job = NoJob THEN job ELSE [job EXCEPT ![proc[p].job].list = Without(@, p)]
          /\ UNCHANGED work
  /\ UNCHANGED <<handles, counters, program, stale>>

DestroyJob(j) ==
  /\ asserted' = (asserted /\ job[j].num = 0 /\ job[j].list = <<>> /\ job[j].children = <<>>)
  /\ job' = [k \in Jobs |-> IF k = j THEN UnusedJob
                            ELSE [job[k] EXCEPT !.children = Without(@, j)]]
  /\ UNCHANGED <<proc, handles, work, counters, program, stale>>

Destroy == \E t \in Unused : IF t[1] = "process" THEN DestroyProcess(t[2]) ELSE DestroyJob(t[2])

\* The end of a close request: the process may have been killed by it.
CloseOne(f) ==
  /\ f.op = "closeOne" /\ work' = Return
  /\ handles' = [handles EXCEPT ![f.what[2]] = @ \ {f.at}]
  /\ UNCHANGED <<proc, job, counters, stale, program, asserted>>

Frames(f) == \/ TerminateChildren(f) \/ TerminateMembers(f) \/ Terminate(f) \/ KillThread(f)
             \/ CloseHandles(f) \/ Killed(f) \/ KillAll(f)
             \/ CloseOne(f)
Server == IF Unused # {} THEN Destroy ELSE work # <<>> /\ Frames(Top)

----------------------------------------------------------------------------
\* The requests of a process, and the events of the host.
Ready == Idle /\ Unused = {}
Live(p) == proc[p].threads > 0 /\ proc[p].pid /\ proc[p].alive
Runs(c, request) == <<c, request>> \in program /\ Ready /\ Live(c)
HasHandle(c, p) == p = c \/ Process(p) \in handles[c]

\* The first job from the parent's upwards that its children do not break away from.
Inherited(jobs, parent, breakaway) ==
  LET chain == Above(jobs, proc[parent].job)
      keeps(k) == "silent" \notin jobs[k].limits /\ ~(breakaway /\ "breakaway" \in jobs[k].limits)
  IN {k \in Jobs : k \in chain /\ keeps(k) /\ \A m \in chain \ Above(jobs, k) : ~keeps(m)}

\* A mutant: a process that could not be made stays counted.
FailedKept(s, p) == s

\* What was counted for a process that could not be made.
Failed(s, p) ==
  LET counting == Above(s.job, s.proc[p].job)
  IN [s EXCEPT !.job = [k \in Jobs |-> IF k \in counting THEN [s.job[k] EXCEPT !.num = @ - 1]
                                       ELSE s.job[k]]]

\* new_process: in the job of its parent, then in the one asked for, if any (bound: the code
\* takes a list of them).
NewProcess(c, p, wanted, inherit, breakaway) ==
  /\ Runs(c, "newProcess") /\ ~proc[p].made /\ shutdown_stage = 0
  /\ wanted # NoJob => Job(wanted) \in handles[c]
  /\ ~(breakaway /\ proc[c].job # NoJob /\ job[proc[c].job].limits \cap {"breakaway", "silent"} = {})
  /\ LET first == [proc |-> [proc EXCEPT ![p] = Fresh], job |-> job]
         parents == Inherited(job, c, breakaway)
     IN \E placed \in {IF parents = {} THEN first ELSE AddJobProcess(first, CHOOSE k \in parents : TRUE, p)} :
          LET failed == wanted # NoJob /\ Denied(placed, wanted, p)
              added == IF wanted = NoJob THEN placed ELSE AddJobProcess(placed, wanted, p)
          IN \E s \in {IF failed THEN Failed(added, p) ELSE added} :
               /\ job' = s.job /\ proc' = [s.proc EXCEPT ![p].info = ~failed]
               /\ handles' = [handles EXCEPT ![p] = IF inherit THEN handles[c] ELSE {},
                                             ![c] = @ \cup IF failed THEN {} ELSE {Process(p)}]
  /\ UNCHANGED <<work, counters, stale, program, asserted>>

\* new_thread: in another process, only the first.
NewThread(c, p) ==
  /\ Runs(c, "newThread") /\ HasHandle(c, p) /\ proc[p].alive /\ ~proc[p].is_terminating
  /\ proc[p].threads < IF p = c THEN MaxThreads ELSE 1
  /\ LateThreads \/ ~proc[p].ended
  /\ proc' = [proc EXCEPT ![p].threads = @ + 1]
  /\ IF proc[p].threads > 0 THEN UNCHANGED counters
     ELSE /\ running_processes' = running_processes + 1
          /\ user_processes' = user_processes + IF proc[p].is_system THEN 0 ELSE 1
          /\ shutdown_timeout' = (shutdown_timeout /\ (proc[p].is_system \/ user_processes > 0))
          /\ UNCHANGED shutdown_stage
  /\ UNCHANGED <<job, handles, work, stale, program, asserted>>

InitFirstThread(p) ==
  /\ Ready /\ proc[p].threads > 0 /\ proc[p].alive /\ ~proc[p].pid
  /\ proc' = [proc EXCEPT ![p].pid = TRUE]
  /\ UNCHANGED <<job, handles, work, counters, stale, program, asserted>>

InitProcessDone(p) ==
  /\ Ready /\ Live(p) /\ proc[p].info
  /\ proc' = [proc EXCEPT ![p].info = FALSE]
  /\ UNCHANGED <<job, handles, work, counters, stale, program, asserted>>

\* A request or an event that leads to a call.
Starts(frame) == work' = <<frame>> /\ UNCHANGED <<proc, job, handles, counters, stale, program, asserted>>

TerminateProcess(c, p) ==
  Runs(c, "terminateProcess") /\ HasHandle(c, p) /\ Starts([Frame("terminate", Process(p)) EXCEPT !.skip = (p = c)])
TerminateJobRequest(c, j) == Runs(c, "terminateJob") /\ Job(j) \in handles[c] /\ Starts(TerminateJob(j))
ThreadExits(p) == Ready /\ proc[p].threads > 0 /\ Starts(Frame("killThread", Process(p)))

\* The host's process exits or crashes; the server sees its socket closed, kill_process.
HostDies(p) ==
  /\ <<p, "die">> \in program /\ Ready /\ proc[p].made /\ proc[p].alive
  /\ proc' = [proc EXCEPT ![p].alive = FALSE]
  /\ UNCHANGED <<job, handles, work, counters, stale, program, asserted>>

\* A mutant: a process that is terminating is left to itself.
HangupOnce(p) ==
  /\ Ready /\ proc[p].made /\ ~proc[p].alive /\ proc[p].timer = 0
  /\ ~proc[p].is_terminating
  /\ Starts(Frame("terminate", Process(p)))

Hangup(p) ==
  /\ Ready /\ proc[p].made /\ ~proc[p].alive /\ proc[p].timer = 0
  /\ proc[p].threads > 0 \/ ~proc[p].is_terminating
  /\ Starts(Frame("terminate", Process(p)))

\* A mutant: it only looks.
SigkillLooks(p) ==
  /\ Ready /\ proc[p].timer > 0
  /\ IF proc[p].alive
     THEN UNCHANGED proc /\ UNCHANGED counters
     ELSE proc' = [proc EXCEPT ![p].timer = 0] /\ Died(p)
  /\ UNCHANGED <<job, handles, work, stale, program, asserted>>

\* process_sigkill: it looks whether the host's process is gone, and in the end kills it.
Sigkill(p) ==
  /\ Ready /\ proc[p].timer > 0
  /\ IF proc[p].alive /\ proc[p].timer < Attempts
     THEN proc' = [proc EXCEPT ![p].timer = @ + 1] /\ UNCHANGED counters
     ELSE proc' = [proc EXCEPT ![p].timer = 0, ![p].alive = FALSE] /\ Died(p)
  /\ UNCHANGED <<job, handles, work, stale, program, asserted>>

OpenProcess(c, p) ==
  /\ Runs(c, "openProcess") /\ proc[p].made
  /\ handles' = [handles EXCEPT ![c] = @ \cup {Process(p)}]
  /\ UNCHANGED <<proc, job, work, counters, stale, program, asserted>>

CloseHandle(c, t) ==
  /\ Runs(c, "closeHandle") /\ t \in handles[c]
  /\ IF KillsOnClose(t)
     THEN work' = <<[Frame("closeOne", Process(c)) EXCEPT !.at = t], TerminateJob(t[2])>> /\ UNCHANGED handles
     ELSE handles' = [handles EXCEPT ![c] = @ \ {t}] /\ UNCHANGED work
  /\ UNCHANGED <<proc, job, counters, stale, program, asserted>>

CreateJob(c, j) ==
  /\ Runs(c, "createJob") /\ ~job[j].made
  /\ job' = [job EXCEPT ![j].made = TRUE]
  /\ handles' = [handles EXCEPT ![c] = @ \cup {Job(j)}]
  /\ UNCHANGED <<proc, work, counters, stale, program, asserted>>

SetJobLimits(c, j, limit) ==
  /\ Runs(c, limit) /\ Job(j) \in handles[c] /\ job' = [job EXCEPT ![j].limits = {limit}]
  /\ UNCHANGED <<proc, handles, work, counters, program, stale, asserted>>

AssignJob(c, j, p) ==
  /\ Runs(c, "assignJob") /\ Job(j) \in handles[c] /\ HasHandle(c, p) /\ proc[p].threads > 0
  /\ \E s \in {AddJobProcess([proc |-> proc, job |-> job], j, p)} : proc' = s.proc /\ job' = s.job
  /\ UNCHANGED <<handles, work, counters, stale, program, asserted>>

\* make_process_system, for the process that asks.
MakeSystem(c) ==
  /\ Runs(c, "makeSystem") /\ ~proc[c].is_system
  /\ proc' = [proc EXCEPT ![c].is_system = TRUE] /\ user_processes' = user_processes - 1
  /\ shutdown_timeout' = (shutdown_timeout \/ (user_processes = 1 /\ shutdown_stage = 0))
  /\ UNCHANGED <<job, handles, work, running_processes, shutdown_stage, stale, program, asserted>>

\* server_shutdown_timeout: system processes are told first, then all are killed;
\* with no process left the server closes its socket, which ends it.
ShutdownTimeout ==
  /\ Ready /\ shutdown_timeout /\ running_processes > 0
  /\ shutdown_timeout' = (shutdown_stage = 0) /\ shutdown_stage' = shutdown_stage + 1
  /\ work' = IF shutdown_stage = 0 THEN <<>> ELSE <<Frame("killAll", <<"server">>)>>
  /\ UNCHANGED <<proc, job, handles, running_processes, user_processes, stale, program, asserted>>

\* shutdown_master_socket
ForceShutdown == <<First, "shutDown">> \in program /\ Ready /\ shutdown_stage < 2 /\ Starts(Frame("killAll", <<"server">>))

Targets == {Process(p) : p \in Procs} \cup {Job(j) : j \in Jobs}

Next ==
  \/ Server
  \/ \E c, p \in Procs, inherit, breakaway \in BOOLEAN :
       \E wanted \in Jobs \cup {NoJob} : NewProcess(c, p, wanted, inherit, breakaway)
  \/ \E c, p \in Procs : NewThread(c, p)
  \/ \E p \in Procs : InitFirstThread(p)
  \/ \E p \in Procs : InitProcessDone(p)
  \/ \E c, p \in Procs : TerminateProcess(c, p)
  \/ \E c \in Procs, j \in Jobs : TerminateJobRequest(c, j)
  \/ \E p \in Procs : ThreadExits(p)
  \/ \E p \in Procs : HostDies(p)
  \/ \E p \in Procs : Hangup(p)
  \/ \E p \in Procs : Sigkill(p)
  \/ \E c, p \in Procs : OpenProcess(c, p)
  \/ \E c \in Procs : \E t \in Targets : CloseHandle(c, t)
  \/ \E c \in Procs, j \in Jobs : CreateJob(c, j)
  \/ \E c \in Procs, j \in Jobs, limit \in Limits : SetJobLimits(c, j, limit)
  \/ \E c, p \in Procs, j \in Jobs : AssignJob(c, j, p)
  \/ \E c \in Procs : MakeSystem(c)
  \/ ShutdownTimeout
  \/ ForceShutdown

Spec == Init /\ [][Next]_vars

\* The server goes on with what it does; a round of its loop serves every timer that has
\* expired and every socket that was closed, however many requests there are (main_loop).
FairSpec ==
  /\ Spec /\ WF_vars(Server)
  /\ SF_vars(\E p \in Procs : Sigkill(p) \/ Hangup(p))

----------------------------------------------------------------------------
TypeOK ==
  /\ \A p \in Procs :
       /\ proc[p].threads \in 0 .. MaxThreads /\ proc[p].timer \in 0 .. Attempts
       /\ proc[p].job \in Jobs \cup {NoJob} /\ handles[p] \subseteq Targets
  /\ \A j \in Jobs : job[j].num \in 0 .. Cardinality(Procs) /\ job[j].parent \in Jobs \cup {NoJob}
  /\ running_processes \in 0 .. Cardinality(Procs) /\ user_processes \in 0 .. Cardinality(Procs)
  /\ shutdown_stage \in 0 .. 2 /\ shutdown_timeout \in BOOLEAN
  /\ stale \in BOOLEAN /\ asserted \in BOOLEAN

\* No assertion of process_destroy, job_destroy and release_job_process fails.
NoAssertFails == asserted

\* A job counts the processes in it, or in a job below it, that have not ended.
JobCounts ==
  Ready => \A j \in Jobs :
    job[j].num = Cardinality({p \in Procs : proc[p].made /\ ~proc[p].ended /\ j \in Above(job, proc[p].job)})

\* The jobs are a forest, whatever processes were moved into them, and the lists and
\* the links back are the same.
JobForest ==
  \A j \in Jobs :
    /\ j \notin Above(job, job[j].parent)
    /\ IsInjective(job[j].list)
    /\ Range(job[j].list) = {p \in Procs : proc[p].job = j}
    /\ Range(job[j].children) = {k \in Jobs : job[k].parent = j}

\* The jobs of the server and what they count are exact: the two parts above.
JobsExact == TypeOK /\ JobCounts /\ JobForest

\* The server counts the processes that run or whose end it still waits for, and
\* those of them that are not system processes; the shutdown is armed just while
\* none of these is left.
CountsExact ==
  LET there == {p \in Procs : proc[p].threads > 0 \/ proc[p].timer > 0}
  IN Ready => /\ running_processes = Cardinality(there)
              /\ user_processes = Cardinality({p \in there : ~proc[p].is_system})
              /\ shutdown_stage = 0 => (shutdown_timeout <=> user_processes = 0)

\* Once a job has been terminated, nothing in it or below it runs.
JobTerminated ==
  [][\A j \in Jobs : work # <<>> /\ Unused = {} /\ Top.op = "terminateMembers" /\ Top.what = Job(j) /\ work' = Return
       => \A p \in Procs : j \in Above(job, proc[p].job) => proc[p].threads = 0]_vars

\* After a shutdown every process is gone in the end, also one that does not react.
ShutdownEnds == shutdown_stage = 2 ~> running_processes = 0 \/ stale

\* A process whose host process died ends in the end, whatever state it was in.
DeathNoticed == \A p \in Procs : ~proc[p].alive /\ proc[p].threads > 0 ~> proc[p].threads = 0 \/ stale
=============================================================================
