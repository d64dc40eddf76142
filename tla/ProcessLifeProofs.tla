-------------------------- MODULE ProcessLifeProofs --------------------------
(***************************************************************************)
(* What ProcessLife promises, proved for any processes, jobs and programs, *)
(* if no thread is made in a process that has ended: CountsExact from LInv,*)
(* and JobsExact and NoAssertFails from JobInv, which has it as a part.    *)
(*                                                                         *)
(* LInv says which processes the server has counted, in the middle of its  *)
(* calls too.  JInv says what the jobs count then, and that handles, calls *)
(* and links are of objects that exist; BInv has the bounds of TypeOK.     *)
(***************************************************************************)
EXTENDS ProcessLife, FiniteSetTheorems, TLAPS

(* What the variables are.                                                 *)

ProcRec ==
  [made : BOOLEAN, threads : Nat, ended : BOOLEAN, is_terminating : BOOLEAN, info : BOOLEAN,
   timer : Nat, pid : BOOLEAN, alive : BOOLEAN, is_system : BOOLEAN, job : Jobs \cup {NoJob}]

JobRec ==
  [made : BOOLEAN, parent : Jobs \cup {NoJob}, list : Seq(Procs), children : Seq(Jobs), num : Int,
   used : BOOLEAN, limits : SUBSET Limits, signaled : BOOLEAN]

\* A call in progress is about a process, about a job, or about all processes; a loop over a
\* job is at an entry of its list.
OfProcess == {"terminate", "killThread", "killed", "close", "closeOne"}
OfJob == {"terminateChildren", "terminateMembers"}
AnyFrame ==
  [op : OfProcess \cup OfJob \cup {"killAll"}, what : Targets \cup {<<"server">>}, skip : BOOLEAN,
   at : Procs \cup Jobs \cup Targets \cup {Nothing}]
FrameOK(f) ==
  /\ f.op \in OfProcess => \E p \in Procs : f.what = Process(p)
  /\ f.op \in OfJob => \E j \in Jobs : f.what = Job(j)
  /\ f.op = "terminateChildren" => f.at \in Jobs \cup {Nothing}
  /\ f.op = "terminateMembers" => f.at \in Procs \cup {Nothing}
FrameSet == {f \in AnyFrame : FrameOK(f)}

LifeTyped ==
  /\ proc \in [Procs -> ProcRec] /\ job \in [Jobs -> JobRec] /\ handles \in [Procs -> SUBSET Targets]
  /\ work \in Seq(FrameSet)
  /\ running_processes \in Int /\ user_processes \in Int
  /\ shutdown_stage \in Nat /\ shutdown_timeout \in BOOLEAN

\* The last thread of a process is gone and the process has still to be counted out.
IsKilled(f, p) == f.op = "killed" /\ f.what = Process(p)
Dying(w) == {p \in Procs : \E i \in 1 .. Len(w) : IsKilled(w[i], p)}
KilledOnce(w) == \A p \in Procs, i, j \in 1 .. Len(w) : IsKilled(w[i], p) /\ IsKilled(w[j], p) => i = j

\* What the fields of a process say of its life.
LifeOK(q) ==
  /\ q.threads > 0 \/ q.timer > 0 \/ q.alive => q.made
  /\ q.threads > 0 => ~q.ended /\ q.timer = 0
  /\ q.timer > 0 => q.ended

DyingOK(q) == q.made /\ q.ended /\ q.threads = 0 /\ q.timer = 0

\* kill_thread comes at once when it is called: nothing is destroyed before.
KillOK ==
  \A i \in 1 .. Len(work) : work[i].op = "killThread" =>
    /\ i = Len(work) /\ Unused = {}
    /\ \A p \in Procs : work[i].what = Process(p) => proc[p].threads > 0

There(ps, w) == {p \in Procs : ps[p].threads > 0 \/ ps[p].timer > 0 \/ p \in Dying(w)}
Users(ps, w) == {p \in There(ps, w) : ~ps[p].is_system}

CountsOK ==
  /\ running_processes = Cardinality(There(proc, work))
  /\ user_processes = Cardinality(Users(proc, work))
  /\ shutdown_stage = 0 => (shutdown_timeout <=> user_processes = 0)

LInv ==
  /\ LifeTyped /\ KilledOnce(work) /\ KillOK /\ CountsOK
  /\ \A p \in Procs : LifeOK(proc[p]) /\ (p \in Dying(work) => DyingOK(proc[p]))

-----------------------------------------------------------------------------
(* The stack of calls.                                                     *)

\* The frames that the counts depend on; frames without them, from one on.
Marks == {"killed", "killThread"}
Quiet(w, m) == \A i \in 1 .. Len(w) : i \notin 1 .. m => w[i].op \notin Marks
NoKills(w) == \A i \in 1 .. Len(w) : w[i].op # "killThread"

\* Frames are taken from the end of the stack and others are put there.
IsRestacked(w, m, s, v) ==
  /\ v \in Seq(FrameSet) /\ Len(v) = m + Len(s)
  /\ \A i \in 1 .. m : v[i] = w[i]
  /\ \A i \in 1 .. Len(s) : v[m + i] = s[i] /\ m + i \in 1 .. Len(v)
  /\ \A i \in 1 .. Len(v) : i \notin 1 .. m => i - m \in 1 .. Len(s) /\ v[i] = s[i - m]

\* The stack is what that says it is.
LEMMA Restacked ==
  ASSUME NEW w \in Seq(FrameSet), NEW m \in 0 .. Len(w), NEW s \in Seq(FrameSet), NEW v,
         v = SubSeq(w, 1, m) \o s
  PROVE  IsRestacked(w, m, s, v)
<1>1. Len(w) \in Nat /\ Len(s) \in Nat /\ m \in Nat /\ m <= Len(w)
  OBVIOUS
<1> DEFINE u == SubSeq(w, 1, m)
<1>2. u \in Seq(FrameSet) /\ Len(u) = m /\ \A i \in 1 .. m : u[i] = w[i]
  BY <1>1
<1> HIDE DEF u
<1>3. v = u \o s
  BY DEF u
<1>4. v \in Seq(FrameSet) /\ Len(v) = m + Len(s) /\ Len(v) \in Nat
  BY <1>1, <1>2, <1>3
<1>5. \A i \in 1 .. Len(v) : v[i] = IF i <= m THEN u[i] ELSE s[i - m]
  BY <1>1, <1>2, <1>3
<1>6. \A i \in 1 .. m : i \in 1 .. Len(v) /\ i <= m
  BY <1>1, <1>4
<1>7. \A i \in 1 .. Len(s) : m + i \in 1 .. Len(v) /\ ~ (m + i <= m) /\ (m + i) - m = i
  BY <1>1, <1>4
<1>8. \A i \in 1 .. Len(v) : i \notin 1 .. m => i - m \in 1 .. Len(s) /\ ~ (i <= m)
  BY <1>1, <1>4
<1> QED BY SMTT(30), <1>2, <1>4, <1>5, <1>6, <1>7, <1>8 DEF IsRestacked

\* If those are not about a death, the dying are the same.
LEMMA QuietWork ==
  ASSUME NEW w \in Seq(FrameSet), NEW m \in 0 .. Len(w), NEW s \in Seq(FrameSet), NEW v,
         v = SubSeq(w, 1, m) \o s, Quiet(w, m), Quiet(s, 0)
  PROVE  /\ v \in Seq(FrameSet) /\ Dying(v) = Dying(w) /\ (KilledOnce(w) => KilledOnce(v))
         /\ (NoKills(w) => NoKills(v))
<1>1. /\ v \in Seq(FrameSet) /\ Len(v) = m + Len(s)
      /\ \A i \in 1 .. m : v[i] = w[i]
      /\ \A i \in 1 .. Len(v) : i \notin 1 .. m => i - m \in 1 .. Len(s) /\ v[i] = s[i - m]
  BY Restacked DEF IsRestacked
<1>2. \A i \in 1 .. m : i \in 1 .. Len(w) /\ i \in 1 .. Len(v)
  BY <1>1
<1>3. \A i \in 1 .. Len(v) : v[i].op \in Marks => i \in 1 .. m /\ v[i] = w[i]
  <2>1. \A i \in 1 .. Len(s) : s[i].op \notin Marks
    BY DEF Quiet
  <2> QED BY <1>1, <2>1
<1>4. \A i \in 1 .. Len(w) : w[i].op \in Marks => i \in 1 .. m /\ v[i] = w[i]
  BY <1>1 DEF Quiet
<1>5. \A p \in Procs, i \in 1 .. Len(v) : IsKilled(v[i], p) => i \in 1 .. Len(w) /\ IsKilled(w[i], p)
  BY <1>2, <1>3 DEF IsKilled, Marks
<1>6. \A p \in Procs, i \in 1 .. Len(w) : IsKilled(w[i], p) => i \in 1 .. Len(v) /\ IsKilled(v[i], p)
  BY <1>2, <1>4 DEF IsKilled, Marks
<1>7. Dying(v) = Dying(w)
  BY <1>5, <1>6 DEF Dying
<1>8. KilledOnce(w) => KilledOnce(v)
  BY <1>5 DEF KilledOnce
<1>9. NoKills(w) => NoKills(v)
  BY <1>2, <1>3 DEF Marks, NoKills
<1> QED BY <1>1, <1>7, <1>8, <1>9

\* The last frame.
LEMMA TopIs ==
  ASSUME work \in Seq(FrameSet), work # <<>>
  PROVE  /\ Len(work) \in Nat /\ Len(work) > 0 /\ Top = work[Len(work)] /\ Top \in FrameSet
         /\ Return = SubSeq(work, 1, Len(work) - 1) /\ Len(work) - 1 \in 0 .. Len(work)
         /\ \A i \in 1 .. Len(work) : i \notin 1 .. Len(work) - 1 => i = Len(work)
<1>1. Len(work) \in Nat /\ Len(work) > 0
  OBVIOUS
<1>2. Top = work[Len(work)] /\ Return = SubSeq(work, 1, Len(work) - 1)
  BY DEF Top, Return, Last, Front
<1>3. Top \in FrameSet
  BY <1>1, <1>2
<1> QED BY <1>1, <1>2, <1>3

\* kill_thread is not in progress but when it comes next.
LEMMA NoKill ==
  ASSUME LInv, work = <<>> \/ Unused # {} \/ (work # <<>> /\ Top.op # "killThread")
  PROVE  NoKills(work)
<1>1. CASE work = <<>>
  BY <1>1 DEF NoKills
<1>2. CASE Unused # {}
  BY <1>2 DEF LInv, KillOK, NoKills
<1>3. CASE work # <<>> /\ Top.op # "killThread"
  BY <1>3, TopIs DEF LInv, LifeTyped, KillOK, NoKills
<1> QED BY <1>1, <1>2, <1>3

-----------------------------------------------------------------------------
(* The counts.                                                             *)

\* The processes that count are a finite set.
LEMMA ThereIs ==
  /\ IsFiniteSet(There(proc, work)) /\ IsFiniteSet(Users(proc, work))
  /\ Cardinality(There(proc, work)) \in Nat /\ Cardinality(Users(proc, work)) \in Nat
  /\ Users(proc, work) \subseteq There(proc, work) /\ There(proc, work) \subseteq Procs
<1>1. There(proc, work) \subseteq Procs /\ Users(proc, work) \subseteq Procs /\ Users(proc, work) \subseteq There(proc, work)
  BY DEF There, Users
<1> QED BY <1>1, LifeAssumption, FS_Subset, FS_CardinalityType

\* A step that is not about a death: the counts, and what they count, stay.
LEMMA QuietStep ==
  ASSUME LInv, NoKills(work), NEW m \in 0 .. Len(work), NEW s \in Seq(FrameSet),
         work' = SubSeq(work, 1, m) \o s, Quiet(work, m), Quiet(s, 0),
         proc' \in [Procs -> ProcRec], job' \in [Jobs -> JobRec], handles' \in [Procs -> SUBSET Targets],
         running_processes' = running_processes, user_processes' = user_processes,
         shutdown_stage' \in Nat, shutdown_timeout' \in BOOLEAN,
         shutdown_stage' = 0 => shutdown_stage = 0 /\ shutdown_timeout' = shutdown_timeout,
         \A p \in Procs : /\ proc'[p].threads = proc[p].threads /\ proc'[p].timer = proc[p].timer
                          /\ LifeOK(proc'[p]) /\ (p \in Dying(work) => DyingOK(proc'[p]))
                          /\ p \in There(proc, work) => proc'[p].is_system = proc[p].is_system
  PROVE  LInv'
<1>1. work \in Seq(FrameSet) /\ KilledOnce(work) /\ CountsOK /\ LifeTyped
  BY DEF LInv, LifeTyped
<1>2. work' \in Seq(FrameSet) /\ Dying(work') = Dying(work) /\ KilledOnce(work') /\ NoKills(work')
  BY <1>1, QuietWork, Zenon
<1>3. There(proc', work') = There(proc, work) /\ Users(proc', work') = Users(proc, work)
  <2>1. There(proc', work') = There(proc, work)
    BY <1>2 DEF There
  <2> QED BY <2>1 DEF Users, There
<1>4. CountsOK'
  BY <1>1, <1>3 DEF CountsOK
<1>5. LifeTyped'
  BY <1>1, <1>2 DEF LifeTyped
<1>6. KillOK'
  BY <1>2 DEF KillOK, NoKills
<1> QED BY <1>2, <1>4, <1>5, <1>6 DEF LInv

\* The same, where no process changes.
LEMMA QuietFrames ==
  ASSUME LInv, NoKills(work), NEW m \in 0 .. Len(work), NEW s \in Seq(FrameSet),
         work' = SubSeq(work, 1, m) \o s, Quiet(work, m), Quiet(s, 0),
         job' \in [Jobs -> JobRec], handles' \in [Procs -> SUBSET Targets], UNCHANGED <<proc, counters>>
  PROVE  LInv'
<1>1. LifeTyped /\ \A p \in Procs : LifeOK(proc[p]) /\ (p \in Dying(work) => DyingOK(proc[p]))
  BY DEF LInv
<1>2. /\ proc' \in [Procs -> ProcRec] /\ shutdown_stage' \in Nat /\ shutdown_timeout' \in BOOLEAN
      /\ running_processes' = running_processes /\ user_processes' = user_processes
      /\ shutdown_stage' = shutdown_stage /\ shutdown_timeout' = shutdown_timeout /\ proc' = proc
  BY <1>1 DEF LifeTyped, counters
<1> QED BY <1>1, <1>2, QuietStep

-----------------------------------------------------------------------------
(* The frames and the lists.                                               *)

\* Frames are about processes and jobs.
LEMMA FramesTyped ==
  /\ \A o \in OfProcess, p \in Procs : Frame(o, Process(p)) \in FrameSet /\ Frame(o, Process(p)).op = o
  /\ \A o \in OfProcess, p \in Procs, a \in Targets :
       /\ [Frame(o, Process(p)) EXCEPT !.at = a] \in FrameSet /\ [Frame(o, Process(p)) EXCEPT !.at = a].op = o
  /\ \A o \in OfProcess, p \in Procs, sk \in BOOLEAN :
       /\ [Frame(o, Process(p)) EXCEPT !.skip = sk] \in FrameSet /\ [Frame(o, Process(p)) EXCEPT !.skip = sk].op = o
  /\ \A j \in Jobs, a \in Jobs \cup {Nothing} :
       /\ [Frame("terminateChildren", Job(j)) EXCEPT !.at = a] \in FrameSet
       /\ [Frame("terminateChildren", Job(j)) EXCEPT !.at = a].op = "terminateChildren"
  /\ \A j \in Jobs, a \in Procs \cup {Nothing} :
       /\ [Frame("terminateMembers", Job(j)) EXCEPT !.at = a] \in FrameSet
       /\ [Frame("terminateMembers", Job(j)) EXCEPT !.at = a].op = "terminateMembers"
  /\ Frame("killAll", <<"server">>) \in FrameSet /\ Frame("killAll", <<"server">>).op = "killAll"
<1> DEFINE Ops == OfProcess \cup OfJob \cup {"killAll"}
           Whats == Targets \cup {<<"server">>}
           Ats == Procs \cup Jobs \cup Targets \cup {Nothing}
<1>1. ASSUME NEW o \in Ops, NEW w \in Whats
      PROVE  Frame(o, w) \in AnyFrame /\ Frame(o, w).op = o /\ Frame(o, w).what = w /\ Frame(o, w).at = Nothing
  BY DEF Frame, AnyFrame, OfProcess, OfJob
<1>2. ASSUME NEW g \in AnyFrame, NEW a \in Ats
      PROVE  /\ [g EXCEPT !.at = a] \in AnyFrame /\ [g EXCEPT !.at = a].op = g.op
             /\ [g EXCEPT !.at = a].what = g.what /\ [g EXCEPT !.at = a].at = a
  BY DEF AnyFrame
<1>3. ASSUME NEW g \in AnyFrame, NEW sk \in BOOLEAN
      PROVE  /\ [g EXCEPT !.skip = sk] \in AnyFrame /\ [g EXCEPT !.skip = sk].op = g.op
             /\ [g EXCEPT !.skip = sk].what = g.what /\ [g EXCEPT !.skip = sk].at = g.at
  BY DEF AnyFrame
<1>4. \A o \in OfProcess : o \in Ops /\ o \notin OfJob /\ o # "terminateChildren" /\ o # "terminateMembers"
  BY DEF OfProcess, OfJob
<1>5. \A o \in OfJob \cup {"killAll"} : o \in Ops /\ o \notin OfProcess
  BY DEF OfProcess, OfJob
<1>6. (\A p \in Procs : Process(p) \in Whats) /\ (\A j \in Jobs : Job(j) \in Whats) /\ <<"server">> \in Whats
  BY DEF Targets
<1>7. ASSUME NEW g \in AnyFrame, g.op \in OfProcess, NEW p \in Procs, g.what = Process(p) PROVE g \in FrameSet
  BY ONLY <1>7, <1>4 DEF FrameSet, FrameOK
<1> HIDE DEF Ops, Whats
<1>8. \A o \in OfProcess, p \in Procs :
        /\ Frame(o, Process(p)) \in AnyFrame /\ Frame(o, Process(p)).op = o
        /\ Frame(o, Process(p)).what = Process(p)
  BY ONLY <1>1, <1>4, <1>6, Zenon
<1>9. \A o \in OfProcess, p \in Procs : Frame(o, Process(p)) \in FrameSet /\ Frame(o, Process(p)).op = o
  BY ONLY <1>7, <1>8, Zenon
<1>10. ASSUME NEW o \in OfProcess, NEW p \in Procs, NEW a \in Targets
       PROVE  [Frame(o, Process(p)) EXCEPT !.at = a] \in FrameSet /\ [Frame(o, Process(p)) EXCEPT !.at = a].op = o
  <2> DEFINE g == Frame(o, Process(p))
  <2>1. g \in AnyFrame /\ g.op = o /\ g.what = Process(p)
    BY <1>8
  <2>2. a \in Ats
    OBVIOUS
  <2> HIDE DEF g, Ats
  <2>3. [g EXCEPT !.at = a] \in AnyFrame /\ [g EXCEPT !.at = a].op = o /\ [g EXCEPT !.at = a].what = Process(p)
    BY <1>2, <2>1, <2>2, Zenon
  <2>4. [g EXCEPT !.at = a] \in FrameSet
    BY <1>7, <2>3, Zenon
  <2> QED BY <2>3, <2>4 DEF g
<1>10a. ASSUME NEW o \in OfProcess, NEW p \in Procs, NEW sk \in BOOLEAN
       PROVE  [Frame(o, Process(p)) EXCEPT !.skip = sk] \in FrameSet /\ [Frame(o, Process(p)) EXCEPT !.skip = sk].op = o
  <2> DEFINE g == Frame(o, Process(p))
  <2>1. g \in AnyFrame /\ g.op = o /\ g.what = Process(p)
    BY <1>8
  <2> HIDE DEF g
  <2>2. [g EXCEPT !.skip = sk] \in AnyFrame /\ [g EXCEPT !.skip = sk].op = o /\ [g EXCEPT !.skip = sk].what = Process(p)
    BY <1>3, <2>1, Zenon
  <2>3. [g EXCEPT !.skip = sk] \in FrameSet
    BY <1>7, <2>2, Zenon
  <2> QED BY <2>2, <2>3 DEF g
<1>11. "killAll" \notin OfProcess /\ "killAll" \notin OfJob /\ OfJob = {"terminateChildren", "terminateMembers"}
  BY DEF OfProcess, OfJob
<1>12. ASSUME NEW j \in Jobs, NEW o \in OfJob, NEW a \in (IF o = "terminateChildren" THEN Jobs ELSE Procs) \cup {Nothing}
       PROVE  [Frame(o, Job(j)) EXCEPT !.at = a] \in FrameSet /\ [Frame(o, Job(j)) EXCEPT !.at = a].op = o
  <2> DEFINE g == Frame(o, Job(j))
  <2>1. g \in AnyFrame /\ g.op = o /\ g.what = Job(j)
    BY <1>1, <1>5, <1>6
  <2>2. a \in Ats
    OBVIOUS
  <2> HIDE DEF g, Ats
  <2> DEFINE h == [g EXCEPT !.at = a]
  <2>3. h \in AnyFrame /\ h.op = o /\ h.what = Job(j) /\ h.at = a
    BY <1>2, <2>1, <2>2, Zenon
  <2> HIDE DEF h
  <2>4. FrameOK(h)
    <3>1. h.op \notin OfProcess /\ h.what = Job(j)
      BY <2>3, <1>5
    <3>2. h.op = "terminateChildren" => h.at \in Jobs \cup {Nothing}
      BY <2>3
    <3>3. h.op = "terminateMembers" => h.at \in Procs \cup {Nothing}
      BY <2>3
    <3> QED BY <3>1, <3>2, <3>3 DEF FrameOK
  <2>5. h \in FrameSet
    BY <2>3, <2>4 DEF FrameSet
  <2> QED BY <2>3, <2>5 DEF g, h
<1>13. \A j \in Jobs, a \in Jobs \cup {Nothing} :
         /\ [Frame("terminateChildren", Job(j)) EXCEPT !.at = a] \in FrameSet
         /\ [Frame("terminateChildren", Job(j)) EXCEPT !.at = a].op = "terminateChildren"
  BY ONLY <1>11, <1>12
<1>14. \A j \in Jobs, a \in Procs \cup {Nothing} :
         /\ [Frame("terminateMembers", Job(j)) EXCEPT !.at = a] \in FrameSet
         /\ [Frame("terminateMembers", Job(j)) EXCEPT !.at = a].op = "terminateMembers"
  BY ONLY <1>11, <1>12
<1>15. Frame("killAll", <<"server">>) \in FrameSet /\ Frame("killAll", <<"server">>).op = "killAll"
  <2>1. Frame("killAll", <<"server">>) \in AnyFrame /\ Frame("killAll", <<"server">>).op = "killAll"
    BY <1>1, <1>5, <1>6
  <2> QED BY <2>1, <1>11 DEF FrameSet, FrameOK
<1> QED BY <1>9, <1>10, <1>10a, <1>13, <1>14, <1>15

\* What a loop over a list is at, is an entry or nothing.
LEMMA EntriesOf ==
  ASSUME NEW S, NEW list \in Seq(S)
  PROVE  /\ Begin(list) \in S \cup {Nothing}
         /\ \A x : NextIn(list, x) \in S \cup {Nothing}
<1>1. Begin(list) \in S \cup {Nothing}
  BY DEF Begin
<1>2. ASSUME NEW x PROVE NextIn(list, x) \in S \cup {Nothing}
  <2> DEFINE after == {i \in 1 .. (Len(list) - 1) : list[i] = x}
             c == CHOOSE i \in after : TRUE
  <2>1. CASE after = {}
    BY <2>1 DEF NextIn
  <2>2. CASE after # {}
    <3>1. c \in after
      BY <2>2
    <3>2. c + 1 \in 1 .. Len(list)
      BY <3>1
    <3>3. NextIn(list, x) = list[c + 1]
      BY <2>2 DEF NextIn
    <3> QED BY <3>2, <3>3
  <2> QED BY <2>1, <2>2
<1> QED BY <1>1, <1>2

\* A list without one of its entries.
LEMMA WithoutIs ==
  ASSUME NEW S, NEW list \in Seq(S), NEW x
  PROVE  Without(list, x) \in Seq(S)
<1> DEFINE at == {i \in DOMAIN list : list[i] = x}
           c == CHOOSE i \in at : TRUE
<1>1. CASE at = {}
  BY <1>1 DEF Without
<1>2. CASE at # {}
  <2>1. c \in 1 .. Len(list) /\ Len(list) \in Nat
    BY <1>2
  <2>2. Without(list, x) = RemoveAt(list, c)
    BY <1>2 DEF Without
  <2> HIDE DEF c, at
  <2>3. SubSeq(list, 1, c - 1) \in Seq(S)
    BY <2>1
  <2>4. SubSeq(list, c + 1, Len(list)) \in Seq(S)
    BY <2>1
  <2> QED BY <2>2, <2>3, <2>4 DEF RemoveAt
<1> QED BY <1>1, <1>2

\* terminate_job starts with the jobs below.
LEMMA TerminateJobIs ==
  ASSUME LifeTyped, NEW j \in Jobs
  PROVE  TerminateJob(j) \in FrameSet /\ TerminateJob(j).op = "terminateChildren"
<1>1. job[j].children \in Seq(Jobs)
  BY DEF LifeTyped, JobRec
<1>2. Begin(job[j].children) \in Jobs \cup {Nothing}
  BY <1>1, EntriesOf
<1> QED BY <1>2, FramesTyped DEF TerminateJob, Frame

\* A frame that is not about a death returns, or is followed by such frames.
LEMMA Returned ==
  ASSUME LInv, work # <<>>, Top.op \notin Marks, NEW s \in Seq(FrameSet)
  PROVE  /\ NoKills(work) /\ Len(work) - 1 \in 0 .. Len(work) /\ Quiet(work, Len(work) - 1)
         /\ Return \o s = SubSeq(work, 1, Len(work) - 1) \o s
         /\ Return = SubSeq(work, 1, Len(work) - 1) \o <<>>
<1>1. LifeTyped /\ work \in Seq(FrameSet)
  BY DEF LInv, LifeTyped
<1>2. NoKills(work)
  BY NoKill DEF Marks
<1>3. Return = SubSeq(work, 1, Len(work) - 1) /\ Return \in Seq(FrameSet)
  <2>1. Return = SubSeq(work, 1, Len(work) - 1)
    BY DEF Return, Front
  <2> QED BY ONLY <1>1, <2>1
<1>4. Return \o <<>> = Return
  BY <1>3
<1>5. Quiet(work, Len(work) - 1)
  BY <1>1, TopIs DEF Quiet
<1> QED BY <1>1, <1>2, <1>3, <1>4, <1>5, TopIs

\* Frames that are not about a death are called.
LEMMA Called ==
  ASSUME LInv, NoKills(work), NEW s \in Seq(FrameSet)
  PROVE  /\ Len(work) \in 0 .. Len(work) /\ Quiet(work, Len(work))
         /\ Call(s) = SubSeq(work, 1, Len(work)) \o s /\ work = SubSeq(work, 1, Len(work)) \o <<>>
<1>1. work \in Seq(FrameSet)
  BY DEF LInv, LifeTyped
<1>2. SubSeq(work, 1, Len(work)) = work
  BY <1>1
<1> QED BY <1>1, <1>2 DEF Call, Quiet

\* A sequence of one or two frames, or of none.
LEMMA QuietSeqs ==
  /\ <<>> \in Seq(FrameSet) /\ Quiet(<<>>, 0)
  /\ \A a \in FrameSet : a.op \notin Marks => <<a>> \in Seq(FrameSet) /\ Quiet(<<a>>, 0)
  /\ \A a, b \in FrameSet : a.op \notin Marks /\ b.op \notin Marks => <<a, b>> \in Seq(FrameSet) /\ Quiet(<<a, b>>, 0)
<1>1. <<>> \in Seq(FrameSet) /\ Quiet(<<>>, 0)
  BY DEF Quiet
<1>2. \A a \in FrameSet : a.op \notin Marks => <<a>> \in Seq(FrameSet) /\ Quiet(<<a>>, 0)
  BY DEF Quiet
<1>3. \A a, b \in FrameSet : a.op \notin Marks /\ b.op \notin Marks => <<a, b>> \in Seq(FrameSet) /\ Quiet(<<a, b>>, 0)
  BY DEF Quiet
<1> QED BY <1>1, <1>2, <1>3

-----------------------------------------------------------------------------
(* The steps that are not about a death.                                   *)

\* What such a step leaves alone.
Kept == job' \in [Jobs -> JobRec] /\ handles' \in [Procs -> SUBSET Targets] /\ UNCHANGED <<proc, counters>>

\* A frame that is not about a death returns, or calls others.
LEMMA QuietReturn ==
  ASSUME LInv, work # <<>>, Top.op \notin Marks, NEW s \in Seq(FrameSet), Quiet(s, 0),
         work' = Return \o s, Kept
  PROVE  LInv'
<1>1. /\ NoKills(work) /\ Len(work) - 1 \in 0 .. Len(work) /\ Quiet(work, Len(work) - 1)
      /\ Return \o s = SubSeq(work, 1, Len(work) - 1) \o s
  BY Returned, Zenon
<1> QED BY <1>1, QuietFrames DEF Kept

\* Frames that are not about a death are called.
LEMMA QuietCall ==
  ASSUME LInv, NoKills(work), NEW s \in Seq(FrameSet), Quiet(s, 0), work' = Call(s), Kept
  PROVE  LInv'
<1>1. /\ Len(work) \in 0 .. Len(work) /\ Quiet(work, Len(work))
      /\ Call(s) = SubSeq(work, 1, Len(work)) \o s
  BY Called, Zenon
<1> QED BY <1>1, QuietFrames DEF Kept

\* The stack stays as it is.
LEMMA QuietSame ==
  ASSUME LInv, NoKills(work), work' = work, Kept
  PROVE  LInv'
<1>1. /\ <<>> \in Seq(FrameSet) /\ Quiet(<<>>, 0) /\ Len(work) \in 0 .. Len(work) /\ Quiet(work, Len(work))
      /\ work = SubSeq(work, 1, Len(work)) \o <<>>
  BY Called, QuietSeqs, Zenon
<1> QED BY <1>1, QuietFrames DEF Kept

\* A loop goes on with another entry.
LEMMA StepTyped ==
  ASSUME NEW g \in FrameSet, NEW a
  PROVE  /\ g.op = "terminateChildren" /\ a \in Jobs \cup {Nothing} =>
              [g EXCEPT !.at = a] \in FrameSet /\ [g EXCEPT !.at = a].op = g.op
         /\ g.op = "terminateMembers" /\ a \in Procs \cup {Nothing} =>
              [g EXCEPT !.at = a] \in FrameSet /\ [g EXCEPT !.at = a].op = g.op
         /\ g.op = "close" /\ a \in Targets =>
              [g EXCEPT !.at = a] \in FrameSet /\ [g EXCEPT !.at = a].op = g.op
<1> DEFINE h == [g EXCEPT !.at = a]
           Ats == Procs \cup Jobs \cup Targets \cup {Nothing}
<1>1. g \in AnyFrame /\ FrameOK(g)
  BY DEF FrameSet
<1>2. a \in Ats => h \in AnyFrame
  BY <1>1 DEF AnyFrame
<1>3. h.op = g.op /\ h.what = g.what /\ h.at = a
  BY <1>1 DEF AnyFrame
<1>4. a \in Jobs \cup {Nothing} \/ a \in Procs \cup {Nothing} \/ a \in Targets => a \in Ats
  OBVIOUS
<1> HIDE DEF h, Ats
<1>5. g.op = "terminateChildren" /\ a \in Jobs \cup {Nothing} => FrameOK(h)
  BY <1>1, <1>3 DEF FrameOK, OfProcess, OfJob
<1>6. g.op = "terminateMembers" /\ a \in Procs \cup {Nothing} => FrameOK(h)
  BY <1>1, <1>3 DEF FrameOK, OfProcess, OfJob
<1>7. g.op = "close" => FrameOK(h)
  BY <1>1, <1>3 DEF FrameOK, OfProcess, OfJob
<1>8. a \in Ats /\ FrameOK(h) => h \in FrameSet
  BY <1>2 DEF FrameSet
<1> QED BY ONLY <1>3, <1>4, <1>5, <1>6, <1>7, <1>8 DEF h

\* The jobs below are terminated.
LEMMA TerminateChildrenStep ==
  ASSUME LInv, work # <<>>, TerminateChildren(Top)
  PROVE  LInv'
<1>1. LifeTyped /\ work \in Seq(FrameSet)
  BY DEF LInv, LifeTyped
<1>2. Top \in FrameSet /\ Top.op = "terminateChildren" /\ Top.op \notin Marks
  BY <1>1, TopIs DEF TerminateChildren, Marks
<1>3. PICK j \in Jobs : Top.what = Job(j)
  BY <1>2 DEF FrameSet, FrameOK, OfJob
<1>4. Top.what[2] = j /\ Top.at \in Jobs \cup {Nothing}
  BY <1>2, <1>3 DEF FrameSet, FrameOK, Job
<1>5. NoKills(work)
  BY <1>2, NoKill DEF Marks
<1>6. Kept
  BY <1>1 DEF TerminateChildren, LifeTyped, Kept
<1>7. job[j].children \in Seq(Jobs) /\ job[j].list \in Seq(Procs)
  BY <1>1 DEF LifeTyped, JobRec
<1> DEFINE step == [Top EXCEPT !.at = NextIn(job[j].children, Top.at)]
           members == [Frame("terminateMembers", Job(j)) EXCEPT !.at = Begin(job[j].list)]
<1>8. step \in FrameSet /\ step.op = "terminateChildren"
  <2>1. NextIn(job[j].children, Top.at) \in Jobs \cup {Nothing}
    BY <1>7, EntriesOf
  <2> QED BY <1>2, <2>1, StepTyped
<1>9. members \in FrameSet /\ members.op = "terminateMembers"
  <2>1. Begin(job[j].list) \in Procs \cup {Nothing}
    BY <1>7, EntriesOf
  <2> QED BY <2>1, FramesTyped, Zenon
<1>10. \/ work' = work
       \/ work' = Append(Return, members)
       \/ Top.at \in Jobs /\ work' = Return \o <<step, TerminateJob(Top.at)>>
  BY <1>3, <1>4 DEF TerminateChildren
<1> HIDE DEF step, members
<1>11. CASE work' = work
  BY <1>5, <1>6, <1>11, QuietSame
<1>12. CASE work' = Append(Return, members)
  <2>1. Return \in Seq(FrameSet)
    BY <1>1, TopIs
  <2>2. work' = Return \o <<members>>
    BY <1>12, <2>1
  <2>3. <<members>> \in Seq(FrameSet) /\ Quiet(<<members>>, 0)
    BY <1>9, QuietSeqs DEF Marks
  <2> QED BY <1>2, <1>6, <2>2, <2>3, QuietReturn
<1>13. CASE Top.at \in Jobs /\ work' = Return \o <<step, TerminateJob(Top.at)>>
  <2>1. TerminateJob(Top.at) \in FrameSet /\ TerminateJob(Top.at).op = "terminateChildren"
    BY <1>1, <1>13, TerminateJobIs
  <2>2. <<step, TerminateJob(Top.at)>> \in Seq(FrameSet) /\ Quiet(<<step, TerminateJob(Top.at)>>, 0)
    BY <1>8, <2>1, QuietSeqs DEF Marks
  <2> QED BY <1>2, <1>6, <1>13, <2>2, QuietReturn
<1> QED BY <1>10, <1>11, <1>12, <1>13

\* The processes of the job are terminated.
LEMMA TerminateMembersStep ==
  ASSUME LInv, work # <<>>, TerminateMembers(Top)
  PROVE  LInv'
<1>1. LifeTyped /\ work \in Seq(FrameSet)
  BY DEF LInv, LifeTyped
<1>2. Top \in FrameSet /\ Top.op = "terminateMembers" /\ Top.op \notin Marks
  BY <1>1, TopIs DEF TerminateMembers, Marks
<1>3. PICK j \in Jobs : Top.what = Job(j)
  BY <1>2 DEF FrameSet, FrameOK, OfJob
<1>4. Top.what[2] = j /\ Top.at \in Procs \cup {Nothing}
  BY <1>2, <1>3 DEF FrameSet, FrameOK, Job
<1>5. NoKills(work)
  BY <1>2, NoKill DEF Marks
<1>6. job[j].list \in Seq(Procs) /\ job \in [Jobs -> JobRec] /\ job[j] \in JobRec
  BY <1>1 DEF LifeTyped, JobRec
<1>7. Kept
  <2>1. [job EXCEPT ![j].signaled = TRUE] \in [Jobs -> JobRec]
    BY <1>6 DEF JobRec
  <2>2. job' = job \/ job' = [job EXCEPT ![j].signaled = TRUE]
    BY <1>4 DEF TerminateMembers
  <2>3. job' \in [Jobs -> JobRec]
    BY <1>6, <2>1, <2>2
  <2> QED BY <1>1, <2>3 DEF TerminateMembers, LifeTyped, Kept
<1> DEFINE step == [Top EXCEPT !.at = NextIn(job[j].list, Top.at)]
           kill == Frame("terminate", Process(Top.at))
<1>8. step \in FrameSet /\ step.op = "terminateMembers"
  <2>1. NextIn(job[j].list, Top.at) \in Procs \cup {Nothing}
    BY <1>6, EntriesOf
  <2> QED BY <1>2, <2>1, StepTyped
<1>9. \/ work' = work \/ work' = Return
      \/ Top.at \in Procs /\ \/ work' = Return \o <<step, kill>>
                             \/ work' = Return \o <<step>>
  BY <1>3, <1>4 DEF TerminateMembers
<1> HIDE DEF step, kill
<1>10. Return \in Seq(FrameSet)
  BY <1>1, TopIs
<1>11. <<step>> \in Seq(FrameSet) /\ Quiet(<<step>>, 0) /\ <<>> \in Seq(FrameSet) /\ Quiet(<<>>, 0)
  BY <1>8, QuietSeqs DEF Marks
<1>12. CASE work' = work
  BY <1>5, <1>7, <1>12, QuietSame
<1>13. CASE work' = Return
  <2>1. work' = Return \o <<>>
    BY <1>10, <1>13
  <2> QED BY <1>2, <1>7, <1>11, <2>1, QuietReturn
<1>14. CASE Top.at \in Procs /\ work' = Return \o <<step, kill>>
  <2>1. kill \in FrameSet /\ kill.op = "terminate"
    BY <1>14, FramesTyped DEF kill, OfProcess
  <2>2. <<step, kill>> \in Seq(FrameSet) /\ Quiet(<<step, kill>>, 0)
    BY <1>8, <2>1, QuietSeqs DEF Marks
  <2> QED BY <1>2, <1>7, <1>14, <2>2, QuietReturn
<1>15. CASE work' = Return \o <<step>>
  BY <1>2, <1>7, <1>11, <1>15, QuietReturn
<1> QED BY <1>9, <1>12, <1>13, <1>14, <1>15

\* The handles of a process are closed.
LEMMA CloseHandlesStep ==
  ASSUME LInv, work # <<>>, CloseHandles(Top)
  PROVE  LInv'
<1>1. LifeTyped /\ work \in Seq(FrameSet)
  BY DEF LInv, LifeTyped
<1>2. Top \in FrameSet /\ Top.op = "close" /\ Top.op \notin Marks
  BY <1>1, TopIs DEF CloseHandles, Marks
<1>3. PICK p \in Procs : Top.what = Process(p)
  BY <1>2 DEF FrameSet, FrameOK, OfProcess
<1>4. Top.what[2] = p
  BY <1>3 DEF Process
<1>5. handles \in [Procs -> SUBSET Targets] /\ handles[p] \subseteq Targets
  BY <1>1 DEF LifeTyped
<1>6. \/ handles' = [handles EXCEPT ![p] = {}] /\ work' = Return
      \/ \E t \in handles[p], others \in {{}, handles[p] \ ({x \in handles[p] : KillsOnClose(x)} \ {Top.at})} :
           /\ KillsOnClose(t) /\ handles' = [handles EXCEPT ![p] = @ \ (others \cup {Top.at})]
           /\ work' = Return \o <<[Top EXCEPT !.at = t], TerminateJob(t[2])>>
  BY <1>4 DEF CloseHandles
<1>7. handles' \in [Procs -> SUBSET Targets]
  BY <1>5, <1>6
<1>8. Kept
  BY <1>1, <1>7 DEF CloseHandles, LifeTyped, Kept
<1>9. CASE work' = Return
  <2>1. work' = Return \o <<>>
    BY <1>1, <1>9, TopIs
  <2> QED BY <1>2, <1>8, <2>1, QuietReturn, QuietSeqs
<1>10. ASSUME NEW t \in handles[p], KillsOnClose(t), work' = Return \o <<[Top EXCEPT !.at = t], TerminateJob(t[2])>>
       PROVE  LInv'
  <2> DEFINE step == [Top EXCEPT !.at = t]
  <2>1. t \in Targets /\ t[1] = "job"
    BY <1>5, <1>10 DEF KillsOnClose
  <2>2. PICK j \in Jobs : t = Job(j)
    BY <2>1 DEF Targets, Process
  <2>3. t[2] = j
    BY <2>2 DEF Job
  <2>4. step \in FrameSet /\ step.op = "close"
    BY <1>2, <2>1, StepTyped
  <2> HIDE DEF step
  <2>5. TerminateJob(j) \in FrameSet /\ TerminateJob(j).op = "terminateChildren"
    BY <1>1, TerminateJobIs
  <2>6. <<step, TerminateJob(j)>> \in Seq(FrameSet) /\ Quiet(<<step, TerminateJob(j)>>, 0)
    BY <2>4, <2>5, QuietSeqs DEF Marks
  <2>7. work' = Return \o <<step, TerminateJob(j)>>
    BY <1>10, <2>3 DEF step
  <2> QED BY <1>2, <1>8, <2>6, <2>7, QuietReturn
<1> QED BY <1>6, <1>9, <1>10

\* The handle that a process closes is gone.
LEMMA CloseOneStep ==
  ASSUME LInv, work # <<>>, CloseOne(Top)
  PROVE  LInv'
<1>1. LifeTyped /\ work \in Seq(FrameSet)
  BY DEF LInv, LifeTyped
<1>2. Top \in FrameSet /\ Top.op = "closeOne" /\ Top.op \notin Marks
  BY <1>1, TopIs DEF CloseOne, Marks
<1>3. handles \in [Procs -> SUBSET Targets] /\ handles' = [handles EXCEPT ![Top.what[2]] = @ \ {Top.at}]
  BY <1>1 DEF CloseOne, LifeTyped
<1>4. handles' \in [Procs -> SUBSET Targets]
  BY <1>3
<1>5. Kept
  BY <1>1, <1>4 DEF CloseOne, LifeTyped, Kept
<1>6. work' = Return \o <<>>
  BY <1>1, TopIs DEF CloseOne
<1> QED BY <1>2, <1>5, <1>6, QuietReturn, QuietSeqs

\* What a step that is not about a death may change of the processes.
SameLives ==
  /\ proc' \in [Procs -> ProcRec]
  /\ \A p \in Procs : /\ proc'[p].threads = proc[p].threads /\ proc'[p].timer = proc[p].timer
                      /\ LifeOK(proc'[p]) /\ (p \in Dying(work) => DyingOK(proc'[p]))
                      /\ p \in There(proc, work) => proc'[p].is_system = proc[p].is_system
Shaped == job' \in [Jobs -> JobRec] /\ handles' \in [Procs -> SUBSET Targets]

\* Such a step may call frames that are not about a death.
LEMMA LivesCall ==
  ASSUME LInv, NoKills(work), NEW s \in Seq(FrameSet), Quiet(s, 0), work' = Call(s),
         SameLives, Shaped, UNCHANGED counters
  PROVE  LInv'
<1>1. /\ Len(work) \in 0 .. Len(work) /\ Quiet(work, Len(work))
      /\ Call(s) = SubSeq(work, 1, Len(work)) \o s
  BY Called, Zenon
<1>2. /\ shutdown_stage' \in Nat /\ shutdown_timeout' \in BOOLEAN
      /\ running_processes' = running_processes /\ user_processes' = user_processes
      /\ shutdown_stage' = shutdown_stage /\ shutdown_timeout' = shutdown_timeout
  BY DEF LInv, LifeTyped, counters
<1> QED BY <1>1, <1>2, QuietStep DEF SameLives, Shaped

\* Or leave the stack as it is.
LEMMA LivesSame ==
  ASSUME LInv, NoKills(work), work' = work, SameLives, Shaped, UNCHANGED counters
  PROVE  LInv'
<1>1. work = Call(<<>>) /\ <<>> \in Seq(FrameSet) /\ Quiet(<<>>, 0)
  BY QuietSeqs DEF Call, LInv, LifeTyped
<1> QED BY <1>1, LivesCall

\* All processes are killed, one after the other.
LEMMA KillAllStep ==
  ASSUME LInv, work # <<>>, KillAll(Top)
  PROVE  LInv'
<1>1. LifeTyped /\ work \in Seq(FrameSet)
  BY DEF LInv, LifeTyped
<1>2. Top \in FrameSet /\ Top.op = "killAll" /\ Top.op \notin Marks
  BY <1>1, TopIs DEF KillAll, Marks
<1>3. NoKills(work)
  BY <1>2, NoKill DEF Marks
<1>4. CASE \E p \in Procs : work' = Call(<<Frame("terminate", Process(p))>>) /\ UNCHANGED counters
  <2>1. PICK p \in Procs : work' = Call(<<Frame("terminate", Process(p))>>)
    BY <1>4
  <2>2. /\ <<Frame("terminate", Process(p))>> \in Seq(FrameSet)
        /\ Quiet(<<Frame("terminate", Process(p))>>, 0)
    BY FramesTyped, QuietSeqs DEF Marks, OfProcess
  <2>3. Kept
    BY <1>1, <1>4 DEF KillAll, LifeTyped, Kept
  <2> QED BY <1>3, <2>1, <2>2, <2>3, QuietCall
<1>5. CASE work' = Return /\ shutdown_stage' = 2 /\ UNCHANGED <<running_processes, user_processes>>
                          /\ shutdown_timeout' = FALSE
  <2>1. /\ Len(work) - 1 \in 0 .. Len(work) /\ Quiet(work, Len(work) - 1)
        /\ work' = SubSeq(work, 1, Len(work) - 1) \o <<>>
    BY <1>2, <1>5, Returned, QuietSeqs
  <2>2. proc' = proc /\ job' = job /\ handles' = handles
    BY DEF KillAll
  <2>3. /\ proc' \in [Procs -> ProcRec] /\ job' \in [Jobs -> JobRec] /\ handles' \in [Procs -> SUBSET Targets]
        /\ \A p \in Procs : LifeOK(proc[p]) /\ (p \in Dying(work) => DyingOK(proc[p]))
    BY <1>1, <2>2 DEF LifeTyped, LInv
  <2>4. \A p \in Procs : /\ proc'[p].threads = proc[p].threads /\ proc'[p].timer = proc[p].timer
                         /\ LifeOK(proc'[p]) /\ (p \in Dying(work) => DyingOK(proc'[p]))
                         /\ p \in There(proc, work) => proc'[p].is_system = proc[p].is_system
    BY <2>2, <2>3
  <2>5. /\ running_processes' = running_processes /\ user_processes' = user_processes
        /\ shutdown_stage' \in Nat /\ shutdown_timeout' \in BOOLEAN /\ shutdown_stage' # 0
    <3>1. running_processes' = running_processes /\ user_processes' = user_processes
      BY <1>5
    <3>2. shutdown_timeout' \in BOOLEAN
      BY <1>5, Zenon
    <3>3. shutdown_stage' = 2
      BY <1>5
    <3> QED BY <3>1, <3>2, <3>3
  <2>6. <<>> \in Seq(FrameSet) /\ Quiet(<<>>, 0)
    BY QuietSeqs
  <2> QED BY <1>3, <2>1, <2>3, <2>4, <2>5, <2>6, QuietStep
<1> QED BY <1>4, <1>5 DEF KillAll

\* A process that nothing refers to is gone for long.
LEMMA UnusedProcess ==
  ASSUME LInv, NEW p \in Procs, Process(p) \in Unused
  PROVE  proc[p].made /\ proc[p].threads = 0 /\ proc[p].timer = 0 /\ p \notin Dying(work)
<1>1. ~Used(Process(p)) /\ Process(p)[1] = "process" /\ Process(p)[2] = p
  BY DEF Unused, Process
<1>2. proc[p] \in ProcRec /\ ~(proc[p].threads > 0) /\ ~(proc[p].timer > 0) /\ ~Held(Process(p))
  BY <1>1 DEF Used, LInv, LifeTyped
<1>3. p \notin Dying(work)
  <2>1. work \in Seq(FrameSet)
    BY DEF LInv, LifeTyped
  <2> QED BY <1>2, <2>1 DEF Held, Dying, IsKilled
<1>4. proc[p].made
  <2>1. PICK t \in {Process(q) : q \in {q \in Procs : proc[q].made}} \cup {Job(j) : j \in {k \in Jobs : job[k].made}} :
          t = Process(p)
    BY DEF Unused
  <2> QED BY <2>1 DEF Process, Job
<1> QED BY <1>2, <1>3, <1>4 DEF ProcRec

\* An object that nothing refers to is destroyed.
LEMMA DestroyStep ==
  ASSUME LInv, Unused # {}, Destroy
  PROVE  LInv'
<1>1. LifeTyped /\ NoKills(work)
  BY NoKill DEF LInv
<1>2. PICK t \in Unused : IF t[1] = "process" THEN DestroyProcess(t[2]) ELSE DestroyJob(t[2])
  BY DEF Destroy
<1>3. CASE t[1] = "process"
  <2>1. PICK p \in Procs : t = Process(p)
    BY <1>3 DEF Unused, Job
  <2>2. DestroyProcess(p) /\ Process(p) \in Unused
    BY <1>2, <1>3, <2>1 DEF Process
  <2>3. proc[p].made /\ proc[p].threads = 0 /\ proc[p].timer = 0 /\ p \notin Dying(work)
    BY <2>2, UnusedProcess
  <2>4. CASE handles[p] # {}
    <3>1. work' = Call(<<Frame("close", Process(p))>>) /\ Kept
      BY <1>1, <2>2, <2>4 DEF DestroyProcess, Kept, LifeTyped
    <3>2. <<Frame("close", Process(p))>> \in Seq(FrameSet) /\ Quiet(<<Frame("close", Process(p))>>, 0)
      BY FramesTyped, QuietSeqs DEF Marks, OfProcess
    <3> QED BY <1>1, <3>1, <3>2, QuietCall
  <2>5. CASE handles[p] = {}
    <3>1. /\ proc' = [proc EXCEPT ![p] = NoProcess] /\ work' = work /\ handles' = handles /\ UNCHANGED counters
          /\ job' = IF proc[p].job = NoJob THEN job ELSE [job EXCEPT ![proc[p].job].list = Without(@, p)]
      BY <2>2, <2>5 DEF DestroyProcess
    <3>2. proc \in [Procs -> ProcRec] /\ job \in [Jobs -> JobRec] /\ proc[p].job \in Jobs \cup {NoJob}
      BY <1>1 DEF LifeTyped, ProcRec
    <3>3. job' \in [Jobs -> JobRec]
      <4>1. CASE proc[p].job = NoJob
        BY <3>1, <3>2, <4>1
      <4>2. CASE proc[p].job \in Jobs
        <5>1. Without(job[proc[p].job].list, p) \in Seq(Procs)
          BY <3>2, <4>2, WithoutIs DEF JobRec
        <5> QED BY ZenonT(40), <3>1, <3>2, <4>2, <5>1, LifeAssumption DEF JobRec
      <4> QED BY <3>2, <4>1, <4>2
    <3>4. NoProcess \in ProcRec /\ LifeOK(NoProcess) /\ NoProcess.threads = 0 /\ NoProcess.timer = 0
      BY DEF NoProcess, ProcRec, LifeOK
    <3>5. p \notin There(proc, work)
      BY <2>3 DEF There
    <3>6. SameLives
      <4>1. proc' \in [Procs -> ProcRec]
        BY <3>1, <3>2, <3>4
      <4>2. proc'[p] = NoProcess /\ \A q \in Procs : q # p => proc'[q] = proc[q]
        BY <3>1, <3>2
      <4>3. \A q \in Procs : LifeOK(proc[q]) /\ (q \in Dying(work) => DyingOK(proc[q]))
        BY DEF LInv
      <4> QED BY <2>3, <3>4, <3>5, <4>1, <4>2, <4>3 DEF SameLives
    <3>7. Shaped
      BY <1>1, <3>1, <3>3 DEF Shaped, LifeTyped
    <3> QED BY <1>1, <3>1, <3>6, <3>7, LivesSame
  <2> QED BY <2>4, <2>5
<1>4. CASE t[1] # "process"
  <2>1. PICK j \in Jobs : t = Job(j)
    BY <1>4 DEF Unused, Process
  <2>2. DestroyJob(j)
    BY <1>2, <1>4, <2>1 DEF Job
  <2>3. job \in [Jobs -> JobRec]
    BY <1>1 DEF LifeTyped
  <2>4. UnusedJob \in JobRec
    BY DEF UnusedJob, JobRec
  <2>5. \A k \in Jobs : [job[k] EXCEPT !.children = Without(@, j)] \in JobRec
    <3>1. \A k \in Jobs : job[k] \in JobRec /\ Without(job[k].children, j) \in Seq(Jobs)
      BY <2>3, WithoutIs DEF JobRec
    <3> QED BY <3>1 DEF JobRec
  <2>6. job' = [k \in Jobs |-> IF k = j THEN UnusedJob ELSE [job[k] EXCEPT !.children = Without(@, j)]]
    BY <2>2 DEF DestroyJob
  <2>7. job' \in [Jobs -> JobRec]
    BY <2>4, <2>5, <2>6
  <2>8. Kept /\ work' = work
    BY <1>1, <2>2, <2>7 DEF DestroyJob, Kept, LifeTyped
  <2> QED BY <1>1, <2>8, QuietSame
<1> QED BY <1>3, <1>4

-----------------------------------------------------------------------------
(* The requests and events that are not about a death.                     *)

\* A request is served when nothing is in progress.
LEMMA ReadyIs ==
  ASSUME LInv, Ready
  PROVE  LifeTyped /\ work = <<>> /\ NoKills(work) /\ \A s \in Seq(FrameSet) : s = Call(s)
<1>1. LifeTyped /\ work = <<>>
  BY DEF LInv, Ready, Idle
<1>2. \A s \in Seq(FrameSet) : s = <<>> \o s
  OBVIOUS
<1> QED BY <1>1, <1>2 DEF NoKills, Call

\* A call that is not about a death is begun.
LEMMA StartsStep ==
  ASSUME LInv, Ready, NEW g \in FrameSet, g.op \notin Marks, Starts(g)
  PROVE  LInv'
<1>1. work' = <<g>> /\ Kept
  BY DEF Starts, Kept, LInv, LifeTyped
<1>2. <<g>> \in Seq(FrameSet) /\ Quiet(<<g>>, 0)
  BY QuietSeqs
<1> QED BY <1>1, <1>2, ReadyIs, QuietCall

\* A call of terminate_process or of terminate_job.
LEMMA CallStarts ==
  ASSUME LInv, Ready,
         \/ \E c, p \in Procs : TerminateProcess(c, p)
         \/ \E c \in Procs, j \in Jobs : TerminateJobRequest(c, j)
         \/ \E p \in Procs : Hangup(p)
         \/ ForceShutdown
  PROVE  LInv'
<1>1. CASE \E c, p \in Procs : TerminateProcess(c, p)
  <2>1. PICK c \in Procs, p \in Procs : Starts([Frame("terminate", Process(p)) EXCEPT !.skip = (p = c)])
    BY <1>1 DEF TerminateProcess
  <2>2. (p = c) \in BOOLEAN /\ Process(p) \in Targets /\ "terminate" \in OfProcess /\ "terminate" \notin Marks
    BY DEF Targets, OfProcess, Marks
  <2> DEFINE g == [Frame("terminate", Process(p)) EXCEPT !.skip = (p = c)]
  <2>3. g \in FrameSet /\ g.op = "terminate"
    <3>1. \A sk \in BOOLEAN : /\ [Frame("terminate", Process(p)) EXCEPT !.skip = sk] \in FrameSet
                              /\ [Frame("terminate", Process(p)) EXCEPT !.skip = sk].op = "terminate"
      BY ONLY <2>2, p \in Procs, FramesTyped, Zenon
    <3> QED BY ONLY <2>2, <3>1, Zenon
  <2> HIDE DEF g
  <2> QED BY <2>1, <2>2, <2>3, StartsStep DEF g
<1>2. CASE \E c \in Procs, j \in Jobs : TerminateJobRequest(c, j)
  <2>1. PICK j \in Jobs : Starts(TerminateJob(j))
    BY <1>2 DEF TerminateJobRequest
  <2>2. TerminateJob(j) \in FrameSet /\ TerminateJob(j).op \notin Marks
    BY ReadyIs, TerminateJobIs DEF Marks
  <2> QED BY <2>1, <2>2, StartsStep
<1>3. CASE \E p \in Procs : Hangup(p)
  <2>1. PICK p \in Procs : Starts(Frame("terminate", Process(p)))
    BY <1>3 DEF Hangup
  <2>2. Frame("terminate", Process(p)) \in FrameSet /\ Frame("terminate", Process(p)).op \notin Marks
    BY FramesTyped DEF Marks, OfProcess
  <2> QED BY <2>1, <2>2, StartsStep
<1>4. CASE ForceShutdown
  <2>1. Starts(Frame("killAll", <<"server">>))
    BY <1>4 DEF ForceShutdown
  <2>2. Frame("killAll", <<"server">>) \in FrameSet /\ Frame("killAll", <<"server">>).op \notin Marks
    BY FramesTyped DEF Marks
  <2> QED BY <2>1, <2>2, StartsStep
<1> QED BY <1>1, <1>2, <1>3, <1>4

\* Handles are opened and closed, jobs are made and given limits.
LEMMA HandleSteps ==
  ASSUME LInv, Ready,
         \/ \E c, p \in Procs : OpenProcess(c, p)
         \/ \E c \in Procs, j \in Jobs : CreateJob(c, j)
         \/ \E c \in Procs, j \in Jobs, limit \in Limits : SetJobLimits(c, j, limit)
  PROVE  LInv'
<1>1. LifeTyped /\ NoKills(work)
  BY ReadyIs
<1>2. handles \in [Procs -> SUBSET Targets] /\ job \in [Jobs -> JobRec]
  BY <1>1 DEF LifeTyped
<1>3. (\A p \in Procs : Process(p) \in Targets) /\ (\A j \in Jobs : Job(j) \in Targets)
  BY DEF Targets
<1>4. CASE \E c, p \in Procs : OpenProcess(c, p)
  <2>1. PICK c \in Procs, p \in Procs : OpenProcess(c, p)
    BY <1>4
  <2>2. handles' \in [Procs -> SUBSET Targets]
    BY <1>2, <1>3, <2>1 DEF OpenProcess
  <2>3. Kept /\ work' = work
    BY <1>2, <2>1, <2>2 DEF OpenProcess, Kept
  <2> QED BY <1>1, <2>3, QuietSame
<1>5. CASE \E c \in Procs, j \in Jobs : CreateJob(c, j)
  <2>1. PICK c \in Procs, j \in Jobs : CreateJob(c, j)
    BY <1>5
  <2>2. handles' \in [Procs -> SUBSET Targets]
    BY <1>2, <1>3, <2>1 DEF CreateJob
  <2>3. job' \in [Jobs -> JobRec]
    BY <1>2, <2>1 DEF CreateJob, JobRec
  <2>4. Kept /\ work' = work
    BY <2>1, <2>2, <2>3 DEF CreateJob, Kept
  <2> QED BY <1>1, <2>4, QuietSame
<1>6. CASE \E c \in Procs, j \in Jobs, limit \in Limits : SetJobLimits(c, j, limit)
  <2>1. PICK c \in Procs, j \in Jobs, limit \in Limits : SetJobLimits(c, j, limit)
    BY <1>6
  <2>2. job' \in [Jobs -> JobRec]
    <3>1. job' = [job EXCEPT ![j].limits = {limit}] /\ {limit} \in SUBSET Limits
      BY <2>1 DEF SetJobLimits
    <3>2. [job[j] EXCEPT !.limits = {limit}] \in JobRec
      BY <1>2, <3>1 DEF JobRec
    <3> QED BY <1>2, <3>1, <3>2
  <2>3. Kept /\ work' = work
    BY <1>2, <2>1, <2>2 DEF SetJobLimits, Kept
  <2> QED BY <1>1, <2>3, QuietSame
<1> QED BY <1>4, <1>5, <1>6

\* A handle is closed, which may terminate the job it is to.
LEMMA CloseHandleStep ==
  ASSUME LInv, Ready, NEW c \in Procs, NEW t \in Targets, CloseHandle(c, t)
  PROVE  LInv'
<1>1. LifeTyped /\ NoKills(work)
  BY ReadyIs
<1>2. handles \in [Procs -> SUBSET Targets] /\ job \in [Jobs -> JobRec]
  BY <1>1 DEF LifeTyped
<1>3. CASE ~KillsOnClose(t)
  <2>1. handles' \in [Procs -> SUBSET Targets]
    BY <1>2, <1>3 DEF CloseHandle
  <2>2. Kept /\ work' = work
    BY <1>2, <1>3, <2>1 DEF CloseHandle, Kept
  <2> QED BY <1>1, <2>2, QuietSame
<1>4. CASE KillsOnClose(t)
  <2>1. PICK j \in Jobs : t = Job(j)
    BY <1>4 DEF KillsOnClose, Targets, Process
  <2>2. t[2] = j
    BY <2>1 DEF Job
  <2> DEFINE g == [Frame("closeOne", Process(c)) EXCEPT !.at = t]
  <2>3. g \in FrameSet /\ g.op = "closeOne"
    <3>1. "closeOne" \in OfProcess
      BY DEF OfProcess
    <3>2. \A a \in Targets : /\ [Frame("closeOne", Process(c)) EXCEPT !.at = a] \in FrameSet
                             /\ [Frame("closeOne", Process(c)) EXCEPT !.at = a].op = "closeOne"
      BY ONLY <3>1, c \in Procs, FramesTyped, ZenonT(40)
    <3> QED BY ONLY <3>2, t \in Targets, Zenon
  <2> HIDE DEF g
  <2>4. TerminateJob(j) \in FrameSet /\ TerminateJob(j).op = "terminateChildren"
    BY <1>1, TerminateJobIs
  <2>5. <<g, TerminateJob(j)>> \in Seq(FrameSet) /\ Quiet(<<g, TerminateJob(j)>>, 0)
    BY <2>3, <2>4, QuietSeqs DEF Marks
  <2>6. work' = <<g, TerminateJob(j)>>
    BY <1>4, <2>2 DEF CloseHandle, g
  <2>7. Kept
    BY <1>2, <1>4 DEF CloseHandle, Kept
  <2> QED BY <1>1, <2>5, <2>6, <2>7, ReadyIs, QuietCall
<1> QED BY <1>3, <1>4

\* A process begins, tells that it has, or its host process dies.
LEMMA FlagSteps ==
  ASSUME LInv, Ready, NEW p \in Procs, InitFirstThread(p) \/ InitProcessDone(p) \/ HostDies(p)
  PROVE  LInv'
<1>1. LifeTyped /\ NoKills(work)
  BY ReadyIs
<1>2. proc \in [Procs -> ProcRec] /\ proc[p] \in ProcRec
  BY <1>1 DEF LifeTyped
<1>3. \A q \in Procs : LifeOK(proc[q]) /\ (q \in Dying(work) => DyingOK(proc[q]))
  BY DEF LInv
<1>4. Shaped /\ UNCHANGED counters /\ work' = work
  BY <1>1 DEF Shaped, LifeTyped, InitFirstThread, InitProcessDone, HostDies
<1>5. \/ proc' = [proc EXCEPT ![p].pid = TRUE] \/ proc' = [proc EXCEPT ![p].info = FALSE]
      \/ proc' = [proc EXCEPT ![p].alive = FALSE]
  BY DEF InitFirstThread, InitProcessDone, HostDies
<1>6. proc' \in [Procs -> ProcRec]
  <2>1. /\ [proc[p] EXCEPT !.pid = TRUE] \in ProcRec /\ [proc[p] EXCEPT !.info = FALSE] \in ProcRec
        /\ [proc[p] EXCEPT !.alive = FALSE] \in ProcRec
    BY <1>2 DEF ProcRec
  <2> QED BY <1>2, <1>5, <2>1
<1>7. /\ \A q \in Procs : q # p => proc'[q] = proc[q]
      /\ proc'[p].threads = proc[p].threads /\ proc'[p].timer = proc[p].timer /\ proc'[p].made = proc[p].made
      /\ proc'[p].ended = proc[p].ended /\ proc'[p].is_system = proc[p].is_system
      /\ proc'[p].alive => proc[p].alive
  BY <1>2, <1>5 DEF ProcRec
<1>8. LifeOK(proc'[p]) /\ (p \in Dying(work) => DyingOK(proc'[p]))
  BY <1>3, <1>7 DEF LifeOK, DyingOK
<1>9. SameLives
  BY <1>3, <1>6, <1>7, <1>8 DEF SameLives
<1> QED BY <1>1, <1>4, <1>9, LivesSame

\* The processes and the jobs in the middle of a step; only p has changed, and not its life.
Pairs == [proc : [Procs -> ProcRec], job : [Jobs -> JobRec]]
Moved(before, after, p) ==
  /\ after \in [Procs -> ProcRec] /\ \A q \in Procs : q # p => after[q] = before[q]
  /\ after[p].threads = before[p].threads /\ after[p].timer = before[p].timer
  /\ after[p].made = before[p].made /\ after[p].ended = before[p].ended
  /\ after[p].alive = before[p].alive /\ after[p].is_system = before[p].is_system

\* add_job_process changes nothing of a process but its job.
LEMMA AddJobProcessIs ==
  ASSUME NEW s \in Pairs, NEW j \in Jobs, NEW p \in Procs
  PROVE  AddJobProcess(s, j, p) \in Pairs /\ Moved(s.proc, AddJobProcess(s, j, p).proc, p)
<1>1. s.proc \in [Procs -> ProcRec] /\ s.job \in [Jobs -> JobRec] /\ s.proc[p] \in ProcRec
  BY DEF Pairs
<1>2. CASE Denied(s, j, p) \/ s.proc[p].job = j
  BY <1>1, <1>2 DEF AddJobProcess, Moved
<1>3. CASE ~(Denied(s, j, p) \/ s.proc[p].job = j)
  <2> DEFINE common == s.proc[p].job
             nest == common # NoJob /\ s.job[j].parent = NoJob
             linked == [k \in Jobs |->
               CASE k = j -> [s.job[j] EXCEPT !.parent = IF nest THEN common ELSE @,
                                            !.list = Append(@, p)]
                 [] k = common -> [s.job[k] EXCEPT !.list = Without(@, p),
                                                   !.children = IF nest THEN Append(@, j) ELSE @]
                 [] OTHER -> s.job[k]]
             counted == [k \in Jobs |-> IF k \in Counted(linked, j, common)
                                        THEN [linked[k] EXCEPT !.num = @ + 1, !.used = TRUE]
                                        ELSE linked[k]]
  <2>1. AddJobProcess(s, j, p) = [proc |-> [s.proc EXCEPT ![p].job = j], job |-> counted]
    BY <1>3 DEF AddJobProcess
  <2>2. common \in Jobs \cup {NoJob}
    BY <1>1 DEF ProcRec
  <2>3. linked \in [Jobs -> JobRec]
    <3>1. [s.job[j] EXCEPT !.parent = IF nest THEN common ELSE @, !.list = Append(@, p)] \in JobRec
      <4>1. s.job[j] \in JobRec /\ s.job[j].list \in Seq(Procs) /\ s.job[j].parent \in Jobs \cup {NoJob}
        BY <1>1 DEF JobRec
      <4>2. Append(s.job[j].list, p) \in Seq(Procs)
        BY <4>1
      <4>3. (IF nest THEN common ELSE s.job[j].parent) \in Jobs \cup {NoJob}
        BY <2>2, <4>1
      <4> HIDE DEF nest, common
      <4> QED BY <4>1, <4>2, <4>3 DEF JobRec
    <3>2. \A k \in Jobs : [s.job[k] EXCEPT !.list = Without(@, p),
                                           !.children = IF nest THEN Append(@, j) ELSE @] \in JobRec
      <4> SUFFICES ASSUME NEW k \in Jobs
                   PROVE  [s.job[k] EXCEPT !.list = Without(@, p),
                                           !.children = IF nest THEN Append(@, j) ELSE @] \in JobRec
        OBVIOUS
      <4>1. s.job[k] \in JobRec /\ s.job[k].list \in Seq(Procs) /\ s.job[k].children \in Seq(Jobs)
        BY <1>1 DEF JobRec
      <4>2. Without(s.job[k].list, p) \in Seq(Procs)
        BY <4>1, WithoutIs
      <4>3. (IF nest THEN Append(s.job[k].children, j) ELSE s.job[k].children) \in Seq(Jobs)
        BY <4>1
      <4> HIDE DEF nest
      <4> QED BY <4>1, <4>2, <4>3 DEF JobRec
    <3>3. \A k \in Jobs : s.job[k] \in JobRec
      BY <1>1
    <3> QED BY <3>1, <3>2, <3>3
  <2> HIDE DEF linked
  <2>4. counted \in [Jobs -> JobRec]
    <3>1. ASSUME NEW r \in JobRec PROVE [r EXCEPT !.num = @ + 1, !.used = TRUE] \in JobRec
      <4> DEFINE more == r.num + 1
      <4>1. more \in Int
        BY DEF JobRec
      <4> HIDE DEF more
      <4>2. [r EXCEPT !.num = more, !.used = TRUE] \in JobRec
        BY <4>1 DEF JobRec
      <4> QED BY <4>2 DEF more
    <3> QED BY <2>3, <3>1
  <2> HIDE DEF counted
  <2>5. [s.proc EXCEPT ![p].job = j] \in [Procs -> ProcRec]
    <3>1. [s.proc[p] EXCEPT !.job = j] \in ProcRec
      BY <1>1 DEF ProcRec
    <3> QED BY <1>1, <3>1
  <2>6. Moved(s.proc, [s.proc EXCEPT ![p].job = j], p)
    BY <1>1, <2>5 DEF Moved, ProcRec
  <2> QED BY <2>1, <2>4, <2>5, <2>6 DEF Pairs
<1> QED BY <1>2, <1>3

\* A process whose life is as it was.
LEMMA MovedStep ==
  ASSUME LInv, Ready, NEW p \in Procs, Moved(proc, proc', p), Shaped, work' = work, UNCHANGED counters
  PROVE  LInv'
<1>1. \A q \in Procs : LifeOK(proc[q]) /\ (q \in Dying(work) => DyingOK(proc[q]))
  BY DEF LInv
<1>2. LifeOK(proc'[p]) /\ (p \in Dying(work) => DyingOK(proc'[p]))
  BY <1>1 DEF Moved, LifeOK, DyingOK
<1>3. SameLives
  BY <1>1, <1>2 DEF SameLives, Moved
<1> QED BY <1>3, ReadyIs, LivesSame

\* A process is moved into a job.
LEMMA AssignJobStep ==
  ASSUME LInv, Ready, NEW c \in Procs, NEW p \in Procs, NEW j \in Jobs, AssignJob(c, j, p)
  PROVE  LInv'
<1> DEFINE s == [proc |-> proc, job |-> job]
           r == AddJobProcess(s, j, p)
<1>1. LifeTyped
  BY ReadyIs
<1>2. s \in Pairs /\ s.proc = proc
  BY <1>1 DEF Pairs, LifeTyped
<1>3. r \in Pairs /\ Moved(proc, r.proc, p)
  BY <1>2, AddJobProcessIs
<1>4. proc' = r.proc /\ job' = r.job /\ handles' = handles /\ work' = work /\ UNCHANGED counters
  BY DEF AssignJob
<1>5. Shaped
  BY <1>1, <1>3, <1>4 DEF Shaped, Pairs, LifeTyped
<1> QED BY <1>3, <1>4, <1>5, MovedStep

\* A process is made, and put into jobs.
LEMMA NewProcessStep ==
  ASSUME LInv, Ready, NEW c \in Procs, NEW p \in Procs, NEW wanted \in Jobs \cup {NoJob},
         NEW inherit \in BOOLEAN, NEW breakaway \in BOOLEAN, NewProcess(c, p, wanted, inherit, breakaway)
  PROVE  LInv'
<1> DEFINE first == [proc |-> [proc EXCEPT ![p] = Fresh], job |-> job]
           parents == Inherited(job, c, breakaway)
           placed == IF parents = {} THEN first ELSE AddJobProcess(first, CHOOSE k \in parents : TRUE, p)
           failed == wanted # NoJob /\ Denied(placed, wanted, p)
           added == IF wanted = NoJob THEN placed ELSE AddJobProcess(placed, wanted, p)
           s == IF failed THEN Failed(added, p) ELSE added
<1>1. LifeTyped /\ ~proc[p].made /\ NoKills(work)
  BY ReadyIs DEF NewProcess
<1>2. proc \in [Procs -> ProcRec] /\ job \in [Jobs -> JobRec] /\ handles \in [Procs -> SUBSET Targets]
  BY <1>1 DEF LifeTyped
<1>3. /\ job' = s.job /\ proc' = [s.proc EXCEPT ![p].info = ~failed]
      /\ handles' = [handles EXCEPT ![p] = IF inherit THEN handles[c] ELSE {},
                                    ![c] = @ \cup IF failed THEN {} ELSE {Process(p)}]
      /\ work' = work /\ UNCHANGED counters
  BY ZenonT(60) DEF NewProcess
<1>4. first \in Pairs /\ Moved(first.proc, first.proc, p)
  <2>1. Fresh \in ProcRec
    BY DEF Fresh, NoProcess, ProcRec
  <2> QED BY <1>2, <2>1 DEF Pairs, Moved
<1>5. /\ \A q \in Procs : q # p => first.proc[q] = proc[q]
      /\ first.proc[p].threads = 0 /\ first.proc[p].timer = 0 /\ first.proc[p].made
  BY <1>2 DEF Fresh, NoProcess
<1>6. placed \in Pairs /\ Moved(first.proc, placed.proc, p)
  <2>1. CASE parents = {}
    BY <1>4, <2>1
  <2>2. CASE parents # {}
    <3>1. (CHOOSE k \in parents : TRUE) \in parents
      BY <2>2
    <3>2. parents \subseteq Jobs
      BY DEF Inherited
    <3> HIDE DEF first, parents
    <3> QED BY <1>4, <2>2, <3>1, <3>2, AddJobProcessIs
  <2> QED BY <2>1, <2>2
<1> HIDE DEF first, parents, placed, failed
<1>7. added \in Pairs /\ Moved(first.proc, added.proc, p)
  <2>1. CASE wanted = NoJob
    BY <1>6, <2>1
  <2>2. CASE wanted # NoJob
    <3>1. AddJobProcess(placed, wanted, p) \in Pairs /\ Moved(placed.proc, AddJobProcess(placed, wanted, p).proc, p)
      BY <1>6, <2>2, AddJobProcessIs
    <3> QED BY <1>6, <2>2, <3>1 DEF Moved
  <2> QED BY <2>1, <2>2
<1> HIDE DEF added
<1>8. s \in Pairs /\ s.proc = added.proc
  <2> DEFINE js == [k \in Jobs |-> IF k \in Above(added.job, added.proc[p].job)
                                   THEN [added.job[k] EXCEPT !.num = @ - 1] ELSE added.job[k]]
  <2>1. added.proc \in [Procs -> ProcRec] /\ added.job \in [Jobs -> JobRec]
    BY <1>7 DEF Pairs
  <2>2. \A r \in JobRec : [r EXCEPT !.num = @ - 1] \in JobRec
    BY DEF JobRec
  <2>3. js \in [Jobs -> JobRec]
    BY <2>1, <2>2
  <2>4. Failed(added, p) = [added EXCEPT !.job = js]
    BY DEF Failed
  <2> HIDE DEF js
  <2>5. Failed(added, p) \in Pairs /\ Failed(added, p).proc = added.proc
    BY <1>7, <2>3, <2>4 DEF Pairs
  <2> QED BY <1>7, <2>5
<1> HIDE DEF s
<1>9. failed \in BOOLEAN
  BY DEF failed
<1>10. /\ proc' \in [Procs -> ProcRec]
       /\ \A q \in Procs : q # p => proc'[q] = proc[q]
       /\ proc'[p].threads = 0 /\ proc'[p].timer = 0 /\ proc'[p].made
  <2>1. s.proc \in [Procs -> ProcRec] /\ Moved(first.proc, s.proc, p)
    BY <1>7, <1>8 DEF Pairs
  <2>2. [s.proc[p] EXCEPT !.info = ~failed] \in ProcRec
    BY <1>9, <2>1 DEF ProcRec
  <2> QED BY <1>3, <1>5, <2>1, <2>2 DEF Moved, ProcRec
<1>11. LifeOK(proc[p]) /\ p \notin Dying(work) /\ proc[p].threads = 0 /\ proc[p].timer = 0
  BY <1>1, <1>2 DEF LInv, LifeOK, DyingOK, ProcRec
<1>12. SameLives
  <2>1. \A q \in Procs : LifeOK(proc[q]) /\ (q \in Dying(work) => DyingOK(proc[q]))
    BY DEF LInv
  <2>2. LifeOK(proc'[p]) /\ p \notin There(proc, work)
    BY <1>10, <1>11 DEF LifeOK, There
  <2> QED BY <1>10, <1>11, <2>1, <2>2 DEF SameLives
<1>13. Shaped
  <2>1. job' \in [Jobs -> JobRec]
    BY <1>3, <1>8 DEF Pairs
  <2>2. Process(p) \in Targets
    BY DEF Targets
  <2>3. handles' \in [Procs -> SUBSET Targets]
    BY <1>2, <1>3, <2>2
  <2> QED BY <2>1, <2>3 DEF Shaped
<1> QED BY <1>1, <1>3, <1>12, <1>13, LivesSame

\* The shutdown goes on.
LEMMA ShutdownTimeoutStep ==
  ASSUME LInv, ShutdownTimeout
  PROVE  LInv'
<1>1. Ready /\ LifeTyped /\ NoKills(work) /\ work = <<>>
  BY ReadyIs DEF ShutdownTimeout
<1>2. /\ shutdown_timeout' = (shutdown_stage = 0) /\ shutdown_stage' = shutdown_stage + 1
      /\ work' = <<>> \/ work' = <<Frame("killAll", <<"server">>)>>
      /\ proc' = proc /\ job' = job /\ handles' = handles
      /\ running_processes' = running_processes /\ user_processes' = user_processes
  BY DEF ShutdownTimeout
<1>3. PICK s \in Seq(FrameSet) : work' = s /\ Quiet(s, 0)
  <2>1. Frame("killAll", <<"server">>) \in FrameSet /\ Frame("killAll", <<"server">>).op \notin Marks
    BY FramesTyped DEF Marks
  <2> QED BY <1>2, <2>1, QuietSeqs
<1>4. /\ Len(work) \in 0 .. Len(work) /\ Quiet(work, Len(work))
      /\ work' = SubSeq(work, 1, Len(work)) \o s
  <2>1. s = Call(s)
    BY <1>1, ReadyIs
  <2> QED BY <1>1, <1>3, <2>1, Called, Zenon
<1>5. /\ proc' \in [Procs -> ProcRec] /\ job' \in [Jobs -> JobRec] /\ handles' \in [Procs -> SUBSET Targets]
      /\ shutdown_stage' \in Nat /\ shutdown_stage' # 0
  BY <1>1, <1>2 DEF LifeTyped
<1>6. shutdown_timeout' \in BOOLEAN
  BY <1>2
<1>7. \A p \in Procs : /\ proc'[p].threads = proc[p].threads /\ proc'[p].timer = proc[p].timer
                       /\ LifeOK(proc'[p]) /\ (p \in Dying(work) => DyingOK(proc'[p]))
                       /\ p \in There(proc, work) => proc'[p].is_system = proc[p].is_system
  BY <1>2 DEF LInv
<1> QED BY <1>1, <1>2, <1>3, <1>4, <1>5, <1>6, <1>7, QuietStep

-----------------------------------------------------------------------------
(* The steps that are about a death.                                       *)

\* One more frame.
LEMMA Pushed ==
  ASSUME NEW w \in Seq(FrameSet), NEW k \in FrameSet
  PROVE  /\ (w \o <<k>>) \in Seq(FrameSet) /\ Len(w \o <<k>>) = Len(w) + 1
         /\ \A i \in 1 .. Len(w) : (w \o <<k>>)[i] = w[i]
         /\ (w \o <<k>>)[Len(w) + 1] = k
  OBVIOUS

\* kill_thread is called when nothing has to be destroyed.
LEMMA KillPushed ==
  ASSUME LInv, Unused = {}, NoKills(work), NEW p \in Procs, proc[p].threads > 0,
         work' = Call(<<Frame("killThread", Process(p))>>), SameLives, UNCHANGED <<job, handles, counters>>,
         \A q \in Procs : /\ proc'[q].made = proc[q].made /\ proc'[q].info = proc[q].info
                          /\ proc'[q].job = proc[q].job
  PROVE  LInv'
<1> DEFINE k == Frame("killThread", Process(p))
<1>1. LifeTyped /\ work \in Seq(FrameSet) /\ KilledOnce(work) /\ CountsOK /\ Len(work) \in Nat
  BY DEF LInv, LifeTyped
<1>2. k \in FrameSet /\ k.op = "killThread" /\ k.what = Process(p)
  <2>1. k.what = Process(p)
    BY DEF Frame
  <2> QED BY <2>1, FramesTyped DEF OfProcess
<1> HIDE DEF k
<1>3. <<k>> \in Seq(FrameSet) /\ Len(<<k>>) = 1 /\ <<k>>[1] = k
  BY <1>2
<1>4. work' = work \o <<k>>
  BY DEF Call, k
<1>5. /\ work' \in Seq(FrameSet) /\ Len(work') = Len(work) + 1
      /\ \A i \in 1 .. Len(work) : i \in 1 .. Len(work') /\ work'[i] = work[i]
      /\ work'[Len(work) + 1] = k
      /\ \A i \in 1 .. Len(work') : i \in 1 .. Len(work) \/ i = Len(work')
  <2>1. /\ work' \in Seq(FrameSet) /\ Len(work') = Len(work) + 1
        /\ \A i \in 1 .. Len(work) : work'[i] = work[i]
        /\ work'[Len(work) + 1] = k
    BY ONLY <1>1, <1>2, <1>4, Pushed, Zenon
  <2> QED BY <1>1, <2>1
<1>6. Dying(work') = Dying(work) /\ KilledOnce(work')
  <2>1. \A i \in 1 .. Len(work') : work'[i].op = "killed" => i \in 1 .. Len(work) /\ work'[i] = work[i]
    BY <1>1, <1>2, <1>5
  <2>2. \A i \in 1 .. Len(work) : i \in 1 .. Len(work') /\ work'[i] = work[i]
    BY <1>5
  <2> QED BY ONLY <1>1, <2>1, <2>2 DEF Dying, KilledOnce, IsKilled
<1>7. There(proc', work') = There(proc, work)
  BY <1>6 DEF There, SameLives
<1>8. Users(proc', work') = Users(proc, work)
  BY <1>7 DEF Users, There, SameLives
<1>9. CountsOK'
  BY <1>1, <1>7, <1>8 DEF CountsOK, counters
<1>10. LifeTyped'
  BY <1>1, <1>5 DEF LifeTyped, SameLives, counters
<1>11. \A t : Held(t) => Held(t)'
  BY <1>1, <1>5 DEF Held
<1>12. Unused' = {}
  <2>1. ASSUME NEW q \in Procs, proc[q].made PROVE Used(Process(q))'
    <3>1. Used(Process(q))
      BY <2>1 DEF Unused
    <3>2. Process(q)[1] = "process" /\ Process(q)[2] = q
      BY DEF Process
    <3> QED BY <1>11, <3>1, <3>2 DEF Used, Holders, SameLives
  <2>2. ASSUME NEW j \in Jobs, job[j].made PROVE Used(Job(j))'
    <3>1. Used(Job(j))
      BY <2>2 DEF Unused
    <3>2. Job(j)[1] = "job" /\ Job(j)[2] = j
      BY DEF Job
    <3> QED BY <1>11, <3>1, <3>2 DEF Used, Holders
  <2> QED BY <2>1, <2>2 DEF Unused
<1>13. KillOK'
  <2> SUFFICES ASSUME NEW i \in 1 .. Len(work'), work'[i].op = "killThread"
               PROVE  i = Len(work') /\ \A q \in Procs : work'[i].what = Process(q) => proc'[q].threads > 0
    BY <1>12 DEF KillOK
  <2>1. i = Len(work') /\ work'[i] = k
    BY <1>1, <1>5 DEF NoKills
  <2>2. \A q \in Procs : Process(p) = Process(q) => p = q
    BY DEF Process
  <2> QED BY <1>2, <2>1, <2>2 DEF SameLives
<1> QED BY <1>6, <1>9, <1>10, <1>13 DEF LInv, SameLives

\* A thread ends by itself.
LEMMA ThreadExitsStep ==
  ASSUME LInv, NEW p \in Procs, ThreadExits(p)
  PROVE  LInv'
<1>1. Ready /\ Unused = {} /\ LifeTyped /\ NoKills(work)
  BY ReadyIs DEF ThreadExits, Ready
<1>2. Frame("killThread", Process(p)) \in FrameSet
  BY FramesTyped DEF OfProcess
<1>3. /\ proc[p].threads > 0 /\ work' = <<Frame("killThread", Process(p))>>
      /\ proc' = proc /\ UNCHANGED <<job, handles, counters>>
  BY DEF ThreadExits, Starts
<1>4. work' = Call(<<Frame("killThread", Process(p))>>)
  <2>1. <<Frame("killThread", Process(p))>> \in Seq(FrameSet)
    BY <1>2
  <2> QED BY <1>1, <1>3, <2>1, ReadyIs
<1>5. SameLives
  BY <1>1, <1>3 DEF SameLives, LInv, LifeTyped
<1> QED BY <1>1, <1>3, <1>4, <1>5, KillPushed

\* terminate_process kills one thread after the other.
LEMMA TerminateStep ==
  ASSUME LInv, Unused = {}, work # <<>>, Terminate(Top)
  PROVE  LInv'
<1>1. LifeTyped /\ work \in Seq(FrameSet)
  BY DEF LInv, LifeTyped
<1>2. Top \in FrameSet /\ Top.op = "terminate" /\ Top.op \notin Marks
  BY <1>1, TopIs DEF Terminate, Marks
<1>3. PICK p \in Procs : Top.what = Process(p)
  BY <1>2 DEF FrameSet, FrameOK, OfProcess
<1>4. Top.what[2] = p
  BY <1>3 DEF Process
<1>5. NoKills(work)
  BY <1>2, NoKill DEF Marks
<1>6. /\ proc' = [proc EXCEPT ![p].is_terminating = TRUE] /\ UNCHANGED <<job, handles, counters>>
      /\ \/ proc[p].threads > 0 /\ work' = Call(<<Frame("killThread", Process(p))>>)
         \/ work' = Return
  <2>1. /\ proc' = [proc EXCEPT ![p].is_terminating = TRUE] /\ UNCHANGED <<job, handles, counters>>
        /\ work' = IF proc[p].threads > IF Top.skip THEN 1 ELSE 0
                   THEN Call(<<Frame("killThread", Process(p))>>) ELSE Return
    BY <1>3, <1>4 DEF Terminate
  <2>2. proc[p].threads \in Nat
    BY <1>1 DEF LifeTyped, ProcRec
  <2>3. proc[p].threads > (IF Top.skip THEN 1 ELSE 0) => proc[p].threads > 0
    BY <2>2
  <2> QED BY <2>1, <2>3
<1>7. proc' \in [Procs -> ProcRec] /\ \A q \in Procs :
        /\ proc'[q].made = proc[q].made /\ proc'[q].info = proc[q].info /\ proc'[q].job = proc[q].job
        /\ proc'[q].threads = proc[q].threads /\ proc'[q].timer = proc[q].timer
        /\ proc'[q].ended = proc[q].ended /\ proc'[q].alive = proc[q].alive
        /\ proc'[q].is_system = proc[q].is_system
  BY ZenonT(40), <1>1, <1>6 DEF LifeTyped, ProcRec
<1>8. SameLives
  BY <1>7 DEF SameLives, LInv, LifeOK, DyingOK
<1>9. CASE proc[p].threads > 0 /\ work' = Call(<<Frame("killThread", Process(p))>>)
  BY <1>5, <1>6, <1>7, <1>8, <1>9, KillPushed
<1>10. CASE work' = Return
  <2>1. /\ Len(work) - 1 \in 0 .. Len(work) /\ Quiet(work, Len(work) - 1)
        /\ work' = SubSeq(work, 1, Len(work) - 1) \o <<>>
    BY <1>2, <1>10, Returned, QuietSeqs
  <2>2. /\ job' \in [Jobs -> JobRec] /\ handles' \in [Procs -> SUBSET Targets]
        /\ running_processes' = running_processes /\ user_processes' = user_processes
        /\ shutdown_stage' \in Nat /\ shutdown_timeout' \in BOOLEAN
        /\ shutdown_stage' = shutdown_stage /\ shutdown_timeout' = shutdown_timeout
    BY <1>1, <1>6 DEF LifeTyped, counters
  <2> QED BY <1>5, <1>8, <2>1, <2>2, QuietStep, QuietSeqs DEF SameLives
<1> QED BY <1>6, <1>9, <1>10

\* One more process counts, or one less.
LEMMA CountOne ==
  ASSUME NEW S, IsFiniteSet(S), NEW x
  PROVE  /\ x \in S => Cardinality(S \ {x}) = Cardinality(S) - 1
         /\ x \notin S => Cardinality(S \cup {x}) = Cardinality(S) + 1
         /\ Cardinality(S) \in Nat /\ (x \in S => Cardinality(S) > 0)
<1>1. Cardinality(S) \in Nat /\ Cardinality(S \ {x}) \in Nat
  BY FS_CardinalityType, FS_Subset
<1>2. x \in S => Cardinality(S \ {x}) = Cardinality(S) - 1
  BY FS_RemoveElement
<1>3. x \notin S => Cardinality(S \cup {x}) = Cardinality(S) + 1
  BY FS_AddElement
<1> QED BY <1>1, <1>2, <1>3

\* process_died counts a process out that was counted.
LEMMA CountedOut ==
  ASSUME LifeTyped, CountsOK, NEW p \in There(proc, work), Died(p),
         There(proc', work') = There(proc, work) \ {p},
         \A q \in Procs : proc'[q].is_system = proc[q].is_system
  PROVE  /\ CountsOK' /\ running_processes' \in Int /\ user_processes' \in Int
         /\ shutdown_stage' \in Nat /\ shutdown_timeout' \in BOOLEAN
<1> DEFINE T == There(proc, work)  U == Users(proc, work)
<1>1. IsFiniteSet(T) /\ IsFiniteSet(U) /\ U = {q \in T : ~proc[q].is_system} /\ T \subseteq Procs
  BY ThereIs DEF Users
<1>2. Users(proc', work') = U \ {p}
  BY <1>1 DEF Users
<1>3. Cardinality(T \ {p}) = Cardinality(T) - 1
  BY <1>1, CountOne
<1>4. CASE proc[p].is_system
  <2>1. U \ {p} = U
    BY <1>1, <1>4
  <2>2. running_processes' = running_processes - 1 /\ user_processes' = user_processes
        /\ shutdown_timeout' = shutdown_timeout /\ shutdown_stage' = shutdown_stage
    BY <1>4 DEF Died, LifeTyped
  <2>3. Users(proc', work') = Users(proc, work)
    BY <1>2, <2>1
  <2>4. Cardinality(There(proc', work')) = running_processes - 1
    BY <1>3 DEF CountsOK
  <2>5. CountsOK'
    BY <2>2, <2>3, <2>4 DEF CountsOK
  <2> QED BY <2>2, <2>5 DEF LifeTyped
<1>5. CASE ~proc[p].is_system
  <2>1. p \in U
    BY <1>1, <1>5
  <2>2. Cardinality(U \ {p}) = Cardinality(U) - 1 /\ Cardinality(U) \in Nat /\ Cardinality(U) > 0
    BY <1>1, <2>1, CountOne
  <2>3. /\ running_processes' = running_processes - 1 /\ user_processes' = user_processes - 1
        /\ shutdown_timeout' = (shutdown_timeout \/ (user_processes - 1 = 0 /\ shutdown_stage = 0))
        /\ shutdown_stage' = shutdown_stage
    BY <1>5 DEF Died
  <2> HIDE DEF T, U
  <2>4. running_processes' = Cardinality(T \ {p}) /\ user_processes' = Cardinality(U \ {p})
    BY <1>3, <2>2, <2>3 DEF CountsOK, T, U
  <2>5. shutdown_stage = 0 => ~shutdown_timeout
    BY <2>2 DEF CountsOK, U
  <2>6. shutdown_stage' = 0 => (shutdown_timeout' <=> user_processes' = 0)
    BY <2>3, <2>5
  <2>7. CountsOK'
    BY <1>2, <2>4, <2>6 DEF CountsOK, T, U
  <2>8. running_processes' \in Int /\ user_processes' \in Int /\ shutdown_stage' \in Nat
    BY <2>3 DEF LifeTyped
  <2>9. shutdown_timeout' \in BOOLEAN
    BY <2>3
  <2> QED BY <2>7, <2>8, <2>9
<1> QED BY <1>4, <1>5

\* The first frames.
LEMMA Dropped ==
  ASSUME NEW w \in Seq(FrameSet), NEW n \in 0 .. Len(w)
  PROVE  SubSeq(w, 1, n) \in Seq(FrameSet) /\ Len(SubSeq(w, 1, n)) = n
<1>1. n \in Nat /\ Len(w) \in Nat /\ n <= Len(w)
  OBVIOUS
<1> QED BY <1>1

\* Without the last frame, the dying are those of the other frames.
LEMMA Popped ==
  ASSUME LifeTyped, work # <<>>, work' = Return
  PROVE  /\ work' \in Seq(FrameSet) /\ Len(work') = Len(work) - 1
         /\ \A i \in 1 .. Len(work') : i \in 1 .. Len(work) /\ i # Len(work) /\ work'[i] = work[i]
         /\ \A i \in 1 .. Len(work) : i # Len(work) => i \in 1 .. Len(work') /\ work'[i] = work[i]
<1>1. work \in Seq(FrameSet) /\ Len(work) \in Nat /\ Len(work) > 0 /\ work' = SubSeq(work, 1, Len(work) - 1)
  BY TopIs DEF LifeTyped
<1>2. work' \in Seq(FrameSet) /\ Len(work') = Len(work) - 1
  <2>1. Len(work) - 1 \in 0 .. Len(work)
    BY <1>1
  <2> QED BY ONLY <1>1, <2>1, Dropped, Zenon
<1>3. \A i \in 1 .. Len(work) - 1 : work'[i] = work[i]
  BY ONLY <1>1
<1> QED BY ONLY <1>1, <1>2, <1>3

\* The rest of the death of a process.
LEMMA KilledStep ==
  ASSUME LInv, work # <<>>, Killed(Top)
  PROVE  LInv'
<1>1. LifeTyped /\ work \in Seq(FrameSet) /\ CountsOK /\ KilledOnce(work)
  BY DEF LInv, LifeTyped
<1>2. Top \in FrameSet /\ Top.op = "killed" /\ Top = work[Len(work)] /\ Len(work) \in Nat /\ Len(work) > 0
  BY <1>1, TopIs DEF Killed
<1>3. PICK p \in Procs : Top.what = Process(p)
  BY <1>2 DEF FrameSet, FrameOK, OfProcess
<1>4. Top.what[2] = p
  BY <1>3 DEF Process
<1>5. NoKills(work)
  BY <1>2, NoKill
<1>6. /\ proc' = [proc EXCEPT ![p].info = FALSE, ![p].timer = IF proc[p].pid THEN 1 ELSE 0]
      /\ job' = ReleaseJob(job, p) /\ work' = Return /\ handles' = handles
      /\ IF proc[p].pid THEN UNCHANGED counters ELSE Died(p)
  BY <1>4 DEF Killed
<1>7. IsKilled(work[Len(work)], p) /\ Len(work) \in 1 .. Len(work)
  BY <1>2, <1>3 DEF IsKilled
<1>8. p \in Dying(work) /\ DyingOK(proc[p])
  <2>1. p \in Dying(work)
    BY <1>7 DEF Dying
  <2> QED BY <2>1 DEF LInv
<1>9. /\ work' \in Seq(FrameSet) /\ Len(work') = Len(work) - 1
      /\ \A i \in 1 .. Len(work') : i \in 1 .. Len(work) /\ i # Len(work) /\ work'[i] = work[i]
      /\ \A i \in 1 .. Len(work) : i # Len(work) => i \in 1 .. Len(work') /\ work'[i] = work[i]
  BY <1>1, <1>6, Popped
<1>10. Dying(work') = Dying(work) \ {p}
  <2>1. \A i \in 1 .. Len(work') : ~IsKilled(work'[i], p)
    BY <1>1, <1>7, <1>9 DEF KilledOnce
  <2>2. \A q \in Procs : IsKilled(work[Len(work)], q) => q = p
    BY <1>2, <1>3 DEF IsKilled, Process
  <2> QED BY <1>9, <2>1, <2>2 DEF Dying
<1>11. KilledOnce(work') /\ NoKills(work')
  BY <1>1, <1>5, <1>9 DEF KilledOnce, NoKills
<1>12. proc' \in [Procs -> ProcRec]
  <2>1. proc \in [Procs -> ProcRec]
    BY <1>1 DEF LifeTyped
  <2> DEFINE t == IF proc[p].pid THEN 1 ELSE 0
  <2>2. t \in Nat
    OBVIOUS
  <2> HIDE DEF t
  <2>3. [proc[p] EXCEPT !.info = FALSE, !.timer = t] \in ProcRec
    BY <2>1, <2>2 DEF ProcRec
  <2>4. proc' = [proc EXCEPT ![p] = [proc[p] EXCEPT !.info = FALSE, !.timer = t]]
    BY <1>6, <2>1 DEF t
  <2> QED BY <2>1, <2>3, <2>4
<1>13. /\ \A q \in Procs : q # p => proc'[q] = proc[q]
       /\ proc'[p].threads = proc[p].threads /\ proc'[p].timer = (IF proc[p].pid THEN 1 ELSE 0)
       /\ proc'[p].made = proc[p].made /\ proc'[p].ended = proc[p].ended /\ proc'[p].alive = proc[p].alive
       /\ proc'[p].is_system = proc[p].is_system
  BY <1>1, <1>6 DEF LifeTyped, ProcRec
<1>14. \A q \in Procs : LifeOK(proc'[q]) /\ (q \in Dying(work') => DyingOK(proc'[q]))
  <2>1. LifeOK(proc'[p])
    BY <1>8, <1>13 DEF DyingOK, LifeOK
  <2> QED BY <1>10, <1>13, <2>1 DEF LInv
<1>15. job' \in [Jobs -> JobRec]
  <2>1. job \in [Jobs -> JobRec]
    BY <1>1 DEF LifeTyped
  <2>2. \A r \in JobRec : [r EXCEPT !.num = @ - 1] \in JobRec
    BY DEF JobRec
  <2> QED BY <1>6, <2>1, <2>2 DEF ReleaseJob
<1>16. KillOK'
  BY <1>11 DEF KillOK, NoKills
<1>17. p \in There(proc, work)
  BY <1>8 DEF There
<1>18. \A q \in Procs : proc'[q].is_system = proc[q].is_system
  BY <1>13
<1>19. /\ CountsOK' /\ running_processes' \in Int /\ user_processes' \in Int
       /\ shutdown_stage' \in Nat /\ shutdown_timeout' \in BOOLEAN
  <2>1. CASE proc[p].pid
    <3>1. There(proc', work') = There(proc, work)
      BY <1>10, <1>13, <1>17, <2>1 DEF There
    <3>2. Users(proc', work') = Users(proc, work)
      BY <1>18, <3>1 DEF Users, There
    <3> QED BY <1>1, <1>6, <2>1, <3>1, <3>2 DEF CountsOK, counters, LifeTyped
  <2>2. CASE ~proc[p].pid
    <3>1. There(proc', work') = There(proc, work) \ {p}
      BY <1>8, <1>10, <1>13, <2>2 DEF There, DyingOK
    <3> QED BY <1>1, <1>6, <1>17, <1>18, <2>2, <3>1, CountedOut
  <2> QED BY <2>1, <2>2
<1>20. LifeTyped'
  BY <1>1, <1>6, <1>9, <1>12, <1>15, <1>19 DEF LifeTyped
<1> QED BY <1>11, <1>14, <1>16, <1>19, <1>20 DEF LInv

\* Of a process, only what its life is: another field may change with it.
LEMMA OneProcess ==
  ASSUME LifeTyped, NEW p \in Procs, NEW r \in ProcRec, proc' = [proc EXCEPT ![p] = r]
  PROVE  /\ proc' \in [Procs -> ProcRec] /\ proc'[p] = r
         /\ \A q \in Procs : q # p => proc'[q] = proc[q]
BY DEF LifeTyped

\* A thread is killed, and with the last one its process.
LEMMA KillThreadStep ==
  ASSUME LInv, work # <<>>, KillThread(Top)
  PROVE  LInv'
<1>1. LifeTyped /\ work \in Seq(FrameSet) /\ CountsOK /\ KilledOnce(work)
  BY DEF LInv, LifeTyped
<1>2. Top \in FrameSet /\ Top.op = "killThread" /\ Top = work[Len(work)] /\ Len(work) \in Nat /\ Len(work) > 0
  BY <1>1, TopIs DEF KillThread
<1>3. PICK p \in Procs : Top.what = Process(p)
  BY <1>2 DEF FrameSet, FrameOK, OfProcess
<1>4. Top.what[2] = p
  BY <1>3 DEF Process
<1> DEFINE last == proc[p].threads = 1
           r == [proc[p] EXCEPT !.threads = @ - 1, !.ended = @ \/ last]
<1>5. proc[p] \in ProcRec /\ proc[p].threads \in Nat /\ proc[p].threads > 0 /\ LifeOK(proc[p])
  BY <1>1, <1>2, <1>3 DEF LInv, LifeTyped, ProcRec, KillOK
<1>6. proc' = [proc EXCEPT ![p].threads = @ - 1, ![p].ended = @ \/ last]
  BY <1>4 DEF KillThread
<1>7. r \in ProcRec /\ r.threads = proc[p].threads - 1 /\ (r.ended <=> proc[p].ended \/ last)
      /\ r.made = proc[p].made /\ r.timer = proc[p].timer /\ r.alive = proc[p].alive
      /\ r.is_system = proc[p].is_system
  <2> DEFINE n == proc[p].threads - 1  b == proc[p].ended \/ last
  <2>1. n \in Nat /\ b \in BOOLEAN
    BY <1>5
  <2> HIDE DEF n, b, last
  <2>2. /\ [proc[p] EXCEPT !.threads = n, !.ended = b] \in ProcRec
        /\ [proc[p] EXCEPT !.threads = n, !.ended = b].threads = n
        /\ [proc[p] EXCEPT !.threads = n, !.ended = b].ended = b
        /\ [proc[p] EXCEPT !.threads = n, !.ended = b].made = proc[p].made
        /\ [proc[p] EXCEPT !.threads = n, !.ended = b].timer = proc[p].timer
        /\ [proc[p] EXCEPT !.threads = n, !.ended = b].alive = proc[p].alive
        /\ [proc[p] EXCEPT !.threads = n, !.ended = b].is_system = proc[p].is_system
    BY <1>5, <2>1 DEF ProcRec
  <2> QED BY <2>2 DEF n, b
<1>8. proc' = [proc EXCEPT ![p] = r]
  BY <1>1, <1>6 DEF LifeTyped
<1> HIDE DEF r
<1>9. proc' \in [Procs -> ProcRec] /\ proc'[p] = r /\ \A q \in Procs : q # p => proc'[q] = proc[q]
  BY <1>1, <1>7, <1>8, OneProcess
<1>10. \A q \in Procs : proc'[q].is_system = proc[q].is_system
  BY <1>7, <1>9
<1>11. p \in There(proc, work) /\ p \notin Dying(work)
  BY <1>5 DEF There, LInv, DyingOK
<1>12. UNCHANGED <<job, handles, counters>>
  BY DEF KillThread
<1>13. \A i \in 1 .. Len(work) : i # Len(work) => work[i].op # "killThread"
  BY DEF LInv, KillOK
<1> DEFINE Deaths == IF last THEN {p} ELSE {}
<1>14. SUFFICES /\ work' \in Seq(FrameSet) /\ NoKills(work') /\ KilledOnce(work')
                /\ Dying(work') = Dying(work) \cup Deaths
  <2>1. There(proc', work') = There(proc, work)
    BY <1>5, <1>7, <1>9, <1>11, <1>14 DEF There
  <2>2. Users(proc', work') = Users(proc, work)
    BY <1>10, <2>1 DEF Users, There
  <2>3. CountsOK'
    BY <1>1, <1>12, <2>1, <2>2 DEF CountsOK, counters
  <2>4. LifeTyped'
    BY <1>1, <1>9, <1>12, <1>14 DEF LifeTyped, counters
  <2>5. LifeOK(proc'[p]) /\ (p \in Dying(work') => DyingOK(proc'[p]))
    BY <1>5, <1>7, <1>9, <1>11, <1>14 DEF LifeOK, DyingOK
  <2>6. \A q \in Procs : q # p => LifeOK(proc'[q]) /\ (q \in Dying(work') => DyingOK(proc'[q]))
    BY <1>9, <1>14 DEF LInv
  <2> QED BY <1>14, <2>3, <2>4, <2>5, <2>6 DEF LInv, KillOK, NoKills
<1>15. CASE ~last
  <2>1. work' = Return
    BY <1>4, <1>15 DEF KillThread
  <2>2. /\ work' \in Seq(FrameSet) /\ Len(work') = Len(work) - 1
        /\ \A i \in 1 .. Len(work') : i \in 1 .. Len(work) /\ i # Len(work) /\ work'[i] = work[i]
        /\ \A i \in 1 .. Len(work) : i # Len(work) => i \in 1 .. Len(work') /\ work'[i] = work[i]
    BY <1>1, <2>1, Popped
  <2>3. \A q \in Procs : ~IsKilled(work[Len(work)], q)
    BY <1>2 DEF IsKilled
  <2>4. Dying(work') = Dying(work)
    BY <2>2, <2>3 DEF Dying
  <2> QED BY <1>1, <1>13, <1>15, <2>2, <2>4 DEF NoKills, KilledOnce
<1>16. CASE last
  <2> DEFINE s == <<Frame("killed", Process(p)), Frame("close", Process(p))>>
             m == Len(work) - 1
  <2>1. work' = Return \o s
    BY <1>3, <1>4, <1>16 DEF KillThread
  <2>2. /\ Frame("killed", Process(p)) \in FrameSet /\ Frame("killed", Process(p)).op = "killed"
        /\ Frame("close", Process(p)) \in FrameSet /\ Frame("close", Process(p)).op = "close"
        /\ Frame("killed", Process(p)).what = Process(p)
    <3>1. Frame("killed", Process(p)).what = Process(p)
      BY DEF Frame
    <3> QED BY <3>1, FramesTyped DEF OfProcess
  <2>3. /\ s \in Seq(FrameSet) /\ Len(s) = 2 /\ s[1].op = "killed" /\ s[1].what = Process(p) /\ s[2].op = "close"
    BY <2>2
  <2> HIDE DEF s
  <2>4. m \in 0 .. Len(work) /\ work' = SubSeq(work, 1, m) \o s
    BY <1>1, <2>1, TopIs
  <2>5. /\ work' \in Seq(FrameSet) /\ Len(work') = m + 2
        /\ \A i \in 1 .. m : work'[i] = work[i]
        /\ \A i \in 1 .. 2 : work'[m + i] = s[i] /\ m + i \in 1 .. Len(work')
        /\ \A i \in 1 .. Len(work') : i \notin 1 .. m => i - m \in 1 .. 2 /\ work'[i] = s[i - m]
    <3> HIDE DEF m
    <3>1. /\ work' \in Seq(FrameSet) /\ Len(work') = m + Len(s)
          /\ \A i \in 1 .. m : work'[i] = work[i]
          /\ \A i \in 1 .. Len(s) : work'[m + i] = s[i] /\ m + i \in 1 .. Len(work')
          /\ \A i \in 1 .. Len(work') : i \notin 1 .. m => i - m \in 1 .. Len(s) /\ work'[i] = s[i - m]
      <4>1. IsRestacked(work, m, s, work')
        BY ONLY <1>1, <2>3, <2>4, Restacked, Zenon
      <4> QED BY ONLY <4>1 DEF IsRestacked
    <3> QED BY <2>3, <3>1
  <2>6. \A i \in 1 .. m : i \in 1 .. Len(work) /\ i # Len(work) /\ i \in 1 .. Len(work')
    BY <1>2, <2>5
  <2>7. m + 1 \in 1 .. Len(work') /\ IsKilled(work'[m + 1], p)
    <3>1. 1 \in 1 .. 2
      OBVIOUS
    <3> QED BY <2>3, <2>5, <3>1 DEF IsKilled
  <2>8. \A i \in 1 .. Len(work') : i \in 1 .. m \/ i = m + 1 \/ (i = m + 2 /\ work'[i].op = "close")
    <3>1. \A i \in 1 .. Len(work') : i \in 1 .. m \/ i = m + 1 \/ i = m + 2
      BY <1>2, <2>5
    <3>2. work'[m + 2] = s[2]
      BY <2>5
    <3> QED BY <2>3, <3>1, <3>2
  <2>9. \A q \in Procs : IsKilled(work'[m + 1], q) => q = p
    BY <2>7 DEF IsKilled, Process
  <2>10. \A q \in Procs, i \in 1 .. Len(work') : IsKilled(work'[i], q) =>
           (i \in 1 .. m /\ IsKilled(work[i], q)) \/ (i = m + 1 /\ q = p)
    BY <2>5, <2>8, <2>9 DEF IsKilled
  <2>11. \A q \in Procs, i \in 1 .. Len(work) : IsKilled(work[i], q) => i \in 1 .. m /\ IsKilled(work'[i], q)
    BY <1>2, <2>5 DEF IsKilled
  <2>12. Dying(work') = Dying(work) \cup {p}
    BY <2>6, <2>7, <2>10, <2>11 DEF Dying
  <2>13. KilledOnce(work')
    <3>1. \A i \in 1 .. Len(work) : ~IsKilled(work[i], p)
      BY <1>11 DEF Dying
    <3> QED BY <1>1, <2>6, <2>10, <3>1 DEF KilledOnce
  <2>14. NoKills(work')
    <3>1. work'[m + 1].op # "killThread"
      BY <2>7 DEF IsKilled
    <3> QED BY <1>13, <2>5, <2>6, <2>8, <3>1 DEF NoKills
  <2> QED BY <1>16, <2>5, <2>12, <2>13, <2>14
<1> QED BY <1>15, <1>16

\* A step of an idle server that leaves the stack empty, and changes one process.
LEMMA IdleStep ==
  ASSUME LInv, Ready, NEW p \in Procs, NEW r \in ProcRec, LifeOK(r), proc' = [proc EXCEPT ![p] = r],
         work' = work, UNCHANGED <<job, handles>>, CountsOK', running_processes' \in Int,
         user_processes' \in Int, shutdown_stage' \in Nat, shutdown_timeout' \in BOOLEAN
  PROVE  LInv'
<1>1. LifeTyped /\ NoKills(work) /\ Dying(work) = {}
  BY ReadyIs DEF Dying
<1>2. proc' \in [Procs -> ProcRec] /\ proc'[p] = r /\ \A q \in Procs : q # p => proc'[q] = proc[q]
  BY <1>1, OneProcess
<1>3. KilledOnce(work') /\ Dying(work') = {} /\ NoKills(work')
  BY <1>1 DEF LInv
<1>4. LifeTyped'
  BY <1>1, <1>2 DEF LifeTyped
<1>5. \A q \in Procs : LifeOK(proc'[q]) /\ (q \in Dying(work') => DyingOK(proc'[q]))
  BY <1>2, <1>3 DEF LInv
<1> QED BY <1>3, <1>4, <1>5 DEF LInv, KillOK, NoKills

\* The host's process is looked for, and killed in the end.
LEMMA SigkillStep ==
  ASSUME LInv, NEW p \in Procs, Sigkill(p)
  PROVE  LInv'
<1>1. Ready /\ proc[p].timer > 0
  BY DEF Sigkill
<1>2. LifeTyped /\ CountsOK /\ Dying(work) = {}
  BY <1>1, ReadyIs DEF Dying, LInv
<1>3. proc[p] \in ProcRec /\ proc \in [Procs -> ProcRec] /\ LifeOK(proc[p]) /\ proc[p].timer \in Nat
  BY <1>2 DEF LInv, LifeTyped, ProcRec
<1>4. work' = work /\ UNCHANGED <<job, handles>>
  BY DEF Sigkill
<1>5. Dying(work') = {}
  BY <1>2, <1>4
<1>6. CASE proc[p].alive /\ proc[p].timer < Attempts
  <2> DEFINE r == [proc[p] EXCEPT !.timer = @ + 1]
  <2>1. r \in ProcRec /\ r.timer > 0 /\ r.threads = proc[p].threads /\ r.is_system = proc[p].is_system /\ LifeOK(r)
    BY <1>1, <1>3 DEF ProcRec, LifeOK
  <2>2. proc' = [proc EXCEPT ![p] = r] /\ UNCHANGED counters
    BY <1>3, <1>6 DEF Sigkill
  <2> HIDE DEF r
  <2>3. proc'[p] = r /\ \A q \in Procs : q # p => proc'[q] = proc[q]
    BY <1>2, <2>1, <2>2, OneProcess
  <2>4. There(proc', work') = There(proc, work)
    BY <1>1, <1>2, <1>5, <2>1, <2>3 DEF There
  <2>5. Users(proc', work') = Users(proc, work)
    BY <2>1, <2>3, <2>4 DEF Users, There
  <2>6. /\ CountsOK' /\ running_processes' \in Int /\ user_processes' \in Int
        /\ shutdown_stage' \in Nat /\ shutdown_timeout' \in BOOLEAN
    BY <1>2, <2>2, <2>4, <2>5 DEF CountsOK, counters, LifeTyped
  <2> QED BY <1>1, <1>4, <2>1, <2>2, <2>6, IdleStep
<1>7. CASE ~(proc[p].alive /\ proc[p].timer < Attempts)
  <2> DEFINE r == [proc[p] EXCEPT !.timer = 0, !.alive = FALSE]
  <2>1. r \in ProcRec /\ r.timer = 0 /\ r.threads = proc[p].threads /\ r.is_system = proc[p].is_system
    BY <1>3 DEF ProcRec
  <2>2. LifeOK(r)
    BY <1>3 DEF LifeOK, ProcRec
  <2>3. proc' = [proc EXCEPT ![p] = r] /\ Died(p)
    BY <1>3, <1>7 DEF Sigkill
  <2> HIDE DEF r
  <2>4. proc'[p] = r /\ \A q \in Procs : q # p => proc'[q] = proc[q]
    BY <1>2, <2>1, <2>3, OneProcess
  <2>5. p \in There(proc, work) /\ There(proc', work') = There(proc, work) \ {p}
    BY <1>1, <1>2, <1>3, <1>5, <2>1, <2>4 DEF There, LifeOK
  <2>6. \A q \in Procs : proc'[q].is_system = proc[q].is_system
    BY <2>1, <2>4
  <2>7. /\ CountsOK' /\ running_processes' \in Int /\ user_processes' \in Int
        /\ shutdown_stage' \in Nat /\ shutdown_timeout' \in BOOLEAN
    BY <1>2, <2>3, <2>5, <2>6, CountedOut
  <2> QED BY <1>1, <1>4, <2>1, <2>2, <2>3, <2>7, IdleStep
<1> QED BY <1>6, <1>7

\* A process with its first thread is counted.
LEMMA NewThreadStep ==
  ASSUME LInv, ~LateThreads, NEW c \in Procs, NEW p \in Procs, NewThread(c, p)
  PROVE  LInv'
<1> DEFINE T == There(proc, work)  U == Users(proc, work)
           r == [proc[p] EXCEPT !.threads = @ + 1]
<1>1. Ready /\ proc[p].alive /\ ~proc[p].ended
  BY DEF NewThread, Runs
<1>2. LifeTyped /\ CountsOK /\ Dying(work) = {}
  BY <1>1, ReadyIs DEF Dying, LInv
<1>3. proc[p] \in ProcRec /\ proc \in [Procs -> ProcRec] /\ LifeOK(proc[p]) /\ proc[p].threads \in Nat
      /\ proc[p].timer = 0
  BY <1>1, <1>2 DEF LInv, LifeTyped, ProcRec, LifeOK
<1>4. /\ work' = work /\ UNCHANGED <<job, handles>>
      /\ proc' = [proc EXCEPT ![p] = r]
  BY <1>3 DEF NewThread
<1>5. r \in ProcRec /\ r.threads > 0 /\ r.is_system = proc[p].is_system /\ LifeOK(r)
  BY <1>1, <1>3 DEF ProcRec, LifeOK
<1> HIDE DEF r
<1>6. proc'[p] = r /\ (\A q \in Procs : q # p => proc'[q] = proc[q]) /\ Dying(work') = {}
  BY <1>2, <1>4, <1>5, OneProcess
<1>7. There(proc', work') = T \cup {p}
  BY <1>2, <1>5, <1>6 DEF There
<1>8. Users(proc', work') = IF proc[p].is_system THEN U ELSE U \cup {p}
  <2>1. Users(proc', work') = {q \in T \cup {p} : ~proc'[q].is_system}
    BY <1>7 DEF Users
  <2>2. U = {q \in T : ~proc[q].is_system} /\ T \subseteq Procs
    BY DEF Users, There
  <2> HIDE DEF T, U
  <2> QED BY <1>5, <1>6, <2>1, <2>2
<1>9. IsFiniteSet(T) /\ IsFiniteSet(U)
  BY ThereIs
<1>10. SUFFICES /\ CountsOK' /\ running_processes' \in Int /\ user_processes' \in Int
                /\ shutdown_stage' \in Nat /\ shutdown_timeout' \in BOOLEAN
  BY <1>1, <1>4, <1>5, <1>10, IdleStep
<1>11. CASE proc[p].threads > 0
  <2>1. p \in T /\ UNCHANGED counters
    BY <1>11 DEF There, NewThread
  <2>2. ~proc[p].is_system => p \in U
    BY <2>1 DEF Users
  <2> HIDE DEF T, U
  <2>3. There(proc', work') = T /\ Users(proc', work') = U
    BY <1>7, <1>8, <2>1, <2>2
  <2> QED BY <1>2, <2>1, <2>3 DEF CountsOK, counters, LifeTyped, T, U
<1>12. CASE ~(proc[p].threads > 0)
  <2>1. p \notin T /\ p \notin U
    BY <1>2, <1>3, <1>12 DEF There, Users
  <2>2. /\ running_processes' = running_processes + 1
        /\ user_processes' = user_processes + (IF proc[p].is_system THEN 0 ELSE 1)
        /\ shutdown_timeout' = (shutdown_timeout /\ (proc[p].is_system \/ user_processes > 0))
        /\ shutdown_stage' = shutdown_stage
    BY <1>12 DEF NewThread
  <2>3. /\ Cardinality(T \cup {p}) = Cardinality(T) + 1 /\ Cardinality(U \cup {p}) = Cardinality(U) + 1
        /\ Cardinality(U) \in Nat
    BY <1>9, <2>1, CountOne
  <2>4. running_processes = Cardinality(T) /\ user_processes = Cardinality(U)
        /\ (shutdown_stage = 0 => (shutdown_timeout <=> user_processes = 0)) /\ shutdown_stage \in Nat
    BY <1>2 DEF CountsOK, LifeTyped
  <2> HIDE DEF T, U
  <2>5. /\ running_processes' = Cardinality(There(proc', work'))
        /\ user_processes' = Cardinality(Users(proc', work'))
    <3>1. running_processes' = Cardinality(There(proc', work'))
      BY <1>7, <2>2, <2>3, <2>4
    <3>2. user_processes' = Cardinality(Users(proc', work'))
      BY <1>8, <2>2, <2>3, <2>4
    <3> QED BY <3>1, <3>2
  <2>6. shutdown_stage' = 0 => (shutdown_timeout' <=> user_processes' = 0)
    <3>1. CASE proc[p].is_system
      <4>1. shutdown_timeout' <=> shutdown_timeout
        BY <2>2, <3>1, Zenon
      <4>2. user_processes' = user_processes
        BY <2>2, <2>3, <2>4, <3>1
      <4> QED BY <2>2, <2>4, <4>1, <4>2, Zenon
    <3>2. CASE ~proc[p].is_system
      <4>1. user_processes' = user_processes + 1 /\ user_processes \in Nat
        BY <2>2, <2>3, <2>4, <3>2
      <4>2. user_processes > 0 => user_processes # 0
        BY <4>1
      <4>3. shutdown_timeout' => shutdown_timeout /\ user_processes > 0
        BY <2>2, <3>2, Zenon
      <4>4. user_processes' # 0
        BY <4>1
      <4> QED BY <2>2, <2>4, <4>2, <4>3, <4>4, Zenon
    <3> QED BY <3>1, <3>2
  <2>7. running_processes' \in Int /\ user_processes' \in Int /\ shutdown_stage' \in Nat
    BY <2>2, <2>3, <2>4, <1>9, CountOne
  <2>8. shutdown_timeout' \in BOOLEAN
    BY <2>2
  <2> QED BY <2>5, <2>6, <2>7, <2>8 DEF CountsOK
<1> QED BY <1>11, <1>12

\* A process becomes a system process.
LEMMA MakeSystemStep ==
  ASSUME LInv, NEW c \in Procs, MakeSystem(c)
  PROVE  LInv'
<1> DEFINE U == Users(proc, work)
           r == [proc[c] EXCEPT !.is_system = TRUE]
<1>1. Ready /\ proc[c].threads > 0 /\ ~proc[c].is_system
  BY DEF MakeSystem, Runs, Live
<1>2. LifeTyped /\ CountsOK /\ Dying(work) = {}
  BY <1>1, ReadyIs DEF Dying, LInv
<1>3. proc[c] \in ProcRec /\ proc \in [Procs -> ProcRec] /\ LifeOK(proc[c])
  BY <1>1, <1>2 DEF LInv, LifeTyped
<1>4. /\ work' = work /\ UNCHANGED <<job, handles>> /\ proc' = [proc EXCEPT ![c] = r]
      /\ running_processes' = running_processes /\ user_processes' = user_processes - 1
      /\ shutdown_timeout' = (shutdown_timeout \/ (user_processes = 1 /\ shutdown_stage = 0))
      /\ shutdown_stage' = shutdown_stage
  BY <1>3 DEF MakeSystem
<1>5. r \in ProcRec /\ r.threads = proc[c].threads /\ r.timer = proc[c].timer /\ r.is_system /\ LifeOK(r)
  BY <1>3 DEF ProcRec, LifeOK
<1> HIDE DEF r
<1>6. proc'[c] = r /\ (\A q \in Procs : q # c => proc'[q] = proc[q]) /\ Dying(work') = {}
  BY <1>2, <1>4, <1>5, OneProcess
<1>7. There(proc', work') = There(proc, work)
  BY <1>2, <1>5, <1>6 DEF There
<1>8. Users(proc', work') = U \ {c} /\ c \in U
  BY <1>1, <1>5, <1>6, <1>7 DEF Users, There
<1>9. Cardinality(U \ {c}) = Cardinality(U) - 1 /\ Cardinality(U) \in Nat /\ Cardinality(U) > 0
  BY <1>8, ThereIs, CountOne
<1>10. running_processes = Cardinality(There(proc, work)) /\ user_processes = Cardinality(U)
       /\ (shutdown_stage = 0 => (shutdown_timeout <=> user_processes = 0)) /\ shutdown_stage \in Nat
       /\ running_processes \in Int
  BY <1>2 DEF CountsOK, LifeTyped
<1> HIDE DEF U
<1>11. shutdown_stage' = 0 => (shutdown_timeout' <=> user_processes' = 0)
  <2>1. user_processes # 0 /\ (user_processes = 1 <=> user_processes' = 0)
    BY <1>4, <1>9, <1>10
  <2>2. shutdown_timeout' <=> shutdown_timeout \/ (user_processes = 1 /\ shutdown_stage = 0)
    BY <1>4, Zenon
  <2> QED BY <1>4, <1>10, <2>1, <2>2, Zenon
<1>12. running_processes' \in Int /\ user_processes' \in Int /\ shutdown_stage' \in Nat
  BY <1>4, <1>9, <1>10
<1>13. shutdown_timeout' \in BOOLEAN
  BY <1>4
<1>14. CountsOK'
  BY <1>4, <1>7, <1>8, <1>9, <1>10, <1>11 DEF CountsOK
<1> QED BY <1>1, <1>4, <1>5, <1>12, <1>13, <1>14, IdleStep

-----------------------------------------------------------------------------

\* The server starts with one process, which counts.
LEMMA InitLInv == Init => LInv
<1> SUFFICES ASSUME Init PROVE LInv
  OBVIOUS
<1>1. NoProcess \in ProcRec /\ Fresh \in ProcRec /\ [Fresh EXCEPT !.threads = 1] \in ProcRec
  BY DEF NoProcess, Fresh, ProcRec
<1>2. /\ proc = [p \in Procs |-> IF p = First THEN [Fresh EXCEPT !.threads = 1] ELSE NoProcess]
      /\ job = [j \in Jobs |-> UnusedJob] /\ handles = [p \in Procs |-> {}] /\ work = <<>>
      /\ running_processes = 1 /\ user_processes = 1 /\ shutdown_stage = 0 /\ shutdown_timeout = FALSE
  BY DEF Init
<1>3. UnusedJob \in JobRec
  BY DEF UnusedJob, JobRec
<1>4. LifeTyped
  <2>1. proc \in [Procs -> ProcRec]
    BY <1>1, <1>2
  <2>2. job \in [Jobs -> JobRec]
    BY <1>2, <1>3
  <2>3. handles \in [Procs -> SUBSET Targets] /\ work \in Seq(FrameSet)
    BY <1>2
  <2>4. shutdown_timeout \in BOOLEAN
    BY <1>2
  <2> QED BY <1>2, <2>1, <2>2, <2>3, <2>4 DEF LifeTyped
<1>5. First \in Procs
  BY LifeAssumption
<1>6. /\ \A p \in Procs : p # First => proc[p].threads = 0 /\ proc[p].timer = 0 /\ ~proc[p].alive
      /\ proc[First].threads = 1 /\ proc[First].timer = 0 /\ proc[First].made /\ ~proc[First].ended
      /\ ~proc[First].is_system
  BY <1>2, <1>5 DEF NoProcess, Fresh
<1>7. Dying(work) = {} /\ KilledOnce(work) /\ KillOK
  BY <1>2 DEF Dying, KilledOnce, KillOK
<1>8. There(proc, work) = {First} /\ Users(proc, work) = {First}
  <2>1. There(proc, work) = {First}
    BY <1>5, <1>6, <1>7 DEF There
  <2> QED BY <1>6, <2>1 DEF Users
<1>9. Cardinality({First}) = 1
  BY FS_Singleton
<1>10. CountsOK
  <2>1. running_processes = Cardinality({First}) /\ user_processes = Cardinality({First}) /\ user_processes # 0
    BY <1>2, <1>9
  <2>2. ~shutdown_timeout
    BY <1>2
  <2> QED BY <1>8, <2>1, <2>2, Zenon DEF CountsOK
<1>11. \A p \in Procs : LifeOK(proc[p])
  BY <1>6 DEF LifeOK
<1> QED BY <1>4, <1>7, <1>10, <1>11 DEF LInv

\* What the server does by itself preserves the invariant.
LEMMA ServerStep ==
  ASSUME LInv, Server
  PROVE  LInv'
<1>1. CASE Unused # {}
  BY <1>1, DestroyStep DEF Server
<1>2. CASE Unused = {}
  <2>1. work # <<>> /\ Frames(Top)
    BY <1>2 DEF Server
  <2> QED BY <1>2, <2>1, TerminateChildrenStep, TerminateMembersStep, TerminateStep, KillThreadStep,
             CloseHandlesStep, KilledStep, KillAllStep, CloseOneStep DEF Frames
<1> QED BY <1>1, <1>2

\* So does every step, if no thread is made in a process that has ended.
LEMMA NextLInv ==
  ASSUME LInv, ~LateThreads, [Next]_vars
  PROVE  LInv'
<1>1. CASE Server
  BY <1>1, ServerStep
<1>2. CASE \E c, p \in Procs, inherit, breakaway \in BOOLEAN :
             \E wanted \in Jobs \cup {NoJob} : NewProcess(c, p, wanted, inherit, breakaway)
  <2>1. PICK c \in Procs, p \in Procs, inherit \in BOOLEAN, breakaway \in BOOLEAN, wanted \in Jobs \cup {NoJob} :
          NewProcess(c, p, wanted, inherit, breakaway)
    BY <1>2
  <2>2. Ready
    BY <2>1 DEF NewProcess, Runs
  <2> QED BY <2>1, <2>2, NewProcessStep
<1>3. CASE \E c, p \in Procs : NewThread(c, p)
  BY <1>3, NewThreadStep
<1>4. CASE \E p \in Procs : InitFirstThread(p) \/ InitProcessDone(p) \/ HostDies(p)
  BY <1>4, FlagSteps DEF InitFirstThread, InitProcessDone, HostDies
<1>5. CASE \/ \E c, p \in Procs : TerminateProcess(c, p)
           \/ \E c \in Procs, j \in Jobs : TerminateJobRequest(c, j)
           \/ \E p \in Procs : Hangup(p)
           \/ ForceShutdown
  <2>1. Ready
    BY <1>5 DEF TerminateProcess, TerminateJobRequest, Hangup, ForceShutdown, Runs
  <2> QED BY <1>5, <2>1, CallStarts
<1>6. CASE \E p \in Procs : ThreadExits(p)
  BY <1>6, ThreadExitsStep
<1>7. CASE \E p \in Procs : Sigkill(p)
  BY <1>7, SigkillStep
<1>8. CASE \/ \E c, p \in Procs : OpenProcess(c, p)
           \/ \E c \in Procs, j \in Jobs : CreateJob(c, j)
           \/ \E c \in Procs, j \in Jobs, limit \in Limits : SetJobLimits(c, j, limit)
  <2>1. Ready
    BY <1>8 DEF OpenProcess, CreateJob, SetJobLimits, Runs
  <2> QED BY <1>8, <2>1, HandleSteps
<1>9. CASE \E c \in Procs : \E t \in Targets : CloseHandle(c, t)
  BY <1>9, CloseHandleStep DEF CloseHandle, Runs
<1>10. CASE \E c, p \in Procs, j \in Jobs : AssignJob(c, j, p)
  BY <1>10, AssignJobStep DEF AssignJob, Runs
<1>11. CASE \E c \in Procs : MakeSystem(c)
  BY <1>11, MakeSystemStep
<1>12. CASE ShutdownTimeout
  BY <1>12, ShutdownTimeoutStep
<1>13. CASE UNCHANGED vars
  <2>1. /\ proc' = proc /\ job' = job /\ handles' = handles /\ work' = work
        /\ running_processes' = running_processes /\ user_processes' = user_processes
        /\ shutdown_stage' = shutdown_stage /\ shutdown_timeout' = shutdown_timeout
    BY <1>13 DEF vars, counters
  <2>2. LifeTyped' /\ CountsOK' /\ KilledOnce(work')
    BY <2>1 DEF LInv, LifeTyped, CountsOK
  <2>3. KillOK'
    <3>1. Unused' = Unused
      BY <2>1 DEF Unused, Used, Held, Holders
    <3> QED BY <2>1, <3>1 DEF LInv, KillOK
  <2> QED BY <2>1, <2>2, <2>3 DEF LInv
<1> QED BY <1>1, <1>2, <1>3, <1>4, <1>5, <1>6, <1>7, <1>8, <1>9, <1>10, <1>11, <1>12, <1>13 DEF Next

\* The counts of the processes that run, or whose end the server still waits for, are exact
\* whenever it is ready for a request, and the shutdown is armed just while no process of a
\* user is left: for any processes, jobs and programs, if no thread is made in a process that
\* has ended.
THEOREM CountsAreExact == ~LateThreads => (Spec => []CountsExact)
<1> SUFFICES ASSUME ~LateThreads PROVE Spec => []CountsExact
  OBVIOUS
<1>1. LInv /\ [Next]_vars => LInv'
  BY NextLInv
<1>2. LInv => CountsExact
  <2> SUFFICES ASSUME LInv, Ready PROVE CountsExact
    BY DEF CountsExact
  <2>1. Dying(work) = {} /\ CountsOK
    BY ReadyIs DEF Dying, LInv
  <2>2. There(proc, work) = {p \in Procs : proc[p].threads > 0 \/ proc[p].timer > 0}
    BY <2>1 DEF There
  <2> QED BY <2>1, <2>2 DEF CountsOK, Users, CountsExact
<1> QED BY <1>1, <1>2, InitLInv, PTL DEF Spec

-----------------------------------------------------------------------------
(* The jobs above a job.                                                   *)

Rooted(jobs) == \A k \in Jobs : jobs[k].parent \in Jobs \cup {NoJob}
IsUpward(jobs, j, S) ==
  /\ S \subseteq Jobs /\ j \in S \cup {NoJob}
  /\ \A k \in S : jobs[k].parent \in S \cup {NoJob}

\* They are in every set that has the job and the parents, and are such a set.
LEMMA AboveLeast ==
  ASSUME NEW jobs, NEW j, NEW S, IsUpward(jobs, j, S)
  PROVE  Above(jobs, j) \subseteq S
<1>1. S \in SUBSET Jobs /\ {j} \cup {jobs[k].parent : k \in S} \subseteq S \cup {NoJob}
  BY DEF IsUpward
<1> QED BY <1>1 DEF Above

\* The jobs above a job are such a set themselves.
LEMMA AboveUpward ==
  ASSUME NEW jobs, Rooted(jobs), NEW j \in Jobs \cup {NoJob}
  PROVE  IsUpward(jobs, j, Above(jobs, j))
<1> DEFINE U == {S \in SUBSET Jobs : {j} \cup {jobs[k].parent : k \in S} \subseteq S \cup {NoJob}}
<1>1. Above(jobs, j) = {k \in Jobs : \A S \in U : k \in S}
  BY DEF Above
<1>2. \A S \in U : j \in S \cup {NoJob} /\ \A k \in S : jobs[k].parent \in S \cup {NoJob}
  OBVIOUS
<1> HIDE DEF U
<1>3. Above(jobs, j) \subseteq Jobs /\ j \in Above(jobs, j) \cup {NoJob}
  BY <1>1, <1>2
<1>4. ASSUME NEW k \in Above(jobs, j) PROVE jobs[k].parent \in Above(jobs, j) \cup {NoJob}
  <2>1. \A S \in U : jobs[k].parent \in S \cup {NoJob}
    BY <1>1, <1>2, <1>4
  <2>2. jobs[k].parent \in Jobs \cup {NoJob}
    BY <1>3 DEF Rooted
  <2> QED BY <1>1, <2>1, <2>2
<1> QED BY <1>3, <1>4 DEF IsUpward

\* Nothing is above no job.
LEMMA AboveNone ==
  ASSUME NEW jobs PROVE Above(jobs, NoJob) = {}
<1>1. IsUpward(jobs, NoJob, {})
  BY DEF IsUpward
<1> QED BY <1>1, AboveLeast

\* What is above a job of the chain is in the chain.
LEMMA AboveChain ==
  ASSUME NEW jobs, Rooted(jobs), NEW j \in Jobs \cup {NoJob}, NEW k \in Above(jobs, j)
  PROVE  k \in Jobs /\ Above(jobs, k) \subseteq Above(jobs, j)
<1>1. IsUpward(jobs, j, Above(jobs, j))
  BY AboveUpward
<1>2. k \in Jobs /\ IsUpward(jobs, k, Above(jobs, j))
  BY <1>1 DEF IsUpward
<1> QED BY <1>2, AboveLeast

\* The chain of a job is the job and the chain of its parent.
LEMMA AboveParent ==
  ASSUME NEW jobs, Rooted(jobs), NEW j \in Jobs
  PROVE  Above(jobs, j) = {j} \cup Above(jobs, jobs[j].parent)
<1> DEFINE u == jobs[j].parent  T == {j} \cup Above(jobs, u)
<1>1. u \in Jobs \cup {NoJob}
  BY DEF Rooted
<1> HIDE DEF u
<1>2. IsUpward(jobs, j, Above(jobs, j)) /\ IsUpward(jobs, u, Above(jobs, u))
  BY <1>1, AboveUpward
<1>3. IsUpward(jobs, j, T)
  BY <1>2 DEF IsUpward, u
<1>4. j \in Above(jobs, j)
  BY <1>2, LifeAssumption DEF IsUpward
<1>5. IsUpward(jobs, u, Above(jobs, j))
  BY <1>2, <1>4 DEF IsUpward, u
<1>6. Above(jobs, j) \subseteq T /\ Above(jobs, u) \subseteq Above(jobs, j)
  BY <1>3, <1>5, AboveLeast
<1> QED BY <1>4, <1>6 DEF u

\* The chain depends on the parents of the jobs in it only.
LEMMA AboveSame ==
  ASSUME NEW jobs, Rooted(jobs), NEW after, Rooted(after), NEW j \in Jobs \cup {NoJob},
         \A k \in Above(jobs, j) : after[k].parent = jobs[k].parent
  PROVE  Above(after, j) = Above(jobs, j)
<1>1. IsUpward(jobs, j, Above(jobs, j)) /\ IsUpward(after, j, Above(after, j))
  BY AboveUpward
<1>2. IsUpward(after, j, Above(jobs, j))
  BY <1>1 DEF IsUpward
<1>3. Above(after, j) \subseteq Above(jobs, j)
  BY <1>2, AboveLeast
<1>4. IsUpward(jobs, j, Above(after, j))
  BY <1>1, <1>3 DEF IsUpward
<1> QED BY <1>3, <1>4, AboveLeast

\* A job of the chain other than its first has a job below it.
LEMMA AboveHasChild ==
  ASSUME NEW jobs, Rooted(jobs), NEW j \in Jobs \cup {NoJob}, NEW k \in Above(jobs, j), k # j
  PROVE  \E m \in Above(jobs, j) : jobs[m].parent = k
<1> SUFFICES ASSUME \A m \in Above(jobs, j) : jobs[m].parent # k PROVE FALSE
  OBVIOUS
<1>1. IsUpward(jobs, j, Above(jobs, j))
  BY AboveUpward
<1>2. IsUpward(jobs, j, Above(jobs, j) \ {k})
  BY <1>1 DEF IsUpward
<1> QED BY <1>2, AboveLeast

-----------------------------------------------------------------------------
(* The lists.                                                              *)

\* An entry is added to a list that does not have it.
LEMMA AppendHas ==
  ASSUME NEW S, NEW list \in Seq(S), NEW x \in S, IsInjective(list), x \notin Range(list)
  PROVE  IsInjective(Append(list, x)) /\ Range(Append(list, x)) = Range(list) \cup {x}
<1> DEFINE l == Append(list, x)
<1>1. /\ Len(list) \in Nat /\ DOMAIN list = 1 .. Len(list) /\ DOMAIN l = 1 .. (Len(list) + 1)
      /\ \A i \in 1 .. Len(list) : l[i] = list[i]
      /\ l[Len(list) + 1] = x
  OBVIOUS
<1> HIDE DEF l
<1>2. \A i \in DOMAIN l : i \in DOMAIN list \/ i = Len(list) + 1
  BY <1>1
<1>3. \A i \in DOMAIN list : i \in DOMAIN l /\ l[i] = list[i] /\ list[i] # x
  <2>1. \A i \in DOMAIN list : list[i] # x
    BY DEF Range
  <2> QED BY <1>1, <2>1
<1>4. Len(list) + 1 \in DOMAIN l
  BY <1>1
<1>5. IsInjective(l)
  BY ONLY <1>1, <1>2, <1>3, IsInjective(list) DEF IsInjective
<1>6. Range(l) = Range(list) \cup {x}
  BY ONLY <1>1, <1>2, <1>3, <1>4 DEF Range
<1> QED BY <1>5, <1>6 DEF l

\* list_remove takes one entry out and moves up what comes after it.
LEMMA WithoutAt ==
  ASSUME NEW S, NEW list \in Seq(S), NEW x
  PROVE  \/ x \notin Range(list) /\ Without(list, x) = list
         \/ \E c \in DOMAIN list :
              /\ list[c] = x /\ DOMAIN Without(list, x) = 1 .. (Len(list) - 1)
              /\ \A i \in 1 .. (Len(list) - 1) :
                   Without(list, x)[i] = IF i < c THEN list[i] ELSE list[i + 1]
<1> DEFINE at == {i \in DOMAIN list : list[i] = x}
           c == CHOOSE i \in at : TRUE
<1>1. CASE at = {}
  <2>1. Without(list, x) = list
    BY <1>1 DEF Without
  <2>2. x \notin Range(list)
    BY <1>1 DEF Range
  <2> QED BY <2>1, <2>2
<1>2. CASE at # {}
  <2>1. c \in at
    BY <1>2
  <2>2. Without(list, x) = RemoveAt(list, c)
    BY <1>2 DEF Without
  <2>3. c \in 1 .. Len(list) /\ list[c] = x /\ Len(list) \in Nat /\ DOMAIN list = 1 .. Len(list)
    BY <2>1
  <2> HIDE DEF c, at
  <2> DEFINE l == SubSeq(list, 1, c - 1) \o SubSeq(list, c + 1, Len(list))
  <2>4. /\ DOMAIN l = 1 .. (Len(list) - 1)
        /\ \A i \in 1 .. (Len(list) - 1) : l[i] = IF i < c THEN list[i] ELSE list[i + 1]
    <3> DEFINE a == SubSeq(list, 1, c - 1)  b == SubSeq(list, c + 1, Len(list))
    <3>1. a \in Seq(S) /\ Len(a) = c - 1 /\ \A i \in 1 .. c - 1 : a[i] = list[i]
      BY <2>3
    <3>2. b \in Seq(S) /\ Len(b) = Len(list) - c /\ \A i \in 1 .. Len(list) - c : b[i] = list[c + i]
      <4> DEFINE d == c + 1  n == Len(list)
      <4>1. d \in Nat /\ n \in Nat /\ 1 <= d /\ d <= n + 1
        BY <2>3
      <4> HIDE DEF d
      <4>2. b = SubSeq(list, d, n)
        BY DEF d
      <4>3. SubSeq(list, d, n) \in Seq(S) /\ Len(SubSeq(list, d, n)) = (n + 1) - d
        BY ONLY <4>1, list \in Seq(S)
      <4>4. \A i \in 1 .. (n + 1) - d : SubSeq(list, d, n)[i] = list[(d + i) - 1]
        BY ONLY <4>1, list \in Seq(S)
      <4> HIDE DEF b
      <4>5. (n + 1) - d = n - c /\ \A i \in 1 .. n - c : (d + i) - 1 = c + i
        BY <2>3, <4>1 DEF d
      <4> QED BY <4>2, <4>3, <4>4, <4>5
    <3> HIDE DEF a, b
    <3>3. /\ DOMAIN (a \o b) = 1 .. Len(a) + Len(b)
          /\ \A i \in 1 .. Len(a) + Len(b) : (a \o b)[i] = IF i <= Len(a) THEN a[i] ELSE b[i - Len(a)]
      <4>1. a \in Seq(S) /\ b \in Seq(S)
        BY <3>1, <3>2
      <4> QED BY ONLY <4>1
    <3>4. \A i \in 1 .. (Len(list) - 1) :
            /\ i < c => (a \o b)[i] = list[i]
            /\ ~(i < c) => (a \o b)[i] = list[i + 1]
      <4> SUFFICES ASSUME NEW i \in 1 .. (Len(list) - 1)
                   PROVE  /\ i < c => (a \o b)[i] = list[i]
                          /\ ~(i < c) => (a \o b)[i] = list[i + 1]
        OBVIOUS
      <4>1. i \in 1 .. Len(a) + Len(b)
        BY <2>3, <3>1, <3>2
      <4>2. CASE i < c
        <5>1. i <= Len(a) /\ i \in 1 .. c - 1
          BY <2>3, <3>1, <4>2
        <5> QED BY <3>1, <3>3, <4>1, <4>2, <5>1
      <4>3. CASE ~(i < c)
        <5>1. ~(i <= Len(a)) /\ i - Len(a) \in 1 .. Len(list) - c /\ c + (i - Len(a)) = i + 1
          BY <2>3, <3>1, <4>3
        <5> QED BY <3>2, <3>3, <4>1, <4>3, <5>1
      <4> QED BY <4>2, <4>3
    <3>5. Len(a) + Len(b) = Len(list) - 1
      BY <2>3, <3>1, <3>2
    <3>6. l = a \o b
      BY DEF a, b
    <3> HIDE DEF l
    <3> QED BY <3>3, <3>4, <3>5, <3>6
  <2>5. Without(list, x) = l
    BY <2>2 DEF RemoveAt
  <2> HIDE DEF l
  <2> QED BY <2>3, <2>4, <2>5
<1> QED BY <1>1, <1>2

\* list_remove takes the entry out of the list and leaves the others.
LEMMA WithoutHas ==
  ASSUME NEW S, NEW list \in Seq(S), NEW x, IsInjective(list)
  PROVE  IsInjective(Without(list, x)) /\ Range(Without(list, x)) = Range(list) \ {x}
<1> DEFINE l == Without(list, x)
<1>1. CASE x \notin Range(list) /\ l = list
  BY <1>1
<1>2. ASSUME NEW c \in DOMAIN list, list[c] = x, DOMAIN l = 1 .. (Len(list) - 1),
             \A i \in 1 .. (Len(list) - 1) : l[i] = IF i < c THEN list[i] ELSE list[i + 1]
      PROVE  IsInjective(l) /\ Range(l) = Range(list) \ {x}
  <2>3. c \in 1 .. Len(list) /\ list[c] = x /\ Len(list) \in Nat /\ DOMAIN list = 1 .. Len(list)
    BY <1>2
  <2> HIDE DEF l
  <2>4. /\ DOMAIN l = 1 .. (Len(list) - 1)
        /\ \A i \in 1 .. (Len(list) - 1) : l[i] = IF i < c THEN list[i] ELSE list[i + 1]
    BY <1>2
  <2>6. \A i \in DOMAIN list : i # c => list[i] # x
    BY <2>3 DEF IsInjective
  <2>7. \A i \in DOMAIN l : \E k \in DOMAIN list : k # c /\ l[i] = list[k] /\ k = IF i < c THEN i ELSE i + 1
    BY <2>3, <2>4
  <2>8. \A k \in DOMAIN list : k # c => \E i \in DOMAIN l : l[i] = list[k]
    <3> SUFFICES ASSUME NEW k \in DOMAIN list, k # c PROVE \E i \in DOMAIN l : l[i] = list[k]
      OBVIOUS
    <3>1. CASE k < c
      <4>1. k \in DOMAIN l /\ l[k] = list[k]
        BY <2>3, <2>4, <3>1
      <4> QED BY <4>1
    <3>2. CASE k > c
      <4>1. k - 1 \in DOMAIN l /\ l[k - 1] = list[k]
        BY <2>3, <2>4, <3>2
      <4> QED BY <4>1
    <3> QED BY <2>3, <3>1, <3>2
  <2>9. IsInjective(l)
    <3> SUFFICES ASSUME NEW a \in DOMAIN l, NEW b \in DOMAIN l, l[a] = l[b] PROVE a = b
      BY DEF IsInjective
    <3>1. PICK k \in DOMAIN list : l[a] = list[k] /\ k = IF a < c THEN a ELSE a + 1
      BY <2>7
    <3>2. PICK m \in DOMAIN list : l[b] = list[m] /\ m = IF b < c THEN b ELSE b + 1
      BY <2>7
    <3>3. k = m
      BY <3>1, <3>2 DEF IsInjective
    <3> QED BY <2>3, <2>4, <3>1, <3>2, <3>3
  <2>10. Range(l) = Range(list) \ {x}
    BY ONLY <2>3, <2>6, <2>7, <2>8 DEF Range
  <2> QED BY <2>9, <2>10
<1> HIDE DEF l
<1> QED BY <1>1, <1>2, WithoutAt DEF l

\* A list without entries.
LEMMA ListHas ==
  ASSUME NEW S, NEW list \in Seq(S)
  PROVE  Range(list) \subseteq S /\ (Range(list) = {} <=> list = <<>>)
<1>1. Len(list) \in Nat /\ \A i \in 1 .. Len(list) : list[i] \in S
  OBVIOUS
<1>2. Range(list) = {} => Len(list) = 0
  <2>1. Len(list) # 0 => 1 \in DOMAIN list
    BY <1>1
  <2> QED BY <2>1 DEF Range
<1>3. Len(list) = 0 => list = <<>>
  BY <1>1
<1>4. Range(<<>>) = {}
  BY DEF Range
<1>5. Range(list) \subseteq S
  BY <1>1 DEF Range
<1> QED BY <1>2, <1>3, <1>4, <1>5

-----------------------------------------------------------------------------
(* A process is put into a job.                                            *)

Nests(s, j, p) == s.proc[p].job # NoJob /\ s.job[j].parent = NoJob
Linked(s, j, p) ==
  LET common == s.proc[p].job
      nest == common # NoJob /\ s.job[j].parent = NoJob
  IN [k \in Jobs |->
       CASE k = j -> [s.job[j] EXCEPT !.parent = IF nest THEN common ELSE @,
                                      !.list = Append(@, p)]
         [] k = common -> [s.job[k] EXCEPT !.list = Without(@, p),
                                           !.children = IF nest THEN Append(@, j) ELSE @]
         [] OTHER -> s.job[k]]

\* Which of the links add_job_process changes.
Joined(s, j, p, after) ==
  /\ after[j].parent = IF Nests(s, j, p) THEN s.proc[p].job ELSE s.job[j].parent
  /\ after[j].list = Append(s.job[j].list, p) /\ after[j].children = s.job[j].children
  /\ \A k \in Jobs : after[k].made = s.job[k].made
  /\ \A k \in Jobs : k # j => after[k].parent = s.job[k].parent
  /\ \A k \in Jobs : k # j /\ k # s.proc[p].job =>
       after[k].list = s.job[k].list /\ after[k].children = s.job[k].children
  /\ \A k \in Jobs : k # j /\ k = s.proc[p].job =>
       /\ after[k].list = Without(s.job[k].list, p)
       /\ after[k].children = IF Nests(s, j, p) THEN Append(s.job[k].children, j) ELSE s.job[k].children

\* The links as they are before anything is counted.
LEMMA LinkedIs ==
  ASSUME NEW s \in Pairs, NEW j \in Jobs, NEW p \in Procs, s.proc[p].job # j
  PROVE  /\ Linked(s, j, p) \in [Jobs -> JobRec] /\ Joined(s, j, p, Linked(s, j, p))
         /\ \A k \in Jobs : /\ Linked(s, j, p)[k].num = s.job[k].num /\ Linked(s, j, p)[k].used = s.job[k].used
                            /\ k # j /\ k # s.proc[p].job => Linked(s, j, p)[k] = s.job[k]
<1> DEFINE common == s.proc[p].job
           nest == common # NoJob /\ s.job[j].parent = NoJob
           up == IF nest THEN common ELSE s.job[j].parent
           longer == Append(s.job[j].list, p)
           shorter(k) == Without(s.job[k].list, p)
           below(k) == IF nest THEN Append(s.job[k].children, j) ELSE s.job[k].children
           l == Linked(s, j, p)
<1>1. \A k \in Jobs : /\ s.job[k] \in JobRec /\ s.job[k].list \in Seq(Procs) /\ s.job[k].children \in Seq(Jobs)
                      /\ s.job[k].parent \in Jobs \cup {NoJob}
  BY DEF Pairs, JobRec
<1>2. common \in Jobs \cup {NoJob}
  BY DEF Pairs, ProcRec
<1>3. up \in Jobs \cup {NoJob} /\ longer \in Seq(Procs)
  BY <1>1, <1>2
<1>4. \A k \in Jobs : shorter(k) \in Seq(Procs)
  BY <1>1, WithoutIs
<1>5. \A k \in Jobs : below(k) \in Seq(Jobs)
  BY <1>1
<1>6. \A k \in Jobs : l[k] = IF k = j THEN [s.job[j] EXCEPT !.parent = up, !.list = longer]
                             ELSE IF k = common THEN [s.job[k] EXCEPT !.list = shorter(k), !.children = below(k)]
                             ELSE s.job[k]
  <2> SUFFICES ASSUME NEW k \in Jobs
               PROVE  l[k] = IF k = j THEN [s.job[j] EXCEPT !.parent = up, !.list = longer]
                             ELSE IF k = common THEN [s.job[k] EXCEPT !.list = shorter(k), !.children = below(k)]
                             ELSE s.job[k]
    OBVIOUS
  <2>1. CASE k = j
    <3>1. l[j] = [s.job[j] EXCEPT !.parent = IF nest THEN common ELSE @, !.list = Append(@, p)]
      BY DEF Linked
    <3> HIDE DEF l, nest, common
    <3>2. [s.job[j] EXCEPT !.parent = IF nest THEN common ELSE @, !.list = Append(@, p)]
            = [s.job[j] EXCEPT !.parent = IF nest THEN common ELSE s.job[j].parent, !.list = Append(s.job[j].list, p)]
      BY <1>1 DEF JobRec
    <3> QED BY <2>1, <3>1, <3>2
  <2>2. CASE k # j /\ k = common
    BY <2>2 DEF Linked
  <2>3. CASE k # j /\ k # common
    BY <2>3 DEF Linked
  <2> QED BY <2>1, <2>2, <2>3
<1>7. Nests(s, j, p) <=> nest
  BY DEF Nests
<1>8. l = [k \in Jobs |-> l[k]]
  BY DEF Linked
<1> HIDE DEF common, up, longer, shorter, below, l, nest
<1>11. /\ l[j] \in JobRec /\ l[j].parent = up /\ l[j].list = longer /\ l[j].children = s.job[j].children
       /\ l[j].made = s.job[j].made /\ l[j].num = s.job[j].num /\ l[j].used = s.job[j].used
  <2>1. l[j] = [s.job[j] EXCEPT !.parent = up, !.list = longer]
    BY <1>6
  <2>2. s.job[j] \in JobRec
    BY <1>1
  <2> QED BY ONLY <1>3, <2>1, <2>2 DEF JobRec
<1>12. ASSUME NEW k \in Jobs, k # j, k = common
       PROVE  /\ l[k] \in JobRec /\ l[k].parent = s.job[k].parent /\ l[k].list = shorter(k) /\ l[k].children = below(k)
              /\ l[k].made = s.job[k].made /\ l[k].num = s.job[k].num /\ l[k].used = s.job[k].used
  <2>1. l[k] = [s.job[k] EXCEPT !.list = shorter(k), !.children = below(k)]
    BY <1>6, <1>12
  <2>2. s.job[k] \in JobRec /\ shorter(k) \in Seq(Procs) /\ below(k) \in Seq(Jobs)
    BY <1>1, <1>4, <1>5
  <2> QED BY ONLY <2>1, <2>2 DEF JobRec
<1>13. \A k \in Jobs : k # j /\ k # common => l[k] = s.job[k]
  BY <1>6
<1>14. \A k \in Jobs : l[k] \in JobRec
  BY <1>1, <1>11, <1>12, <1>13
<1>15. l \in [Jobs -> JobRec]
  BY <1>8, <1>14
<1>16. \A k \in Jobs : l[k].num = s.job[k].num /\ l[k].used = s.job[k].used /\ l[k].made = s.job[k].made
  BY <1>11, <1>12, <1>13
<1>17. \A k \in Jobs : k # j => l[k].parent = s.job[k].parent
  BY <1>12, <1>13
<1>18. Joined(s, j, p, l)
  BY <1>7, <1>11, <1>12, <1>13, <1>16, <1>17 DEF Joined, common, up, longer, shorter, below
<1> QED BY <1>13, <1>15, <1>16, <1>18 DEF l, common

\* What add_job_process does, if it does not refuse.
LEMMA AddedIs ==
  ASSUME NEW s \in Pairs, NEW j \in Jobs, NEW p \in Procs, ~Denied(s, j, p), s.proc[p].job # j, NEW r,
         r = AddJobProcess(s, j, p)
  PROVE  /\ r \in Pairs /\ Moved(s.proc, r.proc, p) /\ r.proc[p].job = j /\ Joined(s, j, p, r.job)
         /\ \A k \in Jobs :
              /\ k \in Counted(r.job, j, s.proc[p].job) => r.job[k].num = s.job[k].num + 1 /\ r.job[k].used
              /\ k \notin Counted(r.job, j, s.proc[p].job) =>
                   /\ r.job[k].num = s.job[k].num /\ r.job[k].used = s.job[k].used
                   /\ k # j /\ k # s.proc[p].job => r.job[k] = s.job[k]
<1> DEFINE common == s.proc[p].job
           l == Linked(s, j, p)
           N == Counted(l, j, common)
<1>1. r \in Pairs /\ Moved(s.proc, r.proc, p)
  BY AddJobProcessIs
<1>2. /\ r.proc = [s.proc EXCEPT ![p].job = j]
      /\ r.job = [k \in Jobs |-> IF k \in N THEN [l[k] EXCEPT !.num = @ + 1, !.used = TRUE] ELSE l[k]]
  BY DEF AddJobProcess, Linked
<1>3. r.proc[p].job = j
  <2>1. s.proc[p] \in ProcRec /\ s.proc \in [Procs -> ProcRec]
    BY DEF Pairs
  <2>2. [s.proc[p] EXCEPT !.job = j].job = j
    BY <2>1 DEF ProcRec
  <2>3. r.proc[p] = [s.proc[p] EXCEPT !.job = j]
    BY <1>2, <2>1
  <2> QED BY <2>2, <2>3
<1>4. /\ l \in [Jobs -> JobRec] /\ Joined(s, j, p, l)
      /\ \A k \in Jobs : l[k].num = s.job[k].num /\ l[k].used = s.job[k].used /\ (k # j /\ k # common => l[k] = s.job[k])
  BY LinkedIs
<1> HIDE DEF l, N
<1>5. ASSUME NEW k \in Jobs
      PROVE  /\ r.job[k].made = l[k].made /\ r.job[k].parent = l[k].parent
             /\ r.job[k].list = l[k].list /\ r.job[k].children = l[k].children
             /\ k \in N => r.job[k].num = l[k].num + 1 /\ r.job[k].used
             /\ k \notin N => r.job[k] = l[k]
  <2> DEFINE n == l[k].num + 1
  <2>1. l[k] \in JobRec /\ n \in Int
    BY <1>4 DEF JobRec
  <2>2. r.job[k] = IF k \in N THEN [l[k] EXCEPT !.num = n, !.used = TRUE] ELSE l[k]
    BY <1>2
  <2> HIDE DEF n
  <2>3. /\ [l[k] EXCEPT !.num = n, !.used = TRUE].made = l[k].made
        /\ [l[k] EXCEPT !.num = n, !.used = TRUE].parent = l[k].parent
        /\ [l[k] EXCEPT !.num = n, !.used = TRUE].list = l[k].list
        /\ [l[k] EXCEPT !.num = n, !.used = TRUE].children = l[k].children
        /\ [l[k] EXCEPT !.num = n, !.used = TRUE].num = n
        /\ [l[k] EXCEPT !.num = n, !.used = TRUE].used = TRUE
    BY <2>1 DEF JobRec
  <2> QED BY <2>2, <2>3 DEF n
<1>6. Joined(s, j, p, r.job)
  BY <1>4, <1>5 DEF Joined
<1>7. N = Counted(r.job, j, common)
  <2>1. Rooted(l) /\ Rooted(r.job) /\ common \in Jobs \cup {NoJob}
    BY <1>1, <1>4 DEF Rooted, Pairs, JobRec, ProcRec
  <2>2. Above(r.job, j) = Above(l, j) /\ Above(r.job, common) = Above(l, common)
    <3>1. \A x \in Jobs \cup {NoJob} : Above(l, x) \subseteq Jobs
      BY DEF Above
    <3> QED BY <1>5, <2>1, <3>1, AboveSame
  <2> QED BY <2>2 DEF N, Counted
<1> QED BY <1>1, <1>3, <1>4, <1>5, <1>6, <1>7

-----------------------------------------------------------------------------
(* The forest of the jobs and what they count.                             *)

\* No job is above itself.
Forest(jobs) == \A j \in Jobs : j \notin Above(jobs, jobs[j].parent)

\* The lists and the links back are the same.
Lists(ps, jobs) ==
  \A j \in Jobs :
    /\ IsInjective(jobs[j].list) /\ Range(jobs[j].list) = {p \in Procs : ps[p].job = j}
    /\ IsInjective(jobs[j].children) /\ Range(jobs[j].children) = {k \in Jobs : jobs[k].parent = j}

\* Links are of objects that exist, to jobs that exist and were used.
Links(ps, jobs) ==
  /\ \A p \in Procs : ps[p].job # NoJob => ps[p].made /\ jobs[ps[p].job].made /\ jobs[ps[p].job].used
  /\ \A k \in Jobs : jobs[k].parent # NoJob =>
       jobs[k].made /\ jobs[jobs[k].parent].made /\ jobs[jobs[k].parent].used
  /\ \A j \in Jobs : ~jobs[j].made => jobs[j] = UnusedJob

\* A job counts those of the processes C that are in it or below it.
Below(ps, jobs, C, j) == {p \in C : j \in Above(jobs, ps[p].job)}
Nums(ps, jobs, C) == \A j \in Jobs : jobs[j].num = Cardinality(Below(ps, jobs, C, j))

JobsOK(ps, jobs, C) == Forest(jobs) /\ Lists(ps, jobs) /\ Links(ps, jobs) /\ Nums(ps, jobs, C)

\* The jobs above one that exists exist.
LEMMA MadeAbove ==
  ASSUME NEW jobs, Rooted(jobs), NEW ps, Links(ps, jobs), NEW j \in Jobs, jobs[j].made
  PROVE  \A k \in Above(jobs, j) : k \in Jobs /\ jobs[k].made
<1>1. IsUpward(jobs, j, {k \in Jobs : jobs[k].made})
  BY DEF IsUpward, Links, Rooted
<1> QED BY <1>1, AboveLeast

\* Where a process is put into a job: what is above a job.
LEMMA JoinedChains ==
  ASSUME NEW s \in Pairs, NEW j \in Jobs, NEW p \in Procs, NEW r \in Pairs, Joined(s, j, p, r.job),
         Forest(s.job), Links(s.proc, s.job), ~Denied(s, j, p), s.proc[p].job # j
  PROVE  /\ \A x \in Jobs \cup {NoJob} : x # j \/ ~Nests(s, j, p) => Above(r.job, x) = Above(s.job, x)
         /\ Nests(s, j, p) => /\ Above(r.job, j) = {j} \cup Above(s.job, s.proc[p].job)
                              /\ \A q \in Procs : s.proc[q].job # j
                              /\ \A k \in Jobs : s.job[k].parent # j
         /\ Above(s.job, s.proc[p].job) \subseteq Above(r.job, j) /\ j \notin Above(s.job, s.proc[p].job)
         /\ j \in Above(r.job, j)
<1> DEFINE common == s.proc[p].job
<1>1. /\ Rooted(s.job) /\ Rooted(r.job) /\ common \in Jobs \cup {NoJob}
      /\ \A k \in Jobs : s.job[k].parent \in Jobs \cup {NoJob}
  BY DEF Rooted, Pairs, JobRec, ProcRec
<1>2. ASSUME Nests(s, j, p)
      PROVE  (\A q \in Procs : s.proc[q].job # j) /\ \A k \in Jobs : s.job[k].parent # j
  <2>1. ~s.job[j].used
    BY <1>2 DEF Nests, Denied
  <2> QED BY <2>1, LifeAssumption DEF Links
<1>3. ASSUME NEW x \in Jobs \cup {NoJob}, x # j \/ ~Nests(s, j, p) PROVE Above(r.job, x) = Above(s.job, x)
  <2>1. Above(s.job, x) \subseteq Jobs
    BY DEF Above
  <2>2. CASE ~Nests(s, j, p)
    <3>1. \A k \in Jobs : r.job[k].parent = s.job[k].parent
      BY <2>2 DEF Joined
    <3> QED BY <1>1, <2>1, <3>1, AboveSame
  <2>3. CASE Nests(s, j, p) /\ x # j
    <3>1. j \notin Above(s.job, x)
      BY <1>1, <1>2, <2>1, <2>3, AboveHasChild
    <3>2. \A k \in Above(s.job, x) : r.job[k].parent = s.job[k].parent
      BY <2>1, <3>1 DEF Joined
    <3> QED BY <1>1, <3>2, AboveSame
  <2> QED BY <1>3, <2>2, <2>3
<1>4. Above(r.job, common) = Above(s.job, common)
  BY <1>1, <1>3
<1>5. ASSUME Nests(s, j, p) PROVE Above(r.job, j) = {j} \cup Above(s.job, common)
  <2>1. r.job[j].parent = common
    BY <1>5 DEF Joined
  <2> QED BY <1>1, <1>4, <2>1, AboveParent
<1>6. j \in Above(r.job, j)
  BY <1>1, AboveParent
<1>7. Above(s.job, common) \subseteq Above(r.job, j) /\ j \notin Above(s.job, common)
  <2>1. CASE Nests(s, j, p)
    <3>1. j \notin Above(s.job, common)
      BY <1>1, <1>2, <2>1, AboveHasChild, AboveChain
    <3> QED BY <1>5, <2>1, <3>1
  <2>2. CASE common = NoJob
    BY <2>2, AboveNone
  <2>3. CASE ~Nests(s, j, p) /\ common # NoJob
    <3>1. s.job[j].parent # NoJob /\ common \in Above(s.job, s.job[j].parent)
      BY <2>3 DEF Nests, Denied
    <3>2. Above(s.job, common) \subseteq Above(s.job, s.job[j].parent)
      BY <1>1, <3>1, AboveChain
    <3>3. Above(s.job, j) = {j} \cup Above(s.job, s.job[j].parent)
      BY <1>1, AboveParent
    <3>4. Above(r.job, j) = Above(s.job, j)
      BY <1>3, <2>3
    <3> QED BY <3>2, <3>3, <3>4 DEF Forest
  <2> QED BY <2>1, <2>2, <2>3
<1> QED BY <1>2, <1>3, <1>5, <1>6, <1>7

\* add_job_process keeps the forest, and what every job counts.
LEMMA JoinKeeps ==
  ASSUME NEW s \in Pairs, NEW j \in Jobs, NEW p \in Procs, NEW C \in SUBSET Procs, p \in C,
         JobsOK(s.proc, s.job, C), s.job[j].made, s.proc[p].made, NEW r, r = AddJobProcess(s, j, p)
  PROVE  JobsOK(r.proc, r.job, C)
<1>1. CASE Denied(s, j, p) \/ s.proc[p].job = j
  BY <1>1 DEF AddJobProcess
<1>2. CASE ~Denied(s, j, p) /\ s.proc[p].job # j
  <2> DEFINE common == s.proc[p].job
             N == Counted(r.job, j, common)
  <2>1. Forest(s.job) /\ Lists(s.proc, s.job) /\ Links(s.proc, s.job) /\ Nums(s.proc, s.job, C)
    BY DEF JobsOK
  <2>2. /\ r \in Pairs /\ Moved(s.proc, r.proc, p) /\ r.proc[p].job = j /\ Joined(s, j, p, r.job)
        /\ \A k \in Jobs :
             /\ k \in N => r.job[k].num = s.job[k].num + 1 /\ r.job[k].used
             /\ k \notin N => /\ r.job[k].num = s.job[k].num /\ r.job[k].used = s.job[k].used
                              /\ k # j /\ k # common => r.job[k] = s.job[k]
    BY <1>2, AddedIs
  <2>3. /\ \A x \in Jobs \cup {NoJob} : x # j \/ ~Nests(s, j, p) => Above(r.job, x) = Above(s.job, x)
        /\ Nests(s, j, p) => /\ Above(r.job, j) = {j} \cup Above(s.job, common)
                             /\ \A q \in Procs : s.proc[q].job # j
                             /\ \A k \in Jobs : s.job[k].parent # j
        /\ Above(s.job, common) \subseteq Above(r.job, j) /\ j \notin Above(s.job, common)
        /\ j \in Above(r.job, j)
    BY <1>2, <2>1, <2>2, JoinedChains
  <2>4. /\ common \in Jobs \cup {NoJob} /\ common # j
        /\ \A k \in Jobs : /\ s.job[k].parent \in Jobs \cup {NoJob} /\ s.job[k].list \in Seq(Procs)
                           /\ s.job[k].children \in Seq(Jobs) /\ s.job[k].num \in Int
        /\ \A q \in Procs : s.proc[q].job \in Jobs \cup {NoJob} /\ (q # p => r.proc[q] = s.proc[q])
        /\ r.proc[p].made = s.proc[p].made
    BY <1>2, <2>2 DEF Pairs, JobRec, ProcRec, Moved
  <2>5. Above(r.job, common) = Above(s.job, common)
    BY <2>3, <2>4
  <2>6. N = Above(r.job, j) \ Above(s.job, common)
    BY <2>5 DEF Counted
  <2> HIDE DEF common, N
  <2>7. Forest(r.job)
    <3> SUFFICES ASSUME NEW k \in Jobs PROVE k \notin Above(r.job, r.job[k].parent)
      BY DEF Forest
    <3>1. CASE k # j
      <4>1. r.job[k].parent = s.job[k].parent
        BY <2>2, <3>1 DEF Joined
      <4>2. Above(r.job, r.job[k].parent) = Above(s.job, s.job[k].parent)
        BY <2>3, <2>4, <4>1
      <4> QED BY <2>1, <4>2 DEF Forest
    <3>2. CASE k = j /\ Nests(s, j, p)
      <4>1. r.job[k].parent = common
        BY <2>2, <3>2 DEF Joined, common
      <4> QED BY <2>3, <2>5, <3>2, <4>1
    <3>3. CASE k = j /\ ~Nests(s, j, p)
      <4>1. r.job[k].parent = s.job[k].parent
        BY <2>2, <3>3 DEF Joined
      <4>2. Above(r.job, r.job[k].parent) = Above(s.job, s.job[k].parent)
        BY <2>3, <2>4, <3>3, <4>1
      <4> QED BY <2>1, <4>2 DEF Forest
    <3> QED BY <3>1, <3>2, <3>3
  <2>8. Lists(r.proc, r.job)
    <3> SUFFICES ASSUME NEW k \in Jobs
                 PROVE  /\ IsInjective(r.job[k].list) /\ Range(r.job[k].list) = {q \in Procs : r.proc[q].job = k}
                        /\ IsInjective(r.job[k].children)
                        /\ Range(r.job[k].children) = {m \in Jobs : r.job[m].parent = k}
      BY DEF Lists
    <3>1. /\ IsInjective(s.job[k].list) /\ Range(s.job[k].list) = {q \in Procs : s.proc[q].job = k}
          /\ IsInjective(s.job[k].children) /\ Range(s.job[k].children) = {m \in Jobs : s.job[m].parent = k}
      BY <2>1 DEF Lists
    <3>2. \A q \in Procs : r.proc[q].job = IF q = p THEN j ELSE s.proc[q].job
      BY <2>2, <2>4
    <3>3. \A m \in Jobs : r.job[m].parent = IF m = j /\ Nests(s, j, p) THEN common ELSE s.job[m].parent
      BY <2>2 DEF Joined, common
    <3>4. Nests(s, j, p) => common \in Jobs /\ s.job[j].parent = NoJob
      BY <2>4 DEF Nests, common
    <3>5. IsInjective(r.job[k].list) /\ Range(r.job[k].list) = {q \in Procs : r.proc[q].job = k}
      <4>1. CASE k = j
        <5>1. r.job[k].list = Append(s.job[k].list, p) /\ p \notin Range(s.job[k].list)
          BY <2>2, <2>4, <3>1, <4>1 DEF Joined, common
        <5>2. IsInjective(r.job[k].list) /\ Range(r.job[k].list) = Range(s.job[k].list) \cup {p}
          BY <2>4, <3>1, <5>1, AppendHas
        <5> QED BY <3>1, <3>2, <4>1, <5>2
      <4>2. CASE k # j /\ k = common
        <5>1. r.job[k].list = Without(s.job[k].list, p)
          BY <2>2, <4>2 DEF Joined, common
        <5>2. IsInjective(r.job[k].list) /\ Range(r.job[k].list) = Range(s.job[k].list) \ {p}
          BY <2>4, <3>1, <5>1, WithoutHas
        <5> QED BY <3>1, <3>2, <4>2, <5>2
      <4>3. CASE k # j /\ k # common
        <5>1. r.job[k].list = s.job[k].list
          BY <2>2, <4>3 DEF Joined, common
        <5> QED BY <3>1, <3>2, <4>3, <5>1 DEF common
      <4> QED BY <4>1, <4>2, <4>3
    <3>6. IsInjective(r.job[k].children) /\ Range(r.job[k].children) = {m \in Jobs : r.job[m].parent = k}
      <4>1. CASE k # j /\ k = common /\ Nests(s, j, p)
        <5>1. r.job[k].children = Append(s.job[k].children, j) /\ j \notin Range(s.job[k].children)
          <6>1. r.job[k].children = Append(s.job[k].children, j)
            BY ZenonT(40), <2>2, <4>1 DEF Joined, common
          <6>2. s.job[j].parent # k
            BY <3>4, <4>1, LifeAssumption
          <6> QED BY <3>1, <6>1, <6>2
        <5>2. IsInjective(r.job[k].children) /\ Range(r.job[k].children) = Range(s.job[k].children) \cup {j}
          BY <2>4, <3>1, <5>1, AppendHas
        <5> QED BY <3>1, <3>3, <4>1, <5>2
      <4>2. CASE ~(k # j /\ k = common /\ Nests(s, j, p))
        <5>1. r.job[k].children = s.job[k].children
          BY <2>2, <4>2 DEF Joined, common
        <5>2. \A m \in Jobs : r.job[m].parent = k <=> s.job[m].parent = k
          BY <2>4, <3>3, <3>4, <4>2, LifeAssumption
        <5> QED BY <3>1, <5>1, <5>2
      <4> QED BY <4>1, <4>2
    <3> QED BY <3>5, <3>6
  <2>9. Links(r.proc, r.job)
    <3>1. \A k \in Jobs : r.job[k].made = s.job[k].made /\ (s.job[k].used => r.job[k].used)
      BY <2>2 DEF Joined
    <3>2. r.job[j].used
      BY <2>2, <2>3, <2>6
    <3>3. \A q \in Procs : r.proc[q].job # NoJob => r.proc[q].made /\ r.job[r.proc[q].job].made /\ r.job[r.proc[q].job].used
      <4> SUFFICES ASSUME NEW q \in Procs, r.proc[q].job # NoJob
                   PROVE  r.proc[q].made /\ r.job[r.proc[q].job].made /\ r.job[r.proc[q].job].used
        OBVIOUS
      <4>1. CASE q = p
        BY ZenonT(40), <2>2, <2>4, <3>1, <3>2, <4>1
      <4>2. CASE q # p
        <5>1. r.proc[q] = s.proc[q] /\ s.proc[q].job \in Jobs
          BY <2>4, <4>2
        <5> QED BY <2>1, <3>1, <5>1 DEF Links
      <4> QED BY <4>1, <4>2
    <3>4. common # NoJob => s.job[common].made /\ s.job[common].used
      BY <2>1 DEF Links, common
    <3>5. \A k \in Jobs : r.job[k].parent # NoJob =>
            r.job[k].made /\ r.job[r.job[k].parent].made /\ r.job[r.job[k].parent].used
      <4> SUFFICES ASSUME NEW k \in Jobs, r.job[k].parent # NoJob
                   PROVE  r.job[k].made /\ r.job[r.job[k].parent].made /\ r.job[r.job[k].parent].used
        OBVIOUS
      <4>1. CASE k = j /\ Nests(s, j, p)
        <5>1. r.job[k].parent = common /\ common \in Jobs
          BY <2>2, <2>4, <4>1 DEF Joined, common, Nests
        <5> QED BY <3>1, <3>4, <4>1, <5>1, LifeAssumption
      <4>2. CASE ~(k = j /\ Nests(s, j, p))
        <5>1. r.job[k].parent = s.job[k].parent
          BY <2>2, <4>2 DEF Joined
        <5> QED BY <2>1, <2>4, <3>1, <5>1 DEF Links
      <4> QED BY <4>1, <4>2
    <3>6. \A k \in Jobs : ~r.job[k].made => r.job[k] = UnusedJob
      <4> SUFFICES ASSUME NEW k \in Jobs, ~r.job[k].made PROVE r.job[k] = UnusedJob
        OBVIOUS
      <4>1. ~s.job[k].made /\ k # j /\ k # common /\ s.job[k] = UnusedJob
        BY <2>1, <3>1, <3>4, LifeAssumption DEF Links
      <4>2. k \notin Above(r.job, j)
        <5>1. Rooted(s.job)
          BY <2>4 DEF Rooted
        <5>2. \A m \in Above(s.job, j) : s.job[m].made
          BY <2>1, <5>1, MadeAbove
        <5>3. ~Nests(s, j, p) => Above(r.job, j) = Above(s.job, j)
          BY <2>3
        <5>4. k \notin Above(s.job, common)
          <6>1. CASE common = NoJob
            BY <6>1, AboveNone
          <6>2. CASE common # NoJob
            BY <2>1, <2>4, <3>4, <4>1, <5>1, <6>2, MadeAbove
          <6> QED BY <6>1, <6>2
        <5> QED BY <2>3, <4>1, <5>2, <5>3, <5>4
      <4> QED BY <2>2, <2>6, <4>1, <4>2
    <3> QED BY <3>3, <3>5, <3>6 DEF Links
  <2>10. Nums(r.proc, r.job, C)
    <3> SUFFICES ASSUME NEW k \in Jobs PROVE r.job[k].num = Cardinality(Below(r.proc, r.job, C, k))
      BY DEF Nums
    <3> DEFINE S == Below(s.proc, s.job, C, k)
    <3>1. s.job[k].num = Cardinality(S)
      BY <2>1 DEF Nums
    <3>2. S \subseteq Procs /\ IsFiniteSet(S)
      BY LifeAssumption, FS_Subset DEF Below
    <3>3. \A q \in Procs : q # p => Above(r.job, r.proc[q].job) = Above(s.job, s.proc[q].job)
      BY <2>3, <2>4
    <3>4. \A q \in C : q \in S <=> k \in Above(s.job, s.proc[q].job)
      BY DEF Below
    <3>5. CASE k \in N
      <4>1. p \notin S
        BY <2>6, <3>4, <3>5 DEF common
      <4>2. Below(r.proc, r.job, C, k) = S \cup {p}
        <5>1. k \in Above(r.job, r.proc[p].job)
          BY <2>2, <2>6, <3>5
        <5> QED BY <3>3, <5>1 DEF Below
      <4> QED BY <2>2, <3>1, <3>2, <3>5, <4>1, <4>2, CountOne
    <3>6. CASE k \notin N
      <4>1. k \in Above(r.job, j) <=> k \in Above(s.job, common)
        BY <2>3, <2>6, <3>6
      <4>2. Below(r.proc, r.job, C, k) = S
        BY <2>2, <3>3, <4>1 DEF Below, common
      <4> QED BY <2>2, <3>1, <3>6, <4>2
    <3> QED BY <3>5, <3>6
  <2> QED BY <2>7, <2>8, <2>9, <2>10 DEF JobsOK
<1> QED BY <1>1, <1>2

-----------------------------------------------------------------------------
(* The processes that the jobs count, and the objects that exist.          *)

\* The processes that run, that are still to start, or whose death is in progress.
Lives(ps, w) == {p \in Procs : ps[p].threads > 0 \/ (ps[p].info /\ ~ps[p].ended) \/ p \in Dying(w)}

Exists(ps, jobs, t) ==
  /\ \A p \in Procs : t = Process(p) => ps[p].made
  /\ \A j \in Jobs : t = Job(j) => jobs[j].made

\* A process that could not be made: nothing refers to it but the calls in progress.
Stillborn(p) == proc[p].made /\ ~proc[p].ended /\ p \notin Lives(proc, work)

JInv ==
  /\ JobsOK(proc, job, Lives(proc, work))
  /\ \A p \in Procs : ~proc[p].made => proc[p] = NoProcess
  /\ \A c \in Procs : \A t \in handles[c] : Exists(proc, job, t)
  /\ \A i \in 1 .. Len(work) : Exists(proc, job, work[i].what)
  /\ \A p \in Procs : Stillborn(p) => \A c \in Procs : Process(p) \notin handles[c]
  /\ asserted

\* The bounds of the numbers.
BInv ==
  /\ \A p \in Procs : proc[p].threads <= MaxThreads /\ proc[p].timer <= Attempts
  /\ shutdown_stage <= 2 /\ (shutdown_stage = 2 => ~shutdown_timeout) /\ stale \in BOOLEAN

\* What a name stands for.
LEMMA ExistsIs ==
  ASSUME NEW ps, NEW jobs
  PROVE  /\ \A p \in Procs : Exists(ps, jobs, Process(p)) <=> ps[p].made
         /\ \A j \in Jobs : Exists(ps, jobs, Job(j)) <=> jobs[j].made
         /\ Exists(ps, jobs, <<"server">>)
<1>1. /\ \A p, q : (Process(p) = Process(q) <=> p = q) /\ (Job(p) = Job(q) <=> p = q) /\ Process(p) # Job(q)
      /\ \A p : Process(p) # <<"server">> /\ Job(p) # <<"server">>
  BY DEF Process, Job
<1> QED BY ONLY <1>1 DEF Exists

\* A frame that may be put there when nothing dies.
Plain(g) == g \in FrameSet /\ g.op # "killed" /\ Exists(proc, job, g.what)
Goes(s) == s \in Seq(FrameSet) /\ \A i \in 1 .. Len(s) : Plain(s[i])

\* Frames are taken from the stack, none of a death, and others are put there, none of a death.
GoesOn ==
  \E m \in 0 .. Len(work), s \in Seq(FrameSet) :
    /\ work' = SubSeq(work, 1, m) \o s /\ Goes(s)
    /\ \A i \in 1 .. Len(work) : i \notin 1 .. m => work[i].op # "killed"

\* Such frames, one or two of them or none.
LEMMA GoesSeqs ==
  /\ Goes(<<>>)
  /\ \A a : Plain(a) => Goes(<<a>>)
  /\ \A a, b : Plain(a) /\ Plain(b) => Goes(<<a, b>>)
<1>1. Goes(<<>>)
  BY DEF Goes
<1>2. ASSUME NEW a, Plain(a) PROVE Goes(<<a>>)
  <2>1. a \in FrameSet
    BY <1>2 DEF Plain
  <2>2. <<a>> \in Seq(FrameSet) /\ Len(<<a>>) = 1 /\ <<a>>[1] = a
    BY ONLY <2>1
  <2>3. \A i \in 1 .. Len(<<a>>) : <<a>>[i] = a
    BY ONLY <2>2
  <2> QED BY ONLY <1>2, <2>2, <2>3, Zenon DEF Goes
<1>3. ASSUME NEW a, NEW b, Plain(a), Plain(b) PROVE Goes(<<a, b>>)
  <2>1. a \in FrameSet /\ b \in FrameSet
    BY <1>3 DEF Plain
  <2>2. <<a, b>> \in Seq(FrameSet) /\ Len(<<a, b>>) = 2 /\ <<a, b>>[1] = a /\ <<a, b>>[2] = b
    BY ONLY <2>1
  <2>3. \A i \in 1 .. Len(<<a, b>>) : <<a, b>>[i] = a \/ <<a, b>>[i] = b
    BY ONLY <2>2
  <2>4. \A i \in 1 .. Len(<<a, b>>) : Plain(<<a, b>>[i])
    BY ONLY <1>3, <2>3
  <2> QED BY ONLY <2>2, <2>4, Zenon DEF Goes
<1> QED BY <1>1, <1>2, <1>3

\* The dying stay the same, and what the frames are about exists.
LEMMA GoesOnIs ==
  ASSUME LInv, GoesOn, \A i \in 1 .. Len(work) : Exists(proc, job, work[i].what)
  PROVE  Dying(work') = Dying(work) /\ \A i \in 1 .. Len(work') : Exists(proc, job, work'[i].what)
<1>1. PICK m \in 0 .. Len(work), s \in Seq(FrameSet) :
        /\ work' = SubSeq(work, 1, m) \o s
        /\ \A i \in 1 .. Len(work) : i \notin 1 .. m => work[i].op # "killed"
        /\ \A i \in 1 .. Len(s) : s[i].op # "killed" /\ Exists(proc, job, s[i].what)
  BY DEF GoesOn, Goes, Plain
<1>2. work \in Seq(FrameSet)
  BY DEF LInv, LifeTyped
<1>3. IsRestacked(work, m, s, work')
  BY ONLY <1>1, <1>2, Restacked, Zenon
<1>4. /\ work' \in Seq(FrameSet) /\ Len(work') = m + Len(s)
      /\ \A i \in 1 .. m : work'[i] = work[i]
      /\ \A i \in 1 .. Len(work') : i \notin 1 .. m => i - m \in 1 .. Len(s) /\ work'[i] = s[i - m]
  BY <1>3 DEF IsRestacked
<1>5. \A i \in 1 .. m : i \in 1 .. Len(work) /\ i \in 1 .. Len(work')
  BY <1>2, <1>4
<1>6. \A i \in 1 .. Len(work') : work'[i].op = "killed" => i \in 1 .. Len(work) /\ work'[i] = work[i]
  BY <1>1, <1>4, <1>5
<1>7. \A i \in 1 .. Len(work) : work[i].op = "killed" => i \in 1 .. Len(work') /\ work'[i] = work[i]
  BY <1>1, <1>4, <1>5
<1>8. Dying(work') = Dying(work)
  BY ONLY <1>6, <1>7 DEF Dying, IsKilled
<1>9. \A i \in 1 .. Len(work') : Exists(proc, job, work'[i].what)
  <2> SUFFICES ASSUME NEW i \in 1 .. Len(work') PROVE Exists(proc, job, work'[i].what)
    OBVIOUS
  <2>1. CASE i \in 1 .. m
    <3>1. work'[i] = work[i] /\ i \in 1 .. Len(work)
      BY <1>4, <1>5, <2>1
    <3> QED BY <3>1
  <2>2. CASE i \notin 1 .. m
    <3>1. work'[i] = s[i - m] /\ i - m \in 1 .. Len(s)
      BY <1>4, <2>2
    <3> QED BY <1>1, <3>1
  <2> QED BY <2>1, <2>2
<1> QED BY <1>8, <1>9

\* The last frame, not of a death, returns, or is followed by such frames.
LEMMA GoesOnReturn ==
  ASSUME LInv, work # <<>>, Top.op # "killed", NEW s, Goes(s), work' = Return \o s
  PROVE  GoesOn
<1>1. work \in Seq(FrameSet)
  BY DEF LInv, LifeTyped
<1>2. /\ Len(work) - 1 \in 0 .. Len(work) /\ Return = SubSeq(work, 1, Len(work) - 1)
      /\ \A i \in 1 .. Len(work) : i \notin 1 .. Len(work) - 1 => work[i].op # "killed"
  BY <1>1, TopIs
<1> QED BY <1>2 DEF GoesOn, Goes

\* Frames that are not of a death are called.
LEMMA GoesOnCall ==
  ASSUME LInv, NEW s, Goes(s), work' = Call(s)
  PROVE  GoesOn
<1>1. work \in Seq(FrameSet)
  BY DEF LInv, LifeTyped
<1>2. /\ Len(work) \in 0 .. Len(work) /\ work = SubSeq(work, 1, Len(work))
  BY <1>1
<1> QED BY <1>2 DEF GoesOn, Goes, Call

\* The stack stays, or the call of a request that leads to one is the first frame.
LEMMA GoesOnSame ==
  ASSUME LInv
  PROVE  /\ work' = work => GoesOn
         /\ work # <<>> /\ work' = Return /\ Top.op # "killed" => GoesOn
         /\ \A g : work = <<>> /\ work' = <<g>> /\ Plain(g) => GoesOn
<1>1. work \in Seq(FrameSet)
  BY DEF LInv, LifeTyped
<1>2. Goes(<<>>) /\ \A g : Plain(g) => Goes(<<g>>)
  BY GoesSeqs
<1>3. ASSUME work' = work PROVE GoesOn
  <2>1. work' = Call(<<>>)
    BY <1>1, <1>3 DEF Call
  <2> QED BY <1>2, <2>1, GoesOnCall
<1>4. ASSUME work # <<>>, work' = Return, Top.op # "killed" PROVE GoesOn
  <2>1. work' = Return \o <<>>
    BY <1>1, <1>4, TopIs
  <2> QED BY <1>2, <1>4, <2>1, GoesOnReturn
<1>5. ASSUME NEW g, work = <<>>, work' = <<g>>, Plain(g) PROVE GoesOn
  <2>1. <<>> \o <<g>> = <<g>>
    <3>1. g \in FrameSet
      BY <1>5 DEF Plain
    <3> QED BY ONLY <3>1
  <2>2. work' = Call(<<g>>)
    BY <1>5, <2>1 DEF Call
  <2> QED BY <1>2, <1>5, <2>2, GoesOnCall
<1> QED BY <1>3, <1>4, <1>5

-----------------------------------------------------------------------------
(* The steps that leave the jobs as they are.                              *)

JobsStay ==
  \A k \in Jobs :
    /\ job'[k].parent = job[k].parent /\ job'[k].list = job[k].list /\ job'[k].children = job[k].children
    /\ job'[k].num = job[k].num /\ job'[k].used = job[k].used
    /\ job[k].made => job'[k].made
    /\ ~job'[k].made => job'[k] = UnusedJob
ProcsStay ==
  \A p \in Procs :
    /\ proc'[p].job = proc[p].job /\ (proc'[p].made <=> proc[p].made) /\ (proc[p].ended => proc'[p].ended)
    /\ ~proc'[p].made => proc'[p] = NoProcess
LivesStay ==
  \A p \in Procs : proc'[p].threads > 0 \/ (proc'[p].info /\ ~proc'[p].ended)
                    <=> proc[p].threads > 0 \/ (proc[p].info /\ ~proc[p].ended)
HandlesStay ==
  \A c \in Procs : \A t \in handles'[c] :
    t \in handles[c] \/ (Exists(proc, job', t) /\ \A p \in Procs : t = Process(p) => ~Stillborn(p))

\* What stays the same.
LEMMA Stays ==
  ASSUME JInv
  PROVE  /\ proc' = proc => ProcsStay /\ LivesStay
         /\ job' = job => JobsStay
         /\ handles' = handles => HandlesStay
         /\ (\A c \in Procs : handles'[c] \subseteq handles[c]) => HandlesStay
<1>1. (\A p \in Procs : ~proc[p].made => proc[p] = NoProcess) /\ \A k \in Jobs : ~job[k].made => job[k] = UnusedJob
  BY DEF JInv, JobsOK, Links
<1>2. proc' = proc => ProcsStay /\ LivesStay
  BY <1>1 DEF ProcsStay, LivesStay
<1>3. job' = job => JobsStay
  BY <1>1 DEF JobsStay
<1> QED BY <1>2, <1>3 DEF HandlesStay

\* If the processes that the jobs count stay, the invariant does.
LEMMA StayKeeps ==
  ASSUME LInv, LInv', JInv, Lives(proc', work') = Lives(proc, work), JobsStay, ProcsStay, HandlesStay,
         \A i \in 1 .. Len(work') : Exists(proc, job, work'[i].what), asserted' = asserted
  PROVE  JInv'
<1> DEFINE C == Lives(proc, work)
<1>1. Rooted(job) /\ Rooted(job') /\ \A p \in Procs : proc[p].job \in Jobs \cup {NoJob}
  BY DEF LInv, LifeTyped, Rooted, JobRec, ProcRec
<1>2. \A k \in Jobs : job[k].parent \in Jobs \cup {NoJob}
  BY <1>1 DEF Rooted
<1>3. \A x \in Jobs \cup {NoJob} : Above(job', x) = Above(job, x)
  <2>1. \A x : Above(job, x) \subseteq Jobs
    BY DEF Above
  <2> QED BY <1>1, <2>1, AboveSame DEF JobsStay
<1>4. Forest(job) /\ Lists(proc, job) /\ Links(proc, job) /\ Nums(proc, job, C)
  BY DEF JInv, JobsOK
<1>5. Forest(job')
  BY <1>2, <1>3, <1>4 DEF Forest, JobsStay
<1>6. Lists(proc', job')
  BY <1>4 DEF Lists, JobsStay, ProcsStay
<1>7. Links(proc', job')
  <2>1. \A p \in Procs : proc'[p].job # NoJob =>
          proc'[p].made /\ job'[proc'[p].job].made /\ job'[proc'[p].job].used
    BY <1>1, <1>4 DEF Links, JobsStay, ProcsStay
  <2>2. \A k \in Jobs : job'[k].parent # NoJob =>
          job'[k].made /\ job'[job'[k].parent].made /\ job'[job'[k].parent].used
    BY <1>2, <1>4 DEF Links, JobsStay
  <2> QED BY <2>1, <2>2 DEF Links, JobsStay
<1>8. Nums(proc', job', C)
  <2>1. \A j \in Jobs : Below(proc', job', C, j) = Below(proc, job, C, j)
    <3>1. C \subseteq Procs
      BY DEF Lives
    <3>2. \A p \in Procs : Above(job', proc'[p].job) = Above(job, proc[p].job)
      BY <1>1, <1>3 DEF ProcsStay
    <3> QED BY <3>1, <3>2 DEF Below
  <2> QED BY <1>4, <2>1 DEF Nums, JobsStay
<1>9. JobsOK(proc', job', Lives(proc', work'))
  BY <1>5, <1>6, <1>7, <1>8 DEF JobsOK
<1>10. \A t : Exists(proc, job, t) => Exists(proc', job', t)
  BY DEF Exists, JobsStay, ProcsStay
<1>11. \A t : Exists(proc, job', t) => Exists(proc', job', t)
  BY DEF Exists, ProcsStay
<1>12. \A c \in Procs : \A t \in handles'[c] : Exists(proc', job', t)
  BY <1>10, <1>11 DEF HandlesStay, JInv
<1>13. \A p \in Procs : Stillborn(p)' => Stillborn(p)
  BY DEF Stillborn, ProcsStay
<1>14. \A p \in Procs : Stillborn(p)' => \A c \in Procs : Process(p) \notin handles'[c]
  BY <1>13 DEF HandlesStay, JInv
<1> QED BY <1>9, <1>10, <1>12, <1>14 DEF JInv, ProcsStay

\* They do, where nothing dies and no process starts or stops to count.
LEMMA GoesOnKeeps ==
  ASSUME LInv, LInv', JInv, GoesOn, JobsStay, ProcsStay, LivesStay, HandlesStay, asserted' = asserted
  PROVE  JInv'
<1>1. Dying(work') = Dying(work) /\ \A i \in 1 .. Len(work') : Exists(proc, job, work'[i].what)
  BY GoesOnIs DEF JInv
<1>2. Lives(proc', work') = Lives(proc, work)
  BY <1>1 DEF Lives, LivesStay
<1> QED BY <1>1, <1>2, StayKeeps

\* What a frame or a handle is about exists.
LEMMA TopExists ==
  ASSUME LInv, JInv, work # <<>>
  PROVE  /\ Top \in FrameSet /\ Exists(proc, job, Top.what)
         /\ \A p \in Procs : Top.what = Process(p) => proc[p].made /\ Top.what[2] = p
         /\ \A j \in Jobs : Top.what = Job(j) => job[j].made /\ Top.what[2] = j
         /\ Top.op \in OfProcess => \E p \in Procs : Top.what = Process(p)
         /\ Top.op \in OfJob => \E j \in Jobs : Top.what = Job(j)
<1>1. work \in Seq(FrameSet)
  BY DEF LInv, LifeTyped
<1>2. Len(work) \in 1 .. Len(work) /\ Top = work[Len(work)] /\ Top \in FrameSet
  BY <1>1, TopIs
<1>3. Exists(proc, job, Top.what)
  BY <1>2 DEF JInv
<1>4. /\ \A p \in Procs : Top.what = Process(p) => proc[p].made /\ Top.what[2] = p
      /\ \A j \in Jobs : Top.what = Job(j) => job[j].made /\ Top.what[2] = j
  BY <1>3 DEF Exists, Process, Job
<1> QED BY <1>2, <1>3, <1>4 DEF FrameSet, FrameOK

\* The frames that are called.
LEMMA PlainIs ==
  ASSUME LInv
  PROVE  /\ \A o \in OfProcess, p \in Procs : o # "killed" /\ proc[p].made => Plain(Frame(o, Process(p)))
         /\ \A o \in OfProcess, p \in Procs, a \in Targets : o # "killed" /\ proc[p].made =>
              Plain([Frame(o, Process(p)) EXCEPT !.at = a])
         /\ \A o \in OfProcess, p \in Procs, sk \in BOOLEAN : o # "killed" /\ proc[p].made =>
              Plain([Frame(o, Process(p)) EXCEPT !.skip = sk])
         /\ \A j \in Jobs : job[j].made => Plain(TerminateJob(j))
         /\ \A j \in Jobs : job[j].made => Plain([Frame("terminateMembers", Job(j)) EXCEPT !.at = Begin(job[j].list)])
         /\ Plain(Frame("killAll", <<"server">>))
<1>1. \A o, w, a, sk : /\ Frame(o, w).what = w /\ [Frame(o, w) EXCEPT !.at = a].what = w
                       /\ [Frame(o, w) EXCEPT !.skip = sk].what = w
  BY DEF Frame
<1>2. LifeTyped /\ "killAll" # "killed" /\ "terminateChildren" # "killed" /\ "terminateMembers" # "killed"
  BY DEF LInv
<1>3. \A o \in OfProcess, p \in Procs : o # "killed" /\ proc[p].made =>
        Plain(Frame(o, Process(p)))
  <2> SUFFICES ASSUME NEW o \in OfProcess, NEW p \in Procs, o # "killed", proc[p].made
               PROVE  Plain(Frame(o, Process(p)))
    OBVIOUS
  <2> DEFINE g == Frame(o, Process(p))
  <2>1. g \in FrameSet /\ g.op = o
    BY FramesTyped, Zenon
  <2>2. g.what = Process(p)
    BY <1>1
  <2> HIDE DEF g
  <2>3. Plain(g)
    BY <2>1, <2>2, ExistsIs DEF Plain
  <2> QED BY <2>3 DEF g
<1>4. \A o \in OfProcess, p \in Procs, a \in Targets : o # "killed" /\ proc[p].made =>
        Plain([Frame(o, Process(p)) EXCEPT !.at = a])
  <2> SUFFICES ASSUME NEW o \in OfProcess, NEW p \in Procs, NEW a \in Targets, o # "killed", proc[p].made
               PROVE  Plain([Frame(o, Process(p)) EXCEPT !.at = a])
    OBVIOUS
  <2> DEFINE g == [Frame(o, Process(p)) EXCEPT !.at = a]
  <2>1. g \in FrameSet /\ g.op = o
    <3>1. \A b \in Targets : /\ [Frame(o, Process(p)) EXCEPT !.at = b] \in FrameSet
                          /\ [Frame(o, Process(p)) EXCEPT !.at = b].op = o
      BY ONLY o \in OfProcess, p \in Procs, FramesTyped, Zenon
    <3> QED BY ONLY <3>1, a \in Targets, Zenon
  <2>2. g.what = Process(p)
    BY <1>1
  <2> HIDE DEF g
  <2>3. Plain(g)
    BY <2>1, <2>2, ExistsIs DEF Plain
  <2> QED BY <2>3 DEF g
<1>5. \A o \in OfProcess, p \in Procs, sk \in BOOLEAN : o # "killed" /\ proc[p].made =>
        Plain([Frame(o, Process(p)) EXCEPT !.skip = sk])
  <2> SUFFICES ASSUME NEW o \in OfProcess, NEW p \in Procs, NEW sk \in BOOLEAN, o # "killed", proc[p].made
               PROVE  Plain([Frame(o, Process(p)) EXCEPT !.skip = sk])
    OBVIOUS
  <2> DEFINE g == [Frame(o, Process(p)) EXCEPT !.skip = sk]
  <2>1. g \in FrameSet /\ g.op = o
    <3>1. \A b \in BOOLEAN : /\ [Frame(o, Process(p)) EXCEPT !.skip = b] \in FrameSet
                          /\ [Frame(o, Process(p)) EXCEPT !.skip = b].op = o
      BY ONLY o \in OfProcess, p \in Procs, FramesTyped, Zenon
    <3> QED BY ONLY <3>1, sk \in BOOLEAN, Zenon
  <2>2. g.what = Process(p)
    BY <1>1
  <2> HIDE DEF g
  <2>3. Plain(g)
    BY <2>1, <2>2, ExistsIs DEF Plain
  <2> QED BY <2>3 DEF g
<1>6. \A j \in Jobs : job[j].made => Plain(TerminateJob(j))
  <2> SUFFICES ASSUME NEW j \in Jobs, job[j].made PROVE Plain(TerminateJob(j))
    OBVIOUS
  <2>1. TerminateJob(j) \in FrameSet /\ TerminateJob(j).op = "terminateChildren"
    BY <1>2, TerminateJobIs
  <2>2. TerminateJob(j).what = Job(j)
    BY <1>1 DEF TerminateJob
  <2> QED BY <1>2, <2>1, <2>2, ExistsIs DEF Plain
<1>7. \A j \in Jobs : job[j].made => Plain([Frame("terminateMembers", Job(j)) EXCEPT !.at = Begin(job[j].list)])
  <2> SUFFICES ASSUME NEW j \in Jobs, job[j].made
               PROVE  Plain([Frame("terminateMembers", Job(j)) EXCEPT !.at = Begin(job[j].list)])
    OBVIOUS
  <2>1. Begin(job[j].list) \in Procs \cup {Nothing}
    BY <1>2, EntriesOf DEF LifeTyped, JobRec
  <2> DEFINE g == [Frame("terminateMembers", Job(j)) EXCEPT !.at = Begin(job[j].list)]
  <2>2. g \in FrameSet /\ g.op = "terminateMembers"
    BY <2>1, FramesTyped, Zenon
  <2>3. g.what = Job(j)
    BY <1>1
  <2> HIDE DEF g
  <2>4. Plain(g)
    BY <1>2, <2>2, <2>3, ExistsIs DEF Plain
  <2> QED BY <2>4 DEF g
<1>8. Plain(Frame("killAll", <<"server">>))
  BY <1>1, <1>2, FramesTyped, ExistsIs DEF Plain
<1> QED BY <1>3, <1>4, <1>5, <1>6, <1>7, <1>8

\* Only the stack changes.
LEMMA FramesKeep ==
  ASSUME LInv, LInv', JInv, GoesOn, UNCHANGED <<proc, job, handles, asserted>>
  PROVE  JInv'
BY Stays, GoesOnKeeps

\* A loop that goes on is about what it was about.
LEMMA StepPlain ==
  ASSUME LInv, JInv, work # <<>>, Top.op # "killed", NEW a, [Top EXCEPT !.at = a] \in FrameSet
  PROVE  Plain([Top EXCEPT !.at = a])
<1>1. Top \in AnyFrame /\ Exists(proc, job, Top.what)
  BY TopExists DEF FrameSet
<1>2. [Top EXCEPT !.at = a].op = Top.op /\ [Top EXCEPT !.at = a].what = Top.what
  BY <1>1 DEF AnyFrame
<1> QED BY <1>1, <1>2 DEF Plain

\* terminate_job goes on to a job below, or to the processes of the job.
LEMMA TerminateChildrenKeeps ==
  ASSUME LInv, LInv', JInv, work # <<>>, TerminateChildren(Top)
  PROVE  JInv'
<1>1. LifeTyped /\ work \in Seq(FrameSet)
  BY DEF LInv, LifeTyped
<1>2. Top \in FrameSet /\ Top.op = "terminateChildren" /\ Top.op # "killed" /\ Top.op \in OfJob
  BY <1>1, TopIs DEF TerminateChildren, OfJob
<1>3. PICK j \in Jobs : Top.what = Job(j) /\ Top.what[2] = j /\ job[j].made
  BY <1>2, TopExists
<1>4. Top.at \in Jobs \cup {Nothing}
  BY <1>2 DEF FrameSet, FrameOK
<1> DEFINE step == [Top EXCEPT !.at = NextIn(job[j].children, Top.at)]
           members == [Frame("terminateMembers", Job(j)) EXCEPT !.at = Begin(job[j].list)]
<1>5. Plain(step)
  <2>1. NextIn(job[j].children, Top.at) \in Jobs \cup {Nothing}
    BY <1>1, EntriesOf DEF LifeTyped, JobRec
  <2>2. step \in FrameSet
    BY <1>2, <2>1, StepTyped
  <2> QED BY <1>2, <2>2, StepPlain
<1>6. Plain(members)
  BY <1>3, PlainIs
<1>7. \/ work' = work
      \/ work' = Append(Return, members)
      \/ Top.at \in Jobs /\ job[Top.at].made /\ work' = Return \o <<step, TerminateJob(Top.at)>>
  BY <1>3, <1>4 DEF TerminateChildren, Gone
<1>8. UNCHANGED <<proc, job, handles, asserted>>
  BY DEF TerminateChildren
<1> HIDE DEF step, members
<1>9. GoesOn
  <2>1. CASE work' = work
    BY <2>1, GoesOnSame
  <2>2. CASE work' = Append(Return, members)
    <3>1. Return \in Seq(FrameSet)
      BY <1>1, TopIs
    <3>2. work' = Return \o <<members>>
      BY <2>2, <3>1
    <3> QED BY <1>2, <1>6, <3>2, GoesSeqs, GoesOnReturn
  <2>3. CASE Top.at \in Jobs /\ job[Top.at].made /\ work' = Return \o <<step, TerminateJob(Top.at)>>
    <3>1. Goes(<<step, TerminateJob(Top.at)>>)
      BY <1>5, <2>3, PlainIs, GoesSeqs
    <3> QED BY <1>2, <2>3, <3>1, GoesOnReturn
  <2> QED BY <1>7, <2>1, <2>2, <2>3
<1> QED BY <1>8, <1>9, FramesKeep

\* terminate_job goes on to a process of the job; in the end the job is signaled.
LEMMA TerminateMembersKeeps ==
  ASSUME LInv, LInv', JInv, work # <<>>, TerminateMembers(Top)
  PROVE  JInv'
<1>1. LifeTyped /\ work \in Seq(FrameSet)
  BY DEF LInv, LifeTyped
<1>2. Top \in FrameSet /\ Top.op = "terminateMembers" /\ Top.op # "killed" /\ Top.op \in OfJob
  BY <1>1, TopIs DEF TerminateMembers, OfJob
<1>3. PICK j \in Jobs : Top.what = Job(j) /\ Top.what[2] = j /\ job[j].made
  BY <1>2, TopExists
<1>4. Top.at \in Procs \cup {Nothing}
  BY <1>2 DEF FrameSet, FrameOK
<1> DEFINE step == [Top EXCEPT !.at = NextIn(job[j].list, Top.at)]
           kill == Frame("terminate", Process(Top.at))
<1>5. Plain(step)
  <2>1. NextIn(job[j].list, Top.at) \in Procs \cup {Nothing}
    BY <1>1, EntriesOf DEF LifeTyped, JobRec
  <2>2. step \in FrameSet
    BY <1>2, <2>1, StepTyped
  <2> QED BY <1>2, <2>2, StepPlain
<1>6. \/ work' = work \/ work' = Return
      \/ Top.at \in Procs /\ proc[Top.at].made /\ \/ work' = Return \o <<step, kill>>
                                                  \/ work' = Return \o <<step>>
  BY <1>3, <1>4 DEF TerminateMembers, Gone
<1>7. job' = job \/ job' = [job EXCEPT ![j].signaled = TRUE]
  BY <1>3 DEF TerminateMembers
<1>8. UNCHANGED <<proc, handles, asserted>>
  BY DEF TerminateMembers
<1> HIDE DEF step, kill
<1>9. GoesOn
  <2>1. CASE work' = work
    BY <2>1, GoesOnSame
  <2>2. CASE work' = Return
    BY <1>2, <2>2, GoesOnSame
  <2>3. CASE Top.at \in Procs /\ proc[Top.at].made /\ work' = Return \o <<step, kill>>
    <3>1. Plain(kill)
      <4>1. "terminate" \in OfProcess /\ "terminate" # "killed"
        BY DEF OfProcess
      <4> QED BY <2>3, <4>1, PlainIs DEF kill
    <3>2. Goes(<<step, kill>>)
      BY <1>5, <3>1, GoesSeqs
    <3> QED BY <1>2, <2>3, <3>2, GoesOnReturn
  <2>4. CASE work' = Return \o <<step>>
    <3>1. Goes(<<step>>)
      BY <1>5, GoesSeqs
    <3> QED BY <1>2, <2>4, <3>1, GoesOnReturn
  <2> QED BY <1>6, <2>1, <2>2, <2>3, <2>4
<1>10. JobsStay
  <2>1. CASE job' = job
    BY <2>1, Stays
  <2>2. CASE job' = [job EXCEPT ![j].signaled = TRUE]
    <3>1. job \in [Jobs -> JobRec] /\ job[j] \in JobRec /\ \A k \in Jobs : ~job[k].made => job[k] = UnusedJob
      BY <1>1 DEF LifeTyped, JInv, JobsOK, Links
    <3>2. job'[j] = [job[j] EXCEPT !.signaled = TRUE] /\ \A k \in Jobs : k # j => job'[k] = job[k]
      BY <2>2, <3>1
    <3>3. /\ job'[j].parent = job[j].parent /\ job'[j].list = job[j].list /\ job'[j].children = job[j].children
          /\ job'[j].num = job[j].num /\ job'[j].used = job[j].used /\ job'[j].made = job[j].made
      BY <3>1, <3>2 DEF JobRec
    <3> QED BY ZenonT(40), <1>3, <3>1, <3>2, <3>3 DEF JobsStay
  <2> QED BY <1>7, <2>1, <2>2
<1> QED BY <1>8, <1>9, <1>10, Stays, GoesOnKeeps

\* One field of a process changes, which neither the jobs nor the lives depend on.
LEMMA FieldStays ==
  ASSUME LInv, JInv, NEW p \in Procs, NEW r \in ProcRec, proc' = [proc EXCEPT ![p] = r], r.made, proc[p].made,
         r.job = proc[p].job, proc[p].ended => r.ended,
         r.threads > 0 \/ (r.info /\ ~r.ended) <=> proc[p].threads > 0 \/ (proc[p].info /\ ~proc[p].ended)
  PROVE  ProcsStay /\ LivesStay
<1>1. proc'[p] = r /\ \A q \in Procs : q # p => proc'[q] = proc[q]
  BY OneProcess DEF LInv
<1>2. \A q \in Procs : ~proc[q].made => proc[q] = NoProcess
  BY DEF JInv
<1> QED BY <1>1, <1>2 DEF ProcsStay, LivesStay

\* terminate_process calls kill_thread as long as there is a thread to kill.
LEMMA TerminateKeeps ==
  ASSUME LInv, LInv', JInv, work # <<>>, Terminate(Top)
  PROVE  JInv'
<1>1. LifeTyped /\ work \in Seq(FrameSet)
  BY DEF LInv, LifeTyped
<1>2. Top \in FrameSet /\ Top.op = "terminate" /\ Top.op # "killed" /\ Top.op \in OfProcess
  BY <1>1, TopIs DEF Terminate, OfProcess
<1>3. PICK p \in Procs : Top.what = Process(p) /\ Top.what[2] = p /\ proc[p].made
  BY <1>2, TopExists
<1> DEFINE r == [proc[p] EXCEPT !.is_terminating = TRUE]
<1>4. proc[p] \in ProcRec /\ proc \in [Procs -> ProcRec]
  BY <1>1 DEF LifeTyped
<1>5. r \in ProcRec /\ r.made = proc[p].made /\ r.job = proc[p].job /\ r.ended = proc[p].ended
      /\ r.threads = proc[p].threads /\ r.info = proc[p].info
  BY <1>4 DEF ProcRec
<1>6. proc' = [proc EXCEPT ![p] = r]
  BY <1>3, <1>4 DEF Terminate
<1> HIDE DEF r
<1>7. ProcsStay /\ LivesStay
  BY <1>3, <1>5, <1>6, FieldStays
<1>8. UNCHANGED <<job, handles, asserted>>
  BY DEF Terminate
<1>9. work' = Return \/ work' = Call(<<Frame("killThread", Top.what)>>)
  BY DEF Terminate
<1>10. GoesOn
  <2>1. CASE work' = Return
    BY <1>2, <2>1, GoesOnSame
  <2>2. CASE work' = Call(<<Frame("killThread", Top.what)>>)
    <3>1. "killThread" \in OfProcess /\ "killThread" # "killed"
      BY DEF OfProcess
    <3>2. Plain(Frame("killThread", Top.what))
      BY <1>3, <3>1, PlainIs
    <3> QED BY <2>2, <3>2, GoesSeqs, GoesOnCall
  <2> QED BY <1>9, <2>1, <2>2
<1> QED BY <1>7, <1>8, <1>10, Stays, GoesOnKeeps

\* The handles of a process are closed, or a job is terminated first.
LEMMA CloseHandlesKeeps ==
  ASSUME LInv, LInv', JInv, work # <<>>, CloseHandles(Top)
  PROVE  JInv'
<1>1. LifeTyped /\ work \in Seq(FrameSet)
  BY DEF LInv, LifeTyped
<1>2. Top \in FrameSet /\ Top.op = "close" /\ Top.op # "killed" /\ Top.op \in OfProcess
  BY <1>1, TopIs DEF CloseHandles, OfProcess
<1>3. PICK p \in Procs : Top.what = Process(p) /\ Top.what[2] = p /\ proc[p].made
  BY <1>2, TopExists
<1>4. handles \in [Procs -> SUBSET Targets] /\ handles[p] \subseteq Targets
  BY <1>1 DEF LifeTyped
<1>5. \/ handles' = [handles EXCEPT ![p] = {}] /\ work' = Return
      \/ \E t \in handles[p], others \in {{}, handles[p] \ ({x \in handles[p] : KillsOnClose(x)} \ {Top.at})} :
           /\ KillsOnClose(t) /\ handles' = [handles EXCEPT ![p] = @ \ (others \cup {Top.at})]
           /\ work' = Return \o <<[Top EXCEPT !.at = t], TerminateJob(t[2])>>
  BY <1>3 DEF CloseHandles
<1>6. HandlesStay
  <2>1. \A c \in Procs : handles'[c] \subseteq handles[c]
    BY <1>4, <1>5
  <2> QED BY <2>1, Stays
<1>7. UNCHANGED <<proc, job, asserted>>
  BY DEF CloseHandles
<1>8. GoesOn
  <2>1. CASE work' = Return
    BY <1>2, <2>1, GoesOnSame
  <2>2. ASSUME NEW t \in handles[p], KillsOnClose(t), work' = Return \o <<[Top EXCEPT !.at = t], TerminateJob(t[2])>>
        PROVE  GoesOn
    <3> DEFINE step == [Top EXCEPT !.at = t]
    <3>1. t \in Targets /\ t[1] = "job" /\ Exists(proc, job, t)
      BY <1>4, <2>2 DEF KillsOnClose, JInv
    <3>2. PICK j \in Jobs : t = Job(j)
      BY <3>1 DEF Targets, Process
    <3>3. t[2] = j /\ job[j].made
      BY <3>1, <3>2 DEF Job, Exists
    <3>4. step \in FrameSet
      BY <1>2, <3>1, StepTyped
    <3>5. Plain(step)
      BY <1>2, <3>4, StepPlain
    <3> HIDE DEF step
    <3>6. Goes(<<step, TerminateJob(j)>>)
      BY <3>3, <3>5, PlainIs, GoesSeqs
    <3>7. work' = Return \o <<step, TerminateJob(j)>>
      BY <2>2, <3>3 DEF step
    <3> QED BY <1>2, <3>6, <3>7, GoesOnReturn
  <2> QED BY <1>5, <2>1, <2>2
<1> QED BY <1>6, <1>7, <1>8, Stays, GoesOnKeeps

\* A close request comes to its end.
LEMMA CloseOneKeeps ==
  ASSUME LInv, LInv', JInv, work # <<>>, CloseOne(Top)
  PROVE  JInv'
<1>1. handles \in [Procs -> SUBSET Targets] /\ Top.op # "killed"
  BY DEF LInv, LifeTyped, CloseOne
<1>2. handles' = [handles EXCEPT ![Top.what[2]] = @ \ {Top.at}]
  BY DEF CloseOne
<1>3. \A c \in Procs : handles'[c] \subseteq handles[c]
  BY <1>1, <1>2
<1>4. GoesOn
  BY <1>1, GoesOnSame DEF CloseOne
<1> QED BY <1>3, <1>4, Stays, GoesOnKeeps DEF CloseOne

\* kill_all_processes goes on to a process with threads, or comes to its end.
LEMMA KillAllKeeps ==
  ASSUME LInv, LInv', JInv, work # <<>>, KillAll(Top)
  PROVE  JInv'
<1>1. Top.op # "killed" /\ UNCHANGED <<proc, job, handles, asserted>>
  BY DEF KillAll
<1>2. CASE \E p \in Procs : proc[p].threads > 0 /\ work' = Call(<<Frame("terminate", Process(p))>>)
  <2>1. PICK p \in Procs : proc[p].threads > 0 /\ work' = Call(<<Frame("terminate", Process(p))>>)
    BY <1>2
  <2>2. proc[p].made
    BY <2>1 DEF LInv, LifeOK
  <2>3. "terminate" \in OfProcess /\ "terminate" # "killed"
    BY DEF OfProcess
  <2>4. Plain(Frame("terminate", Process(p)))
    BY <2>2, <2>3, PlainIs
  <2> QED BY <1>1, <2>1, <2>4, GoesSeqs, GoesOnCall, FramesKeep
<1>3. CASE work' = Return
  BY <1>1, <1>3, GoesOnSame, FramesKeep
<1> QED BY <1>2, <1>3 DEF KillAll

\* The last thread's death is followed by that of its process.
LEMMA DyingMore ==
  ASSUME LInv, work # <<>>, Top.op # "killed", NEW p \in Procs,
         work' = Return \o <<Frame("killed", Process(p)), Frame("close", Process(p))>>
  PROVE  /\ Dying(work') = Dying(work) \cup {p}
         /\ \A i \in 1 .. Len(work') : \/ work'[i].what = Process(p)
                                       \/ \E k \in 1 .. Len(work) : work'[i].what = work[k].what
<1> DEFINE s == <<Frame("killed", Process(p)), Frame("close", Process(p))>>
           m == Len(work) - 1
<1>1. work \in Seq(FrameSet)
  BY DEF LInv, LifeTyped
<1>2. /\ Len(work) \in Nat /\ Len(work) > 0 /\ m \in 0 .. Len(work) /\ Top = work[Len(work)]
      /\ work' = SubSeq(work, 1, m) \o s
  BY <1>1, TopIs
<1>3. /\ Frame("killed", Process(p)) \in FrameSet /\ Frame("killed", Process(p)).op = "killed"
      /\ Frame("close", Process(p)) \in FrameSet /\ Frame("close", Process(p)).op = "close"
      /\ Frame("killed", Process(p)).what = Process(p) /\ Frame("close", Process(p)).what = Process(p)
  <2>1. Frame("killed", Process(p)).what = Process(p) /\ Frame("close", Process(p)).what = Process(p)
    BY DEF Frame
  <2> QED BY <2>1, FramesTyped DEF OfProcess
<1>4. /\ s \in Seq(FrameSet) /\ Len(s) = 2 /\ s[1].op = "killed" /\ s[1].what = Process(p) /\ s[2].op = "close"
      /\ s[2].what = Process(p)
  BY <1>3
<1> HIDE DEF s
<1>5. /\ work' \in Seq(FrameSet) /\ Len(work') = m + 2
      /\ \A i \in 1 .. m : work'[i] = work[i]
      /\ work'[m + 1] = s[1] /\ work'[m + 2] = s[2]
  <2>1. IsRestacked(work, m, s, work')
    BY ONLY <1>1, <1>2, <1>4, Restacked, Zenon
  <2>2. 1 \in 1 .. 2 /\ 2 \in 1 .. 2
    OBVIOUS
  <2> QED BY <1>4, <2>1, <2>2 DEF IsRestacked
<1>6. /\ \A i \in 1 .. Len(work) : i \in 1 .. m \/ i = Len(work)
      /\ \A i \in 1 .. m : i \in 1 .. Len(work) /\ i \in 1 .. Len(work')
      /\ \A i \in 1 .. Len(work') : i \in 1 .. m \/ i = m + 1 \/ i = m + 2
      /\ m + 1 \in 1 .. Len(work')
  BY <1>2, <1>5
<1> HIDE DEF m
<1>7. \A q : Process(q) = Process(p) => q = p
  BY DEF Process
<1>8. \A q \in Procs, i \in 1 .. Len(work') : IsKilled(work'[i], q) =>
        (i \in 1 .. m /\ IsKilled(work[i], q)) \/ (i = m + 1 /\ q = p)
  BY ZenonT(40), <1>4, <1>5, <1>6, <1>7 DEF IsKilled
<1>9. \A q \in Procs, i \in 1 .. Len(work) : IsKilled(work[i], q) => i \in 1 .. m /\ IsKilled(work'[i], q)
  BY <1>2, <1>5, <1>6 DEF IsKilled
<1>10. IsKilled(work'[m + 1], p)
  BY <1>4, <1>5 DEF IsKilled
<1>11. Dying(work') = Dying(work) \cup {p}
  BY <1>6, <1>8, <1>9, <1>10 DEF Dying
<1>12. \A i \in 1 .. Len(work') : \/ work'[i].what = Process(p)
                                  \/ \E k \in 1 .. Len(work) : work'[i].what = work[k].what
  BY <1>4, <1>5, <1>6
<1> QED BY <1>11, <1>12

\* A thread is killed: its process counts until it has been counted out.
LEMMA KillThreadKeeps ==
  ASSUME LInv, LInv', JInv, work # <<>>, KillThread(Top)
  PROVE  JInv'
<1>1. LifeTyped /\ work \in Seq(FrameSet)
  BY DEF LInv, LifeTyped
<1>2. /\ Top \in FrameSet /\ Top.op = "killThread" /\ Top.op # "killed" /\ Top.op \in OfProcess
      /\ Top = work[Len(work)] /\ Len(work) \in 1 .. Len(work)
  BY <1>1, TopIs DEF KillThread, OfProcess
<1>3. PICK p \in Procs : Top.what = Process(p) /\ Top.what[2] = p /\ proc[p].made
  BY <1>2, TopExists
<1> DEFINE last == proc[p].threads = 1
           r == [proc[p] EXCEPT !.threads = @ - 1, !.ended = @ \/ last]
<1>5. proc[p] \in ProcRec /\ proc \in [Procs -> ProcRec] /\ proc[p].threads \in Nat /\ proc[p].threads > 0
  BY <1>1, <1>2, <1>3 DEF LInv, LifeTyped, ProcRec, KillOK
<1>7. r \in ProcRec /\ r.threads = proc[p].threads - 1 /\ (r.ended <=> proc[p].ended \/ last)
      /\ r.made = proc[p].made /\ r.job = proc[p].job /\ r.info = proc[p].info
  <2> DEFINE n == proc[p].threads - 1  b == proc[p].ended \/ last
  <2>1. n \in Nat /\ b \in BOOLEAN
    BY <1>5
  <2> HIDE DEF n, b, last
  <2>2. /\ [proc[p] EXCEPT !.threads = n, !.ended = b] \in ProcRec
        /\ [proc[p] EXCEPT !.threads = n, !.ended = b].threads = n
        /\ [proc[p] EXCEPT !.threads = n, !.ended = b].ended = b
        /\ [proc[p] EXCEPT !.threads = n, !.ended = b].made = proc[p].made
        /\ [proc[p] EXCEPT !.threads = n, !.ended = b].job = proc[p].job
        /\ [proc[p] EXCEPT !.threads = n, !.ended = b].info = proc[p].info
    BY <1>5, <2>1 DEF ProcRec
  <2> QED BY <2>2 DEF n, b
<1>8. proc' = [proc EXCEPT ![p] = r]
  BY <1>3, <1>5 DEF KillThread
<1> HIDE DEF r
<1>9. UNCHANGED <<job, handles, asserted>>
  BY DEF KillThread
<1>10. CASE ~last
  <2>1. r.threads > 0
    BY <1>5, <1>7, <1>10
  <2>2. ProcsStay /\ LivesStay
    BY <1>3, <1>5, <1>7, <1>8, <1>10, <2>1, FieldStays
  <2>3. work' = Return
    BY <1>3, <1>10 DEF KillThread
  <2> QED BY <1>2, <1>9, <2>2, <2>3, GoesOnSame, Stays, GoesOnKeeps
<1>11. CASE last
  <2>1. work' = Return \o <<Frame("killed", Process(p)), Frame("close", Process(p))>>
    BY <1>3, <1>11 DEF KillThread
  <2>2. /\ Dying(work') = Dying(work) \cup {p}
        /\ \A i \in 1 .. Len(work') : \/ work'[i].what = Process(p)
                                      \/ \E k \in 1 .. Len(work) : work'[i].what = work[k].what
    BY <1>2, <2>1, DyingMore
  <2>3. proc'[p] = r /\ \A q \in Procs : q # p => proc'[q] = proc[q]
    BY <1>1, <1>7, <1>8, OneProcess
  <2>4. Lives(proc', work') = Lives(proc, work)
    BY <1>5, <2>2, <2>3 DEF Lives
  <2>5. ProcsStay
    BY <1>3, <1>7, <2>3 DEF ProcsStay, JInv
  <2>6. \A i \in 1 .. Len(work') : Exists(proc, job, work'[i].what)
    <3>1. \A k \in 1 .. Len(work) : Exists(proc, job, work[k].what)
      BY DEF JInv
    <3>2. Exists(proc, job, Process(p))
      BY <1>3, ExistsIs
    <3> QED BY ONLY <2>2, <3>1, <3>2
  <2> QED BY <1>9, <2>4, <2>5, <2>6, Stays, StayKeeps
<1> QED BY <1>10, <1>11

\* What of the processes the jobs depend on.
LEMMA JobsOf ==
  ASSUME NEW ps, NEW after, NEW jobs, NEW C \in SUBSET Procs, JobsOK(ps, jobs, C),
         \A p \in Procs : after[p].job = ps[p].job /\ (ps[p].made => after[p].made)
  PROVE  JobsOK(after, jobs, C)
<1>1. Lists(after, jobs)
  BY DEF Lists, JobsOK
<1>2. Links(after, jobs)
  BY DEF Links, JobsOK
<1>3. \A j \in Jobs : Below(after, jobs, C, j) = Below(ps, jobs, C, j)
  BY DEF Below
<1> QED BY <1>1, <1>2, <1>3 DEF JobsOK, Nums

\* release_job_process, of any processes and jobs.
Released(ps, jobs, p) ==
  [k \in Jobs |-> IF k \in Above(jobs, ps[p].job) THEN [jobs[k] EXCEPT !.num = @ - 1] ELSE jobs[k]]

\* It leaves the jobs exact for the processes without the one that was counted until then.
LEMMA ReleaseKeeps ==
  ASSUME NEW s \in Pairs, NEW C \in SUBSET Procs, NEW p \in C, JobsOK(s.proc, s.job, C),
         NEW after, after = Released(s.proc, s.job, p)
  PROVE  /\ JobsOK(s.proc, after, C \ {p})
         /\ \A k \in Jobs : after[k].made = s.job[k].made
         /\ \A k \in Above(s.job, s.proc[p].job) : s.job[k].num > 0
<1> DEFINE A == Above(s.job, s.proc[p].job)
<1>1. /\ s.job \in [Jobs -> JobRec] /\ s.proc \in [Procs -> ProcRec] /\ Rooted(s.job)
      /\ \A q \in Procs : s.proc[q].job \in Jobs \cup {NoJob}
      /\ \A k \in Jobs : s.job[k].parent \in Jobs \cup {NoJob} /\ s.job[k] \in JobRec /\ s.job[k].num \in Int
  BY DEF Pairs, Rooted, JobRec, ProcRec
<1>2. Forest(s.job) /\ Lists(s.proc, s.job) /\ Links(s.proc, s.job) /\ Nums(s.proc, s.job, C)
  BY DEF JobsOK
<1>3. \A x : Above(s.job, x) \subseteq Jobs
  BY DEF Above
<1>4. ASSUME NEW k \in Jobs
      PROVE  /\ after[k].made = s.job[k].made /\ after[k].parent = s.job[k].parent
             /\ after[k].list = s.job[k].list /\ after[k].children = s.job[k].children
             /\ after[k].used = s.job[k].used
             /\ k \in A => after[k].num = s.job[k].num - 1
             /\ k \notin A => after[k] = s.job[k]
  <2> DEFINE n == s.job[k].num - 1
  <2>1. n \in Int /\ s.job[k] \in JobRec
    BY <1>1
  <2>2. after[k] = IF k \in A THEN [s.job[k] EXCEPT !.num = n] ELSE s.job[k]
    BY DEF Released
  <2> HIDE DEF n, A
  <2>3. /\ [s.job[k] EXCEPT !.num = n].made = s.job[k].made
        /\ [s.job[k] EXCEPT !.num = n].parent = s.job[k].parent
        /\ [s.job[k] EXCEPT !.num = n].list = s.job[k].list
        /\ [s.job[k] EXCEPT !.num = n].children = s.job[k].children
        /\ [s.job[k] EXCEPT !.num = n].used = s.job[k].used
        /\ [s.job[k] EXCEPT !.num = n].num = n
    BY <2>1 DEF JobRec
  <2> QED BY <2>2, <2>3 DEF n
<1>5. \A x \in Jobs \cup {NoJob} : Above(after, x) = Above(s.job, x)
  <2>1. Rooted(after)
    BY <1>1, <1>4 DEF Rooted
  <2> QED BY <1>1, <1>3, <1>4, <2>1, AboveSame
<1>6. \A k \in A : k \in Jobs /\ s.job[k].made
  <2>1. CASE s.proc[p].job = NoJob
    BY <2>1, AboveNone
  <2>2. CASE s.proc[p].job # NoJob
    <3>1. s.proc[p].job \in Jobs /\ s.job[s.proc[p].job].made
      BY <1>1, <1>2, <2>2 DEF Links
    <3> QED BY <1>1, <1>2, <3>1, MadeAbove
  <2> QED BY <2>1, <2>2
<1> HIDE DEF A
<1>7. Forest(after)
  BY <1>1, <1>2, <1>4, <1>5 DEF Forest
<1>8. Lists(s.proc, after)
  BY <1>2, <1>4 DEF Lists
<1>9. Links(s.proc, after)
  <2>1. \A q \in Procs : s.proc[q].job # NoJob =>
          s.proc[q].made /\ after[s.proc[q].job].made /\ after[s.proc[q].job].used
    BY <1>1, <1>2, <1>4 DEF Links
  <2>2. \A k \in Jobs : after[k].parent # NoJob =>
          after[k].made /\ after[after[k].parent].made /\ after[after[k].parent].used
    BY <1>1, <1>2, <1>4 DEF Links
  <2>3. \A k \in Jobs : ~after[k].made => after[k] = UnusedJob
    BY <1>2, <1>4, <1>6 DEF Links
  <2> QED BY <2>1, <2>2, <2>3 DEF Links
<1>10. ASSUME NEW k \in Jobs
       PROVE  after[k].num = Cardinality(Below(s.proc, after, C \ {p}, k)) /\ (k \in A => s.job[k].num > 0)
  <2> DEFINE S == Below(s.proc, s.job, C, k)
  <2>1. s.job[k].num = Cardinality(S)
    BY <1>2 DEF Nums
  <2>2. IsFiniteSet(S)
    BY LifeAssumption, FS_Subset DEF Below
  <2>3. Below(s.proc, after, C \ {p}, k) = S \ {p}
    BY <1>1, <1>5 DEF Below
  <2>4. CASE k \in A
    <3>1. p \in S
      BY <2>4 DEF Below, A
    <3>2. Cardinality(S \ {p}) = Cardinality(S) - 1 /\ Cardinality(S) > 0
      BY <2>2, <3>1, CountOne
    <3> HIDE DEF S
    <3> QED BY <1>4, <2>1, <2>3, <2>4, <3>2
  <2>5. CASE k \notin A
    <3>1. p \notin S
      BY <2>5 DEF Below, A
    <3>2. S \ {p} = S
      BY <3>1
    <3> QED BY <1>4, <2>1, <2>3, <2>5, <3>2
  <2> QED BY <2>4, <2>5
<1>11. Nums(s.proc, after, C \ {p})
  BY <1>10 DEF Nums
<1> QED BY <1>3, <1>4, <1>7, <1>8, <1>9, <1>10, <1>11 DEF JobsOK, A

\* The process is counted out of its jobs.
LEMMA KilledKeeps ==
  ASSUME LInv, LInv', JInv, work # <<>>, Killed(Top)
  PROVE  JInv'
<1>1. LifeTyped /\ work \in Seq(FrameSet) /\ KilledOnce(work)
  BY DEF LInv, LifeTyped
<1>2. /\ Top \in FrameSet /\ Top.op = "killed" /\ Top.op \in OfProcess
      /\ Top = work[Len(work)] /\ Len(work) \in 1 .. Len(work)
  BY <1>1, TopIs DEF Killed, OfProcess
<1>3. PICK p \in Procs : Top.what = Process(p) /\ Top.what[2] = p /\ proc[p].made
  BY <1>2, TopExists
<1> DEFINE s == [proc |-> proc, job |-> job]
           C == Lives(proc, work)
<1>4. /\ proc' = [proc EXCEPT ![p].info = FALSE, ![p].timer = IF proc[p].pid THEN 1 ELSE 0]
      /\ job' = ReleaseJob(job, p) /\ work' = Return /\ handles' = handles
      /\ asserted' = (asserted /\ \A j \in Above(job, proc[p].job) : job[j].num > 0)
  BY <1>3 DEF Killed
<1>5. IsKilled(work[Len(work)], p) /\ p \in Dying(work) /\ DyingOK(proc[p])
  <2>1. p \in Dying(work) /\ IsKilled(work[Len(work)], p)
    BY <1>2, <1>3 DEF Dying, IsKilled
  <2> QED BY <2>1 DEF LInv
<1>6. /\ work' \in Seq(FrameSet)
      /\ \A i \in 1 .. Len(work') : i \in 1 .. Len(work) /\ i # Len(work) /\ work'[i] = work[i]
      /\ \A i \in 1 .. Len(work) : i # Len(work) => i \in 1 .. Len(work') /\ work'[i] = work[i]
  BY <1>1, <1>4, Popped
<1>7. Dying(work') = Dying(work) \ {p}
  <2>1. \A i \in 1 .. Len(work') : ~IsKilled(work'[i], p)
    BY <1>1, <1>2, <1>5, <1>6 DEF KilledOnce
  <2>2. \A q \in Procs : IsKilled(work[Len(work)], q) => q = p
    BY <1>2, <1>3 DEF IsKilled, Process
  <2> QED BY <1>6, <2>1, <2>2 DEF Dying
<1>8. /\ \A q \in Procs : q # p => proc'[q] = proc[q]
      /\ proc'[p].threads = proc[p].threads /\ proc'[p].made = proc[p].made /\ proc'[p].ended = proc[p].ended
      /\ proc'[p].job = proc[p].job
  BY <1>1, <1>4 DEF LifeTyped, ProcRec
<1>9. Lives(proc', work') = C \ {p}
  <2>1. p \notin Lives(proc', work')
    <3>1. proc'[p].threads = 0 /\ proc'[p].ended
      BY <1>5, <1>8 DEF DyingOK
    <3>2. ~(proc'[p].threads > 0) /\ ~(proc'[p].info /\ ~proc'[p].ended) /\ p \notin Dying(work')
      BY <1>7, <3>1
    <3> QED BY ONLY <3>2 DEF Lives
  <2>2. \A q \in Procs : q # p => (q \in Lives(proc', work') <=> q \in Lives(proc, work))
    BY <1>7, <1>8 DEF Lives
  <2>3. Lives(proc', work') \subseteq Procs /\ C \subseteq Procs
    BY DEF Lives
  <2> QED BY <2>1, <2>2, <2>3
<1>10. s \in Pairs /\ s.proc = proc /\ s.job = job /\ C \in SUBSET Procs /\ p \in C /\ JobsOK(proc, job, C)
  BY <1>1, <1>5 DEF Pairs, LifeTyped, Lives, JInv
<1>11. job' = Released(s.proc, s.job, p)
  BY <1>4 DEF ReleaseJob, Released
<1> HIDE DEF s, C
<1>12. /\ JobsOK(proc, job', C \ {p}) /\ (\A k \in Jobs : job'[k].made = job[k].made)
       /\ \A k \in Above(job, proc[p].job) : job[k].num > 0
  BY <1>10, <1>11, ReleaseKeeps
<1>13. \A q \in Procs : proc'[q].job = proc[q].job /\ proc'[q].made = proc[q].made /\ proc'[q].ended = proc[q].ended
  BY <1>8
<1>14. JobsOK(proc', job', Lives(proc', work'))
  <2>1. C \ {p} \in SUBSET Procs
    BY <1>10
  <2> QED BY <1>9, <1>12, <1>13, <2>1, JobsOf
<1>15. \A t : Exists(proc, job, t) => Exists(proc', job', t)
  BY <1>12, <1>13 DEF Exists
<1>16. \A i \in 1 .. Len(work') : Exists(proc', job', work'[i].what)
  BY <1>6, <1>15 DEF JInv
<1>17. \A c \in Procs : \A t \in handles'[c] : Exists(proc', job', t)
  BY <1>4, <1>15 DEF JInv
<1>18. \A q \in Procs : ~proc'[q].made => proc'[q] = NoProcess
  BY <1>3, <1>8 DEF JInv
<1>19. ASSUME NEW q \in Procs, Stillborn(q)' PROVE Stillborn(q)
  <2>1. proc'[q].made /\ ~proc'[q].ended /\ q \notin Lives(proc', work')
    BY <1>19 DEF Stillborn
  <2>2. q # p
    BY <1>5, <1>8, <2>1 DEF DyingOK
  <2> QED BY <1>9, <1>13, <2>1, <2>2 DEF Stillborn, C
<1>20. \A q \in Procs : Stillborn(q)' => \A c \in Procs : Process(q) \notin handles'[c]
  BY <1>4, <1>19 DEF JInv
<1>21. asserted'
  BY <1>4, <1>12 DEF JInv
<1> QED BY <1>14, <1>16, <1>17, <1>18, <1>20, <1>21 DEF JInv

\* What it means that nothing refers to an object.
LEMMA UnusedIs ==
  ASSUME LInv
  PROVE  /\ \A p \in Procs : Process(p) \in Unused =>
              /\ ~proc[p].info
              /\ \A c \in Procs : Process(p) \notin handles[c]
              /\ \A i \in 1 .. Len(work) : work[i].what # Process(p)
         /\ \A j \in Jobs : Job(j) \in Unused =>
              /\ job[j].made
              /\ \A q \in Procs : proc[q].made => proc[q].job # j
              /\ \A k \in Jobs : job[k].made => job[k].parent # j
              /\ \A c \in Procs : Job(j) \notin handles[c]
              /\ \A i \in 1 .. Len(work) : work[i].what # Job(j)
<1>1. work \in Seq(FrameSet)
  BY DEF LInv, LifeTyped
<1>2. DOMAIN work = 1 .. Len(work)
  BY <1>1
<1>3. \A p : Process(p)[1] = "process" /\ Process(p)[2] = p /\ Job(p)[1] = "job" /\ Job(p)[2] = p
  BY DEF Process, Job
<1>4. ASSUME NEW p \in Procs, Process(p) \in Unused
      PROVE  /\ ~proc[p].info
             /\ \A c \in Procs : Process(p) \notin handles[c]
             /\ \A i \in 1 .. Len(work) : work[i].what # Process(p)
  <2>1. ~Used(Process(p))
    BY <1>4 DEF Unused
  <2>2. ~proc[p].info /\ Holders(Process(p)) = {} /\ ~Held(Process(p))
    BY <1>3, <2>1 DEF Used
  <2> QED BY <1>2, <2>2 DEF Holders, Held
<1>5. ASSUME NEW j \in Jobs, Job(j) \in Unused
      PROVE  /\ job[j].made
             /\ \A q \in Procs : proc[q].made => proc[q].job # j
             /\ \A k \in Jobs : job[k].made => job[k].parent # j
             /\ \A c \in Procs : Job(j) \notin handles[c]
             /\ \A i \in 1 .. Len(work) : work[i].what # Job(j)
  <2>1. ~Used(Job(j))
    BY <1>5 DEF Unused
  <2>2. /\ Holders(Job(j)) = {} /\ ~Held(Job(j))
        /\ \A q \in Procs : proc[q].made => proc[q].job # j
        /\ \A k \in Jobs : job[k].made => job[k].parent # j
    BY <1>3, <2>1 DEF Used
  <2>3. job[j].made
    <3>1. PICK t \in {Process(q) : q \in {q \in Procs : proc[q].made}} \cup {Job(k) : k \in {k \in Jobs : job[k].made}} :
            t = Job(j)
      BY <1>5 DEF Unused
    <3> QED BY <3>1 DEF Process, Job
  <2> QED BY <1>2, <2>2, <2>3 DEF Holders, Held
<1> QED BY <1>4, <1>5

\* A process is destroyed, once its handles are closed.
LEMMA DestroyProcessKeeps ==
  ASSUME LInv, LInv', JInv, NEW p \in Procs, Process(p) \in Unused, DestroyProcess(p)
  PROVE  JInv'
<1>1. LifeTyped /\ proc \in [Procs -> ProcRec] /\ job \in [Jobs -> JobRec] /\ Rooted(job)
      /\ (\A q \in Procs : proc[q].job \in Jobs \cup {NoJob})
      /\ \A k \in Jobs : job[k].parent \in Jobs \cup {NoJob} /\ job[k] \in JobRec /\ job[k].list \in Seq(Procs)
  BY DEF LInv, LifeTyped, Rooted, JobRec, ProcRec
<1>2. proc[p].made /\ proc[p].threads = 0 /\ proc[p].timer = 0 /\ p \notin Dying(work)
  BY UnusedProcess
<1>3. /\ ~proc[p].info /\ (\A c \in Procs : Process(p) \notin handles[c])
      /\ \A i \in 1 .. Len(work) : work[i].what # Process(p)
  BY UnusedIs
<1>4. asserted' = asserted /\ handles' = handles
  BY <1>2 DEF DestroyProcess, JInv
<1>5. CASE handles[p] # {}
  <2>1. work' = Call(<<Frame("close", Process(p))>>) /\ UNCHANGED <<proc, job>>
    BY <1>5 DEF DestroyProcess
  <2>2. "close" \in OfProcess /\ "close" # "killed"
    BY DEF OfProcess
  <2>3. Plain(Frame("close", Process(p)))
    BY <1>2, <2>2, PlainIs
  <2> QED BY <1>4, <2>1, <2>3, GoesSeqs, GoesOnCall, FramesKeep
<1>6. CASE handles[p] = {}
  <2> DEFINE x == proc[p].job
             C == Lives(proc, work)
  <2>1. /\ proc' = [proc EXCEPT ![p] = NoProcess] /\ work' = work
        /\ job' = IF x = NoJob THEN job ELSE [job EXCEPT ![x].list = Without(@, p)]
    BY <1>6 DEF DestroyProcess
  <2>2. /\ proc'[p] = NoProcess /\ (\A q \in Procs : q # p => proc'[q] = proc[q])
        /\ NoProcess.job = NoJob /\ ~NoProcess.made
        /\ NoProcess.threads = 0 /\ ~NoProcess.info
    BY <1>1, <2>1 DEF NoProcess
  <2>3. Forest(job) /\ Lists(proc, job) /\ Links(proc, job) /\ Nums(proc, job, C)
    BY DEF JInv, JobsOK
  <2>4. p \notin C /\ C \subseteq Procs
    BY <1>2, <1>3 DEF Lives
  <2>5. Lives(proc', work') = C
    <3>1. p \notin Lives(proc', work')
      BY <1>2, <2>1, <2>2 DEF Lives
    <3>2. \A q \in Procs : q # p => (q \in Lives(proc', work') <=> q \in C)
      BY <2>1, <2>2 DEF Lives
    <3>3. Lives(proc', work') \subseteq Procs
      BY DEF Lives
    <3> QED BY <2>4, <3>1, <3>2, <3>3
  <2>6. ASSUME NEW k \in Jobs
        PROVE  /\ job'[k].made = job[k].made /\ job'[k].parent = job[k].parent
               /\ job'[k].list = (IF k = x THEN Without(job[k].list, p) ELSE job[k].list)
               /\ job'[k].children = job[k].children /\ job'[k].num = job[k].num
               /\ job'[k].used = job[k].used
               /\ k # x => job'[k] = job[k]
    <3>1. CASE k = x
      <4> DEFINE l == Without(job[k].list, p)
      <4>1. x # NoJob
        BY <3>1, LifeAssumption
      <4>2. job'[k] = [job[k] EXCEPT !.list = l]
        BY <1>1, <2>1, <3>1, <4>1
      <4>3. job[k] \in JobRec
        BY <1>1
      <4> HIDE DEF l, x
      <4>4. /\ [job[k] EXCEPT !.list = l].made = job[k].made /\ [job[k] EXCEPT !.list = l].parent = job[k].parent
            /\ [job[k] EXCEPT !.list = l].list = l /\ [job[k] EXCEPT !.list = l].children = job[k].children
            /\ [job[k] EXCEPT !.list = l].num = job[k].num /\ [job[k] EXCEPT !.list = l].used = job[k].used
        BY <4>3 DEF JobRec
      <4> QED BY <3>1, <4>2, <4>4 DEF l
    <3>2. CASE k # x
      BY <1>1, <2>1, <3>2
    <3> QED BY <3>1, <3>2
  <2>7. \A y \in Jobs \cup {NoJob} : Above(job', y) = Above(job, y)
    <3>1. Rooted(job')
      BY <1>1, <2>6 DEF Rooted
    <3>2. \A y : Above(job, y) \subseteq Jobs
      BY DEF Above
    <3> QED BY <1>1, <2>6, <3>1, <3>2, AboveSame
  <2> HIDE DEF C
  <2>8. Forest(job')
    BY <1>1, <2>3, <2>6, <2>7 DEF Forest
  <2>9. Lists(proc', job')
    <3> SUFFICES ASSUME NEW j \in Jobs
                 PROVE  /\ IsInjective(job'[j].list) /\ Range(job'[j].list) = {q \in Procs : proc'[q].job = j}
                        /\ IsInjective(job'[j].children)
                        /\ Range(job'[j].children) = {k \in Jobs : job'[k].parent = j}
      BY DEF Lists
    <3>1. /\ IsInjective(job[j].list) /\ Range(job[j].list) = {q \in Procs : proc[q].job = j}
          /\ IsInjective(job[j].children) /\ Range(job[j].children) = {k \in Jobs : job[k].parent = j}
      BY <2>3 DEF Lists
    <3>2. {q \in Procs : proc'[q].job = j} = {q \in Procs : proc[q].job = j} \ {p}
      BY <2>2, LifeAssumption
    <3>3. IsInjective(job'[j].list) /\ Range(job'[j].list) = {q \in Procs : proc'[q].job = j}
      <4>1. CASE j = x
        <5>1. IsInjective(job'[j].list) /\ Range(job'[j].list) = Range(job[j].list) \ {p}
          BY <1>1, <2>6, <3>1, <4>1, WithoutHas
        <5> QED BY <3>1, <3>2, <5>1
      <4>2. CASE j # x
        <5>1. job'[j].list = job[j].list /\ p \notin {q \in Procs : proc[q].job = j}
          BY <2>6, <4>2
        <5> QED BY <3>1, <3>2, <5>1
      <4> QED BY <4>1, <4>2
    <3> QED BY <2>6, <3>1, <3>3
  <2>10. Links(proc', job')
    <3>1. \A q \in Procs : proc'[q].job # NoJob =>
            proc'[q].made /\ job'[proc'[q].job].made /\ job'[proc'[q].job].used
      BY <1>1, <2>2, <2>3, <2>6 DEF Links
    <3>2. \A k \in Jobs : job'[k].parent # NoJob =>
            job'[k].made /\ job'[job'[k].parent].made /\ job'[job'[k].parent].used
      BY <1>1, <2>3, <2>6 DEF Links
    <3>3. \A k \in Jobs : ~job'[k].made => job'[k] = UnusedJob
      <4>1. x \in Jobs => job[x].made
        BY <2>3, LifeAssumption DEF Links
      <4> QED BY <2>3, <2>6, <4>1 DEF Links
    <3> QED BY <3>1, <3>2, <3>3 DEF Links
  <2>11. Nums(proc', job', C)
    <3>1. \A j \in Jobs : Below(proc', job', C, j) = Below(proc, job, C, j)
      BY <1>1, <2>2, <2>4, <2>7 DEF Below
    <3> QED BY <2>3, <2>6, <3>1 DEF Nums
  <2>12. JobsOK(proc', job', Lives(proc', work'))
    BY <2>5, <2>8, <2>9, <2>10, <2>11 DEF JobsOK
  <2>13. \A t : t # Process(p) /\ Exists(proc, job, t) => Exists(proc', job', t)
    BY <2>2, <2>6 DEF Exists
  <2>14. /\ \A c \in Procs : \A t \in handles'[c] : Exists(proc', job', t)
         /\ \A i \in 1 .. Len(work') : Exists(proc', job', work'[i].what)
    BY <1>3, <1>4, <2>1, <2>13 DEF JInv
  <2>15. \A q \in Procs : ~proc'[q].made => proc'[q] = NoProcess
    BY <2>2 DEF JInv
  <2>16. \A q \in Procs : Stillborn(q)' => Stillborn(q)
    BY <2>2, <2>5 DEF Stillborn, C
  <2>17. \A q \in Procs : Stillborn(q)' => \A c \in Procs : Process(q) \notin handles'[c]
    BY <1>4, <2>16 DEF JInv
  <2> QED BY <1>4, <2>12, <2>14, <2>15, <2>17 DEF JInv
<1> QED BY <1>5, <1>6

\* A job is destroyed: nothing is in it any more.
LEMMA DestroyJobKeeps ==
  ASSUME LInv, LInv', JInv, NEW j \in Jobs, Job(j) \in Unused, DestroyJob(j)
  PROVE  JInv'
<1> DEFINE C == Lives(proc, work)
<1>1. LifeTyped /\ job \in [Jobs -> JobRec] /\ Rooted(job)
      /\ (\A q \in Procs : proc[q].job \in Jobs \cup {NoJob})
      /\ \A k \in Jobs : /\ job[k].parent \in Jobs \cup {NoJob} /\ job[k] \in JobRec
                         /\ job[k].list \in Seq(Procs) /\ job[k].children \in Seq(Jobs)
  BY DEF LInv, LifeTyped, Rooted, JobRec, ProcRec
<1>2. /\ job[j].made
      /\ \A q \in Procs : proc[q].made => proc[q].job # j
      /\ \A k \in Jobs : job[k].made => job[k].parent # j
      /\ \A c \in Procs : Job(j) \notin handles[c]
      /\ \A i \in 1 .. Len(work) : work[i].what # Job(j)
  BY UnusedIs
<1>3. Forest(job) /\ Lists(proc, job) /\ Links(proc, job) /\ Nums(proc, job, C)
  BY DEF JInv, JobsOK
<1>4. (\A q \in Procs : proc[q].job # j) /\ (\A k \in Jobs : job[k].parent # j) /\ j # NoJob
  BY <1>2, <1>3, LifeAssumption DEF Links
<1>5. \A y \in Jobs \cup {NoJob} : y # j => j \notin Above(job, y)
  <2> SUFFICES ASSUME NEW y \in Jobs \cup {NoJob}, y # j, j \in Above(job, y) PROVE FALSE
    OBVIOUS
  <2>1. \E m \in Above(job, y) : job[m].parent = j
    BY <1>1, AboveHasChild
  <2>2. Above(job, y) \subseteq Jobs
    BY DEF Above
  <2> QED BY <1>4, <2>1, <2>2
<1>6. job[j].list = <<>> /\ job[j].children = <<>> /\ job[j].num = 0
  <2>1. Range(job[j].list) = {} /\ Range(job[j].children) = {}
    BY <1>3, <1>4 DEF Lists
  <2>2. Below(proc, job, C, j) = {}
    BY <1>1, <1>4, <1>5 DEF Below, Lives
  <2>3. job[j].num = 0
    BY <1>3, <2>2, FS_EmptySet DEF Nums
  <2> QED BY <1>1, <2>1, <2>3, ListHas
<1>7. /\ asserted' /\ proc' = proc /\ handles' = handles /\ work' = work
      /\ job' = [k \in Jobs |-> IF k = j THEN UnusedJob ELSE [job[k] EXCEPT !.children = Without(@, j)]]
  BY <1>6 DEF DestroyJob, JInv
<1>8. /\ job'[j] = UnusedJob /\ ~UnusedJob.made /\ UnusedJob.parent = NoJob /\ UnusedJob.num = 0
      /\ UnusedJob.list = <<>> /\ UnusedJob.children = <<>>
  BY <1>7 DEF UnusedJob
<1>9. ASSUME NEW k \in Jobs, k # j
      PROVE  /\ job'[k].made = job[k].made /\ job'[k].parent = job[k].parent /\ job'[k].list = job[k].list
             /\ job'[k].children = Without(job[k].children, j)
             /\ job'[k].num = job[k].num /\ job'[k].used = job[k].used
             /\ ~job[k].made => job'[k] = job[k]
  <2> DEFINE l == Without(job[k].children, j)
  <2>1. job'[k] = [job[k] EXCEPT !.children = l] /\ job[k] \in JobRec
    BY <1>1, <1>7, <1>9
  <2>2. ~job[k].made => l = job[k].children
    <3>1. Without(<<>>, j) = <<>>
      BY DEF Without
    <3> QED BY <1>3, <1>8, <3>1 DEF Links
  <2> HIDE DEF l
  <2>3. /\ [job[k] EXCEPT !.children = l].made = job[k].made /\ [job[k] EXCEPT !.children = l].parent = job[k].parent
        /\ [job[k] EXCEPT !.children = l].list = job[k].list /\ [job[k] EXCEPT !.children = l].children = l
        /\ [job[k] EXCEPT !.children = l].num = job[k].num /\ [job[k] EXCEPT !.children = l].used = job[k].used
        /\ l = job[k].children => [job[k] EXCEPT !.children = l] = job[k]
    BY <2>1 DEF JobRec
  <2> QED BY <2>1, <2>2, <2>3 DEF l
<1>10. \A y \in Jobs \cup {NoJob} : y # j => Above(job', y) = Above(job, y)
  <2>1. Rooted(job')
    BY <1>1, <1>8, <1>9 DEF Rooted
  <2>2. \A y : Above(job, y) \subseteq Jobs
    BY DEF Above
  <2> QED BY <1>1, <1>5, <1>9, <2>1, <2>2, AboveSame
<1> HIDE DEF C
<1>11. Forest(job')
  <2>1. \A k \in Jobs : k # j => k \notin Above(job', job'[k].parent)
    BY <1>1, <1>3, <1>4, <1>9, <1>10 DEF Forest
  <2>2. j \notin Above(job', job'[j].parent)
    BY <1>8, AboveNone
  <2> QED BY <2>1, <2>2 DEF Forest
<1>12. Lists(proc', job')
  <2>1. IsInjective(<<>>) /\ Range(<<>>) = {}
    BY DEF IsInjective, Range
  <2>2. \A m \in Jobs : job'[m].parent = IF m = j THEN NoJob ELSE job[m].parent
    BY <1>8, <1>9
  <2>3. /\ IsInjective(job'[j].list) /\ Range(job'[j].list) = {q \in Procs : proc'[q].job = j}
        /\ IsInjective(job'[j].children) /\ Range(job'[j].children) = {m \in Jobs : job'[m].parent = j}
    BY <1>4, <1>7, <1>8, <2>1, <2>2
  <2>4. ASSUME NEW k \in Jobs, k # j
        PROVE  /\ IsInjective(job'[k].list) /\ Range(job'[k].list) = {q \in Procs : proc'[q].job = k}
               /\ IsInjective(job'[k].children) /\ Range(job'[k].children) = {m \in Jobs : job'[m].parent = k}
    <3>1. /\ IsInjective(job[k].list) /\ Range(job[k].list) = {q \in Procs : proc[q].job = k}
          /\ IsInjective(job[k].children) /\ Range(job[k].children) = {m \in Jobs : job[m].parent = k}
      BY <1>3 DEF Lists
    <3>2. IsInjective(job'[k].children) /\ Range(job'[k].children) = Range(job[k].children) \ {j}
      BY <1>1, <1>9, <2>4, <3>1, WithoutHas
    <3>3. {m \in Jobs : job'[m].parent = k} = {m \in Jobs : job[m].parent = k} \ {j}
      BY <2>2, LifeAssumption
    <3> QED BY <1>7, <1>9, <2>4, <3>1, <3>2, <3>3
  <2> QED BY <2>3, <2>4 DEF Lists
<1>13. Links(proc', job')
  <2>1. \A q \in Procs : proc'[q].job # NoJob =>
          proc'[q].made /\ job'[proc'[q].job].made /\ job'[proc'[q].job].used
    BY <1>1, <1>3, <1>4, <1>7, <1>9 DEF Links
  <2>2. \A k \in Jobs : job'[k].parent # NoJob =>
          job'[k].made /\ job'[job'[k].parent].made /\ job'[job'[k].parent].used
    <3> SUFFICES ASSUME NEW k \in Jobs, job'[k].parent # NoJob
                 PROVE  job'[k].made /\ job'[job'[k].parent].made /\ job'[job'[k].parent].used
      OBVIOUS
    <3>1. k # j
      BY <1>8
    <3>2. job'[k].parent = job[k].parent /\ job[k].parent \in Jobs /\ job[k].parent # j
      BY <1>1, <1>4, <1>9, <3>1
    <3> QED BY <1>3, <1>9, <3>1, <3>2 DEF Links
  <2>3. \A k \in Jobs : ~job'[k].made => job'[k] = UnusedJob
    BY <1>3, <1>8, <1>9 DEF Links
  <2> QED BY <2>1, <2>2, <2>3 DEF Links
<1>14. Nums(proc', job', C)
  <2>1. \A y \in Jobs : Below(proc', job', C, y) = Below(proc, job, C, y)
    BY <1>1, <1>4, <1>7, <1>10 DEF Below, C, Lives
  <2> QED BY <1>3, <1>6, <1>8, <1>9, <2>1 DEF Nums
<1>15. JobsOK(proc', job', Lives(proc', work'))
  BY <1>7, <1>11, <1>12, <1>13, <1>14 DEF JobsOK, C
<1>16. \A t : t # Job(j) /\ Exists(proc, job, t) => Exists(proc', job', t)
  BY <1>7, <1>9 DEF Exists
<1>17. /\ \A c \in Procs : \A t \in handles'[c] : Exists(proc', job', t)
       /\ \A i \in 1 .. Len(work') : Exists(proc', job', work'[i].what)
  BY <1>2, <1>7, <1>16 DEF JInv
<1>18. /\ \A q \in Procs : ~proc'[q].made => proc'[q] = NoProcess
       /\ \A q \in Procs : Stillborn(q)' => \A c \in Procs : Process(q) \notin handles'[c]
  BY <1>7 DEF JInv, Stillborn
<1> QED BY <1>7, <1>15, <1>17, <1>18 DEF JInv

\* So does what is destroyed.
LEMMA DestroyKeeps ==
  ASSUME LInv, LInv', JInv, Unused # {}, Destroy
  PROVE  JInv'
<1>1. PICK t \in Unused : IF t[1] = "process" THEN DestroyProcess(t[2]) ELSE DestroyJob(t[2])
  BY DEF Destroy
<1>2. CASE t[1] = "process"
  <2>1. PICK p \in Procs : t = Process(p)
    BY <1>2 DEF Unused, Job
  <2>2. DestroyProcess(p) /\ Process(p) \in Unused
    BY <1>1, <1>2, <2>1 DEF Process
  <2> QED BY <2>2, DestroyProcessKeeps
<1>3. CASE t[1] # "process"
  <2>1. PICK j \in Jobs : t = Job(j)
    BY <1>3 DEF Unused, Process
  <2>2. DestroyJob(j) /\ Job(j) \in Unused
    BY <1>1, <1>3, <2>1 DEF Job
  <2> QED BY <2>2, DestroyJobKeeps
<1> QED BY <1>2, <1>3

-----------------------------------------------------------------------------
(* The requests and events.                                                *)

\* When a request is served every process that could not be made is gone.
LEMMA ReadyHas ==
  ASSUME LInv, JInv, Ready
  PROVE  /\ work = <<>> /\ Dying(work) = {}
         /\ \A p \in Procs : ~Stillborn(p)
         /\ \A c \in Procs, p \in Procs : proc[c].threads > 0 /\ HasHandle(c, p) => proc[p].made
         /\ \A c \in Procs, j \in Jobs : Job(j) \in handles[c] => job[j].made
<1>1. work = <<>> /\ Unused = {}
  BY DEF Ready, Idle
<1>2. Dying(work) = {} /\ \A t : ~Held(t)
  BY <1>1 DEF Dying, Held
<1>3. \A p \in Procs : proc[p] \in ProcRec /\ LifeOK(proc[p])
  BY DEF LInv, LifeTyped
<1>4. ASSUME NEW p \in Procs, Stillborn(p) PROVE FALSE
  <2>1. /\ proc[p].made /\ ~proc[p].ended /\ ~(proc[p].threads > 0) /\ ~proc[p].info
        /\ \A c \in Procs : Process(p) \notin handles[c]
    BY <1>4 DEF Stillborn, Lives, JInv
  <2>2. ~(proc[p].timer > 0)
    BY <1>3, <2>1 DEF LifeOK
  <2>3. Process(p)[1] = "process" /\ Process(p)[2] = p /\ "process" # "job"
    BY DEF Process
  <2>4. ~Used(Process(p))
    BY <1>2, <2>1, <2>2, <2>3 DEF Used, Holders
  <2> QED BY <1>1, <2>1, <2>4 DEF Unused
<1>5. \A c \in Procs, p \in Procs : proc[c].threads > 0 /\ HasHandle(c, p) => proc[p].made
  <2>1. \A c \in Procs : proc[c].threads > 0 => proc[c].made
    BY <1>3 DEF LifeOK
  <2>2. \A c \in Procs, p \in Procs : Process(p) \in handles[c] => proc[p].made
    BY ExistsIs DEF JInv
  <2> QED BY <2>1, <2>2 DEF HasHandle
<1>6. \A c \in Procs, j \in Jobs : Job(j) \in handles[c] => job[j].made
  BY ExistsIs DEF JInv
<1> QED BY <1>1, <1>2, <1>4, <1>5, <1>6

\* What changes of a process is not what counts it.
LEMMA FieldKeeps ==
  ASSUME LInv, LInv', JInv, Ready, NEW p \in Procs, NEW r \in ProcRec, proc' = [proc EXCEPT ![p] = r],
         proc[p].made, r.made, r.job = proc[p].job, proc[p].ended => r.ended,
         r.threads > 0 \/ (r.info /\ ~r.ended) <=> proc[p].threads > 0 \/ (proc[p].info /\ ~proc[p].ended),
         UNCHANGED <<job, handles, work, asserted>>
  PROVE  JInv'
<1>1. ProcsStay /\ LivesStay
  BY FieldStays
<1> QED BY <1>1, GoesOnSame, Stays, GoesOnKeeps

\* A process begins, tells that it has, becomes a system process, or its host process dies.
LEMMA FlagsKeep ==
  ASSUME LInv, LInv', JInv, NEW p \in Procs,
         InitFirstThread(p) \/ InitProcessDone(p) \/ HostDies(p) \/ MakeSystem(p) \/ Sigkill(p)
  PROVE  JInv'
<1>1. /\ Ready /\ UNCHANGED <<job, handles, work, asserted>>
      /\ proc[p].threads > 0 \/ proc[p].made \/ proc[p].timer > 0
      /\ InitProcessDone(p) => proc[p].threads > 0
  BY DEF InitFirstThread, InitProcessDone, HostDies, MakeSystem, Sigkill, Runs, Live
<1>2. proc \in [Procs -> ProcRec] /\ proc[p] \in ProcRec /\ LifeOK(proc[p]) /\ proc[p].timer \in Nat
  BY DEF LInv, LifeTyped, ProcRec
<1>3. proc[p].made
  BY <1>1, <1>2 DEF LifeOK
<1> DEFINE t == proc[p].timer + 1
           pids == [proc[p] EXCEPT !.pid = TRUE]
           done == [proc[p] EXCEPT !.info = FALSE]
           died == [proc[p] EXCEPT !.alive = FALSE]
           made == [proc[p] EXCEPT !.is_system = TRUE]
           looks == [proc[p] EXCEPT !.timer = t]
           ends == [proc[p] EXCEPT !.timer = 0, !.alive = FALSE]
<1>4. \/ proc' = [proc EXCEPT ![p] = pids]
      \/ proc[p].threads > 0 /\ proc' = [proc EXCEPT ![p] = done]
      \/ proc' = [proc EXCEPT ![p] = died]
      \/ proc' = [proc EXCEPT ![p] = made]
      \/ proc' = [proc EXCEPT ![p] = looks]
      \/ proc' = [proc EXCEPT ![p] = ends]
  BY <1>1, <1>2 DEF InitFirstThread, InitProcessDone, HostDies, MakeSystem, Sigkill
<1>5. t \in Nat
  BY <1>2
<1> HIDE DEF t
<1>6. \A r \in {pids, died, made, looks, ends} :
        /\ r \in ProcRec /\ r.made = proc[p].made /\ r.job = proc[p].job /\ r.ended = proc[p].ended
        /\ r.threads = proc[p].threads /\ r.info = proc[p].info
  <2>1. /\ pids \in ProcRec /\ pids.made = proc[p].made /\ pids.job = proc[p].job /\ pids.ended = proc[p].ended
        /\ pids.threads = proc[p].threads /\ pids.info = proc[p].info
    BY <1>2 DEF ProcRec
  <2>2. /\ died \in ProcRec /\ died.made = proc[p].made /\ died.job = proc[p].job /\ died.ended = proc[p].ended
        /\ died.threads = proc[p].threads /\ died.info = proc[p].info
    BY <1>2 DEF ProcRec
  <2>3. /\ made \in ProcRec /\ made.made = proc[p].made /\ made.job = proc[p].job /\ made.ended = proc[p].ended
        /\ made.threads = proc[p].threads /\ made.info = proc[p].info
    BY <1>2 DEF ProcRec
  <2>4. /\ looks \in ProcRec /\ looks.made = proc[p].made /\ looks.job = proc[p].job /\ looks.ended = proc[p].ended
        /\ looks.threads = proc[p].threads /\ looks.info = proc[p].info
    BY <1>2, <1>5 DEF ProcRec
  <2>5. /\ ends \in ProcRec /\ ends.made = proc[p].made /\ ends.job = proc[p].job /\ ends.ended = proc[p].ended
        /\ ends.threads = proc[p].threads /\ ends.info = proc[p].info
    BY <1>2 DEF ProcRec
  <2> HIDE DEF pids, died, made, looks, ends
  <2> QED BY <2>1, <2>2, <2>3, <2>4, <2>5
<1>7. /\ done \in ProcRec /\ done.made = proc[p].made /\ done.job = proc[p].job /\ done.ended = proc[p].ended
      /\ done.threads = proc[p].threads
  BY <1>2 DEF ProcRec
<1> HIDE DEF pids, done, died, made, looks, ends
<1>8. CASE \E r \in {pids, died, made, looks, ends} : proc' = [proc EXCEPT ![p] = r]
  <2>1. PICK r \in {pids, died, made, looks, ends} : proc' = [proc EXCEPT ![p] = r]
    BY <1>8
  <2>2. /\ r \in ProcRec /\ r.made = proc[p].made /\ r.job = proc[p].job /\ r.ended = proc[p].ended
        /\ r.threads = proc[p].threads /\ r.info = proc[p].info
    BY <1>6
  <2> HIDE <1>6
  <2> QED BY <1>1, <1>3, <2>1, <2>2, FieldKeeps
<1>9. CASE proc[p].threads > 0 /\ proc' = [proc EXCEPT ![p] = done]
  BY <1>1, <1>3, <1>7, <1>9, FieldKeeps
<1> QED BY <1>4, <1>8, <1>9

\* A process gets a thread: it was counted since it was made.
LEMMA NewThreadKeeps ==
  ASSUME LInv, LInv', JInv, ~LateThreads, NEW c \in Procs, NEW p \in Procs, NewThread(c, p)
  PROVE  JInv'
<1> DEFINE n == proc[p].threads + 1
           r == [proc[p] EXCEPT !.threads = n]
<1>1. Ready /\ proc[p].alive /\ ~proc[p].ended /\ UNCHANGED <<job, handles, work, asserted>>
  BY DEF NewThread, Runs
<1>2. proc \in [Procs -> ProcRec] /\ proc[p] \in ProcRec /\ LifeOK(proc[p]) /\ proc[p].threads \in Nat
  BY DEF LInv, LifeTyped, ProcRec
<1>3. proc[p].made /\ ~Stillborn(p) /\ p \notin Dying(work)
  BY <1>1, <1>2, ReadyHas DEF LifeOK
<1>4. proc[p].threads > 0 \/ (proc[p].info /\ ~proc[p].ended)
  BY <1>1, <1>3 DEF Stillborn, Lives
<1>5. proc' = [proc EXCEPT ![p] = r]
  BY <1>2 DEF NewThread
<1>6. n \in Nat /\ n > 0
  BY <1>2
<1> HIDE DEF n
<1>7. r \in ProcRec /\ r.made = proc[p].made /\ r.job = proc[p].job /\ r.ended = proc[p].ended /\ r.threads = n
  BY <1>2, <1>6 DEF ProcRec
<1> HIDE DEF r
<1> QED BY <1>1, <1>3, <1>4, <1>5, <1>6, <1>7, FieldKeeps

\* A request or an event leads to a call, of what exists.
LEMMA StartsKeep ==
  ASSUME LInv, LInv', JInv, Ready, NEW g, Plain(g), work' = <<g>>, UNCHANGED <<proc, job, handles, asserted>>
  PROVE  JInv'
<1>1. work = <<>>
  BY ReadyHas
<1> QED BY <1>1, GoesOnSame, FramesKeep

\* A request or an event that calls puts frames on the stack, and changes nothing else that counts.
LEMMA CallsKeep ==
  ASSUME LInv, LInv', JInv,
         \/ \E c, p \in Procs : TerminateProcess(c, p)
         \/ \E c \in Procs, j \in Jobs : TerminateJobRequest(c, j)
         \/ \E p \in Procs : ThreadExits(p)
         \/ \E p \in Procs : Hangup(p)
         \/ ForceShutdown
         \/ ShutdownTimeout
  PROVE  JInv'
<1>1. /\ "terminate" \in OfProcess /\ "terminate" # "killed" /\ "killThread" \in OfProcess /\ "killThread" # "killed"
      /\ \A p \in Procs : LifeOK(proc[p])
  BY DEF OfProcess, LInv
<1>2. ASSUME NEW c \in Procs, NEW p \in Procs, TerminateProcess(c, p) PROVE JInv'
  <2> DEFINE g == [Frame("terminate", Process(p)) EXCEPT !.skip = (p = c)]
  <2>1. Ready /\ Starts(g) /\ proc[c].threads > 0 /\ HasHandle(c, p)
    BY <1>2 DEF TerminateProcess, Runs, Live
  <2>2. proc[p].made /\ (p = c) \in BOOLEAN
    BY <2>1, ReadyHas
  <2>3. Plain(g)
    <3>1. \A sk \in BOOLEAN : Plain([Frame("terminate", Process(p)) EXCEPT !.skip = sk])
      BY ONLY LInv, <1>1, <2>2, PlainIs, p \in Procs, Zenon
    <3> QED BY ONLY <2>2, <3>1, Zenon
  <2> HIDE DEF g
  <2> QED BY <2>1, <2>3, StartsKeep DEF Starts
<1>3. ASSUME NEW c \in Procs, NEW j \in Jobs, TerminateJobRequest(c, j) PROVE JInv'
  <2>1. Ready /\ Starts(TerminateJob(j)) /\ Job(j) \in handles[c]
    BY <1>3 DEF TerminateJobRequest, Runs
  <2>2. Plain(TerminateJob(j))
    BY <2>1, ReadyHas, PlainIs
  <2> QED BY <2>1, <2>2, StartsKeep DEF Starts
<1>4. ASSUME NEW p \in Procs, ThreadExits(p) PROVE JInv'
  <2>1. Ready /\ Starts(Frame("killThread", Process(p))) /\ proc[p].made
    BY <1>1, <1>4 DEF ThreadExits, LifeOK
  <2>2. Plain(Frame("killThread", Process(p)))
    BY <1>1, <2>1, PlainIs
  <2> QED BY <2>1, <2>2, StartsKeep DEF Starts
<1>5. ASSUME NEW p \in Procs, Hangup(p) PROVE JInv'
  <2>1. Ready /\ Starts(Frame("terminate", Process(p))) /\ proc[p].made
    BY <1>5 DEF Hangup
  <2>2. Plain(Frame("terminate", Process(p)))
    BY <1>1, <2>1, PlainIs
  <2> QED BY <2>1, <2>2, StartsKeep DEF Starts
<1>6. Plain(Frame("killAll", <<"server">>))
  BY PlainIs
<1>7. CASE ForceShutdown
  BY <1>6, <1>7, StartsKeep DEF ForceShutdown, Starts
<1>8. CASE ShutdownTimeout
  <2>1. Ready /\ UNCHANGED <<proc, job, handles, asserted>>
    BY <1>8 DEF ShutdownTimeout
  <2>2. work' = <<>> \/ work' = <<Frame("killAll", <<"server">>)>>
    BY <1>8 DEF ShutdownTimeout
  <2>3. CASE work' = <<>>
    <3>1. work' = work
      BY <2>1, <2>3, ReadyHas
    <3> QED BY <2>1, <3>1, GoesOnSame, FramesKeep
  <2>4. CASE work' = <<Frame("killAll", <<"server">>)>>
    BY <1>6, <2>1, <2>4, StartsKeep
  <2> QED BY <2>2, <2>3, <2>4
<1> QED BY <1>2, <1>3, <1>4, <1>5, <1>7, <1>8

\* Handles are opened and closed, jobs are made and given limits.
LEMMA HandlesKeep ==
  ASSUME LInv, LInv', JInv,
         \/ \E c, p \in Procs : OpenProcess(c, p)
         \/ \E c \in Procs : \E t \in Targets : CloseHandle(c, t)
         \/ \E c \in Procs, j \in Jobs : CreateJob(c, j)
         \/ \E c \in Procs, j \in Jobs, limit \in Limits : SetJobLimits(c, j, limit)
  PROVE  JInv'
<1>1. /\ handles \in [Procs -> SUBSET Targets] /\ job \in [Jobs -> JobRec]
      /\ \A k \in Jobs : ~job[k].made => job[k] = UnusedJob
  BY DEF LInv, LifeTyped, JInv, JobsOK, Links
<1>2. /\ \A p, q : Process(p) = Process(q) <=> p = q
      /\ \A p, q : Process(p) # Job(q)
  BY DEF Process, Job
<1>3. ASSUME NEW c \in Procs, NEW p \in Procs, OpenProcess(c, p) PROVE JInv'
  <2>1. /\ Ready /\ proc[p].made /\ handles' = [handles EXCEPT ![c] = @ \cup {Process(p)}]
        /\ UNCHANGED <<proc, job, work, asserted>>
    BY <1>3 DEF OpenProcess, Runs
  <2>2. \A q \in Procs : \A t \in handles'[q] : t \in handles[q] \/ t = Process(p)
    BY <1>1, <2>1
  <2>3. Exists(proc, job', Process(p))
    BY <2>1, ExistsIs
  <2>4. HandlesStay
    BY <1>2, <2>1, <2>2, <2>3, ReadyHas DEF HandlesStay
  <2> QED BY <2>1, <2>4, GoesOnSame, Stays, GoesOnKeeps
<1>4. ASSUME NEW c \in Procs, NEW t \in Targets, CloseHandle(c, t) PROVE JInv'
  <2>1. Ready /\ t \in handles[c] /\ proc[c].threads > 0 /\ UNCHANGED <<proc, job, asserted>>
    BY <1>4 DEF CloseHandle, Runs, Live
  <2>2. CASE KillsOnClose(t)
    <3> DEFINE g == [Frame("closeOne", Process(c)) EXCEPT !.at = t]
    <3>1. PICK j \in Jobs : t = Job(j)
      BY <2>2 DEF KillsOnClose, Targets, Process
    <3>2. t[2] = j /\ job[j].made
      BY <2>1, <3>1, ReadyHas DEF Job
    <3>3. proc[c].made /\ "closeOne" \in OfProcess /\ "closeOne" # "killed"
      BY <2>1 DEF LInv, LifeOK, OfProcess
    <3>4. Plain(g)
      <4>1. \A a \in Targets : Plain([Frame("closeOne", Process(c)) EXCEPT !.at = a])
        BY ONLY LInv, <3>3, PlainIs, c \in Procs, Zenon
      <4> QED BY ONLY <4>1, t \in Targets, Zenon
    <3>5. work' = <<g, TerminateJob(j)>> /\ handles' = handles
      BY <1>4, <2>2, <3>2 DEF CloseHandle
    <3> HIDE DEF g
    <3>6. Goes(<<g, TerminateJob(j)>>)
      BY <3>2, <3>4, PlainIs, GoesSeqs
    <3>7. work' = Call(<<g, TerminateJob(j)>>)
      <4>1. <<g, TerminateJob(j)>> \in Seq(FrameSet)
        BY <3>6 DEF Goes
      <4> QED BY <2>1, <3>5, <4>1, ReadyIs
    <3> QED BY <2>1, <3>5, <3>6, <3>7, GoesOnCall, FramesKeep
  <2>3. CASE ~KillsOnClose(t)
    <3>1. handles' = [handles EXCEPT ![c] = @ \ {t}] /\ work' = work
      BY <1>4, <2>3 DEF CloseHandle
    <3>2. \A q \in Procs : handles'[q] \subseteq handles[q]
      BY <1>1, <3>1
    <3> QED BY <2>1, <3>1, <3>2, GoesOnSame, Stays, GoesOnKeeps
  <2> QED BY <2>2, <2>3
<1>5. ASSUME NEW c \in Procs, NEW j \in Jobs, CreateJob(c, j) PROVE JInv'
  <2>1. /\ job' = [job EXCEPT ![j].made = TRUE] /\ handles' = [handles EXCEPT ![c] = @ \cup {Job(j)}]
        /\ UNCHANGED <<proc, work, asserted>>
    BY <1>5 DEF CreateJob
  <2>2. /\ job'[j] = [job[j] EXCEPT !.made = TRUE] /\ \A k \in Jobs : k # j => job'[k] = job[k]
    BY <1>1, <2>1
  <2>3. /\ job'[j].parent = job[j].parent /\ job'[j].list = job[j].list /\ job'[j].children = job[j].children
        /\ job'[j].num = job[j].num /\ job'[j].used = job[j].used /\ job'[j].made
    <3>1. job[j] \in JobRec
      BY <1>1
    <3> QED BY <2>2, <3>1 DEF JobRec
  <2>4. JobsStay
    BY <1>1, <2>2, <2>3 DEF JobsStay
  <2>5. \A q \in Procs : \A t \in handles'[q] : t \in handles[q] \/ t = Job(j)
    BY <1>1, <2>1
  <2>6. Exists(proc, job', Job(j))
    BY <2>3, ExistsIs
  <2>7. HandlesStay
    BY <1>2, <2>5, <2>6 DEF HandlesStay
  <2> QED BY <2>1, <2>4, <2>7, GoesOnSame, Stays, GoesOnKeeps
<1>6. ASSUME NEW c \in Procs, NEW j \in Jobs, NEW limit \in Limits, SetJobLimits(c, j, limit) PROVE JInv'
  <2>1. /\ Ready /\ Job(j) \in handles[c] /\ job' = [job EXCEPT ![j].limits = {limit}]
        /\ UNCHANGED <<proc, handles, work, asserted>>
    BY <1>6 DEF SetJobLimits, Runs
  <2>2. job[j].made
    BY <2>1, ReadyHas
  <2>3. /\ job'[j] = [job[j] EXCEPT !.limits = {limit}] /\ \A k \in Jobs : k # j => job'[k] = job[k]
    BY <1>1, <2>1
  <2>4. /\ job'[j].parent = job[j].parent /\ job'[j].list = job[j].list /\ job'[j].children = job[j].children
        /\ job'[j].num = job[j].num /\ job'[j].used = job[j].used /\ job'[j].made = job[j].made
    <3>1. job[j] \in JobRec
      BY <1>1
    <3> QED BY <2>3, <3>1 DEF JobRec
  <2>5. JobsStay
    BY <1>1, <2>2, <2>3, <2>4 DEF JobsStay
  <2> QED BY <2>1, <2>5, GoesOnSame, Stays, GoesOnKeeps
<1> QED BY <1>3, <1>4, <1>5, <1>6

\* add_job_process makes no job and destroys none, and the process keeps what it is.
LEMMA AddedMade ==
  ASSUME NEW s \in Pairs, NEW j \in Jobs, NEW p \in Procs
  PROVE  \A k \in Jobs : AddJobProcess(s, j, p).job[k].made = s.job[k].made
<1>1. CASE Denied(s, j, p) \/ s.proc[p].job = j
  BY <1>1 DEF AddJobProcess
<1>2. CASE ~Denied(s, j, p) /\ s.proc[p].job # j
  <2>1. Joined(s, j, p, AddJobProcess(s, j, p).job)
    BY <1>2, AddedIs
  <2> QED BY <2>1 DEF Joined
<1> QED BY <1>1, <1>2

\* A process is moved into a job.
LEMMA AssignJobKeeps ==
  ASSUME LInv, LInv', JInv, NEW c \in Procs, NEW p \in Procs, NEW j \in Jobs, AssignJob(c, j, p)
  PROVE  JInv'
<1> DEFINE s == [proc |-> proc, job |-> job]
           r == AddJobProcess(s, j, p)
           C == Lives(proc, work)
<1>1. Ready /\ Job(j) \in handles[c] /\ proc[p].threads > 0
  BY DEF AssignJob, Runs
<1>2. s \in Pairs /\ s.proc = proc /\ s.job = job
  BY DEF Pairs, LInv, LifeTyped
<1>3. proc[p].made /\ job[j].made /\ p \in C /\ C \in SUBSET Procs /\ JobsOK(proc, job, C)
  BY <1>1, ReadyHas DEF LInv, LifeOK, Lives, JInv
<1>4. proc' = r.proc /\ job' = r.job /\ handles' = handles /\ work' = work /\ asserted' = asserted
  BY DEF AssignJob
<1> HIDE DEF s, C
<1>5. Moved(proc, r.proc, p) /\ \A k \in Jobs : r.job[k].made = job[k].made
  BY <1>2, AddJobProcessIs, AddedMade
<1>6. JobsOK(r.proc, r.job, C)
  BY <1>2, <1>3, JoinKeeps
<1> HIDE DEF r
<1>7. \A q \in Procs : /\ proc'[q].made = proc[q].made /\ proc'[q].ended = proc[q].ended
                       /\ q # p => proc'[q] = proc[q]
  BY <1>4, <1>5 DEF Moved
<1>8. Lives(proc', work') = C
  <2>1. p \in Lives(proc', work')
    BY <1>1, <1>4, <1>5 DEF Lives, Moved
  <2> QED BY <1>3, <1>4, <1>7, <2>1 DEF Lives, C
<1>9. \A t : Exists(proc, job, t) => Exists(proc', job', t)
  BY <1>4, <1>5, <1>7 DEF Exists
<1>10. \A q \in Procs : ~proc'[q].made => proc'[q] = NoProcess
  BY <1>3, <1>7 DEF JInv
<1>11. \A q \in Procs : Stillborn(q)' => Stillborn(q)
  BY <1>7, <1>8 DEF Stillborn, C
<1>12. /\ \A d \in Procs : \A t \in handles'[d] : Exists(proc', job', t)
       /\ \A i \in 1 .. Len(work') : Exists(proc', job', work'[i].what)
  BY <1>4, <1>9 DEF JInv
<1>13. \A q \in Procs : Stillborn(q)' => \A d \in Procs : Process(q) \notin handles'[d]
  BY <1>4, <1>11 DEF JInv
<1> QED BY <1>4, <1>6, <1>8, <1>10, <1>12, <1>13 DEF JInv

\* A process is made and put into jobs; one that could not be is not counted.
LEMMA NewProcessKeeps ==
  ASSUME LInv, LInv', JInv, NEW c \in Procs, NEW p \in Procs, NEW wanted \in Jobs \cup {NoJob},
         NEW inherit \in BOOLEAN, NEW breakaway \in BOOLEAN, NewProcess(c, p, wanted, inherit, breakaway)
  PROVE  JInv'
<1> DEFINE first == [proc |-> [proc EXCEPT ![p] = Fresh], job |-> job]
           parents == Inherited(job, c, breakaway)
           placed == IF parents = {} THEN first ELSE AddJobProcess(first, CHOOSE k \in parents : TRUE, p)
           failed == wanted # NoJob /\ Denied(placed, wanted, p)
           added == IF wanted = NoJob THEN placed ELSE AddJobProcess(placed, wanted, p)
           s == IF failed THEN Failed(added, p) ELSE added
           C == Lives(proc, work)
           D == C \cup {p}
<1>1. /\ Ready /\ ~proc[p].made /\ proc[c].threads > 0 /\ proc[c].made
      /\ wanted # NoJob => Job(wanted) \in handles[c]
  BY DEF NewProcess, Runs, Live, LInv, LifeOK
<1>2. /\ proc \in [Procs -> ProcRec] /\ job \in [Jobs -> JobRec] /\ handles \in [Procs -> SUBSET Targets]
      /\ Rooted(job) /\ \A q \in Procs : proc[q].job \in Jobs \cup {NoJob}
  BY DEF LInv, LifeTyped, Rooted, JobRec, ProcRec
<1>3. /\ job' = s.job /\ proc' = [s.proc EXCEPT ![p].info = ~failed]
      /\ handles' = [handles EXCEPT ![p] = IF inherit THEN handles[c] ELSE {},
                                    ![c] = @ \cup IF failed THEN {} ELSE {Process(p)}]
      /\ work' = work /\ asserted' = asserted
  BY ZenonT(60) DEF NewProcess
<1>4. /\ proc[p].threads = 0 /\ ~proc[p].info /\ proc[p].job = NoJob /\ Dying(work) = {} /\ work = <<>>
      /\ c # p
  <2>1. proc[p] = NoProcess
    BY <1>1 DEF JInv
  <2>2. work = <<>> /\ Dying(work) = {} /\ c # p
    BY <1>1, ReadyHas
  <2> QED BY <2>1, <2>2 DEF NoProcess
<1>5. Fresh \in ProcRec /\ Fresh.made /\ Fresh.threads = 0 /\ ~Fresh.ended /\ Fresh.job = NoJob
  BY DEF Fresh, NoProcess, ProcRec
<1>6. /\ first \in Pairs /\ first.job = job /\ first.proc[p] = Fresh
      /\ \A q \in Procs : q # p => first.proc[q] = proc[q]
  BY <1>2, <1>5 DEF Pairs
<1>7. p \notin C /\ D \in SUBSET Procs /\ p \in D /\ D \ {p} = C /\ C \subseteq Procs
  BY <1>4 DEF Lives
<1>8. Forest(job) /\ Lists(proc, job) /\ Links(proc, job) /\ Nums(proc, job, C)
  BY DEF JInv, JobsOK
<1> HIDE DEF first, C
<1>9. JobsOK(first.proc, first.job, D)
  <2>1. \A q \in Procs : first.proc[q].job = proc[q].job /\ (proc[q].made => first.proc[q].made)
    BY <1>1, <1>4, <1>5, <1>6
  <2>2. \A k \in Jobs : Below(first.proc, job, D, k) = Below(proc, job, C, k)
    <3>1. Above(job, NoJob) = {}
      BY AboveNone
    <3> QED BY <1>4, <1>7, <2>1, <3>1 DEF Below
  <2>3. Nums(first.proc, job, D)
    BY <1>8, <2>2 DEF Nums
  <2>4. Lists(first.proc, job)
    BY <1>8, <2>1 DEF Lists
  <2>5. Links(first.proc, job)
    BY <1>8, <2>1 DEF Links
  <2> QED BY <1>6, <1>8, <2>3, <2>4, <2>5 DEF JobsOK
<1>10. \A k \in parents : k \in Jobs /\ job[k].made
  <2>1. parents \subseteq Above(job, proc[c].job)
    BY DEF Inherited
  <2>2. CASE proc[c].job = NoJob
    BY <2>1, <2>2, AboveNone
  <2>3. CASE proc[c].job # NoJob
    <3>1. proc[c].job \in Jobs /\ job[proc[c].job].made
      BY <1>2, <1>8, <2>3 DEF Links
    <3> HIDE DEF parents
    <3> QED BY <1>2, <1>8, <2>1, <3>1, MadeAbove
  <2> QED BY <2>2, <2>3
<1> HIDE DEF parents
<1>11. /\ placed \in Pairs /\ Moved(first.proc, placed.proc, p) /\ JobsOK(placed.proc, placed.job, D)
       /\ \A k \in Jobs : placed.job[k].made = job[k].made
  <2>1. CASE parents = {}
    BY <1>6, <1>9, <2>1 DEF Moved, Pairs
  <2>2. CASE parents # {}
    <3> DEFINE k == CHOOSE k \in parents : TRUE
    <3>1. k \in Jobs /\ job[k].made /\ placed = AddJobProcess(first, k, p)
      BY <1>10, <2>2
    <3> HIDE DEF k, placed
    <3>2. placed \in Pairs /\ Moved(first.proc, placed.proc, p)
      BY <1>6, <3>1, AddJobProcessIs
    <3>3. \A m \in Jobs : placed.job[m].made = job[m].made
      BY <1>6, <3>1, AddedMade
    <3>4. JobsOK(placed.proc, placed.job, D)
      BY <1>5, <1>6, <1>7, <1>9, <3>1, JoinKeeps
    <3> QED BY <3>2, <3>3, <3>4
  <2> QED BY <2>1, <2>2
<1> HIDE DEF placed, failed
<1>12. /\ added \in Pairs /\ Moved(first.proc, added.proc, p) /\ JobsOK(added.proc, added.job, D)
       /\ \A k \in Jobs : added.job[k].made = job[k].made
  <2>1. CASE wanted = NoJob
    BY <1>11, <2>1
  <2>2. CASE wanted # NoJob
    <3>1. wanted \in Jobs /\ placed.job[wanted].made /\ placed.proc[p].made /\ added = AddJobProcess(placed, wanted, p)
      BY <1>1, <1>5, <1>6, <1>11, <2>2, ReadyHas DEF Moved
    <3> HIDE DEF added
    <3>2. added \in Pairs /\ Moved(placed.proc, added.proc, p)
      BY <1>11, <3>1, AddJobProcessIs
    <3>3. \A m \in Jobs : added.job[m].made = job[m].made
      BY <1>11, <3>1, AddedMade
    <3>4. JobsOK(added.proc, added.job, D)
      BY <1>7, <1>11, <3>1, JoinKeeps
    <3>5. Moved(first.proc, added.proc, p)
      BY <1>11, <3>2 DEF Moved
    <3> QED BY <3>2, <3>3, <3>4, <3>5
  <2> QED BY <2>1, <2>2
<1> HIDE DEF added, D
<1>13. /\ s.proc = added.proc /\ JobsOK(s.proc, s.job, IF failed THEN C ELSE D)
       /\ \A k \in Jobs : s.job[k].made = job[k].made
  <2>1. CASE ~failed
    BY <1>12, <2>1
  <2>2. CASE failed
    <3> DEFINE after == Released(added.proc, added.job, p)
    <3>1. s = [added EXCEPT !.job = after]
      BY <2>2 DEF Failed, Released
    <3>2. s.proc = added.proc /\ s.job = after
      BY <1>12, <3>1 DEF Pairs
    <3> HIDE DEF s
    <3>3. after = Released(added.proc, added.job, p)
      OBVIOUS
    <3> HIDE DEF after
    <3>4. JobsOK(added.proc, after, D \ {p}) /\ \A k \in Jobs : after[k].made = added.job[k].made
      BY ONLY <1>7, <1>12, <3>3, ReleaseKeeps
    <3> QED BY <1>7, <1>12, <2>2, <3>2, <3>4
  <2> QED BY <2>1, <2>2
<1> HIDE DEF s
<1>14. /\ \A q \in Procs : q # p => proc'[q] = proc[q]
       /\ proc'[p].made /\ proc'[p].threads = 0 /\ ~proc'[p].ended /\ (proc'[p].info <=> ~failed)
       /\ \A q \in Procs : proc'[q].job = s.proc[q].job /\ (s.proc[q].made => proc'[q].made)
  <2>1. s.proc \in [Procs -> ProcRec] /\ Moved(first.proc, s.proc, p)
    BY <1>12, <1>13 DEF Pairs
  <2> DEFINE b == ~failed
             r == [s.proc[p] EXCEPT !.info = b]
  <2>2. s.proc[p] \in ProcRec /\ b \in BOOLEAN
    BY <2>1
  <2>3. proc'[p] = r /\ \A q \in Procs : q # p => proc'[q] = s.proc[q]
    BY <1>3, <2>1
  <2> HIDE DEF b
  <2>4. r.made = s.proc[p].made /\ r.threads = s.proc[p].threads /\ r.ended = s.proc[p].ended
        /\ r.job = s.proc[p].job /\ r.info = b
    BY <2>2 DEF ProcRec
  <2> HIDE DEF r
  <2>5. \A q \in Procs : q # p => proc'[q] = proc[q]
    BY <1>6, <2>1, <2>3 DEF Moved
  <2>6. s.proc[p].made /\ s.proc[p].threads = 0 /\ ~s.proc[p].ended
    BY <1>5, <1>6, <2>1 DEF Moved
  <2> QED BY <2>3, <2>4, <2>5, <2>6 DEF b
<1>15. Lives(proc', work') = IF failed THEN C ELSE D
  <2>1. p \in Lives(proc', work') <=> ~failed
    BY <1>3, <1>4, <1>14 DEF Lives
  <2>2. \A q \in Procs : q # p => (q \in Lives(proc', work') <=> q \in C)
    BY <1>3, <1>14 DEF Lives, C
  <2>3. Lives(proc', work') \subseteq Procs
    BY DEF Lives
  <2> QED BY <1>7, <2>1, <2>2, <2>3 DEF D
<1>16. JobsOK(proc', job', Lives(proc', work'))
  <2>1. Lives(proc', work') \in SUBSET Procs
    BY DEF Lives
  <2>2. JobsOK(s.proc, job', Lives(proc', work'))
    BY <1>3, <1>13, <1>15
  <2> QED BY <1>14, <2>1, <2>2, JobsOf
<1>17. \A q \in Procs : ~proc'[q].made => proc'[q] = NoProcess
  BY <1>14 DEF JInv
<1>18. \A t : Exists(proc, job, t) => Exists(proc', job', t)
  BY <1>1, <1>3, <1>13, <1>14 DEF Exists
<1>19. /\ \A d \in Procs : \A t \in handles'[d] : (\E e \in Procs : t \in handles[e]) \/ (t = Process(p) /\ ~failed)
       /\ \A e \in Procs : Process(p) \notin handles[e]
  <2>1. \A d \in Procs : handles'[d] = IF d = c THEN handles[c] \cup (IF failed THEN {} ELSE {Process(p)})
                                       ELSE IF d = p THEN (IF inherit THEN handles[c] ELSE {}) ELSE handles[d]
    BY <1>2, <1>3, <1>4
  <2>2. \A e \in Procs : Process(p) \notin handles[e]
    BY <1>1, ExistsIs DEF JInv
  <2> QED BY <2>1, <2>2
<1>20. \A d \in Procs : \A t \in handles'[d] : Exists(proc', job', t)
  <2>1. Exists(proc', job', Process(p))
    BY <1>14, ExistsIs
  <2>2. \A e \in Procs : \A t \in handles[e] : Exists(proc', job', t)
    BY <1>18 DEF JInv
  <2> QED BY <1>19, <2>1, <2>2
<1>21. ASSUME NEW q \in Procs, Stillborn(q)', NEW d \in Procs PROVE Process(q) \notin handles'[d]
  <2>1. proc'[q].made /\ ~proc'[q].ended /\ q \notin Lives(proc', work')
    BY <1>21 DEF Stillborn
  <2>2. CASE q # p
    <3>1. Stillborn(q)
      BY <1>7, <1>14, <1>15, <2>1, <2>2 DEF Stillborn, C, D
    <3> QED BY <1>1, <3>1, ReadyHas
  <2>3. CASE q = p
    <3>1. failed
      BY <1>7, <1>15, <2>1, <2>3
    <3> QED BY <1>19, <2>3, <3>1
  <2> QED BY <2>2, <2>3
<1>22. \A i \in 1 .. Len(work') : Exists(proc', job', work'[i].what)
  BY <1>3, <1>4
<1>23. asserted'
  BY <1>3 DEF JInv
<1> QED BY <1>16, <1>17, <1>20, <1>21, <1>22, <1>23 DEF JInv

-----------------------------------------------------------------------------
(* The invariant.                                                          *)

\* The server starts without jobs.
LEMMA InitJInv == Init => JInv
<1> SUFFICES ASSUME Init PROVE JInv
  OBVIOUS
<1>1. /\ proc = [p \in Procs |-> IF p = First THEN [Fresh EXCEPT !.threads = 1] ELSE NoProcess]
      /\ job = [j \in Jobs |-> UnusedJob] /\ handles = [p \in Procs |-> {}] /\ work = <<>> /\ asserted
  BY DEF Init
<1>2. /\ UnusedJob.parent = NoJob /\ UnusedJob.list = <<>> /\ UnusedJob.children = <<>> /\ UnusedJob.num = 0
      /\ ~UnusedJob.made
  BY DEF UnusedJob
<1>3. \A p \in Procs : proc[p].job = NoJob /\ (~proc[p].made => proc[p] = NoProcess)
  BY <1>1 DEF Fresh, NoProcess
<1>4. Above(job, NoJob) = {}
  BY AboveNone
<1>5. Forest(job)
  BY <1>1, <1>2, <1>4 DEF Forest
<1>6. Lists(proc, job)
  <2>1. IsInjective(<<>>) /\ Range(<<>>) = {}
    BY DEF IsInjective, Range
  <2>2. \A j \in Jobs : {p \in Procs : proc[p].job = j} = {} /\ {k \in Jobs : job[k].parent = j} = {}
    BY <1>1, <1>2, <1>3, LifeAssumption
  <2> QED BY <1>1, <1>2, <2>1, <2>2 DEF Lists
<1>7. Links(proc, job)
  BY <1>1, <1>2, <1>3 DEF Links
<1>8. Nums(proc, job, Lives(proc, work))
  <2>1. \A j \in Jobs : Below(proc, job, Lives(proc, work), j) = {}
    BY <1>3, <1>4 DEF Below, Lives
  <2> QED BY <1>1, <1>2, <2>1, FS_EmptySet DEF Nums
<1> QED BY <1>1, <1>3, <1>5, <1>6, <1>7, <1>8 DEF JInv, JobsOK

\* What the server does by itself preserves the invariant.
LEMMA ServerKeeps ==
  ASSUME LInv, LInv', JInv, Server
  PROVE  JInv'
<1>1. CASE Unused # {}
  BY <1>1, DestroyKeeps DEF Server
<1>2. CASE Unused = {}
  <2>1. work # <<>> /\ Frames(Top)
    BY <1>2 DEF Server
  <2> QED BY <2>1, TerminateChildrenKeeps, TerminateMembersKeeps, TerminateKeeps, KillThreadKeeps,
             CloseHandlesKeeps, KilledKeeps, KillAllKeeps, CloseOneKeeps DEF Frames
<1> QED BY <1>1, <1>2

\* So does every step.
LEMMA NextJInv ==
  ASSUME LInv, LInv', JInv, ~LateThreads, [Next]_vars
  PROVE  JInv'
<1>1. CASE Server
  BY <1>1, ServerKeeps
<1>2. CASE \E c, p \in Procs, inherit, breakaway \in BOOLEAN :
             \E wanted \in Jobs \cup {NoJob} : NewProcess(c, p, wanted, inherit, breakaway)
  BY <1>2, NewProcessKeeps
<1>3. CASE \E c, p \in Procs : NewThread(c, p)
  BY <1>3, NewThreadKeeps
<1>4. CASE \/ \E p \in Procs : InitFirstThread(p) \/ InitProcessDone(p) \/ HostDies(p) \/ Sigkill(p)
           \/ \E c \in Procs : MakeSystem(c)
  BY <1>4, FlagsKeep
<1>5. CASE \/ \E c, p \in Procs : TerminateProcess(c, p)
           \/ \E c \in Procs, j \in Jobs : TerminateJobRequest(c, j)
           \/ \E p \in Procs : ThreadExits(p)
           \/ \E p \in Procs : Hangup(p)
           \/ ForceShutdown
           \/ ShutdownTimeout
  BY <1>5, CallsKeep
<1>6. CASE \/ \E c, p \in Procs : OpenProcess(c, p)
           \/ \E c \in Procs : \E t \in Targets : CloseHandle(c, t)
           \/ \E c \in Procs, j \in Jobs : CreateJob(c, j)
           \/ \E c \in Procs, j \in Jobs, limit \in Limits : SetJobLimits(c, j, limit)
  BY <1>6, HandlesKeep
<1>7. CASE \E c, p \in Procs, j \in Jobs : AssignJob(c, j, p)
  BY <1>7, AssignJobKeeps
<1>8. CASE UNCHANGED vars
  <2>1. UNCHANGED <<proc, job, handles, work, asserted>>
    BY <1>8 DEF vars
  <2> QED BY <2>1, GoesOnSame, FramesKeep
<1> QED BY <1>1, <1>2, <1>3, <1>4, <1>5, <1>6, <1>7, <1>8 DEF Next

-----------------------------------------------------------------------------
(* The bounds of the numbers.                                              *)

Within(q) == q.threads <= MaxThreads /\ q.timer <= Attempts

\* One process changes, within them.
LEMMA WithinOne ==
  ASSUME LInv, BInv, NEW p \in Procs, NEW r \in ProcRec, Within(r), proc' = [proc EXCEPT ![p] = r]
  PROVE  \A q \in Procs : Within(proc'[q])
<1>1. proc'[p] = r /\ \A q \in Procs : q # p => proc'[q] = proc[q]
  BY OneProcess DEF LInv
<1> QED BY <1>1 DEF BInv, Within

\* The server by itself counts threads down, and starts to look for the host's process.
LEMMA WithinServer ==
  ASSUME LInv, BInv, Server
  PROVE  \A q \in Procs : Within(proc'[q])
<1>1. LifeTyped /\ proc \in [Procs -> ProcRec] /\ work \in Seq(FrameSet) /\ Attempts \in Nat /\ 1 <= Attempts /\ MaxThreads \in Nat
  BY LifeAssumption DEF LInv, LifeTyped
<1>2. \A q \in Procs : /\ proc[q] \in ProcRec /\ proc[q].threads \in Nat /\ proc[q].timer \in Nat
                       /\ proc[q].threads <= MaxThreads /\ proc[q].timer <= Attempts
  BY <1>1 DEF BInv, ProcRec
<1>3. CASE proc' = proc
  BY <1>2, <1>3 DEF Within
<1>4. ASSUME Unused # {}, Destroy, proc' # proc PROVE \A q \in Procs : Within(proc'[q])
  <2>1. PICK t \in Unused : IF t[1] = "process" THEN DestroyProcess(t[2]) ELSE DestroyJob(t[2])
    BY <1>4 DEF Destroy
  <2>2. t[1] = "process"
    BY <1>4, <2>1 DEF DestroyJob
  <2>3. PICK p \in Procs : t = Process(p)
    BY <2>2 DEF Unused, Job
  <2>4. DestroyProcess(p)
    BY <2>1, <2>2, <2>3 DEF Process
  <2>5. proc' = [proc EXCEPT ![p] = NoProcess]
    BY <1>4, <2>4 DEF DestroyProcess
  <2>6. NoProcess \in ProcRec /\ Within(NoProcess)
    BY <1>1 DEF NoProcess, ProcRec, Within
  <2> QED BY <2>5, <2>6, WithinOne
<1>5. ASSUME Unused = {}, work # <<>>, Frames(Top), proc' # proc PROVE \A q \in Procs : Within(proc'[q])
  <2>1. Terminate(Top) \/ KillThread(Top) \/ Killed(Top)
    BY <1>5 DEF Frames, TerminateChildren, TerminateMembers, CloseHandles, KillAll, CloseOne
  <2>2. Top.op \in OfProcess /\ Top \in FrameSet /\ Top = work[Len(work)] /\ Len(work) \in 1 .. Len(work)
    BY <1>1, <1>5, <2>1, TopIs DEF Terminate, KillThread, Killed, OfProcess
  <2>3. PICK p \in Procs : Top.what = Process(p) /\ Top.what[2] = p
    BY <2>2 DEF FrameSet, FrameOK, Process
  <2> DEFINE n == proc[p].threads - 1
             b == proc[p].ended \/ proc[p].threads = 1
             t == IF proc[p].pid THEN 1 ELSE 0
             less == [proc[p] EXCEPT !.threads = n, !.ended = b]
             out == [proc[p] EXCEPT !.info = FALSE, !.timer = t]
             ends == [proc[p] EXCEPT !.is_terminating = TRUE]
  <2>4. \/ proc' = [proc EXCEPT ![p] = ends]
        \/ KillThread(Top) /\ proc' = [proc EXCEPT ![p] = less]
        \/ proc' = [proc EXCEPT ![p] = out]
    BY <1>1, <2>1, <2>3 DEF Terminate, KillThread, Killed
  <2>5. KillThread(Top) => proc[p].threads > 0
    BY <2>2, <2>3 DEF KillThread, LInv, KillOK
  <2>6. b \in BOOLEAN /\ t \in Nat /\ t <= Attempts /\ (KillThread(Top) => n \in Nat /\ n <= MaxThreads)
    BY <1>1, <1>2, <2>5
  <2>7. proc[p] \in ProcRec /\ proc[p].threads <= MaxThreads /\ proc[p].timer <= Attempts
    BY <1>2
  <2> HIDE DEF n, b, t
  <2>8. ends \in ProcRec /\ ends.threads = proc[p].threads /\ ends.timer = proc[p].timer
    BY <2>7 DEF ProcRec
  <2>9. out \in ProcRec /\ out.threads = proc[p].threads /\ out.timer = t
    BY <2>6, <2>7 DEF ProcRec
  <2>10. KillThread(Top) => less \in ProcRec /\ less.threads = n /\ less.timer = proc[p].timer
    BY <2>6, <2>7 DEF ProcRec
  <2> HIDE DEF ends, out, less
  <2> QED BY <2>4, <2>6, <2>7, <2>8, <2>9, <2>10, WithinOne DEF Within
<1> QED BY <1>3, <1>4, <1>5 DEF Server

\* A process is within the bounds when it is made, and gets no thread beyond them.
LEMMA WithinRequests ==
  ASSUME LInv, BInv,
         \/ \E c, p \in Procs, inherit, breakaway \in BOOLEAN :
              \E wanted \in Jobs \cup {NoJob} : NewProcess(c, p, wanted, inherit, breakaway)
         \/ \E c, p \in Procs : NewThread(c, p)
         \/ \E p \in Procs : InitFirstThread(p) \/ InitProcessDone(p) \/ HostDies(p) \/ Sigkill(p) \/ MakeSystem(p)
         \/ \E c, p \in Procs, j \in Jobs : AssignJob(c, j, p)
  PROVE  \A q \in Procs : Within(proc'[q])
<1>1. LifeTyped /\ proc \in [Procs -> ProcRec] /\ job \in [Jobs -> JobRec] /\ Attempts \in Nat /\ MaxThreads \in Nat
      /\ 1 <= MaxThreads
  BY LifeAssumption DEF LInv, LifeTyped
<1>2. \A q \in Procs : /\ proc[q] \in ProcRec /\ proc[q].threads \in Nat /\ proc[q].timer \in Nat
                       /\ proc[q].threads <= MaxThreads /\ proc[q].timer <= Attempts
  BY <1>1 DEF BInv, ProcRec
<1>3. ASSUME NEW c \in Procs, NEW p \in Procs, NEW inherit \in BOOLEAN, NEW breakaway \in BOOLEAN,
             NEW wanted \in Jobs \cup {NoJob}, NewProcess(c, p, wanted, inherit, breakaway)
      PROVE  \A q \in Procs : Within(proc'[q])
  <2> DEFINE first == [proc |-> [proc EXCEPT ![p] = Fresh], job |-> job]
             parents == Inherited(job, c, breakaway)
             placed == IF parents = {} THEN first ELSE AddJobProcess(first, CHOOSE k \in parents : TRUE, p)
             failed == wanted # NoJob /\ Denied(placed, wanted, p)
             added == IF wanted = NoJob THEN placed ELSE AddJobProcess(placed, wanted, p)
             s == IF failed THEN Failed(added, p) ELSE added
  <2>1. proc' = [s.proc EXCEPT ![p].info = ~failed]
    BY <1>3 DEF NewProcess
  <2>2. Fresh \in ProcRec /\ Fresh.threads = 0 /\ Fresh.timer = 0
    BY DEF Fresh, NoProcess, ProcRec
  <2>3. first \in Pairs /\ first.proc[p] = Fresh /\ Moved(first.proc, first.proc, p)
        /\ \A q \in Procs : q # p => first.proc[q] = proc[q]
    BY <1>1, <2>2 DEF Pairs, Moved
  <2>4. parents \subseteq Jobs
    BY DEF Inherited
  <2> HIDE DEF first, parents
  <2>5. placed \in Pairs /\ Moved(first.proc, placed.proc, p)
    <3>1. parents # {} => (CHOOSE k \in parents : TRUE) \in Jobs
      BY <2>4
    <3> QED BY <2>3, <3>1, AddJobProcessIs
  <2> HIDE DEF placed, failed
  <2>6. added \in Pairs /\ Moved(first.proc, added.proc, p)
    <3>1. CASE wanted = NoJob
      BY <2>5, <3>1
    <3>2. CASE wanted # NoJob
      <4>1. AddJobProcess(placed, wanted, p) \in Pairs /\ Moved(placed.proc, AddJobProcess(placed, wanted, p).proc, p)
        BY <2>5, <3>2, AddJobProcessIs
      <4> QED BY <2>5, <3>2, <4>1 DEF Moved
    <3> QED BY <3>1, <3>2
  <2> HIDE DEF added
  <2>7. s.proc = added.proc
    <3> DEFINE after == [k \in Jobs |-> IF k \in Above(added.job, added.proc[p].job)
                                        THEN [added.job[k] EXCEPT !.num = @ - 1] ELSE added.job[k]]
    <3>1. Failed(added, p) = [added EXCEPT !.job = after]
      BY DEF Failed
    <3> HIDE DEF after
    <3>2. [added EXCEPT !.job = after].proc = added.proc
      BY <2>6 DEF Pairs
    <3> QED BY <3>1, <3>2
  <2> HIDE DEF s
  <2>8. s.proc \in [Procs -> ProcRec] /\ Moved(first.proc, s.proc, p)
    BY <2>6, <2>7 DEF Pairs
  <2> DEFINE b == ~failed
             r == [s.proc[p] EXCEPT !.info = b]
  <2>9. proc'[p] = r /\ (\A q \in Procs : q # p => proc'[q] = s.proc[q]) /\ s.proc[p] \in ProcRec
    BY <2>1, <2>8
  <2> HIDE DEF b
  <2>10. r.threads = s.proc[p].threads /\ r.timer = s.proc[p].timer
    BY <2>9 DEF ProcRec
  <2> HIDE DEF r
  <2>11. proc'[p].threads = 0 /\ proc'[p].timer = 0 /\ \A q \in Procs : q # p => proc'[q] = proc[q]
    BY <2>2, <2>3, <2>8, <2>9, <2>10 DEF Moved
  <2>12. \A q \in Procs : proc'[q].threads <= MaxThreads /\ proc'[q].timer <= Attempts
    BY <1>1, <1>2, <2>11
  <2> QED BY <2>12 DEF Within
<1>4. ASSUME NEW p \in Procs, \/ \E c \in Procs : NewThread(c, p)
                              \/ InitFirstThread(p) \/ InitProcessDone(p) \/ HostDies(p) \/ Sigkill(p) \/ MakeSystem(p)
      PROVE  \A q \in Procs : Within(proc'[q])
  <2> DEFINE n == proc[p].threads + 1
             t == proc[p].timer + 1
             more == [proc[p] EXCEPT !.threads = n]
             pids == [proc[p] EXCEPT !.pid = TRUE]
             done == [proc[p] EXCEPT !.info = FALSE]
             died == [proc[p] EXCEPT !.alive = FALSE]
             made == [proc[p] EXCEPT !.is_system = TRUE]
             looks == [proc[p] EXCEPT !.timer = t]
             ends == [proc[p] EXCEPT !.timer = 0, !.alive = FALSE]
  <2>1. \/ proc[p].threads < MaxThreads /\ proc' = [proc EXCEPT ![p] = more]
        \/ proc[p].timer < Attempts /\ proc' = [proc EXCEPT ![p] = looks]
        \/ \E r \in {pids, done, died, made, ends} : proc' = [proc EXCEPT ![p] = r]
    <3>1. CASE \E c \in Procs : NewThread(c, p)
      BY <1>1, <1>2, <3>1 DEF NewThread
    <3>2. CASE Sigkill(p)
      BY <1>1, <3>2 DEF Sigkill
    <3>3. CASE InitFirstThread(p) \/ InitProcessDone(p) \/ HostDies(p) \/ MakeSystem(p)
      BY <1>1, <3>3 DEF InitFirstThread, InitProcessDone, HostDies, MakeSystem
    <3> QED BY <1>4, <3>1, <3>2, <3>3
  <2>2. n \in Nat /\ t \in Nat /\ (proc[p].threads < MaxThreads => n <= MaxThreads)
        /\ (proc[p].timer < Attempts => t <= Attempts) /\ 0 <= Attempts
    BY <1>1, <1>2
  <2>3. proc[p] \in ProcRec /\ proc[p].threads <= MaxThreads /\ proc[p].timer <= Attempts
    BY <1>2
  <2> HIDE DEF n, t
  <2>4. more \in ProcRec /\ more.threads = n /\ more.timer = proc[p].timer
    BY <2>2, <2>3 DEF ProcRec
  <2>5. looks \in ProcRec /\ looks.threads = proc[p].threads /\ looks.timer = t
    BY <2>2, <2>3 DEF ProcRec
  <2>6. /\ pids \in ProcRec /\ pids.threads = proc[p].threads /\ pids.timer = proc[p].timer
        /\ done \in ProcRec /\ done.threads = proc[p].threads /\ done.timer = proc[p].timer
        /\ died \in ProcRec /\ died.threads = proc[p].threads /\ died.timer = proc[p].timer
        /\ made \in ProcRec /\ made.threads = proc[p].threads /\ made.timer = proc[p].timer
        /\ ends \in ProcRec /\ ends.threads = proc[p].threads /\ ends.timer = 0
    BY <2>3 DEF ProcRec
  <2> HIDE DEF more, looks, pids, done, died, made, ends
  <2>7. \A r \in {pids, done, died, made, ends} : r \in ProcRec /\ Within(r)
    BY <2>2, <2>3, <2>6 DEF Within
  <2> QED BY <2>1, <2>2, <2>3, <2>4, <2>5, <2>7, WithinOne DEF Within
<1>5. ASSUME NEW c \in Procs, NEW p \in Procs, NEW j \in Jobs, AssignJob(c, j, p)
      PROVE  \A q \in Procs : Within(proc'[q])
  <2> DEFINE s == [proc |-> proc, job |-> job]
  <2>1. s \in Pairs /\ s.proc = proc
    BY <1>1 DEF Pairs
  <2>2. Moved(proc, proc', p)
    BY <1>5, <2>1, AddJobProcessIs DEF AssignJob
  <2> QED BY <1>2, <2>2 DEF Moved, Within
<1> QED
  <2>1. CASE \E c, p \in Procs, inherit, breakaway \in BOOLEAN :
               \E wanted \in Jobs \cup {NoJob} : NewProcess(c, p, wanted, inherit, breakaway)
    BY <1>3, <2>1
  <2>2. CASE \/ \E c, p \in Procs : NewThread(c, p)
             \/ \E p \in Procs : InitFirstThread(p) \/ InitProcessDone(p) \/ HostDies(p) \/ Sigkill(p) \/ MakeSystem(p)
    BY <1>4, <2>2
  <2>3. CASE \E c, p \in Procs, j \in Jobs : AssignJob(c, j, p)
    BY <1>5, <2>3
  <2> QED BY <2>1, <2>2, <2>3

\* The stage goes on only when its timer expires, and the timer of the last stage is not set again.
Staged ==
  /\ shutdown_stage' <= 2 /\ (shutdown_stage' = 2 => ~shutdown_timeout') /\ stale' \in BOOLEAN

\* A process that ends sets the timer only before the shutdown has begun.
LEMMA DiedStages ==
  ASSUME LInv, BInv, NEW p \in Procs, Died(p), stale' = stale
  PROVE  Staged
<1>1. shutdown_stage' = shutdown_stage /\ (shutdown_timeout' => shutdown_timeout \/ shutdown_stage = 0)
  BY DEF Died
<1>2. shutdown_stage \in Nat
  BY DEF LInv, LifeTyped
<1> QED BY <1>1, <1>2 DEF BInv, Staged

\* The server by itself only ends a shutdown, or loses its way in a list.
LEMMA ServerStages ==
  ASSUME LInv, BInv, Server
  PROVE  Staged
<1>1. shutdown_stage \in Nat /\ shutdown_timeout \in BOOLEAN /\ work \in Seq(FrameSet)
  BY DEF LInv, LifeTyped
<1>2. CASE shutdown_stage' = shutdown_stage /\ shutdown_timeout' = shutdown_timeout /\ stale' \in {stale, TRUE}
  BY <1>1, <1>2 DEF BInv, Staged
<1>3. CASE Destroy
  <2>1. UNCHANGED <<shutdown_stage, shutdown_timeout, stale>>
    BY <1>3 DEF Destroy, DestroyProcess, DestroyJob, counters
  <2> QED BY <1>2, <2>1
<1>4. ASSUME work # <<>>, Frames(Top) PROVE Staged
  <2>1. CASE KillAll(Top)
    <3>1. CASE UNCHANGED counters
      BY <1>2, <2>1, <3>1 DEF KillAll, counters
    <3>2. CASE shutdown_stage' = 2 /\ shutdown_timeout' = FALSE
      BY <1>1, <2>1, <3>2 DEF KillAll, BInv, Staged
    <3> QED BY <2>1, <3>1, <3>2 DEF KillAll
  <2>2. CASE Killed(Top)
    <3>1. PICK p \in Procs : Top.what = Process(p)
      <4>1. Top \in FrameSet
        BY <1>1, <1>4, TopIs DEF LInv, LifeTyped
      <4> QED BY <2>2, <4>1 DEF FrameSet, FrameOK, OfProcess, Killed
    <3>2. Top.what[2] = p
      BY <3>1 DEF Process
    <3>3. UNCHANGED counters \/ Died(p)
      BY <2>2, <3>2 DEF Killed
    <3>4. stale' = stale
      BY <2>2 DEF Killed
    <3>5. CASE UNCHANGED counters
      BY <1>2, <3>4, <3>5 DEF counters
    <3> QED BY <3>3, <3>4, <3>5, DiedStages
  <2>3. CASE TerminateChildren(Top) \/ TerminateMembers(Top)
    <3>1. UNCHANGED <<shutdown_stage, shutdown_timeout>> /\ stale' \in {stale, TRUE}
      BY <2>3 DEF TerminateChildren, TerminateMembers, counters
    <3> QED BY <1>2, <3>1
  <2>4. CASE Terminate(Top) \/ KillThread(Top) \/ CloseHandles(Top) \/ CloseOne(Top)
    <3>1. UNCHANGED <<shutdown_stage, shutdown_timeout, stale>>
      BY <2>4 DEF Terminate, KillThread, CloseHandles, CloseOne, counters
    <3> QED BY <1>2, <3>1
  <2> QED BY <1>4, <2>1, <2>2, <2>3, <2>4 DEF Frames
<1> QED BY <1>3, <1>4 DEF Server

\* Every step keeps the numbers within their bounds.
LEMMA NextBInv ==
  ASSUME LInv, BInv, [Next]_vars
  PROVE  BInv'
<1>1. shutdown_stage \in Nat /\ shutdown_timeout \in BOOLEAN
  BY DEF LInv, LifeTyped
<1>2. UNCHANGED <<shutdown_stage, shutdown_timeout, stale>> => Staged
  BY <1>1 DEF BInv, Staged
<1>4. (\A q \in Procs : Within(proc'[q])) /\ Staged => BInv'
  BY DEF Within, Staged, BInv
<1>5. CASE Server
  BY <1>4, <1>5, WithinServer, ServerStages
<1>6. CASE \/ \E c, p \in Procs, inherit, breakaway \in BOOLEAN :
                \E wanted \in Jobs \cup {NoJob} : NewProcess(c, p, wanted, inherit, breakaway)
           \/ \E c, p \in Procs : NewThread(c, p)
           \/ \E p \in Procs : InitFirstThread(p) \/ InitProcessDone(p) \/ HostDies(p) \/ Sigkill(p) \/ MakeSystem(p)
           \/ \E c, p \in Procs, j \in Jobs : AssignJob(c, j, p)
  <2>1. Staged
    <3>1. CASE \E c, p \in Procs, inherit, breakaway \in BOOLEAN :
                 \E wanted \in Jobs \cup {NoJob} : NewProcess(c, p, wanted, inherit, breakaway)
      <4>1. shutdown_stage' = shutdown_stage /\ shutdown_timeout' = shutdown_timeout /\ stale' = stale
        BY <3>1 DEF NewProcess, counters
      <4> QED BY <1>2, <4>1
    <3>2. CASE \E c, p \in Procs : NewThread(c, p)
      <4>1. shutdown_stage' = shutdown_stage /\ stale' = stale /\ (shutdown_timeout' => shutdown_timeout)
        BY <3>2 DEF NewThread, counters
      <4> QED BY <1>1, <4>1 DEF BInv, Staged
    <3>3. CASE \E p \in Procs : InitFirstThread(p) \/ InitProcessDone(p) \/ HostDies(p)
      <4>1. shutdown_stage' = shutdown_stage /\ shutdown_timeout' = shutdown_timeout /\ stale' = stale
        BY <3>3 DEF InitFirstThread, InitProcessDone, HostDies, counters
      <4> QED BY <1>2, <4>1
    <3>4. CASE \E p \in Procs : Sigkill(p)
      <4>1. PICK p \in Procs : Sigkill(p)
        BY <3>4
      <4>2. stale' = stale /\ (UNCHANGED counters \/ Died(p))
        BY <4>1 DEF Sigkill
      <4>3. CASE UNCHANGED counters
        <5>1. UNCHANGED <<shutdown_stage, shutdown_timeout, stale>>
          BY <4>2, <4>3 DEF counters
        <5> QED BY <1>2, <5>1
      <4> QED BY <4>2, <4>3, DiedStages
    <3>5. CASE \E p \in Procs : MakeSystem(p)
      <4>1. shutdown_stage' = shutdown_stage /\ stale' = stale
            /\ (shutdown_timeout' => shutdown_timeout \/ shutdown_stage = 0)
        BY <3>5 DEF MakeSystem
      <4> QED BY <1>1, <4>1 DEF BInv, Staged
    <3>6. CASE \E c, p \in Procs, j \in Jobs : AssignJob(c, j, p)
      <4>1. shutdown_stage' = shutdown_stage /\ shutdown_timeout' = shutdown_timeout /\ stale' = stale
        BY <3>6 DEF AssignJob, counters
      <4> QED BY <1>2, <4>1
    <3> QED BY <1>6, <3>1, <3>2, <3>3, <3>4, <3>5, <3>6
  <2> QED BY <1>4, <1>6, <2>1, WithinRequests
<1>7. CASE \/ \E c, p \in Procs : TerminateProcess(c, p)
           \/ \E c \in Procs, j \in Jobs : TerminateJobRequest(c, j)
           \/ \E p \in Procs : ThreadExits(p)
           \/ \E p \in Procs : Hangup(p)
           \/ ForceShutdown
  <2>1. proc' = proc /\ UNCHANGED <<shutdown_stage, shutdown_timeout, stale>>
    BY <1>7 DEF TerminateProcess, TerminateJobRequest, ThreadExits, Hangup, ForceShutdown, Starts, counters
  <2> QED BY <2>1 DEF BInv
<1>8. CASE ShutdownTimeout
  <2>1. shutdown_timeout' = (shutdown_stage = 0) /\ shutdown_stage' = shutdown_stage + 1 /\ shutdown_timeout
        /\ stale' = stale /\ proc' = proc
    BY <1>8 DEF ShutdownTimeout
  <2>2. shutdown_stage' <= 2 /\ (shutdown_stage' = 2 => shutdown_stage # 0)
    BY <1>1, <2>1 DEF BInv
  <2> QED BY <2>1, <2>2 DEF BInv
<1>9. CASE \/ \E c, p \in Procs : OpenProcess(c, p)
           \/ \E c \in Procs : \E t \in Targets : CloseHandle(c, t)
           \/ \E c \in Procs, j \in Jobs : CreateJob(c, j)
           \/ \E c \in Procs, j \in Jobs, limit \in Limits : SetJobLimits(c, j, limit)
  <2>1. proc' = proc /\ UNCHANGED <<shutdown_stage, shutdown_timeout, stale>>
    BY <1>9 DEF OpenProcess, CloseHandle, CreateJob, SetJobLimits, counters
  <2> QED BY <2>1 DEF BInv
<1>10. CASE UNCHANGED vars
  <2>1. proc' = proc /\ UNCHANGED <<shutdown_stage, shutdown_timeout, stale>>
    BY <1>10 DEF vars, counters
  <2> QED BY <2>1 DEF BInv
<1> QED BY <1>5, <1>6, <1>7, <1>8, <1>9, <1>10 DEF Next

\* They are at first.
LEMMA InitBInv == Init => BInv
<1> SUFFICES ASSUME Init PROVE BInv
  OBVIOUS
<1>1. /\ proc = [p \in Procs |-> IF p = First THEN [Fresh EXCEPT !.threads = 1] ELSE NoProcess]
      /\ shutdown_stage = 0 /\ shutdown_timeout = FALSE /\ stale = FALSE
  BY DEF Init
<1>2. MaxThreads \in Nat /\ Attempts \in Nat /\ 1 <= MaxThreads
  BY LifeAssumption
<1>3. \A p \in Procs : (proc[p].threads = 0 \/ proc[p].threads = 1) /\ proc[p].timer = 0
  BY <1>1 DEF Fresh, NoProcess
<1>4. 0 <= MaxThreads /\ 0 <= Attempts
  BY <1>2
<1>5. \A p \in Procs : proc[p].threads <= MaxThreads /\ proc[p].timer <= Attempts
  BY ONLY <1>2, <1>3, <1>4, SMT
<1>6. shutdown_stage = 0 /\ ~shutdown_timeout /\ stale \in BOOLEAN
  BY <1>1
<1>7. shutdown_stage <= 2
  BY <1>6
<1> QED BY ONLY <1>5, <1>6, <1>7 DEF BInv

-----------------------------------------------------------------------------
(* The theorems.                                                           *)

\* The states in which no thread was made in a process that has ended.
JobInv == LInv /\ JInv /\ BInv

\* No step leaves them.
LEMMA NextJobInv == ~LateThreads /\ JobInv /\ [Next]_vars => JobInv'
<1> SUFFICES ASSUME ~LateThreads, JobInv, [Next]_vars PROVE JobInv'
  OBVIOUS
<1>1. LInv /\ JInv /\ BInv
  BY DEF JobInv
<1>2. LInv'
  BY <1>1, NextLInv
<1>3. JInv'
  BY <1>1, <1>2, NextJInv
<1>4. BInv'
  BY <1>1, NextBInv
<1> QED BY <1>2, <1>3, <1>4 DEF JobInv

\* When the server serves a request, its processes that run or start are those that were made
\* and have not ended.
LEMMA LivesReady ==
  ASSUME LInv, JInv, Ready, NEW j \in Jobs
  PROVE  Below(proc, job, Lives(proc, work), j)
         = {p \in Procs : proc[p].made /\ ~proc[p].ended /\ j \in Above(job, proc[p].job)}
<1>1. Dying(work) = {} /\ \A p \in Procs : ~Stillborn(p)
  BY ReadyHas
<1>2. \A p \in Procs : proc[p] \in ProcRec /\ LifeOK(proc[p]) /\ (~proc[p].made => proc[p] = NoProcess)
  BY DEF LInv, LifeTyped, JInv
<1>3. ~NoProcess.info
  BY DEF NoProcess
<1>4. \A p \in Procs : p \in Lives(proc, work) => proc[p].made /\ ~proc[p].ended
  BY <1>1, <1>2, <1>3 DEF Lives, LifeOK
<1>5. \A p \in Procs : proc[p].made /\ ~proc[p].ended => p \in Lives(proc, work)
  BY <1>1 DEF Stillborn
<1> QED BY <1>4, <1>5 DEF Below, Lives

\* What is counted is some of the processes.
LEMMA CountWithin ==
  ASSUME NEW S \in SUBSET Procs
  PROVE  Cardinality(S) \in 0 .. Cardinality(Procs)
<1>1. IsFiniteSet(Procs)
  BY LifeAssumption
<1> QED BY <1>1, FS_Subset, FS_CardinalityType

\* The invariant says what it must of the jobs.
LEMMA JobInvExact == JobInv => JobsExact
<1> SUFFICES ASSUME JobInv PROVE JobsExact
  OBVIOUS
<1>1. LInv /\ JInv /\ BInv /\ LifeTyped /\ JobsOK(proc, job, Lives(proc, work))
  BY DEF JobInv, LInv, JInv
<1>2. MaxThreads \in Nat /\ Attempts \in Nat
  BY LifeAssumption
<1>3. TypeOK
  <2>1. \A p \in Procs : /\ proc[p] \in ProcRec /\ handles[p] \subseteq Targets
                         /\ proc[p].threads <= MaxThreads /\ proc[p].timer <= Attempts
    BY <1>1 DEF LifeTyped, BInv
  <2>2. \A p \in Procs : /\ proc[p].threads \in 0 .. MaxThreads /\ proc[p].timer \in 0 .. Attempts
                         /\ proc[p].job \in Jobs \cup {NoJob} /\ handles[p] \subseteq Targets
    BY <1>2, <2>1 DEF ProcRec
  <2>3. \A j \in Jobs : job[j].num \in 0 .. Cardinality(Procs)
    <3>1. \A j \in Jobs : Below(proc, job, Lives(proc, work), j) \in SUBSET Procs
      BY DEF Below, Lives
    <3> QED BY <1>1, <3>1, CountWithin DEF JobsOK, Nums
  <2>4. \A j \in Jobs : job[j].parent \in Jobs \cup {NoJob}
    BY <1>1 DEF LifeTyped, JobRec
  <2>5. running_processes \in 0 .. Cardinality(Procs) /\ user_processes \in 0 .. Cardinality(Procs)
    <3>1. There(proc, work) \in SUBSET Procs /\ Users(proc, work) \in SUBSET Procs
      BY DEF There, Users
    <3> QED BY <1>1, <3>1, CountWithin DEF LInv, CountsOK
  <2>6. shutdown_stage \in 0 .. 2 /\ shutdown_timeout \in BOOLEAN /\ stale \in BOOLEAN
    BY <1>1 DEF LifeTyped, BInv
  <2>7. asserted \in BOOLEAN
    BY <1>1 DEF JInv
  <2> QED BY <2>2, <2>3, <2>4, <2>5, <2>6, <2>7 DEF TypeOK
<1>4. JobCounts
  BY <1>1, LivesReady DEF JobCounts, JobsOK, Nums
<1>5. JobForest
  BY <1>1 DEF JobForest, JobsOK, Forest, Lists
<1> QED BY <1>3, <1>4, <1>5 DEF JobsExact

\* The jobs are a forest, the lists of the processes and of the jobs below a job are exact and
\* without repetition whatever is moved, made and killed, and a job counts just the processes in
\* it or below it that have not ended (add_job_process, release_job_process, process_destroy,
\* job_destroy): for any processes, jobs and programs, if no thread is made in a process that has
\* ended.
THEOREM JobsAreExact == ~LateThreads => (Spec => []JobsExact)
<1> SUFFICES ASSUME ~LateThreads PROVE Spec => []JobsExact
  OBVIOUS
<1>1. Init => JobInv
  BY InitLInv, InitJInv, InitBInv DEF JobInv
<1>2. JobInv /\ [Next]_vars => JobInv'
  BY NextJobInv
<1> QED BY <1>1, <1>2, JobInvExact, PTL DEF Spec

\* No assertion of process_destroy, job_destroy and release_job_process fails: a process is
\* destroyed without threads and without a timer, a job when it counts nothing and has nothing
\* in its lists, and no count is taken below zero, under the same hypothesis.
THEOREM NoAssertionFails == ~LateThreads => (Spec => []NoAssertFails)
<1> SUFFICES ASSUME ~LateThreads PROVE Spec => []NoAssertFails
  OBVIOUS
<1>1. Init => JobInv
  BY InitLInv, InitJInv, InitBInv DEF JobInv
<1>2. JobInv /\ [Next]_vars => JobInv'
  BY NextJobInv
<1>3. JobInv => NoAssertFails
  BY DEF JobInv, JInv, NoAssertFails
<1> QED BY <1>1, <1>2, <1>3, PTL DEF Spec
-----------------------------------------------------------------------------
(* The order of a list, as a loop goes through it.                         *)

\* y is the entry x or comes after it.
Ahead(list, x, y) == \E a, b \in DOMAIN list : a <= b /\ list[a] = x /\ list[b] = y

\* At the beginning every entry is ahead; when the loop goes on, all but the one it was at.
LEMMA AheadIs ==
  ASSUME NEW S, NEW list \in Seq(S), IsInjective(list)
  PROVE  /\ \A y \in Range(list) : Ahead(list, Begin(list), y)
         /\ \A x, y : Ahead(list, x, y) => x \in S /\ y \in S /\ (x = y \/ Ahead(list, NextIn(list, x), y))
<1>1. Len(list) \in Nat /\ DOMAIN list = 1 .. Len(list) /\ \A i \in 1 .. Len(list) : list[i] \in S
  OBVIOUS
<1>2. ASSUME NEW y \in Range(list) PROVE Ahead(list, Begin(list), y)
  <2>1. PICK b \in DOMAIN list : list[b] = y
    BY DEF Range
  <2>2. 1 \in DOMAIN list /\ 1 <= b /\ list # <<>>
    BY <1>1, <2>1
  <2>3. Begin(list) = list[1]
    BY <2>2 DEF Begin
  <2> QED BY <2>1, <2>2, <2>3 DEF Ahead
<1>3. ASSUME NEW x, NEW y, Ahead(list, x, y), x # y PROVE Ahead(list, NextIn(list, x), y)
  <2>1. PICK a \in DOMAIN list, b \in DOMAIN list : a <= b /\ list[a] = x /\ list[b] = y
    BY <1>3 DEF Ahead
  <2>2. a \in 1 .. (Len(list) - 1) /\ a + 1 \in DOMAIN list /\ a + 1 <= b
    BY <1>1, <1>3, <2>1
  <2> DEFINE after == {i \in 1 .. (Len(list) - 1) : list[i] = x}
  <2>3. \A i \in after : i = a
    BY <1>1, <2>1 DEF IsInjective
  <2>4. after # {} /\ (CHOOSE i \in after : TRUE) = a
    BY <2>1, <2>2, <2>3
  <2>5. NextIn(list, x) = list[a + 1]
    BY <2>4 DEF NextIn
  <2> QED BY <2>1, <2>2, <2>5 DEF Ahead
<1>4. \A x, y : Ahead(list, x, y) => x \in S /\ y \in S
  BY <1>1 DEF Ahead
<1> QED BY <1>2, <1>3, <1>4

\* Taking out another entry changes nothing of that.
LEMMA AheadWithout ==
  ASSUME NEW S, NEW list \in Seq(S), NEW z, NEW x, NEW y, Ahead(list, x, y), x # z, y # z
  PROVE  Ahead(Without(list, z), x, y)
<1> DEFINE l == Without(list, z)
<1>1. CASE l = list
  BY <1>1
<1>2. ASSUME NEW c \in DOMAIN list, list[c] = z, DOMAIN l = 1 .. (Len(list) - 1),
             \A i \in 1 .. (Len(list) - 1) : l[i] = IF i < c THEN list[i] ELSE list[i + 1]
      PROVE  Ahead(l, x, y)
  <2> HIDE DEF l
  <2>1. PICK a \in DOMAIN list, b \in DOMAIN list : a <= b /\ list[a] = x /\ list[b] = y
    BY DEF Ahead
  <2>2. Len(list) \in Nat /\ DOMAIN list = 1 .. Len(list) /\ a # c /\ b # c
    BY <1>2, <2>1
  <2>3. ASSUME NEW k \in DOMAIN list, k # c
        PROVE  /\ (IF k < c THEN k ELSE k - 1) \in DOMAIN l
               /\ l[IF k < c THEN k ELSE k - 1] = list[k]
    <3>1. CASE k < c
      BY <1>2, <2>2, <3>1
    <3>2. CASE k > c
      <4>1. k - 1 \in 1 .. (Len(list) - 1) /\ ~(k - 1 < c) /\ (k - 1) + 1 = k /\ ~(k < c)
        BY <2>2, <3>2
      <4>2. l[k - 1] = list[(k - 1) + 1]
        BY <1>2, <4>1
      <4> QED BY <1>2, <4>1, <4>2
    <3> QED BY <2>2, <2>3, <3>1, <3>2
  <2>4. (IF a < c THEN a ELSE a - 1) <= (IF b < c THEN b ELSE b - 1)
    BY <2>1, <2>2
  <2> QED BY <2>1, <2>2, <2>3, <2>4 DEF Ahead
<1> HIDE DEF l
<1> QED BY <1>1, <1>2, WithoutAt DEF l

-----------------------------------------------------------------------------
(* What the loops of terminate_job have done and have still to do.         *)

\* Nothing in the job or below it runs.
Finished(ps, jobs, j) == \A p \in Procs : j \in Above(jobs, ps[p].job) => ps[p].threads = 0

\* The call above one terminates a job, or a process with all its threads.
Terminates(f, t) == f.what = t /\ f.op \in OfJob \cup {"terminate"} /\ ~f.skip
CallsOn(w, i, t) == i < Len(w) /\ Terminates(w[i + 1], t)

\* Each job below is finished, ahead of the loop, or being terminated; and so is then
\* each process of the job.
LoopOK(ps, jobs, w, i, j) ==
  /\ w[i].op = "terminateChildren" /\ ~Gone(jobs, w[i].at) =>
       \A k \in Jobs : jobs[k].parent = j =>
         Finished(ps, jobs, k) \/ Ahead(jobs[j].children, w[i].at, k) \/ CallsOn(w, i, Job(k))
  /\ w[i].op = "terminateMembers" => \A k \in Jobs : jobs[k].parent = j => Finished(ps, jobs, k)
  /\ w[i].op = "terminateMembers" /\ ~Gone(ps, w[i].at) =>
       \A p \in Procs : ps[p].job = j =>
         ps[p].threads = 0 \/ Ahead(jobs[j].list, w[i].at, p) \/ CallsOn(w, i, Process(p))

LoopsOK(ps, jobs, w) == \A i \in 1 .. Len(w), j \in Jobs : w[i].what = Job(j) => LoopOK(ps, jobs, w, i, j)

TInv == LoopsOK(proc, job, work)

\* In the middle of its calls the server makes nothing: it kills, destroys and unlinks.
Shrinks ==
  /\ \A p \in Procs : /\ proc[p].threads = 0 => proc'[p].threads = 0
                      /\ proc'[p].made => proc[p].made
                      /\ proc'[p].job \in {proc[p].job, NoJob}
  /\ \A k \in Jobs : /\ job'[k].made => job[k].made
                     /\ job'[k].parent \in {job[k].parent, NoJob}
  /\ \A j \in Jobs : job'[j].made =>
       /\ \A x, y \in Jobs : Ahead(job[j].children, x, y) /\ job'[x].made /\ job'[y].made
                               => Ahead(job'[j].children, x, y)
       /\ \A x, y \in Procs : Ahead(job[j].list, x, y) /\ proc'[x].made /\ proc'[y].made
                               => Ahead(job'[j].list, x, y)

\* What is finished stays so.
LEMMA FinishedStays ==
  ASSUME LInv, LInv', Shrinks
  PROVE  \A k \in Jobs : Finished(proc, job, k) => Finished(proc', job', k)
<1>1. Rooted(job) /\ Rooted(job') /\ \A p \in Procs : proc[p].job \in Jobs \cup {NoJob} /\ proc'[p].job \in Jobs \cup {NoJob}
  BY DEF LInv, LifeTyped, Rooted, JobRec, ProcRec
<1>2. \A x \in Jobs \cup {NoJob} : Above(job', x) \subseteq Above(job, x)
  <2> SUFFICES ASSUME NEW x \in Jobs \cup {NoJob} PROVE Above(job', x) \subseteq Above(job, x)
    OBVIOUS
  <2>1. IsUpward(job, x, Above(job, x))
    BY <1>1, AboveUpward
  <2>2. IsUpward(job', x, Above(job, x))
    BY <2>1 DEF IsUpward, Shrinks
  <2> QED BY <2>2, AboveLeast
<1>3. \A p \in Procs : Above(job', proc'[p].job) \subseteq Above(job, proc[p].job)
  BY <1>1, <1>2, AboveNone DEF Shrinks
<1> QED BY <1>3 DEF Finished, Shrinks

\* So does what is said of a loop that goes on, if what it called is done or goes on too.
LEMMA LoopStays ==
  ASSUME LInv, LInv', JInv, JInv', Shrinks, NEW i, i \in 1 .. Len(work), i \in 1 .. Len(work'), work'[i] = work[i],
         NEW j \in Jobs, work[i].what = Job(j), LoopOK(proc, job, work, i, j),
         \A k \in Jobs : CallsOn(work, i, Job(k)) => CallsOn(work', i, Job(k)) \/ Finished(proc', job', k),
         \A p \in Procs : CallsOn(work, i, Process(p)) => CallsOn(work', i, Process(p)) \/ proc'[p].threads = 0
  PROVE  LoopOK(proc', job', work', i, j)
<1> DEFINE f == work[i]
<1>1. f \in FrameSet /\ job'[j].made /\ job[j].made
  <2>1. f \in FrameSet
    BY DEF LInv, LifeTyped
  <2>2. Exists(proc', job', work'[i].what) /\ Exists(proc, job, work[i].what)
    BY DEF JInv
  <2> QED BY <2>1, <2>2, ExistsIs
<1>2. \A k \in Jobs : Finished(proc, job, k) => Finished(proc', job', k)
  BY FinishedStays
<1>3. /\ \A k \in Jobs : job'[k].parent # NoJob => job'[k].made
      /\ \A p \in Procs : proc'[p].job # NoJob => proc'[p].made
  BY DEF JInv, JobsOK, Links
<1>4. \A k \in Jobs : job'[k].parent = j => job[k].parent = j /\ job'[k].made
  BY <1>3, LifeAssumption DEF Shrinks
<1>5. \A p \in Procs : proc'[p].job = j => proc[p].job = j /\ proc'[p].made
  BY <1>3, LifeAssumption DEF Shrinks
<1>6. ASSUME f.op = "terminateChildren", ~Gone(job', f.at), NEW k \in Jobs, job'[k].parent = j
      PROVE  Finished(proc', job', k) \/ Ahead(job'[j].children, f.at, k) \/ CallsOn(work', i, Job(k))
  <2>1. f.at \in Jobs \cup {Nothing}
    BY <1>1, <1>6 DEF FrameSet, FrameOK
  <2>2. ~Gone(job, f.at)
    BY <1>6, <2>1 DEF Gone, Shrinks
  <2>3. Finished(proc, job, k) \/ Ahead(job[j].children, f.at, k) \/ CallsOn(work, i, Job(k))
    BY <1>4, <1>6, <2>2 DEF LoopOK
  <2>4. ASSUME Ahead(job[j].children, f.at, k) PROVE Ahead(job'[j].children, f.at, k)
    <3>1. f.at \in Jobs
      <4>1. job[j].children \in Seq(Jobs) /\ IsInjective(job[j].children)
        BY DEF LInv, LifeTyped, JobRec, JInv, JobsOK, Lists
      <4> QED BY <2>4, <4>1, AheadIs
    <3>2. job'[f.at].made
      BY <1>6, <3>1, LifeAssumption DEF Gone
    <3> QED BY <1>1, <1>4, <1>6, <2>4, <3>1, <3>2 DEF Shrinks
  <2> QED BY <1>2, <2>3, <2>4
<1>7. ASSUME f.op = "terminateMembers", NEW k \in Jobs, job'[k].parent = j PROVE Finished(proc', job', k)
  BY <1>2, <1>4, <1>7 DEF LoopOK
<1>8. ASSUME f.op = "terminateMembers", ~Gone(proc', f.at), NEW p \in Procs, proc'[p].job = j
      PROVE  proc'[p].threads = 0 \/ Ahead(job'[j].list, f.at, p) \/ CallsOn(work', i, Process(p))
  <2>1. f.at \in Procs \cup {Nothing}
    BY <1>1, <1>8 DEF FrameSet, FrameOK
  <2>2. ~Gone(proc, f.at)
    BY <1>8, <2>1 DEF Gone, Shrinks
  <2>3. proc[p].threads = 0 \/ Ahead(job[j].list, f.at, p) \/ CallsOn(work, i, Process(p))
    BY <1>5, <1>8, <2>2 DEF LoopOK
  <2>4. ASSUME Ahead(job[j].list, f.at, p) PROVE Ahead(job'[j].list, f.at, p)
    <3>1. f.at \in Procs
      <4>1. job[j].list \in Seq(Procs) /\ IsInjective(job[j].list)
        BY DEF LInv, LifeTyped, JobRec, JInv, JobsOK, Lists
      <4> QED BY <2>4, <4>1, AheadIs
    <3>2. proc'[f.at].made
      BY <1>8, <3>1, LifeAssumption DEF Gone
    <3> QED BY <1>1, <1>5, <1>8, <2>4, <3>1, <3>2 DEF Shrinks
  <2> QED BY <2>3, <2>4 DEF Shrinks
<1> QED BY <1>6, <1>7, <1>8 DEF LoopOK

\* What takes the place of the innermost call terminates the same, or that is done.
Succeeds(s) ==
  /\ \A k \in Jobs : Terminates(Top, Job(k)) => Finished(proc', job', k) \/ (Len(s) > 0 /\ Terminates(s[1], Job(k)))
  /\ \A p \in Procs : Terminates(Top, Process(p)) => proc'[p].threads = 0 \/ (Len(s) > 0 /\ Terminates(s[1], Process(p)))

\* Calls are made, or take the place of the innermost one.
LEMMA CallsKeepLoops ==
  ASSUME LInv, LInv', JInv, JInv', TInv, Shrinks, NEW m \in 0 .. Len(work), NEW s \in Seq(FrameSet),
         work' = SubSeq(work, 1, m) \o s, m = Len(work) \/ (work # <<>> /\ m = Len(work) - 1 /\ Succeeds(s)),
         \A n \in 1 .. Len(s), j \in Jobs : s[n].what = Job(j) => LoopOK(proc', job', work', m + n, j)
  PROVE  TInv'
<1>1. work \in Seq(FrameSet) /\ Len(work) \in Nat /\ Len(s) \in Nat
  BY DEF LInv, LifeTyped
<1>2. IsRestacked(work, m, s, work')
  BY <1>1, Restacked
<1>3. work' \in Seq(FrameSet) /\ Len(work') = m + Len(s) /\ m \in Nat
  BY <1>1, <1>2 DEF IsRestacked
<1> SUFFICES ASSUME NEW i \in 1 .. Len(work'), NEW j \in Jobs, work'[i].what = Job(j)
             PROVE  LoopOK(proc', job', work', i, j)
  BY DEF TInv, LoopsOK
<1>4. CASE i \notin 1 .. m
  <2>1. i - m \in 1 .. Len(s) /\ work'[i] = s[i - m] /\ m + (i - m) = i
    BY <1>2, <1>3, <1>4 DEF IsRestacked
  <2> QED BY <2>1
<1>5. CASE i \in 1 .. m
  <2>1. i \in 1 .. Len(work) /\ work'[i] = work[i]
    BY <1>1, <1>2, <1>3, <1>5 DEF IsRestacked
  <2>2. LoopOK(proc, job, work, i, j)
    BY <2>1 DEF TInv, LoopsOK
  <2>3. CASE i + 1 \in 1 .. m
    <3>1. work'[i + 1] = work[i + 1] /\ i < Len(work')
      BY <1>1, <1>2, <1>3, <2>3 DEF IsRestacked
    <3>2. \A t : CallsOn(work, i, t) => CallsOn(work', i, t)
      BY <3>1 DEF CallsOn
    <3> QED BY <2>1, <2>2, <3>2, LoopStays
  <2>4. CASE i + 1 \notin 1 .. m /\ m = Len(work)
    <3>1. \A t : ~CallsOn(work, i, t)
      BY <1>1, <1>5, <2>4 DEF CallsOn
    <3> QED BY <2>1, <2>2, <3>1, LoopStays
  <2>5. CASE i + 1 \notin 1 .. m /\ m = Len(work) - 1 /\ work # <<>> /\ Succeeds(s)
    <3>1. i = m /\ i + 1 = Len(work) /\ Top = work[i + 1]
      BY <1>1, <1>3, <1>5, <2>5, TopIs
    <3>2. \A t : CallsOn(work, i, t) => Terminates(Top, t)
      BY <3>1 DEF CallsOn
    <3>3. Len(s) > 0 => i < Len(work') /\ work'[i + 1] = s[1]
      BY <1>1, <1>2, <1>3, <3>1 DEF IsRestacked
    <3>4. \A t : Len(s) > 0 /\ Terminates(s[1], t) => CallsOn(work', i, t)
      BY <3>3 DEF CallsOn
    <3> QED BY <2>1, <2>2, <2>5, <3>2, <3>4, LoopStays DEF Succeeds
  <2> QED BY <2>3, <2>4, <2>5
<1> QED BY <1>4, <1>5

\* The stack before and after a step.
LEMMA StackIs ==
  ASSUME LInv
  PROVE  /\ work = SubSeq(work, 1, Len(work)) \o <<>> /\ Len(work) \in 0 .. Len(work)
         /\ \A s : Call(s) = SubSeq(work, 1, Len(work)) \o s
         /\ work # <<>> => /\ Len(work) - 1 \in 0 .. Len(work) /\ Return = SubSeq(work, 1, Len(work) - 1) \o <<>>
                           /\ \A s : Return \o s = SubSeq(work, 1, Len(work) - 1) \o s
<1>1. work \in Seq(FrameSet)
  BY DEF LInv, LifeTyped
<1>2. SubSeq(work, 1, Len(work)) = work /\ work \o <<>> = work /\ Len(work) \in 0 .. Len(work)
  BY <1>1
<1>3. \A s : Call(s) = SubSeq(work, 1, Len(work)) \o s
  BY <1>2 DEF Call
<1>5. work = SubSeq(work, 1, Len(work)) \o <<>>
  BY <1>2
<1>4. ASSUME work # <<>>
      PROVE  /\ Len(work) - 1 \in 0 .. Len(work) /\ Return = SubSeq(work, 1, Len(work) - 1) \o <<>>
             /\ \A s : Return \o s = SubSeq(work, 1, Len(work) - 1) \o s
  <2>1. Return = SubSeq(work, 1, Len(work) - 1) /\ Len(work) - 1 \in 0 .. Len(work)
    BY <1>1, <1>4, TopIs
  <2>2. SubSeq(work, 1, Len(work) - 1) \in Seq(FrameSet)
    BY <1>1, <2>1, Dropped
  <2>3. SubSeq(work, 1, Len(work) - 1) \o <<>> = SubSeq(work, 1, Len(work) - 1)
    BY <2>2
  <2> QED BY <2>1, <2>3
<1> QED BY <1>2, <1>3, <1>4, <1>5, Zenon

\* The names of objects are distinct.
LEMMA NamesAre ==
  /\ \A p, q : (Process(p) = Process(q) <=> p = q) /\ (Job(p) = Job(q) <=> p = q) /\ Process(p) # Job(q)
  /\ \A p : Process(p) # <<"server">> /\ Job(p) # <<"server">>
  /\ \A o, w, a, sk : /\ Frame(o, w).what = w /\ Frame(o, w).op = o /\ ~Frame(o, w).skip /\ Frame(o, w).at = Nothing
                      /\ [Frame(o, w) EXCEPT !.at = a].what = w /\ [Frame(o, w) EXCEPT !.at = a].op = o
                      /\ ~[Frame(o, w) EXCEPT !.at = a].skip /\ [Frame(o, w) EXCEPT !.at = a].at = a
                      /\ [Frame(o, w) EXCEPT !.skip = sk].what = w
  BY DEF Process, Job, Frame

\* The calls about a process are no loops.
LEMMA ProcessFrames ==
  \A o \in OfProcess, p \in Procs :
    Frame(o, Process(p)) \in FrameSet /\ \A j \in Jobs : Frame(o, Process(p)).what # Job(j)
<1> SUFFICES ASSUME NEW o \in OfProcess, NEW p \in Procs
             PROVE  Frame(o, Process(p)) \in FrameSet /\ \A j \in Jobs : Frame(o, Process(p)).what # Job(j)
  OBVIOUS
<1>1. Frame(o, Process(p)) \in FrameSet
  BY FramesTyped, Zenon
<1>2. Frame(o, Process(p)).what = Process(p)
  BY DEF Frame
<1> QED BY <1>1, <1>2, NamesAre

\* Nothing is called and nothing returns.
LEMMA SameStack ==
  ASSUME LInv, LInv', JInv, JInv', TInv, Shrinks, work' = work
  PROVE  TInv'
<1> DEFINE s == <<>>
<1>1. s \in Seq(FrameSet) /\ \A n \in 1 .. Len(s) : FALSE
  OBVIOUS
<1>2. work' = SubSeq(work, 1, Len(work)) \o s /\ Len(work) \in 0 .. Len(work)
  BY StackIs
<1> HIDE DEF s
<1> QED BY <1>1, <1>2, CallsKeepLoops

\* Frames of which none is a loop.
NoLoops(s) == s \in Seq(FrameSet) /\ \A n \in 1 .. Len(s), j \in Jobs : s[n].what # Job(j)

\* No frame, one that is not a job's, or two of them.
LEMMA NoLoopSeqs ==
  /\ NoLoops(<<>>)
  /\ \A a \in FrameSet : (\A j \in Jobs : a.what # Job(j)) => NoLoops(<<a>>)
  /\ \A a, b \in FrameSet : (\A j \in Jobs : a.what # Job(j)) /\ (\A j \in Jobs : b.what # Job(j)) => NoLoops(<<a, b>>)
<1>1. NoLoops(<<>>)
  BY DEF NoLoops
<1>2. \A a \in FrameSet : (\A j \in Jobs : a.what # Job(j)) => NoLoops(<<a>>)
  BY DEF NoLoops
<1>3. \A a, b \in FrameSet : (\A j \in Jobs : a.what # Job(j)) /\ (\A j \in Jobs : b.what # Job(j)) => NoLoops(<<a, b>>)
  BY DEF NoLoops
<1> QED BY <1>1, <1>2, <1>3

\* Such frames are called, or take the place of one.
LEMMA CalledLoops ==
  ASSUME LInv, LInv', JInv, JInv', TInv, Shrinks, NEW s, NoLoops(s), work' = Call(s)
  PROVE  TInv'
BY StackIs, CallsKeepLoops DEF NoLoops

\* The call on top returns, having done what the loop below it waits for, or such frames take its place.
LEMMA ReturnedLoops ==
  ASSUME LInv, LInv', JInv, JInv', TInv, Shrinks, work # <<>>, NEW s, NoLoops(s), Succeeds(s),
         work' = Return \o s \/ (s = <<>> /\ work' = Return)
  PROVE  TInv'
<1>1. work' = SubSeq(work, 1, Len(work) - 1) \o s /\ Len(work) - 1 \in 0 .. Len(work)
  BY StackIs
<1> QED BY <1>1, CallsKeepLoops DEF NoLoops

\* A call that terminates nothing has no successor.
LEMMA OtherCalls ==
  ASSUME work # <<>>, Top.op \notin OfJob \cup {"terminate"}, NEW s
  PROVE  Succeeds(s)
BY DEF Succeeds, Terminates

\* Only what is no link and no thread changes.
SameLinks ==
  \A k \in Jobs : /\ job'[k].made = job[k].made /\ job'[k].parent = job[k].parent
                  /\ job'[k].list = job[k].list /\ job'[k].children = job[k].children
ThreadsFall ==
  \A p \in Procs : /\ proc[p].threads = 0 => proc'[p].threads = 0
                   /\ proc'[p].made = proc[p].made /\ proc'[p].job = proc[p].job

\* Where no link changes and no thread comes, the tree does not grow.
LEMMA LinksShrink ==
  /\ SameLinks /\ ThreadsFall => Shrinks
  /\ job' = job => SameLinks
  /\ proc' = proc => ThreadsFall
BY DEF SameLinks, ThreadsFall, Shrinks

\* A loop over the jobs below has all of them ahead when it starts.
LEMMA LoopStarts ==
  ASSUME LInv, JInv, UNCHANGED <<proc, job>>, NEW j \in Jobs, NEW i, work'[i] = TerminateJob(j)
  PROVE  LoopOK(proc', job', work', i, j)
<1>1. job[j].children \in Seq(Jobs) /\ IsInjective(job[j].children)
      /\ Range(job[j].children) = {k \in Jobs : job[k].parent = j}
  BY DEF LInv, LifeTyped, JobRec, JInv, JobsOK, Lists
<1>2. work'[i].op = "terminateChildren" /\ work'[i].at = Begin(job[j].children)
  BY NamesAre DEF TerminateJob
<1>3. \A k \in Jobs : job[k].parent = j => Ahead(job[j].children, Begin(job[j].children), k)
  BY <1>1, AheadIs
<1> QED BY <1>2, <1>3 DEF LoopOK

\* When a loop over the processes ends, nothing in the job or below it runs.
LEMMA MembersDone ==
  ASSUME LInv, JInv, TInv, work # <<>>, Top.op = "terminateMembers", Top.at = Nothing, NEW j \in Jobs, Top.what = Job(j)
  PROVE  Finished(proc, job, j)
<1>1. Len(work) \in 1 .. Len(work) /\ Top = work[Len(work)]
  BY TopIs DEF LInv, LifeTyped
<1>2. LoopOK(proc, job, work, Len(work), j)
  BY <1>1 DEF TInv, LoopsOK
<1>3. \A t : ~CallsOn(work, Len(work), t)
  BY <1>1 DEF CallsOn
<1>4. \A p \in Procs : ~Ahead(job[j].list, Nothing, p)
  <2>1. job[j].list \in Seq(Procs) /\ IsInjective(job[j].list)
    BY DEF LInv, LifeTyped, JobRec, JInv, JobsOK, Lists
  <2>2. \A p : Ahead(job[j].list, Nothing, p) => Nothing \in Procs
    BY <2>1, AheadIs
  <2> QED BY <2>2, LifeAssumption
<1>5. \A p \in Procs : proc[p].job = j => proc[p].threads = 0
  BY <1>1, <1>2, <1>3, <1>4 DEF LoopOK, Gone
<1>6. \A k \in Jobs : job[k].parent = j => Finished(proc, job, k)
  BY <1>1, <1>2 DEF LoopOK
<1> SUFFICES ASSUME NEW p \in Procs, j \in Above(job, proc[p].job) PROVE proc[p].threads = 0
  BY DEF Finished
<1>7. CASE proc[p].job = j
  BY <1>5, <1>7
<1>8. CASE proc[p].job # j
  <2>1. Rooted(job) /\ proc[p].job \in Jobs \cup {NoJob}
    BY DEF LInv, LifeTyped, Rooted, JobRec, ProcRec
  <2>2. PICK k \in Above(job, proc[p].job) : job[k].parent = j
    BY <1>8, <2>1, AboveHasChild
  <2>3. k \in Jobs
    BY DEF Above
  <2> QED BY <1>6, <2>2, <2>3 DEF Finished
<1> QED BY <1>7, <1>8

-----------------------------------------------------------------------------
(* The loops through the server's own steps.                               *)

\* terminate_job goes on to the next job below, or to the processes of the job.
LEMMA TerminateChildrenLoops ==
  ASSUME LInv, LInv', JInv, JInv', TInv, work # <<>>, TerminateChildren(Top)
  PROVE  TInv'
<1>1. LifeTyped /\ work \in Seq(FrameSet)
  BY DEF LInv, LifeTyped
<1>2. /\ Top \in FrameSet /\ Top.op = "terminateChildren" /\ Top.op \in OfJob /\ Top = work[Len(work)]
      /\ Len(work) \in 1 .. Len(work)
  BY <1>1, TopIs DEF TerminateChildren, OfJob
<1>3. PICK j \in Jobs : Top.what = Job(j) /\ Top.what[2] = j /\ job[j].made
  BY <1>2, TopExists
<1>4. Top.at \in Jobs \cup {Nothing} /\ Top \in AnyFrame
  BY <1>2 DEF FrameSet, FrameOK
<1>5. job[j].children \in Seq(Jobs) /\ IsInjective(job[j].children) /\ job[j].list \in Seq(Procs)
      /\ IsInjective(job[j].list) /\ Range(job[j].list) = {p \in Procs : proc[p].job = j}
  BY <1>1 DEF LifeTyped, JobRec, JInv, JobsOK, Lists
<1> DEFINE step == [Top EXCEPT !.at = NextIn(job[j].children, Top.at)]
           members == [Frame("terminateMembers", Job(j)) EXCEPT !.at = Begin(job[j].list)]
<1>6. step \in FrameSet /\ step.op = Top.op /\ step.what = Top.what /\ step.skip = Top.skip
      /\ step.at = NextIn(job[j].children, Top.at)
  <2>1. NextIn(job[j].children, Top.at) \in Jobs \cup {Nothing}
    BY <1>5, EntriesOf
  <2>2. step \in FrameSet
    BY <1>2, <2>1, StepTyped
  <2> QED BY <1>4, <2>2 DEF AnyFrame
<1>7. members \in FrameSet /\ members.op = "terminateMembers" /\ members.what = Job(j) /\ ~members.skip
      /\ members.at = Begin(job[j].list)
  <2>1. members \in FrameSet
    BY <1>3, PlainIs DEF Plain
  <2> QED BY <2>1, NamesAre
<1>8. \/ work' = work
      \/ Top.at = Nothing /\ work' = Append(Return, members)
      \/ Top.at \in Jobs /\ job[Top.at].made /\ work' = Return \o <<step, TerminateJob(Top.at)>>
  BY <1>3, <1>4 DEF TerminateChildren, Gone
<1>9. UNCHANGED <<proc, job>>
  BY DEF TerminateChildren
<1> HIDE DEF step, members
<1>10. Shrinks
  BY <1>9, LinksShrink
<1>11. \A t : ~CallsOn(work, Len(work), t)
  BY <1>2 DEF CallsOn
<1>12. ~Gone(job, Top.at) => \A k \in Jobs : job[k].parent = j =>
         Finished(proc, job, k) \/ Ahead(job[j].children, Top.at, k)
  BY <1>2, <1>3, <1>11 DEF TInv, LoopsOK, LoopOK
<1> DEFINE m == Len(work) - 1
<1>13. CASE work' = work
  BY <1>10, <1>13, SameStack
<1>14. CASE Top.at = Nothing /\ work' = Append(Return, members)
  <2> DEFINE s == <<members>>
  <2>1. s \in Seq(FrameSet) /\ Len(s) = 1 /\ s[1] = members
    BY <1>7
  <2>2. Return \in Seq(FrameSet)
    BY <1>1, TopIs
  <2>3. work' = Return \o s
    BY <1>14, <2>2
  <2> HIDE DEF s
  <2>4. work' = SubSeq(work, 1, m) \o s /\ m \in 0 .. Len(work)
    BY <2>3, StackIs
  <2>5. m \in Nat /\ work'[m + 1] = members
    <3>1. IsRestacked(work, m, s, work')
      BY <1>1, <2>1, <2>4, Restacked
    <3> QED BY <1>1, <2>1, <2>4, <3>1 DEF IsRestacked
  <2>6. Succeeds(s)
    BY <1>2, <1>3, <1>7, <2>1, NamesAre DEF Succeeds, Terminates, OfJob
  <2>7. LoopOK(proc', job', work', m + 1, j)
    <3>1. ~Gone(job, Top.at) /\ \A k \in Jobs : ~Ahead(job[j].children, Nothing, k)
      <4>1. \A k : Ahead(job[j].children, Nothing, k) => Nothing \in Jobs
        BY <1>5, AheadIs
      <4> QED BY <1>14, <4>1, LifeAssumption DEF Gone
    <3>2. \A k \in Jobs : job[k].parent = j => Finished(proc, job, k)
      BY <1>12, <1>14, <3>1
    <3>3. \A p \in Procs : proc[p].job = j => Ahead(job[j].list, Begin(job[j].list), p)
      BY <1>5, AheadIs
    <3> QED BY <1>7, <1>9, <2>5, <3>2, <3>3 DEF LoopOK
  <2>8. \A n \in 1 .. Len(s), k \in Jobs : s[n].what = Job(k) => LoopOK(proc', job', work', m + n, k)
    BY <1>7, <2>1, <2>7, NamesAre
  <2> HIDE DEF m
  <2> QED BY <1>10, <2>1, <2>4, <2>6, <2>8, CallsKeepLoops DEF m
<1>15. CASE Top.at \in Jobs /\ job[Top.at].made /\ work' = Return \o <<step, TerminateJob(Top.at)>>
  <2> DEFINE call == TerminateJob(Top.at)
             s == <<step, call>>
  <2>1. call \in FrameSet /\ call.what = Job(Top.at) /\ call.op = "terminateChildren" /\ ~call.skip
    <3>1. call \in FrameSet
      BY <1>1, <1>15, TerminateJobIs
    <3> QED BY <3>1, NamesAre DEF TerminateJob
  <2>2. work' = Return \o s
    BY <1>15
  <2> HIDE DEF call
  <2>3. s \in Seq(FrameSet) /\ Len(s) = 2 /\ s[1] = step /\ s[2] = call
    BY <1>6, <2>1
  <2> HIDE DEF s
  <2>4. work' = SubSeq(work, 1, m) \o s /\ m \in 0 .. Len(work)
    BY <1>2, <2>2, StackIs
  <2>5. m \in Nat /\ work'[m + 1] = step /\ work'[m + 2] = call /\ m + 1 < Len(work') /\ (m + 1) + 1 = m + 2
    <3>1. IsRestacked(work, m, s, work')
      BY <1>1, <2>3, <2>4, Restacked
    <3>2. 1 \in 1 .. Len(s) /\ 2 \in 1 .. Len(s) /\ m \in Nat
      BY <1>1, <2>3, <2>4
    <3> QED BY <2>3, <3>1, <3>2 DEF IsRestacked
  <2>6. Succeeds(s)
    BY <1>6, <2>3 DEF Succeeds, Terminates
  <2>7. LoopOK(proc', job', work', m + 1, j)
    <3>1. CallsOn(work', m + 1, Job(Top.at))
      BY <2>1, <2>5 DEF CallsOn, Terminates, OfJob
    <3>2. \A k : Ahead(job[j].children, Top.at, k) => k = Top.at \/ Ahead(job[j].children, NextIn(job[j].children, Top.at), k)
      BY <1>5, AheadIs
    <3>3. ~Gone(job, Top.at)
      BY <1>15 DEF Gone
    <3> QED BY <1>2, <1>6, <1>9, <1>12, <2>5, <3>1, <3>2, <3>3 DEF LoopOK
  <2>8. LoopOK(proc', job', work', m + 2, Top.at)
    BY <1>9, <1>15, <2>5, LoopStarts DEF call
  <2>9. \A n \in 1 .. Len(s), k \in Jobs : s[n].what = Job(k) => LoopOK(proc', job', work', m + n, k)
    <3>1. \A n \in 1 .. Len(s) : n = 1 \/ n = 2
      BY <2>3
    <3> QED BY <1>3, <1>6, <2>1, <2>3, <2>7, <2>8, <3>1, NamesAre
  <2> HIDE DEF m
  <2> QED BY <1>10, <2>3, <2>4, <2>6, <2>9, CallsKeepLoops DEF m
<1> QED BY <1>8, <1>13, <1>14, <1>15

\* terminate_job goes on to the next process; at the end the job is finished.
LEMMA TerminateMembersLoops ==
  ASSUME LInv, LInv', JInv, JInv', TInv, work # <<>>, TerminateMembers(Top)
  PROVE  TInv'
<1>1. LifeTyped /\ work \in Seq(FrameSet)
  BY DEF LInv, LifeTyped
<1>2. /\ Top \in FrameSet /\ Top.op = "terminateMembers" /\ Top.op \in OfJob /\ Top = work[Len(work)]
      /\ Len(work) \in 1 .. Len(work)
  BY <1>1, TopIs DEF TerminateMembers, OfJob
<1>3. PICK j \in Jobs : Top.what = Job(j) /\ Top.what[2] = j /\ job[j].made
  BY <1>2, TopExists
<1>4. Top.at \in Procs \cup {Nothing} /\ Top \in AnyFrame
  BY <1>2 DEF FrameSet, FrameOK
<1>5. job[j].list \in Seq(Procs) /\ IsInjective(job[j].list) /\ proc \in [Procs -> ProcRec]
  BY <1>1 DEF LifeTyped, JobRec, JInv, JobsOK, Lists
<1> DEFINE step == [Top EXCEPT !.at = NextIn(job[j].list, Top.at)]
           kill == Frame("terminate", Process(Top.at))
<1>6. step \in FrameSet /\ step.op = Top.op /\ step.what = Top.what /\ step.skip = Top.skip
      /\ step.at = NextIn(job[j].list, Top.at)
  <2>1. NextIn(job[j].list, Top.at) \in Procs \cup {Nothing}
    BY <1>5, EntriesOf
  <2>2. step \in FrameSet
    BY <1>2, <2>1, StepTyped
  <2> QED BY <1>4, <2>2 DEF AnyFrame
<1>7. /\ \/ work' = work
         \/ Top.at = Nothing /\ work' = Return
         \/ Top.at \in Procs /\ proc[Top.at].threads > 0 /\ work' = Return \o <<step, kill>>
         \/ Top.at \in Procs /\ ~(proc[Top.at].threads > 0) /\ work' = Return \o <<step>>
      /\ job' = job \/ job' = [job EXCEPT ![j].signaled = TRUE]
      /\ proc' = proc /\ (Top.at # Nothing => job' = job) /\ (work' # work => ~Gone(proc, Top.at))
  BY <1>3, <1>4 DEF TerminateMembers, Gone
<1> HIDE DEF step
<1>8. SameLinks /\ Shrinks
  <2>1. CASE job' = job
    BY <1>7, <2>1, LinksShrink
  <2>2. CASE job' = [job EXCEPT ![j].signaled = TRUE]
    <3>1. job \in [Jobs -> JobRec] /\ job[j] \in JobRec
      BY <1>1 DEF LifeTyped
    <3>2. job'[j] = [job[j] EXCEPT !.signaled = TRUE] /\ \A k \in Jobs : k # j => job'[k] = job[k]
      BY <2>2, <3>1
    <3>3. /\ job'[j].parent = job[j].parent /\ job'[j].list = job[j].list /\ job'[j].children = job[j].children
          /\ job'[j].made = job[j].made
      BY <3>1, <3>2 DEF JobRec
    <3>4. SameLinks
      BY <3>2, <3>3 DEF SameLinks
    <3> QED BY <1>7, <3>4, LinksShrink
  <2> QED BY <1>7, <2>1, <2>2
<1>9. /\ \A k \in Jobs : job[k].parent = j => Finished(proc, job, k)
      /\ ~Gone(proc, Top.at) => \A p \in Procs : proc[p].job = j => proc[p].threads = 0 \/ Ahead(job[j].list, Top.at, p)
  <2>1. \A t : ~CallsOn(work, Len(work), t)
    BY <1>2 DEF CallsOn
  <2>2. LoopOK(proc, job, work, Len(work), j)
    BY <1>2, <1>3 DEF TInv, LoopsOK
  <2> QED BY <1>2, <2>1, <2>2 DEF LoopOK
<1>10. \A p : Ahead(job[j].list, Top.at, p) => p = Top.at \/ Ahead(job[j].list, NextIn(job[j].list, Top.at), p)
  BY <1>5, AheadIs
<1> DEFINE m == Len(work) - 1
<1>11. CASE work' = work
  BY <1>8, <1>11, SameStack
<1>12. CASE Top.at = Nothing /\ work' = Return
  <2>1. Finished(proc', job', j)
    BY <1>2, <1>3, <1>8, <1>12, MembersDone, FinishedStays
  <2>2. Succeeds(<<>>)
    BY <1>3, <2>1, NamesAre DEF Succeeds, Terminates
  <2> QED BY <1>8, <1>12, <2>2, NoLoopSeqs, ReturnedLoops
<1>13. ASSUME NEW s \in Seq(FrameSet), Len(s) > 0, s[1] = step, work' = Return \o s, Top.at \in Procs, work' # work,
              (Len(s) = 1 /\ proc[Top.at].threads = 0) \/ (Len(s) = 2 /\ s[2] = kill)
       PROVE  TInv'
  <2>1. work' = SubSeq(work, 1, m) \o s /\ m \in 0 .. Len(work)
    BY <1>2, <1>13, StackIs
  <2>2. m \in Nat /\ work'[m + 1] = step /\ (Len(s) = 2 => work'[m + 2] = kill /\ m + 1 < Len(work')) /\ (m + 1) + 1 = m + 2
    <3>1. IsRestacked(work, m, s, work')
      BY <1>1, <2>1, Restacked
    <3>2. 1 \in 1 .. Len(s) /\ (Len(s) = 2 => 2 \in 1 .. Len(s)) /\ m \in Nat
      <4>1. Len(s) \in Nat /\ Len(s) > 0 /\ Len(work) \in Nat
        BY <1>1, <1>13
      <4>2. m \in 0 .. Len(work)
        BY <2>1
      <4> HIDE DEF m
      <4> QED BY ONLY <4>1, <4>2
    <3> QED BY <1>13, <3>1, <3>2 DEF IsRestacked
  <2>3. Succeeds(s)
    BY <1>6, <1>13 DEF Succeeds, Terminates
  <2>4. job' = job /\ proc' = proc /\ ~Gone(proc, Top.at)
    BY <1>7, <1>13, LifeAssumption
  <2>5. proc[Top.at].threads = 0 \/ CallsOn(work', m + 1, Process(Top.at))
    BY <1>13, <2>2, NamesAre DEF CallsOn, Terminates
  <2>6. LoopOK(proc', job', work', m + 1, j)
    BY <1>2, <1>6, <1>9, <1>10, <2>2, <2>4, <2>5 DEF LoopOK
  <2>7. \A n \in 1 .. Len(s), k \in Jobs : s[n].what = Job(k) => LoopOK(proc', job', work', m + n, k)
    <3>1. \A n \in 1 .. Len(s) : n = 1 \/ (n = 2 /\ s[2] = kill)
      <4>1. CASE Len(s) = 1
        BY <4>1
      <4>2. CASE Len(s) = 2 /\ s[2] = kill
        BY <4>2
      <4> QED BY <1>13, <4>1, <4>2
    <3>2. \A k : kill.what # Job(k)
      BY NamesAre
    <3>3. \A k \in Jobs : s[1].what = Job(k) => k = j
      <4>1. s[1].what = Job(j)
        BY ONLY <1>3, <1>6, <1>13
      <4> QED BY ONLY <4>1, NamesAre
    <3> HIDE DEF kill, m
    <3> QED BY <2>6, <3>1, <3>2, <3>3
  <2> HIDE DEF m
  <2> QED BY <1>8, <1>13, <2>1, <2>3, <2>7, CallsKeepLoops DEF m
<1>14. CASE Top.at \in Procs /\ proc[Top.at].threads > 0 /\ work' = Return \o <<step, kill>> /\ work' # work
  <2>1. kill \in FrameSet
    BY <1>14, FramesTyped DEF OfProcess
  <2> HIDE DEF kill
  <2> DEFINE s == <<step, kill>>
  <2>2. s \in Seq(FrameSet) /\ Len(s) = 2 /\ s[1] = step /\ s[2] = kill /\ work' = Return \o s
    BY <1>6, <1>14, <2>1
  <2> HIDE DEF s
  <2>3. Len(s) > 0
    BY <2>2
  <2> QED BY <1>13, <1>14, <2>2, <2>3
<1>15. CASE Top.at \in Procs /\ ~(proc[Top.at].threads > 0) /\ work' = Return \o <<step>> /\ work' # work
  <2> DEFINE s == <<step>>
  <2>1. s \in Seq(FrameSet) /\ Len(s) = 1 /\ s[1] = step /\ work' = Return \o s
    BY <1>6, <1>15
  <2>2. proc[Top.at].threads = 0
    BY <1>5, <1>15 DEF ProcRec
  <2> HIDE DEF s, kill
  <2>3. Len(s) > 0
    BY <2>1
  <2> QED BY <1>13, <1>15, <2>1, <2>2, <2>3
<1> QED BY <1>7, <1>11, <1>12, <1>14, <1>15

\* terminate_process goes on while there is a thread to kill; when it returns there is none.
LEMMA TerminateLoops ==
  ASSUME LInv, LInv', JInv, JInv', TInv, work # <<>>, Terminate(Top)
  PROVE  TInv'
<1>1. LifeTyped /\ work \in Seq(FrameSet) /\ proc \in [Procs -> ProcRec]
  BY DEF LInv, LifeTyped
<1>2. Top \in FrameSet /\ Top.op = "terminate" /\ Top.op \in OfProcess /\ "killThread" \in OfProcess
  BY <1>1, TopIs DEF Terminate, OfProcess
<1>3. PICK p \in Procs : Top.what = Process(p) /\ Top.what[2] = p
  BY <1>2, TopExists
<1> DEFINE r == [proc[p] EXCEPT !.is_terminating = TRUE]
<1>4. r \in ProcRec /\ r.threads = proc[p].threads /\ r.made = proc[p].made /\ r.job = proc[p].job
      /\ proc[p].threads \in Nat
  BY <1>1 DEF ProcRec
<1>5. proc' = [proc EXCEPT ![p] = r]
  BY <1>1, <1>3 DEF Terminate
<1> HIDE DEF r
<1>6. proc'[p] = r /\ \A q \in Procs : q # p => proc'[q] = proc[q]
  BY <1>1, <1>5
<1>7. Shrinks
  <2>1. ThreadsFall
    BY <1>4, <1>6 DEF ThreadsFall
  <2> QED BY <2>1, LinksShrink DEF Terminate
<1>8. \/ work' = Call(<<Frame("killThread", Process(p))>>)
      \/ work' = Return /\ (Top.skip \/ ~(proc[p].threads > 0))
  BY <1>3 DEF Terminate
<1>9. CASE work' = Call(<<Frame("killThread", Process(p))>>)
  <2>1. Frame("killThread", Process(p)) \in FrameSet /\ \A j \in Jobs : Frame("killThread", Process(p)).what # Job(j)
    BY <1>2, ProcessFrames
  <2> QED BY <1>7, <1>9, <2>1, NoLoopSeqs, CalledLoops
<1>10. CASE work' = Return /\ (Top.skip \/ ~(proc[p].threads > 0))
  <2>1. Succeeds(<<>>)
    <3>1. ~Top.skip => proc'[p].threads = 0
      BY <1>4, <1>6, <1>10
    <3> QED BY <1>3, <3>1, NamesAre DEF Succeeds, Terminates
  <2> QED BY <1>7, <1>10, <2>1, NoLoopSeqs, ReturnedLoops
<1> QED BY <1>8, <1>9, <1>10

\* kill_thread takes a thread away.
LEMMA KillThreadLoops ==
  ASSUME LInv, LInv', JInv, JInv', TInv, work # <<>>, KillThread(Top)
  PROVE  TInv'
<1>1. LifeTyped /\ work \in Seq(FrameSet) /\ proc \in [Procs -> ProcRec]
  BY DEF LInv, LifeTyped
<1>2. /\ Top \in FrameSet /\ Top.op = "killThread" /\ Top.op \in OfProcess /\ "killed" \in OfProcess /\ "close" \in OfProcess
      /\ Top.op \notin OfJob \cup {"terminate"} /\ Top = work[Len(work)] /\ Len(work) \in 1 .. Len(work)
  BY <1>1, TopIs DEF KillThread, OfProcess, OfJob
<1>3. PICK p \in Procs : Top.what = Process(p) /\ Top.what[2] = p
  BY <1>2, TopExists
<1> DEFINE n == proc[p].threads - 1
           b == proc[p].ended \/ proc[p].threads = 1
           r == [proc[p] EXCEPT !.threads = n, !.ended = b]
<1>4. proc[p] \in ProcRec /\ proc[p].threads \in Nat /\ proc[p].threads > 0
  BY <1>1, <1>2, <1>3 DEF LInv, ProcRec, KillOK
<1>5. proc' = [proc EXCEPT ![p] = r]
  BY <1>1, <1>3, <1>4 DEF KillThread
<1>6. r.made = proc[p].made /\ r.job = proc[p].job
  BY <1>4 DEF ProcRec
<1> HIDE DEF r
<1>7. proc'[p] = r /\ \A q \in Procs : q # p => proc'[q] = proc[q]
  BY <1>1, <1>5
<1>8. Shrinks
  <2>1. ThreadsFall
    BY <1>4, <1>6, <1>7 DEF ThreadsFall
  <2> QED BY <2>1, LinksShrink DEF KillThread
<1>9. work' = Return \/ work' = Return \o <<Frame("killed", Process(p)), Frame("close", Process(p))>>
  BY <1>3 DEF KillThread
<1>10. CASE work' = Return
  BY <1>2, <1>8, <1>10, OtherCalls, NoLoopSeqs, ReturnedLoops
<1>11. CASE work' = Return \o <<Frame("killed", Process(p)), Frame("close", Process(p))>>
  <2> DEFINE a == Frame("killed", Process(p))  c == Frame("close", Process(p))
  <2>1. /\ a \in FrameSet /\ c \in FrameSet
        /\ \A j \in Jobs : a.what # Job(j) /\ c.what # Job(j)
    BY <1>2, ProcessFrames
  <2>2. work' = Return \o <<a, c>>
    BY <1>11
  <2> HIDE DEF a, c
  <2>3. NoLoops(<<a, c>>)
    BY <2>1, NoLoopSeqs
  <2> QED BY <1>2, <1>8, <2>2, <2>3, OtherCalls, ReturnedLoops
<1> QED BY <1>9, <1>10, <1>11

\* close_process_handles terminates a job or returns.
LEMMA CloseHandlesLoops ==
  ASSUME LInv, LInv', JInv, JInv', TInv, work # <<>>, CloseHandles(Top)
  PROVE  TInv'
<1>1. LifeTyped /\ work \in Seq(FrameSet)
  BY DEF LInv, LifeTyped
<1>2. /\ Top \in FrameSet /\ Top.op = "close" /\ Top.op \in OfProcess /\ Top.op \notin OfJob \cup {"terminate"}
  BY <1>1, TopIs DEF CloseHandles, OfProcess, OfJob
<1>3. PICK p \in Procs : Top.what = Process(p) /\ Top.what[2] = p
  BY <1>2, TopExists
<1>4. UNCHANGED <<proc, job>> /\ Shrinks
  <2>1. UNCHANGED <<proc, job>>
    BY DEF CloseHandles
  <2> QED BY <2>1, LinksShrink
<1>5. work' = Return \/ \E t \in handles[p] : KillsOnClose(t) /\ work' = Return \o <<[Top EXCEPT !.at = t], TerminateJob(t[2])>>
  BY <1>3 DEF CloseHandles
<1>6. CASE work' = Return
  BY <1>2, <1>4, <1>6, OtherCalls, NoLoopSeqs, ReturnedLoops
<1>7. ASSUME NEW t \in handles[p], KillsOnClose(t), work' = Return \o <<[Top EXCEPT !.at = t], TerminateJob(t[2])>>
      PROVE  TInv'
  <2>1. t \in Targets
    BY <1>1 DEF LifeTyped
  <2>2. PICK j \in Jobs : t = Job(j) /\ t[2] = j
    BY <1>7, <2>1 DEF KillsOnClose, Targets, Process, Job
  <2> DEFINE f == [Top EXCEPT !.at = t]
             g == TerminateJob(j)
             s == <<f, g>>
             m == Len(work) - 1
  <2>3. f \in FrameSet /\ f.what = Process(p)
    <3>1. f \in FrameSet
      BY <1>2, <2>1, StepTyped
    <3>2. Top \in AnyFrame
      BY <1>2 DEF FrameSet
    <3> QED BY <1>3, <3>1, <3>2 DEF AnyFrame
  <2>4. g \in FrameSet /\ g.what = Job(j)
    BY <1>1, TerminateJobIs, NamesAre DEF TerminateJob
  <2>5. work' = Return \o s
    BY <1>7, <2>2
  <2> HIDE DEF f, g
  <2>6. s \in Seq(FrameSet) /\ Len(s) = 2 /\ s[1] = f /\ s[2] = g
    BY <2>3, <2>4
  <2> HIDE DEF s
  <2>7. work' = SubSeq(work, 1, m) \o s /\ m \in 0 .. Len(work)
    BY <2>5, StackIs
  <2>8. work'[m + 2] = g
    <3>1. IsRestacked(work, m, s, work')
      BY <1>1, <2>6, <2>7, Restacked
    <3> QED BY <2>6, <3>1 DEF IsRestacked
  <2>9. LoopOK(proc', job', work', m + 2, j)
    BY <1>4, <2>8, LoopStarts DEF g
  <2>10. \A i \in 1 .. Len(s), k \in Jobs : s[i].what = Job(k) => LoopOK(proc', job', work', m + i, k)
    <3>1. \A i \in 1 .. Len(s) : i = 1 \/ i = 2
      BY <2>6
    <3>2. \A k \in Jobs : f.what # Job(k) /\ (g.what = Job(k) => k = j)
      BY <2>3, <2>4, NamesAre
    <3> HIDE DEF m
    <3> QED BY <2>6, <2>9, <3>1, <3>2
  <2>11. Succeeds(s)
    BY <1>2, OtherCalls
  <2> HIDE DEF m
  <2> QED BY <1>4, <2>6, <2>7, <2>10, <2>11, CallsKeepLoops DEF m
<1> QED BY <1>5, <1>6, <1>7

\* process_killed and the end of a close request return, kill_all_processes goes on or returns.
LEMMA OtherLoops ==
  ASSUME LInv, LInv', JInv, JInv', TInv, work # <<>>, Killed(Top) \/ CloseOne(Top) \/ KillAll(Top)
  PROVE  TInv'
<1>1. LifeTyped /\ work \in Seq(FrameSet) /\ proc \in [Procs -> ProcRec] /\ job \in [Jobs -> JobRec]
  BY DEF LInv, LifeTyped
<1>2. Top \in FrameSet
  BY <1>1, TopIs
<1>3. Top.op \notin OfJob \cup {"terminate"}
  BY DEF Killed, CloseOne, KillAll, OfJob
<1>4. CASE Killed(Top)
  <2>1. PICK p \in Procs : Top.what = Process(p) /\ Top.what[2] = p
    <3>1. Top.op \in OfProcess
      BY <1>4 DEF Killed, OfProcess
    <3> QED BY <3>1, TopExists
  <2>2. /\ proc' = [proc EXCEPT ![p].info = FALSE, ![p].timer = IF proc[p].pid THEN 1 ELSE 0]
        /\ job' = ReleaseJob(job, p) /\ work' = Return
    BY <1>4, <2>1 DEF Killed
  <2>3. ThreadsFall
    <3>1. /\ \A q \in Procs : q # p => proc'[q] = proc[q]
          /\ proc'[p].threads = proc[p].threads /\ proc'[p].made = proc[p].made /\ proc'[p].job = proc[p].job
      BY <1>1, <2>2 DEF ProcRec
    <3> QED BY <3>1 DEF ThreadsFall
  <2>4. SameLinks
    <3> SUFFICES ASSUME NEW k \in Jobs
                 PROVE  /\ job'[k].made = job[k].made /\ job'[k].parent = job[k].parent
                        /\ job'[k].list = job[k].list /\ job'[k].children = job[k].children
      BY DEF SameLinks
    <3> DEFINE n == job[k].num - 1
    <3>1. job'[k] = job[k] \/ job'[k] = [job[k] EXCEPT !.num = n]
      BY <2>2 DEF ReleaseJob
    <3>2. job[k] \in JobRec
      BY <1>1
    <3> HIDE DEF n
    <3> QED BY <3>1, <3>2 DEF JobRec
  <2> QED BY <1>3, <2>2, <2>3, <2>4, LinksShrink, OtherCalls, NoLoopSeqs, ReturnedLoops
<1>5. CASE CloseOne(Top)
  <2>1. work' = Return /\ UNCHANGED <<proc, job>>
    BY <1>5 DEF CloseOne
  <2> QED BY <1>3, <2>1, LinksShrink, OtherCalls, NoLoopSeqs, ReturnedLoops
<1>6. CASE KillAll(Top)
  <2>1. UNCHANGED <<proc, job>> /\ (work' = Return \/ \E p \in Procs : work' = Call(<<Frame("terminate", Process(p))>>))
    BY <1>6 DEF KillAll
  <2>2. Shrinks
    BY <2>1, LinksShrink
  <2>3. CASE work' = Return
    BY <1>3, <2>2, <2>3, OtherCalls, NoLoopSeqs, ReturnedLoops
  <2>4. ASSUME NEW p \in Procs, work' = Call(<<Frame("terminate", Process(p))>>) PROVE TInv'
    <3>1. "terminate" \in OfProcess
      BY DEF OfProcess
    <3>2. Frame("terminate", Process(p)) \in FrameSet /\ \A j \in Jobs : Frame("terminate", Process(p)).what # Job(j)
      BY <3>1, ProcessFrames
    <3> QED BY <2>2, <2>4, <3>2, NoLoopSeqs, CalledLoops
  <2> QED BY <2>1, <2>3, <2>4
<1> QED BY <1>4, <1>5, <1>6

\* An object that is destroyed is in no loop but as the entry that is gone.
LEMMA DestroyLoops ==
  ASSUME LInv, LInv', JInv, JInv', TInv, Unused # {}, Destroy
  PROVE  TInv'
<1>1. /\ proc \in [Procs -> ProcRec] /\ job \in [Jobs -> JobRec]
      /\ \A k \in Jobs : job[k] \in JobRec /\ job[k].list \in Seq(Procs) /\ job[k].children \in Seq(Jobs)
  BY DEF LInv, LifeTyped, JobRec
<1>2. PICK t \in Unused : IF t[1] = "process" THEN DestroyProcess(t[2]) ELSE DestroyJob(t[2])
  BY DEF Destroy
<1>3. ASSUME NEW p \in Procs, DestroyProcess(p) PROVE TInv'
  <2>1. CASE handles[p] # {}
    <3>1. work' = Call(<<Frame("close", Process(p))>>) /\ UNCHANGED <<proc, job>> /\ "close" \in OfProcess
      BY <1>3, <2>1 DEF DestroyProcess, OfProcess
    <3>2. Shrinks
      BY <3>1, LinksShrink
    <3> QED BY <3>1, <3>2, ProcessFrames, NoLoopSeqs, CalledLoops
  <2>2. CASE handles[p] = {}
    <3> DEFINE x == proc[p].job
    <3>1. /\ proc' = [proc EXCEPT ![p] = NoProcess] /\ work' = work
          /\ job' = IF x = NoJob THEN job ELSE [job EXCEPT ![x].list = Without(@, p)]
      BY <1>3, <2>2 DEF DestroyProcess
    <3>2. /\ proc'[p] = NoProcess /\ (\A q \in Procs : q # p => proc'[q] = proc[q])
          /\ NoProcess.job = NoJob /\ ~NoProcess.made /\ NoProcess.threads = 0
      BY <1>1, <3>1 DEF NoProcess
    <3>3. ASSUME NEW k \in Jobs
          PROVE  /\ job'[k].made = job[k].made /\ job'[k].parent = job[k].parent /\ job'[k].children = job[k].children
                 /\ job'[k].list = job[k].list \/ job'[k].list = Without(job[k].list, p)
      <4> DEFINE l == Without(job[k].list, p)
      <4>1. job'[k] = job[k] \/ job'[k] = [job[k] EXCEPT !.list = l]
        BY <1>1, <3>1
      <4>2. job[k] \in JobRec
        BY <1>1
      <4> HIDE DEF l
      <4>3. job'[k] = [job[k] EXCEPT !.list = l] => job'[k].list = l /\ job'[k].made = job[k].made
              /\ job'[k].parent = job[k].parent /\ job'[k].children = job[k].children
        BY <4>2 DEF JobRec
      <4> QED BY <4>1, <4>3 DEF l
    <3>4. ASSUME NEW j \in Jobs, NEW a \in Procs, NEW b \in Procs, Ahead(job[j].list, a, b), proc'[a].made, proc'[b].made
          PROVE  Ahead(job'[j].list, a, b)
      <4>1. a # p /\ b # p
        BY <3>2, <3>4
      <4>2. Ahead(Without(job[j].list, p), a, b)
        BY <1>1, <3>4, <4>1, AheadWithout
      <4> QED BY <3>3, <3>4, <4>2
    <3>5. Shrinks
      BY <3>2, <3>3, <3>4 DEF Shrinks
    <3> QED BY <3>1, <3>5, SameStack
  <2> QED BY <2>1, <2>2
<1>4. ASSUME NEW j \in Jobs, DestroyJob(j) PROVE TInv'
  <2>1. /\ proc' = proc /\ work' = work
        /\ job' = [k \in Jobs |-> IF k = j THEN UnusedJob ELSE [job[k] EXCEPT !.children = Without(@, j)]]
    BY <1>4 DEF DestroyJob
  <2>2. ~job'[j].made /\ job'[j].parent = NoJob
    BY <2>1 DEF UnusedJob
  <2>3. ASSUME NEW k \in Jobs, k # j
        PROVE  /\ job'[k].made = job[k].made /\ job'[k].parent = job[k].parent /\ job'[k].list = job[k].list
               /\ job'[k].children = Without(job[k].children, j)
    <3> DEFINE l == Without(job[k].children, j)
    <3>1. job'[k] = [job[k] EXCEPT !.children = l] /\ job[k] \in JobRec
      BY <1>1, <2>1, <2>3
    <3> HIDE DEF l
    <3>2. /\ [job[k] EXCEPT !.children = l].made = job[k].made /\ [job[k] EXCEPT !.children = l].parent = job[k].parent
          /\ [job[k] EXCEPT !.children = l].list = job[k].list /\ [job[k] EXCEPT !.children = l].children = l
      BY <3>1 DEF JobRec
    <3> QED BY <3>1, <3>2 DEF l
  <2>4. ASSUME NEW i \in Jobs, job'[i].made, NEW a \in Jobs, NEW b \in Jobs, Ahead(job[i].children, a, b),
               job'[a].made, job'[b].made
        PROVE  Ahead(job'[i].children, a, b)
    <3>1. i # j /\ a # j /\ b # j
      BY <2>2, <2>4
    <3> QED BY <1>1, <2>3, <2>4, <3>1, AheadWithout
  <2>5. Shrinks
    BY <2>1, <2>2, <2>3, <2>4 DEF Shrinks
  <2> QED BY <2>1, <2>5, SameStack
<1>5. CASE t[1] = "process"
  <2>1. PICK p \in Procs : t = Process(p)
    BY <1>5 DEF Unused, Job
  <2> QED BY <1>2, <1>3, <1>5, <2>1 DEF Process
<1>6. CASE t[1] # "process"
  <2>1. PICK j \in Jobs : t = Job(j)
    BY <1>6 DEF Unused, Process
  <2> QED BY <1>2, <1>4, <1>6, <2>1 DEF Job
<1> QED BY <1>5, <1>6

\* The server's own steps.
LEMMA ServerLoops ==
  ASSUME LInv, LInv', JInv, JInv', TInv, Server
  PROVE  TInv'
<1>1. CASE Unused # {}
  BY <1>1, DestroyLoops DEF Server
<1>2. CASE Unused = {}
  <2>1. work # <<>> /\ Frames(Top)
    BY <1>2 DEF Server
  <2> QED BY <2>1, TerminateChildrenLoops, TerminateMembersLoops, TerminateLoops, KillThreadLoops,
             CloseHandlesLoops, OtherLoops DEF Frames
<1> QED BY <1>1, <1>2

-----------------------------------------------------------------------------
(* The loops through requests, which come when there are none.             *)

\* A request that calls nothing, or terminates a job, alone or for a handle, or calls something else.
Asks ==
  \/ work' = work
  \/ \E g : work' = <<g>> /\ \A j \in Jobs : g.what # Job(j)
  \/ UNCHANGED <<proc, job>> /\ \E j \in Jobs : work' = <<TerminateJob(j)>>
  \/ UNCHANGED <<proc, job>> /\ \E g, j : /\ j \in Jobs /\ work' = <<g, TerminateJob(j)>>
                                          /\ \A k \in Jobs : g.what # Job(k)

\* Each of these leaves a stack whose loops are at their beginning.
LEMMA AskedLoops ==
  ASSUME LInv, JInv, Ready, Asks
  PROVE  TInv'
<1>1. CASE work' = work
  <2>1. work' = <<>>
    BY <1>1, ReadyIs
  <2> QED BY <2>1 DEF TInv, LoopsOK
<1>2. ASSUME NEW g, work' = <<g>>, \A j \in Jobs : g.what # Job(j) PROVE TInv'
  <2>1. \A i \in 1 .. Len(work') : work'[i] = g
    BY <1>2
  <2> QED BY <1>2, <2>1 DEF TInv, LoopsOK
<1>3. ASSUME UNCHANGED <<proc, job>>, NEW j \in Jobs, work' = <<TerminateJob(j)>> PROVE TInv'
  <2> DEFINE g == TerminateJob(j)
  <2>1. g.what = Job(j)
    BY NamesAre DEF TerminateJob
  <2>2. \A i \in 1 .. Len(work') : work'[i] = TerminateJob(j)
    <3>1. work' = <<g>>
      BY <1>3
    <3> HIDE DEF g
    <3>2. \A i \in 1 .. Len(work') : work'[i] = g
      BY <3>1
    <3> QED BY <3>2 DEF g
  <2>3. \A i \in 1 .. Len(work') : LoopOK(proc', job', work', i, j)
    BY <1>3, <2>2, LoopStarts
  <2> SUFFICES ASSUME NEW i \in 1 .. Len(work'), NEW k \in Jobs, work'[i].what = Job(k)
               PROVE  LoopOK(proc', job', work', i, k)
    BY DEF TInv, LoopsOK
  <2>4. k = j
    BY <2>1, <2>2, NamesAre
  <2> QED BY <2>3, <2>4
<1>4. ASSUME UNCHANGED <<proc, job>>, NEW g, NEW j \in Jobs, work' = <<g, TerminateJob(j)>>, \A k \in Jobs : g.what # Job(k)
      PROVE  TInv'
  <2> DEFINE h == TerminateJob(j)
  <2>1. h.what = Job(j)
    BY NamesAre DEF TerminateJob
  <2>2. \A i \in 1 .. Len(work') : work'[i] = g \/ work'[i] = TerminateJob(j)
    <3>1. work' = <<g, h>>
      BY <1>4
    <3> HIDE DEF h
    <3>2. \A i \in 1 .. Len(work') : work'[i] = g \/ work'[i] = h
      BY <3>1
    <3> QED BY <3>2 DEF h
  <2>3. \A i \in 1 .. Len(work') : work'[i] = TerminateJob(j) => LoopOK(proc', job', work', i, j)
    BY <1>4, LoopStarts
  <2> SUFFICES ASSUME NEW i \in 1 .. Len(work'), NEW k \in Jobs, work'[i].what = Job(k)
               PROVE  LoopOK(proc', job', work', i, k)
    BY DEF TInv, LoopsOK
  <2>4. work'[i] = TerminateJob(j) /\ k = j
    BY <1>4, <2>1, <2>2, NamesAre
  <2> QED BY <2>3, <2>4
<1> QED BY <1>1, <1>2, <1>3, <1>4 DEF Asks

\* No step leaves the invariant.
LEMMA NextTInv ==
  ASSUME LInv, LInv', JInv, JInv', TInv, [Next]_vars
  PROVE  TInv' /\ (Server \/ Ready \/ UNCHANGED vars)
<1>1. CASE Server
  BY <1>1, ServerLoops
<1>2. CASE UNCHANGED vars
  <2>1. UNCHANGED <<proc, job, work>>
    BY <1>2 DEF vars
  <2> QED BY <1>2, <2>1 DEF TInv, LoopsOK, LoopOK, CallsOn, Gone
<1>3. CASE Ready /\ Asks
  BY <1>3, AskedLoops
<1>4. CASE \/ \E c, p \in Procs, inherit, breakaway \in BOOLEAN :
                \E wanted \in Jobs \cup {NoJob} : NewProcess(c, p, wanted, inherit, breakaway)
           \/ \E c, p \in Procs : NewThread(c, p)
           \/ \E p \in Procs : InitFirstThread(p)
           \/ \E p \in Procs : InitProcessDone(p)
           \/ \E p \in Procs : HostDies(p)
           \/ \E p \in Procs : Sigkill(p)
           \/ \E c, p \in Procs : OpenProcess(c, p)
           \/ \E c \in Procs, j \in Jobs : CreateJob(c, j)
           \/ \E c \in Procs, j \in Jobs, limit \in Limits : SetJobLimits(c, j, limit)
           \/ \E c, p \in Procs, j \in Jobs : AssignJob(c, j, p)
           \/ \E c \in Procs : MakeSystem(c)
  <2>1. ASSUME NEW c \in Procs, NEW p \in Procs, NEW inherit \in BOOLEAN, NEW breakaway \in BOOLEAN,
               NEW wanted \in Jobs \cup {NoJob}, NewProcess(c, p, wanted, inherit, breakaway)
        PROVE  Ready /\ work' = work
    BY <2>1 DEF NewProcess, Runs
  <2>2. ASSUME NEW c \in Procs, NEW p \in Procs, NewThread(c, p) PROVE Ready /\ work' = work
    BY <2>2 DEF NewThread, Runs
  <2>3. ASSUME NEW p \in Procs, InitFirstThread(p) \/ InitProcessDone(p) \/ HostDies(p) \/ Sigkill(p)
        PROVE  Ready /\ work' = work
    BY <2>3 DEF InitFirstThread, InitProcessDone, HostDies, Sigkill
  <2>4. ASSUME NEW c \in Procs, NEW p \in Procs, OpenProcess(c, p) PROVE Ready /\ work' = work
    BY <2>4 DEF OpenProcess, Runs
  <2>5. ASSUME NEW c \in Procs, NEW j \in Jobs, CreateJob(c, j) PROVE Ready /\ work' = work
    BY <2>5 DEF CreateJob, Runs
  <2>6. ASSUME NEW c \in Procs, NEW j \in Jobs, NEW limit \in Limits, SetJobLimits(c, j, limit)
        PROVE  Ready /\ work' = work
    BY <2>6 DEF SetJobLimits, Runs
  <2>7. ASSUME NEW c \in Procs, NEW p \in Procs, NEW j \in Jobs, AssignJob(c, j, p) PROVE Ready /\ work' = work
    BY <2>7 DEF AssignJob, Runs
  <2>8. ASSUME NEW c \in Procs, MakeSystem(c) PROVE Ready /\ work' = work
    BY <2>8 DEF MakeSystem, Runs
  <2>9. Ready /\ work' = work
    BY <1>4, <2>1, <2>2, <2>3, <2>4, <2>5, <2>6, <2>7, <2>8, Zenon
  <2> QED BY <1>3, <2>9 DEF Asks
<1>5. ASSUME NEW g, Ready, Starts(g), \A j \in Jobs : g.what # Job(j) PROVE TInv' /\ Ready
  BY <1>3, <1>5 DEF Asks, Starts
<1>6. CASE \/ \E c, p \in Procs : TerminateProcess(c, p)
           \/ \E p \in Procs : ThreadExits(p)
           \/ \E p \in Procs : Hangup(p)
           \/ ForceShutdown
  <2>1. \A p, o, sk : \A j \in Jobs : /\ [Frame(o, Process(p)) EXCEPT !.skip = sk].what # Job(j)
                                      /\ Frame(o, Process(p)).what # Job(j)
                                      /\ Frame(o, <<"server">>).what # Job(j)
    BY NamesAre
  <2>2. ASSUME NEW c \in Procs, NEW p \in Procs, TerminateProcess(c, p) PROVE TInv' /\ Ready
    <3> DEFINE g == [Frame("terminate", Process(p)) EXCEPT !.skip = (p = c)]
    <3>1. Ready /\ Starts(g)
      BY <2>2, Zenon DEF TerminateProcess, Runs
    <3>2. \A j \in Jobs : g.what # Job(j)
      BY ONLY <2>1
    <3> HIDE DEF g
    <3> QED BY <1>5, <3>1, <3>2
  <2>3. ASSUME NEW p \in Procs, ThreadExits(p) \/ Hangup(p) PROVE TInv' /\ Ready
    <3>1. PICK o : Ready /\ Starts(Frame(o, Process(p)))
      BY <2>3, Zenon DEF ThreadExits, Hangup
    <3> DEFINE g == Frame(o, Process(p))
    <3>2. \A j \in Jobs : g.what # Job(j)
      BY ONLY <2>1
    <3>3. Starts(g)
      BY <3>1
    <3> HIDE DEF g
    <3> QED BY <1>5, <3>1, <3>2, <3>3
  <2>4. ASSUME ForceShutdown PROVE TInv' /\ Ready
    <3> DEFINE g == Frame("killAll", <<"server">>)
    <3>1. Ready /\ Starts(g)
      BY <2>4, Zenon DEF ForceShutdown
    <3>2. \A j \in Jobs : g.what # Job(j)
      BY ONLY <2>1
    <3> HIDE DEF g
    <3> QED BY <1>5, <3>1, <3>2
  <2> QED BY <1>6, <2>2, <2>3, <2>4
<1>7. CASE ShutdownTimeout
  <2>1. Ready /\ (work' = <<>> \/ work' = <<Frame("killAll", <<"server">>)>>)
    BY <1>7 DEF ShutdownTimeout
  <2>2. \A j \in Jobs : Frame("killAll", <<"server">>).what # Job(j)
    BY NamesAre
  <2>3. Asks
    BY <2>1, <2>2, ReadyIs DEF Asks
  <2> QED BY <1>3, <2>1, <2>3
<1>8. ASSUME NEW c \in Procs, NEW j \in Jobs, TerminateJobRequest(c, j) PROVE TInv' /\ Ready
  BY <1>3, <1>8 DEF TerminateJobRequest, Runs, Starts, Asks
<1>9. ASSUME NEW c \in Procs, NEW t \in Targets, CloseHandle(c, t) PROVE TInv' /\ Ready
  <2>1. Ready /\ UNCHANGED <<proc, job>>
        /\ \/ work' = work
           \/ KillsOnClose(t) /\ work' = <<[Frame("closeOne", Process(c)) EXCEPT !.at = t], TerminateJob(t[2])>>
    BY <1>9 DEF CloseHandle, Runs
  <2>2. KillsOnClose(t) => \E j \in Jobs : t[2] = j
    BY DEF KillsOnClose, Targets, Process, Job
  <2>3. \A k \in Jobs : [Frame("closeOne", Process(c)) EXCEPT !.at = t].what # Job(k)
    BY NamesAre
  <2>4. Asks
    BY <2>1, <2>2, <2>3, Zenon DEF Asks
  <2> QED BY <1>3, <2>1, <2>4
<1> QED BY <1>1, <1>2, <1>4, <1>6, <1>7, <1>8, <1>9 DEF Next

\* Once a job has been terminated, nothing in it or below it runs, whatever was destroyed,
\* closed or terminated in the meantime (terminate_job).
THEOREM JobsAreTerminated == ~LateThreads => (Spec => JobTerminated)
<1> SUFFICES ASSUME ~LateThreads PROVE Spec => JobTerminated
  OBVIOUS
<1> DEFINE I == JobInv /\ TInv
<1>1. Init => I
  <2>1. Init => work = <<>>
    BY DEF Init
  <2>2. work = <<>> => TInv
    BY DEF TInv, LoopsOK
  <2> QED BY <2>1, <2>2, InitLInv, InitJInv, InitBInv DEF JobInv
<1>2. I /\ [Next]_vars => I'
  BY NextJobInv, NextTInv DEF JobInv
<1>3. I /\ [Next]_vars =>
        [\A j \in Jobs : work # <<>> /\ Unused = {} /\ Top.op = "terminateMembers" /\ Top.what = Job(j) /\ work' = Return
           => \A p \in Procs : j \in Above(job, proc[p].job) => proc[p].threads = 0]_vars
  <2> SUFFICES ASSUME I, [Next]_vars, NEW j \in Jobs, work # <<>>, Unused = {}, Top.op = "terminateMembers",
                      Top.what = Job(j), work' = Return
               PROVE  \A p \in Procs : j \in Above(job, proc[p].job) => proc[p].threads = 0
    OBVIOUS
  <2>1. work \in Seq(FrameSet) /\ LInv /\ JInv /\ TInv /\ LInv' /\ JInv'
    BY <1>2 DEF JobInv, LInv, LifeTyped
  <2>2. Return # work
    <3>1. Len(Return) = Len(work) - 1
      BY <2>1, TopIs, Dropped
    <3> QED BY <2>1, <3>1
  <2>3. Server
    <3>1. ~Ready
      BY DEF Ready, Idle
    <3>2. ~UNCHANGED vars
      BY <2>2 DEF vars
    <3> QED BY <2>1, <3>1, <3>2, NextTInv
  <2>4. TerminateMembers(Top)
    BY <2>3 DEF Server, Frames, TerminateChildren, Terminate, KillThread, CloseHandles, Killed, KillAll, CloseOne
  <2>5. Top.at = Nothing
    <3> DEFINE f == Top
    <3>1. Return \in Seq(FrameSet)
      BY <2>1, TopIs, Dropped
    <3>2. \A a, b : Return \o <<a>> # Return /\ Return \o <<a, b>> # Return
      <4>1. \A a, b : Len(Return \o <<a>>) = Len(Return) + 1 /\ Len(Return \o <<a, b>>) = Len(Return) + 2
        BY <3>1
      <4> QED BY <3>1, <4>1
    <3>3. Top.what[2] = j
      BY DEF Job
    <3> QED BY <2>2, <2>4, <3>2, <3>3 DEF TerminateMembers
  <2>6. Finished(proc, job, j)
    BY <2>1, <2>5, MembersDone
  <2> QED BY <2>6 DEF Finished
<1> QED BY <1>1, <1>2, <1>3, PTL DEF Spec, JobTerminated
=============================================================================
